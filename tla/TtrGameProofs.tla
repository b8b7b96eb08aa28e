--------------------------- MODULE TtrGameProofs ----------------------------
(***************************************************************************)
(* Theorems of TtrGame: its moves are steps of TtrTurns, train cards and   *)
(* tickets only move, the board tells one story, what a player is offered  *)
(* is what is accepted, and the final scoring is fair.                     *)
(***************************************************************************)
EXTENDS TtrGame, BasicFacts

-----------------------------------------------------------------------------
(***************************************************************************)
(* The game follows the turn flow.  A step is matched by the scratch field *)
(* that goes with the phase, so the proof needs that they belong together. *)
(***************************************************************************)
\* A running game has exactly the scratch field its phase awaits.
ScratchOK ==
  phase # "FINISHED" =>
    /\ draw <=> phase = "AWAITING_SECOND_DRAW"
    /\ pendingTunnel # NoTunnel <=> phase = "AWAITING_TUNNEL"
    /\ pendingTicketDraw # <<>> <=> phase = "AWAITING_TICKET_KEEP"

\* A pending tunnel is one of the map's routes, and the tickets are in piles.
PendingOK ==
  /\ ScratchOK
  /\ draw \in BOOLEAN
  /\ pendingTunnel # NoTunnel => pendingTunnel.route \in Routes
  /\ ticketDeck \in Seq(Tickets)
  /\ pendingTicketDraw \in Seq(Tickets)

\* Route ids start at 1, so "no route" is none of them.
LEMMA NoRouteIsNone == NoRoute \notin Routes
BY MapIsValid DEF validRouteIdentity, NoRoute

\* A tunnel is pending once it has a route of the map.
LEMMA TunnelIsPending ==
  ASSUME NEW t, t.route \in Routes
  PROVE  t # NoTunnel
BY NoRouteIsNone DEF NoTunnel

\* Whatever a step does else, the turn ends as in TtrTurns, with nothing open.
LEMMA EndsTurn ==
  ASSUME NEW s, endTurn(s)
  PROVE  /\ Turns!endTurn(s)
         /\ phase' \in {"NORMAL", "FINISHED"}
         /\ draw' = FALSE /\ pendingTunnel' = NoTunnel /\ pendingTicketDraw' = <<>>
         /\ openDecisions' = {} /\ pendingLength' = 0
BY DEF endTurn, Turns!endTurn, Turns!advanceOrFinish, openDecisions, pendingLength

\* When a turn has ended nothing is pending.
LEMMA TurnOver ==
  ASSUME PendingOK, NEW s, endTurn(s), ticketDeck' \in Seq(Tickets)
  PROVE  PendingOK'
<1>1. phase' \in {"NORMAL", "FINISHED"} /\ draw' = FALSE /\ pendingTunnel' = NoTunnel /\ pendingTicketDraw' = <<>>
  BY EndsTurn
<1>2. NoTunnel' = NoTunnel
  BY DEF NoTunnel
<1>3. ScratchOK'
  BY <1>1, <1>2 DEF ScratchOK
<1> QED
  <2>1. pendingTicketDraw' \in Seq(Tickets)
    BY <1>1
  <2>2. pendingTunnel' # NoTunnel' => pendingTunnel'.route \in Routes'
    BY <1>1, <1>2
  <2>3. draw' \in BOOLEAN
    BY <1>1
  <2> QED
    BY <1>3, <2>1, <2>2, <2>3 DEF PendingOK

\* A drawn card ends the turn or opens the second draw.
LEMMA CardDrawn ==
  ASSUME PendingOK, NEW s \in Seats, NEW ends, mayDraw(s), UNCHANGED <<ticketDeck, trainsLeft>>, afterCard(s, ends)
  PROVE  Turns!Next /\ PendingOK'
<1>1. CASE draw \/ ends
  <2>1. endTurn(s)
    BY <1>1 DEF afterCard
  <2>2. Turns!DrawLocomotive(s) \/ Turns!EndDraw(s)
    BY <2>1, EndsTurn DEF mayDraw, Turns!DrawLocomotive, Turns!EndDraw
  <2>3. PendingOK'
    BY <2>1, TurnOver DEF PendingOK
  <2> QED
    BY <2>2, <2>3 DEF Turns!Next, Turns!TurnMove
<1>2. CASE ~(draw \/ ends)
  <2>1. /\ Turns!mayAct(s, "NORMAL")
        /\ draw' = TRUE /\ phase' = "AWAITING_SECOND_DRAW"
        /\ UNCHANGED <<currentSeat, finalTurnsLeft, resigned, setupDone, historyVars, pendingTunnel, pendingTicketDraw>>
    BY <1>2 DEF afterCard, mayDraw, Turns!mayAct, PendingOK, ScratchOK
  <2>2. openDecisions' = openDecisions \cup {"draw"} /\ pendingLength' = pendingLength
    BY <2>1 DEF openDecisions, pendingLength, NoTunnel
  <2>3. Turns!DrawFirstCard(s)
    BY <2>1, <2>2 DEF Turns!DrawFirstCard, Turns!Await, historyVars, Turns!historyVars
  <2>4. PendingOK'
    BY <2>1 DEF PendingOK, ScratchOK, Turns!mayAct, NoTunnel
  <2> QED
    BY <2>3, <2>4 DEF Turns!Next, Turns!TurnMove
<1> QED
  BY <1>1, <1>2

\* A claimed route, in the turn or through a tunnel.
LEMMA RouteClaimed ==
  ASSUME PendingOK, NEW s \in Seats, NEW r \in Routes, NEW d, finishClaim(s, r, d), UNCHANGED ticketDeck, endTurn(s),
         \/ Turns!mayAct(s, "NORMAL") /\ claimability(s, r)
         \/ Turns!mayAct(s, "AWAITING_TUNNEL") /\ pendingTunnel # NoTunnel /\ pendingTunnel.route = r
  PROVE  Turns!Next /\ PendingOK'
<1>1. trainsLeft' = [trainsLeft EXCEPT ![s] = @ - Route[r].length]
  BY DEF finishClaim
<1>2. PendingOK'
  BY TurnOver DEF PendingOK
<1>3. CASE Turns!mayAct(s, "NORMAL") /\ claimability(s, r)
  <2>1. Turns!ClaimRoute(s, Route[r].length)
    BY <1>1, <1>3, EndsTurn DEF Turns!ClaimRoute, Turns!claimability, claimability
  <2>2. Route[r].length \in routeLengths
    BY DEF routeLengths
  <2> QED
    BY <1>2, <2>1, <2>2 DEF Turns!Next, Turns!TurnMove
<1>4. CASE Turns!mayAct(s, "AWAITING_TUNNEL") /\ pendingTunnel # NoTunnel /\ pendingTunnel.route = r
  <2>1. Turns!ResolveTunnel(s, TRUE)
    BY <1>1, <1>4, EndsTurn DEF Turns!ResolveTunnel, pendingLength
  <2> QED
    BY <1>2, <2>1 DEF Turns!Next, Turns!TurnMove
<1> QED
  BY <1>3, <1>4

\* What is put back are tickets, in a sequence.
LEMMA ReturnedAreTickets ==
  ASSUME PendingOK, NEW keep
  PROVE  returned(keep) \in Seq(Tickets)
<1> DEFINE back == {i \in DOMAIN pendingTicketDraw : pendingTicketDraw[i] \notin keep}
           nth(k) == CHOOSE i \in back : Cardinality({j \in back : j < i}) = k - 1
<1>1. DOMAIN pendingTicketDraw = 1..Len(pendingTicketDraw) /\ Len(pendingTicketDraw) \in Nat
  BY DEF PendingOK
<1>2. IsFiniteSet(back) /\ \A i \in back : i \in Int
  <2>1. IsFiniteSet(1..Len(pendingTicketDraw))
    BY <1>1, FS_Interval
  <2>2. back \subseteq 1..Len(pendingTicketDraw)
    BY <1>1
  <2> QED
    BY <2>1, <2>2, FS_Subset
<1>3. \A k \in 1..Cardinality(back) : nth(k) \in back
  BY <1>2, PlaceIsTaken DEF Place
<1>4. \A k \in 1..Cardinality(back) : pendingTicketDraw[nth(k)] \in Tickets
  <2> HIDE DEF nth
  <2> QED
    BY <1>1, <1>3 DEF PendingOK
<1>5. Cardinality(back) \in Nat
  BY <1>2, FS_CardinalityType
<1>6. returned(keep) = [k \in 1..Cardinality(back) |-> pendingTicketDraw[nth(k)]]
  BY DEF returned
<1> HIDE DEF back, nth
<1> QED
  BY <1>4, <1>5, <1>6

\* Every step is one of TtrTurns, or changes nothing there.
LEMMA Follows ==
  ASSUME PendingOK, [Next]_vars
  PROVE  PendingOK' /\ [Turns!Next]_(Turns!vars)
<1>0. CASE UNCHANGED vars
  BY <1>0 DEF vars, turnVars, historyVars, routeVars, pendingVars, ticketVars, PendingOK, ScratchOK, Turns!vars,
              Turns!gameVars, Turns!historyVars, openDecisions, pendingLength, NoTunnel
<1>1. ASSUME NEW s \in Seats, KeepSetupTickets(s) PROVE PendingOK' /\ Turns!Next
  <2>1. Turns!KeepSetupTickets(s) /\ UNCHANGED pendingVars /\ UNCHANGED ticketDeck
    BY <1>1 DEF KeepSetupTickets
  <2>2. PendingOK'
    <3>1. phase = "SETUP_TICKETS" /\ phase' \in {"NORMAL", "SETUP_TICKETS"}
      BY <2>1 DEF Turns!KeepSetupTickets
    <3>2. UNCHANGED NoTunnel
      BY DEF NoTunnel
    <3> QED
      BY <2>1, <3>1, <3>2 DEF PendingOK, ScratchOK, pendingVars
  <2> QED
    BY <2>1, <2>2 DEF Turns!Next
<1>2. ASSUME NEW s \in Seats, DrawFromDeck(s) PROVE PendingOK' /\ Turns!Next
  BY <1>2, CardDrawn DEF DrawFromDeck, ticketVars, routeVars
<1>3. ASSUME NEW s \in Seats, NEW c \in Cards, DrawFaceUp(s, c) PROVE PendingOK' /\ Turns!Next
  BY <1>3, CardDrawn DEF DrawFaceUp, ticketVars, routeVars
<1>4. ASSUME NEW s \in Seats, EndDraw(s) PROVE PendingOK' /\ Turns!Next
  <2>1. Turns!EndDraw(s)
    BY <1>4, EndsTurn DEF EndDraw, Turns!EndDraw, routeVars
  <2> QED
    BY <1>4, <2>1, TurnOver DEF EndDraw, ticketVars, PendingOK, Turns!Next, Turns!TurnMove
<1>5. ASSUME NEW s \in Seats, NEW r \in Routes, NEW pay, ClaimRoute(s, r, pay) PROVE PendingOK' /\ Turns!Next
  BY <1>5, RouteClaimed DEF ClaimRoute, ticketVars
<1>6. ASSUME NEW s \in Seats, NEW r \in Routes, NEW pay, BeginTunnelClaim(s, r, pay) PROVE PendingOK' /\ Turns!Next
  <2>1. /\ Turns!mayAct(s, "NORMAL") /\ claimability(s, r) /\ UNCHANGED ticketDeck
    BY <1>6 DEF BeginTunnelClaim, ticketVars
  <2>2. PICK x \in takenFrom(tunnelRevealCount, drawPile, discardPile) :
          \/ finishClaim(s, r, x.discard (+) x.cards (+) pay) /\ endTurn(s)
          \/ /\ pendingTunnel'.route = r /\ phase' = "AWAITING_TUNNEL"
             /\ UNCHANGED <<routeVars, draw, pendingTicketDraw, currentSeat, finalTurnsLeft, resigned, setupDone,
                            historyVars>>
    BY <1>6 DEF BeginTunnelClaim
  <2>3. CASE pendingTunnel'.route = r /\ phase' = "AWAITING_TUNNEL"
             /\ UNCHANGED <<routeVars, draw, pendingTicketDraw, currentSeat, finalTurnsLeft, resigned, setupDone,
                            historyVars>>
    <3>1. pendingTunnel' # NoTunnel /\ NoTunnel' = NoTunnel /\ pendingTunnel = NoTunnel
      BY <2>1, <2>3, TunnelIsPending DEF PendingOK, ScratchOK, Turns!mayAct, NoTunnel
    <3>2. openDecisions' = openDecisions \cup {"tunnel"} /\ pendingLength' = Route[r].length
      BY <2>3, <3>1 DEF openDecisions, pendingLength, NoTunnel
    <3>3. Turns!BeginTunnelClaim(s, Route[r].length)
      BY <2>1, <2>3, <3>2 DEF Turns!BeginTunnelClaim, Turns!Await, Turns!claimability, claimability, routeVars,
                              historyVars, Turns!historyVars
    <3>4. PendingOK'
      BY <2>1, <2>3, <3>1 DEF PendingOK, ScratchOK, Turns!mayAct
    <3>5. Route[r].length \in routeLengths
      BY DEF routeLengths
    <3> QED
      BY <3>3, <3>4, <3>5 DEF Turns!Next, Turns!TurnMove
  <2> QED
    BY <2>1, <2>2, <2>3, RouteClaimed
<1>7. ASSUME NEW s \in Seats, AcceptTunnel(s) PROVE PendingOK' /\ Turns!Next
  <2>1. Turns!mayAct(s, "AWAITING_TUNNEL") /\ UNCHANGED ticketDeck /\ endTurn(s)
    BY <1>7 DEF AcceptTunnel, ticketVars
  <2>2. pendingTunnel # NoTunnel /\ pendingTunnel.route \in Routes
    BY <2>1 DEF PendingOK, ScratchOK, Turns!mayAct
  <2>3. PICK d : finishClaim(s, pendingTunnel.route, d)
    BY <1>7 DEF AcceptTunnel
  <2> QED
    BY <2>1, <2>2, <2>3, RouteClaimed
<1>8. ASSUME NEW s \in Seats, RefundTunnel(s) PROVE PendingOK' /\ Turns!Next
  <2>1. Turns!ResolveTunnel(s, FALSE)
    BY <1>8, EndsTurn DEF RefundTunnel, Turns!ResolveTunnel, routeVars
  <2> QED
    BY <1>8, <2>1, TurnOver DEF RefundTunnel, ticketVars, PendingOK, Turns!Next, Turns!TurnMove
<1>9. ASSUME NEW s \in Seats, NEW city \in Cities, BuildStation(s, city) PROVE PendingOK' /\ Turns!Next
  <2>1. Turns!BuildStation(s)
    BY <1>9, EndsTurn DEF BuildStation, Turns!BuildStation, routeVars
  <2> QED
    BY <1>9, <2>1, TurnOver DEF BuildStation, ticketVars, PendingOK, Turns!Next, Turns!TurnMove
<1>10. ASSUME NEW s \in Seats, DrawTickets(s) PROVE PendingOK' /\ Turns!Next
  <2> DEFINE n == Least(ticketDrawCount, Len(ticketDeck))
  <2>1. /\ Turns!mayAct(s, "NORMAL") /\ ticketDeck # <<>>
        /\ pendingTicketDraw' = SubSeq(ticketDeck, 1, n)
        /\ ticketDeck' = SubSeq(ticketDeck, n + 1, Len(ticketDeck))
        /\ phase' = "AWAITING_TICKET_KEEP"
        /\ UNCHANGED <<currentSeat, finalTurnsLeft, resigned, setupDone, historyVars, draw, pendingTunnel, trainsLeft>>
    BY <1>10 DEF DrawTickets, routeVars
  <2>2. ticketDeck \in Seq(Tickets) /\ Len(ticketDeck) \in Nat \ {0}
    BY <2>1 DEF PendingOK
  <2>3. n \in 1..Len(ticketDeck)
    BY <2>2, GameAssumption DEF Least
  <2> HIDE DEF n
  <2>4. pendingTicketDraw' \in Seq(Tickets) /\ pendingTicketDraw' # <<>> /\ ticketDeck' \in Seq(Tickets)
    BY <2>1, <2>2, <2>3
  <2>5. openDecisions' = openDecisions \cup {"tickets"} /\ pendingLength' = pendingLength /\ NoTunnel' = NoTunnel
    <3>1. pendingTicketDraw = <<>>
      BY <2>1 DEF PendingOK, ScratchOK, Turns!mayAct
    <3> QED
      BY <2>1, <2>4, <3>1 DEF openDecisions, pendingLength, NoTunnel
  <2>6. Turns!DrawTickets(s)
    BY <2>1, <2>5 DEF Turns!DrawTickets, Turns!Await, historyVars, Turns!historyVars
  <2>7. PendingOK'
    BY <2>1, <2>4, <2>5 DEF PendingOK, ScratchOK, Turns!mayAct
  <2> QED
    BY <2>6, <2>7 DEF Turns!Next, Turns!TurnMove
<1>11. ASSUME NEW s \in Seats, KeepTickets(s) PROVE PendingOK' /\ Turns!Next
  <2>1. Turns!KeepTickets(s)
    BY <1>11, EndsTurn DEF KeepTickets, Turns!KeepTickets, routeVars
  <2>2. ticketDeck' \in Seq(Tickets)
    <3>1. PICK keep : ticketDeck' = ticketDeck \o returned(keep)
      BY <1>11 DEF KeepTickets
    <3>2. ticketDeck \in Seq(Tickets)
      BY DEF PendingOK
    <3> QED
      BY <3>1, <3>2, ReturnedAreTickets
  <2> QED
    BY <1>11, <2>1, <2>2, TurnOver DEF KeepTickets, Turns!Next, Turns!TurnMove
<1>12. ASSUME NEW s \in Seats, Resign(s) PROVE PendingOK' /\ Turns!Next
  <2>1. Turns!Resign(s) /\ releaseDecision(s)
    BY <1>12 DEF Resign
  <2>2. CASE Turns!holdsTurn(s)
    <3>1. /\ ticketDeck' = ticketDeck \o pendingTicketDraw
          /\ draw' = FALSE /\ pendingTunnel' = NoTunnel /\ pendingTicketDraw' = <<>>
      BY <2>1, <2>2 DEF releaseDecision
    <3>2. phase' \in {"NORMAL", "FINISHED"}
      BY <2>1, <2>2 DEF Turns!Resign, Turns!advanceOrFinish
    <3>3. ticketDeck' \in Seq(Tickets) /\ pendingTicketDraw' \in Seq(Tickets)
      <4>1. ticketDeck \in Seq(Tickets) /\ pendingTicketDraw \in Seq(Tickets)
        BY DEF PendingOK
      <4> QED
        BY <3>1, <4>1
    <3>4. NoTunnel' = NoTunnel
      BY DEF NoTunnel
    <3> QED
      BY <2>1, <3>1, <3>2, <3>3, <3>4 DEF PendingOK, ScratchOK, Turns!Next
  <2>3. CASE ~Turns!holdsTurn(s)
    <3>1. UNCHANGED <<ticketDeck, draw, pendingTunnel, pendingTicketDraw>>
      BY <2>1, <2>3 DEF releaseDecision, pendingVars
    <3>2. phase' = "FINISHED" \/ phase' = phase
      BY <2>1, <2>3 DEF Turns!Resign
    <3>3. NoTunnel' = NoTunnel
      BY DEF NoTunnel
    <3>4. phase # "FINISHED"
      BY <2>1 DEF Turns!Resign
    <3> QED
      BY <2>1, <3>1, <3>2, <3>3, <3>4 DEF PendingOK, ScratchOK, Turns!Next
  <2> QED
    BY <2>2, <2>3
<1> QED
  BY <1>0, <1>1, <1>2, <1>3, <1>4, <1>5, <1>6, <1>7, <1>8, <1>9, <1>10, <1>11, <1>12 DEF Next, Claim

\* A game starts as the turn flow does, with every player's offer pending.
LEMMA StartsAsTurns == Init => PendingOK /\ Turns!Init
<1> SUFFICES ASSUME Init PROVE PendingOK /\ Turns!Init
  OBVIOUS
<1>1. Turns!Init /\ draw = FALSE /\ pendingTunnel = NoTunnel /\ pendingTicketDraw = <<>>
  BY DEF Init
<1>2. phase = "SETUP_TICKETS"
  BY <1>1 DEF Turns!Init
<1>3. PICK longs \in LongShuffles, regulars \in TicketShuffles : dealTickets(longs, regulars)
  BY DEF Init
<1>4. ticketDeck \in Seq(Tickets)
  <2>1. regulars \in Seq(Tickets)
    <3>1. regulars \in Seq(RegularTicketIDs) /\ RegularTicketIDs \subseteq Tickets
      BY GameAssumption DEF isShuffle, RegularTicketIDs
    <3> QED
      BY <3>1
  <2>2. initialRegularTickets * Cardinality(Seats) + 1 \in Nat \ {0}
    <3>1. initialRegularTickets \in Nat /\ Cardinality(Seats) \in Nat
      BY GameAssumption, FS_CardinalityType
    <3>2. \A x, y \in Nat : x * y + 1 \in Nat \ {0}
      OBVIOUS
    <3> QED
      BY <3>1, <3>2
  <2> QED
    BY <1>3, <2>1, <2>2 DEF dealTickets
<1>5. pendingTicketDraw \in Seq(Tickets)
  BY <1>1
<1> QED
  BY <1>1, <1>2, <1>4, <1>5 DEF PendingOK, ScratchOK

\* The one decision open is always the one the phase awaits.
LEMMA Pending == Spec => []PendingOK
<1>1. Init => PendingOK
  BY StartsAsTurns
<1>2. PendingOK /\ [Next]_vars => PendingOK'
  BY Follows
<1> QED
  BY <1>1, <1>2, PTL DEF Spec

(***************************************************************************)
(* The game implements the turn flow of TtrTurns: every Apply that returns *)
(* no error is one of its steps, so its theorems hold of the game.         *)
(***************************************************************************)
THEOREM Refinement == Spec => FollowsTurns
<1>1. Init => Turns!Init
  BY StartsAsTurns
<1>2. PendingOK /\ [Next]_vars => [Turns!Next]_(Turns!vars)
  BY Follows
<1> QED
  BY <1>1, <1>2, Pending, PTL DEF Spec, FollowsTurns, Turns!Spec

-----------------------------------------------------------------------------
(***************************************************************************)
(* Bags of train cards.                                                    *)
(***************************************************************************)
Bags == [Cards -> Nat]

\* There are finitely many kinds of card.
LEMMA CardsAreFinite == IsFiniteSet(Cards)
BY GameAssumption, FS_AddElement DEF Cards

\* Putting cards together adds them kind by kind.
LEMMA BagsAdd ==
  ASSUME NEW a \in Bags, NEW b \in Bags
  PROVE  /\ a (+) b \in Bags /\ Size(a (+) b) = Size(a) + Size(b)
         /\ \A c \in Cards : (a (+) b)[c] = a[c] + b[c]
<1>1. /\ \A c \in Cards : (a (+) b)[c] = a[c] + b[c]
      /\ a (+) b \in Bags
  BY DEF Bags, (+)
<1>2. Summable(a, Cards) /\ Summable(b, Cards)
  BY CardsAreFinite DEF Bags, Summable
<1> DEFINE h == a (+) b
<1> HIDE DEF h
<1>3. \A c \in Cards : h[c] = a[c] + b[c]
  BY <1>1 DEF h
<1>4. Sum(h, Cards) = Sum(a, Cards) + Sum(b, Cards)
  BY <1>2, <1>3, SumPlus
<1>5. Size(h) = Size(a) + Size(b)
  BY <1>4 DEF Size, Sum
<1> QED
  BY <1>1, <1>5 DEF h

\* b is part of a.
LEMMA BagsTake ==
  ASSUME NEW a \in Bags, NEW b \in Bags, \A c \in Cards : b[c] <= a[c]
  PROVE  /\ a (-) b \in Bags /\ Size(a (-) b) = Size(a) - Size(b)
         /\ \A c \in Cards : (a (-) b)[c] = a[c] - b[c]
<1> DEFINE d == a (-) b
<1>1. d \in Bags /\ \A c \in Cards : d[c] = a[c] - b[c]
  BY DEF Bags, (-)
<1> HIDE DEF d
<1>2. \A c \in Cards : a[c] = d[c] + b[c]
  BY <1>1 DEF Bags
<1>3. Summable(d, Cards) /\ Summable(b, Cards)
  BY <1>1, CardsAreFinite DEF Bags, Summable
<1>4. Sum(a, Cards) = Sum(d, Cards) + Sum(b, Cards)
  BY <1>2, <1>3, SumPlus
<1>5. Sum(d, Cards) \in Int /\ Sum(b, Cards) \in Int
  BY <1>3, SumType DEF Summable
<1>6. Size(d) = Size(a) - Size(b)
  BY <1>4, <1>5 DEF Size, Sum
<1> QED
  BY <1>1, <1>6 DEF d

\* The size of a bag is a number, above zero when there is a card in it.
LEMMA SizeType ==
  ASSUME NEW b \in Bags
  PROVE  Size(b) \in Nat /\ (Size(b) > 0 <=> \E c \in Cards : b[c] > 0) /\ \A c \in Cards : b[c] <= Size(b)
<1>1. \A c \in Cards : b[c] \in Nat
  BY DEF Bags
<1>2. /\ Sum(b, Cards) \in Nat /\ \A c \in Cards : b[c] <= Sum(b, Cards)
      /\ Sum(b, Cards) > 0 <=> \E c \in Cards : b[c] > 0
  BY <1>1, CardsAreFinite, SumBounds
<1>3. Size(b) = Sum(b, Cards)
  BY DEF Size, Sum
<1> QED
  BY <1>2, <1>3

\* The empty bag has none of any kind.
LEMMA NoCardsIsEmpty == NoCards \in Bags /\ Size(NoCards) = 0 /\ \A c \in Cards : NoCards[c] = 0
<1>1. NoCards \in Bags /\ \A c \in Cards : NoCards[c] = 0
  BY DEF NoCards, Bags
<1> QED
  BY <1>1, SizeType

\* A single card.
LEMMA OneIsOne ==
  ASSUME NEW c \in Cards
  PROVE  One(c) \in Bags /\ Size(One(c)) = 1 /\ \A d \in Cards : One(c)[d] = IF d = c THEN 1 ELSE 0
<1>1. One(c) \in Bags /\ \A d \in Cards : One(c)[d] = IF d = c THEN 1 ELSE 0
  BY DEF One, NoCards, Bags
<1> DEFINE one == One(c)
<1> HIDE DEF one
<1>2. Summable(NoCards, Cards) /\ one[c] = 1 /\ NoCards[c] = 0 /\ \A d \in Cards \ {c} : one[d] = NoCards[d]
  BY <1>1, NoCardsIsEmpty, CardsAreFinite DEF one, Bags, Summable
<1>3. Sum(one, Cards) = Sum(NoCards, Cards) - NoCards[c] + one[c]
  BY <1>2, SumChange
<1>4. Size(one) = 1
  BY <1>2, <1>3, NoCardsIsEmpty DEF Size, Sum
<1> QED
  BY <1>1, <1>4 DEF one

\* Cards picked at random are there, and what is left is the rest.
LEMMA PickedCards ==
  ASSUME NEW k, NEW b \in Bags, NEW p \in Picks(k, b)
  PROVE  /\ p \in Bags /\ Size(p) = k /\ k \in Nat
         /\ \A c \in Cards : p[c] <= b[c]
         /\ b (-) p \in Bags /\ Size(b (-) p) = Size(b) - k
         /\ \A c \in Cards : (b (-) p)[c] = b[c] - p[c]
<1>1. p \in Bags /\ Size(p) = k /\ \A c \in Cards : p[c] <= b[c]
  BY DEF Picks, Bags
<1> QED
  BY <1>1, BagsTake, SizeType

-----------------------------------------------------------------------------
(***************************************************************************)
(* Cards move between the face-up row, the draw pile and the discard pile. *)
(* up, pile and discard hold a number of cards of each kind.               *)
(***************************************************************************)
Holds(up, pile, discard, total) ==
  /\ up \in Bags /\ pile \in Bags /\ discard \in Bags
  /\ \A c \in Cards : up[c] + pile[c] + discard[c] = total[c]

\* Taking cards only moves them, and takes as many as asked or there are.
LEMMA TakenCards ==
  ASSUME NEW k \in Int, NEW pile \in Bags, NEW discard \in Bags, NEW x \in takenFrom(k, pile, discard)
  PROVE  /\ x.cards \in Bags /\ x.pile \in Bags /\ x.discard \in Bags
         /\ \A c \in Cards : x.cards[c] + x.pile[c] + x.discard[c] = pile[c] + discard[c]
         /\ k >= 0 => /\ Size(x.cards) <= k
                      /\ Size(x.cards) = k \/ Size(x.pile) + Size(x.discard) = 0
<1>0. Size(pile) \in Nat /\ Size(discard) \in Nat
  BY SizeType
<1>1. CASE k <= Size(pile)
  <2>1. PICK p \in Picks(k, pile) : x = [cards |-> p, pile |-> pile (-) p, discard |-> discard]
    BY <1>1 DEF takenFrom
  <2> QED
    BY <2>1, PickedCards DEF Bags
<1>2. CASE ~(k <= Size(pile))
  <2> DEFINE n == Least(k - Size(pile), Size(discard))
  <2>1. PICK p \in Picks(n, discard) :
          x = [cards |-> pile (+) p, pile |-> discard (-) p, discard |-> NoCards]
    BY <1>2 DEF takenFrom
  <2>2. /\ p \in Bags /\ Size(p) = n /\ discard (-) p \in Bags /\ Size(discard (-) p) = Size(discard) - n
        /\ \A c \in Cards : (discard (-) p)[c] = discard[c] - p[c]
    BY PickedCards
  <2>3. /\ pile (+) p \in Bags /\ Size(pile (+) p) = Size(pile) + n
        /\ \A c \in Cards : (pile (+) p)[c] = pile[c] + p[c]
    BY <2>2, BagsAdd
  <2>4. NoCards \in Bags /\ Size(NoCards) = 0 /\ \A c \in Cards : NoCards[c] = 0
    BY NoCardsIsEmpty
  <2>5. \A c \in Cards : x.cards[c] + x.pile[c] + x.discard[c] = pile[c] + discard[c]
    BY <2>1, <2>2, <2>3, <2>4 DEF Bags
  <2>6. n \in Nat /\ n <= k - Size(pile) /\ (n = k - Size(pile) \/ n = Size(discard))
    BY <1>0, <1>2 DEF Least
  <2>7. Size(x.cards) = Size(pile) + n /\ Size(x.pile) = Size(discard) - n /\ Size(x.discard) = 0
    BY <2>1, <2>2, <2>3, <2>4
  <2> HIDE DEF n
  <2>8. Size(x.cards) <= k /\ (Size(x.cards) = k \/ Size(x.pile) + Size(x.discard) = 0)
    BY <2>6, <2>7, <1>0
  <2> QED
    BY <2>1, <2>2, <2>3, <2>4, <2>5, <2>8
<1> QED
  BY <1>1, <1>2

\* The row is as full as the cards allow.
RowFilled(up, pile, discard) ==
  /\ Size(up) <= faceUpSlots
  /\ Size(up) = faceUpSlots \/ Size(pile) + Size(discard) = 0

\* Filling the row moves cards and ends with it full or the piles empty.
LEMMA FilledRow ==
  ASSUME NEW t, NEW total, Holds(t.up, t.pile, t.discard, total), Size(t.up) <= faceUpSlots,
         NEW u \in fillFaceUp(t)
  PROVE  /\ u = [up |-> u.up, pile |-> u.pile, discard |-> u.discard]
         /\ Holds(u.up, u.pile, u.discard, total) /\ RowFilled(u.up, u.pile, u.discard)
<1> DEFINE k == faceUpSlots - Size(t.up)
<1>1. t.up \in Bags /\ t.pile \in Bags /\ t.discard \in Bags /\ Size(t.up) \in Nat
  BY SizeType DEF Holds
<1>2. k \in Nat
  BY <1>1, GameAssumption
<1>3. PICK x \in takenFrom(k, t.pile, t.discard) :
        u = [up |-> t.up (+) x.cards, pile |-> x.pile, discard |-> x.discard]
  BY DEF fillFaceUp
<1>4. /\ x.cards \in Bags /\ x.pile \in Bags /\ x.discard \in Bags
      /\ \A c \in Cards : x.cards[c] + x.pile[c] + x.discard[c] = t.pile[c] + t.discard[c]
      /\ Size(x.cards) <= k
      /\ Size(x.cards) = k \/ Size(x.pile) + Size(x.discard) = 0
  <2> HIDE DEF k
  <2> QED
    BY <1>1, <1>2, TakenCards
<1>5. /\ t.up (+) x.cards \in Bags /\ Size(t.up (+) x.cards) = Size(t.up) + Size(x.cards)
      /\ \A c \in Cards : (t.up (+) x.cards)[c] = t.up[c] + x.cards[c]
  BY <1>1, <1>4, BagsAdd
<1>6. Holds(u.up, u.pile, u.discard, total)
  <2>1. /\ u.up = t.up (+) x.cards /\ u.pile = x.pile /\ u.discard = x.discard
        /\ \A c \in Cards : t.up[c] + t.pile[c] + t.discard[c] = total[c]
    BY <1>3 DEF Holds
  <2>2. ASSUME NEW c \in Cards PROVE u.up[c] + u.pile[c] + u.discard[c] = total[c]
    <3>1. /\ t.up[c] \in Nat /\ t.pile[c] \in Nat /\ t.discard[c] \in Nat
          /\ x.cards[c] \in Nat /\ x.pile[c] \in Nat /\ x.discard[c] \in Nat
      BY <1>1, <1>4 DEF Bags
    <3> QED
      BY <1>4, <1>5, <2>1, <3>1
  <2> QED
    BY <1>4, <1>5, <2>1, <2>2 DEF Holds
<1>7. RowFilled(u.up, u.pile, u.discard)
  <2>1. Size(x.cards) \in Nat /\ faceUpSlots \in Nat
    BY <1>4, SizeType, GameAssumption
  <2>2. u.up = t.up (+) x.cards /\ u.pile = x.pile /\ u.discard = x.discard
    BY <1>3
  <2> QED
    BY <1>1, <1>4, <1>5, <2>1, <2>2 DEF RowFilled
<1> QED
  BY <1>3, <1>6, <1>7

\* The tables of a total that are filled.
Tables(total) ==
  {t \in [up : Bags, pile : Bags, discard : Bags] :
     Holds(t.up, t.pile, t.discard, total) /\ RowFilled(t.up, t.pile, t.discard)}

\* A flush puts the row on the discard pile and fills it again.
LEMMA FlushedRow ==
  ASSUME NEW total, NEW t \in Tables(total)
  PROVE  fillFaceUp(flushed(t)) \subseteq Tables(total)
<1> DEFINE u == flushed(t)
<1>1. t.up \in Bags /\ t.pile \in Bags /\ t.discard \in Bags /\ Holds(t.up, t.pile, t.discard, total)
  BY DEF Tables
<1>2. u.up = NoCards /\ u.pile = t.pile /\ u.discard = t.discard (+) t.up
  BY DEF flushed, Tables
<1>3. /\ t.discard (+) t.up \in Bags
      /\ \A c \in Cards : (t.discard (+) t.up)[c] = t.discard[c] + t.up[c]
  BY <1>1, BagsAdd
<1> HIDE DEF u
<1>4. NoCards \in Bags /\ Size(NoCards) = 0 /\ \A c \in Cards : NoCards[c] = 0
  BY NoCardsIsEmpty
<1>5. Holds(u.up, u.pile, u.discard, total)
  <2>1. ASSUME NEW c \in Cards PROVE u.up[c] + u.pile[c] + u.discard[c] = total[c]
    <3>1. t.up[c] \in Nat /\ t.pile[c] \in Nat /\ t.discard[c] \in Nat /\ t.up[c] + t.pile[c] + t.discard[c] = total[c]
      BY <1>1 DEF Bags, Holds
    <3> QED
      BY <1>2, <1>3, <1>4, <3>1
  <2> QED
    BY <1>1, <1>2, <1>3, <1>4, <2>1 DEF Holds
<1>6. Size(u.up) <= faceUpSlots
  BY <1>2, <1>4, GameAssumption
<1>7. ASSUME NEW w \in fillFaceUp(u) PROVE w \in Tables(total)
  <2>1. /\ w = [up |-> w.up, pile |-> w.pile, discard |-> w.discard]
        /\ Holds(w.up, w.pile, w.discard, total) /\ RowFilled(w.up, w.pile, w.discard)
    BY <1>5, <1>6, FilledRow
  <2>2. w.up \in Bags /\ w.pile \in Bags /\ w.discard \in Bags
    BY <2>1 DEF Holds
  <2>3. w \in [up : Bags, pile : Bags, discard : Bags]
    BY <2>1, <2>2
  <2> QED
    BY <2>1, <2>3 DEF Tables
<1> QED
  BY <1>7 DEF u

\* Flushing the row, however often, only moves cards.
LEMMA FlushedTables ==
  ASSUME NEW total, NEW t0 \in Tables(total)
  PROVE  flushFaceUpLocos(t0) \subseteq Tables(total)
<1> DEFINE stable(t) == t.up[Loco] < locoFlushThreshold \/ (t # t0 /\ Size(t.up) < faceUpSlots)
           next(T) == UNION {IF stable(t) THEN {t} ELSE fillFaceUp(flushed(t)) : t \in T}
           IsAfter(f) == f = [n \in 0..maxFlushIterations |-> IF n = 0 THEN {t0} ELSE next(f[n - 1])]
           V == SUBSET Tables(total)
           step == [x \in (1..maxFlushIterations) \X V |-> next(x[2])]
           after == CHOOSE f : IsAfter(f)
<1>0. maxFlushIterations \in Nat
  BY GameAssumption
<1>1. \A T \in V : next(T) \in V
  BY FlushedRow
<1>2. \E f : IsAfter(f)
  <2> HIDE DEF next
  <2>1. step \in [(1..maxFlushIterations) \X V -> V] /\ {t0} \in V
    BY <1>1
  <2>2. \A n \in 1..maxFlushIterations, T \in V : step[<<n, T>>] = next(T)
    OBVIOUS
  <2> HIDE DEF step, V
  <2>3. PICK f \in [0..maxFlushIterations -> V] : Recurses(f, {t0}, step, maxFlushIterations)
    BY <1>0, <2>1, RecursionExists
  <2>4. ASSUME NEW n \in 0..maxFlushIterations PROVE f[n] = IF n = 0 THEN {t0} ELSE next(f[n - 1])
    <3>1. f[n] = IF n = 0 THEN {t0} ELSE step[<<n, f[n - 1]>>]
      BY <2>3 DEF Recurses
    <3>2. n # 0 => n \in 1..maxFlushIterations /\ f[n - 1] \in V
      BY <1>0, <2>3
    <3> QED
      BY <2>2, <3>1, <3>2
  <2>5. f = [n \in 0..maxFlushIterations |-> IF n = 0 THEN {t0} ELSE next(f[n - 1])]
    BY <2>3, <2>4
  <2> QED
    BY <2>5
<1>3. IsAfter(after)
  <2> HIDE DEF IsAfter
  <2> QED
    BY <1>2
<1>4. flushFaceUpLocos(t0) = after[maxFlushIterations]
  BY DEF flushFaceUpLocos
<1> HIDE DEF next, after
<1> DEFINE F == {n \in Nat : n <= maxFlushIterations => after[n] \in V}
<1>5. 0 \in F
  BY <1>0, <1>3
<1>6. ASSUME NEW n \in Nat, n \in F PROVE n + 1 \in F
  <2> HIDE DEF V
  <2> SUFFICES ASSUME n + 1 <= maxFlushIterations PROVE after[n + 1] \in V
    OBVIOUS
  <2>1. after[n + 1] = next(after[n])
    <3>1. n + 1 \in 0..maxFlushIterations /\ n + 1 # 0 /\ (n + 1) - 1 = n
      BY <1>0
    <3>2. after[n + 1] = IF n + 1 = 0 THEN {t0} ELSE next(after[(n + 1) - 1])
      BY <1>3, <3>1
    <3> QED
      BY <3>1, <3>2
  <2>2. after[n] \in V
    BY <1>0, <1>6
  <2> QED
    BY <1>1, <2>1, <2>2
<1> HIDE DEF F
<1>7. \A n \in Nat : n \in F
  BY <1>5, <1>6, NaturalsAreReached
<1>8. maxFlushIterations \in F
  BY <1>0, <1>7
<1> QED
  BY <1>0, <1>4, <1>8 DEF F

\* Taking a face-up card c leaves one card less of its kind on the table.
LEMMA TakenFaceUp ==
  ASSUME NEW total, Holds(faceUp, drawPile, discardPile, total), Size(faceUp) <= faceUpSlots,
         NEW c \in Cards, faceUp[c] > 0,
         NEW left, \A d \in Cards : left[d] = total[d] - One(c)[d],
         NEW t \in takeFaceUp(c)
  PROVE  t \in Tables(left)
<1> DEFINE t0 == [up |-> faceUp (-) One(c), pile |-> drawPile, discard |-> discardPile]
<1>1. faceUp \in Bags /\ drawPile \in Bags /\ discardPile \in Bags
  BY DEF Holds
<1>2. One(c) \in Bags /\ Size(One(c)) = 1 /\ \A d \in Cards : One(c)[d] = IF d = c THEN 1 ELSE 0
  BY OneIsOne
<1>3. \A d \in Cards : One(c)[d] <= faceUp[d]
  BY <1>1, <1>2 DEF Bags
<1>4. /\ faceUp (-) One(c) \in Bags /\ Size(faceUp (-) One(c)) = Size(faceUp) - 1
      /\ \A d \in Cards : (faceUp (-) One(c))[d] = faceUp[d] - One(c)[d]
  BY <1>1, <1>2, <1>3, BagsTake
<1>5. t0.up = faceUp (-) One(c) /\ t0.pile = drawPile /\ t0.discard = discardPile
  OBVIOUS
<1>6. PICK u \in fillFaceUp(t0) : t \in flushFaceUpLocos(u)
  BY DEF takeFaceUp
<1> HIDE DEF t0
<1>7. Holds(t0.up, t0.pile, t0.discard, left)
  <2>1. ASSUME NEW d \in Cards PROVE t0.up[d] + t0.pile[d] + t0.discard[d] = left[d]
    <3>1. /\ faceUp[d] \in Nat /\ drawPile[d] \in Nat /\ discardPile[d] \in Nat /\ One(c)[d] \in Nat
          /\ faceUp[d] + drawPile[d] + discardPile[d] = total[d] /\ left[d] = total[d] - One(c)[d]
      BY <1>1, <1>2 DEF Bags, Holds
    <3> QED
      BY <1>4, <1>5, <3>1
  <2> QED
    BY <1>1, <1>4, <1>5, <2>1 DEF Holds
<1>8. Size(t0.up) <= faceUpSlots
  BY <1>1, <1>4, <1>5, SizeType, GameAssumption
<1>9. u \in Tables(left)
  <2>1. /\ u = [up |-> u.up, pile |-> u.pile, discard |-> u.discard]
        /\ Holds(u.up, u.pile, u.discard, left) /\ RowFilled(u.up, u.pile, u.discard)
    BY <1>6, <1>7, <1>8, FilledRow
  <2>2. u.up \in Bags /\ u.pile \in Bags /\ u.discard \in Bags
    BY <2>1 DEF Holds
  <2>3. u \in [up : Bags, pile : Bags, discard : Bags]
    BY <2>1, <2>2
  <2> QED
    BY <2>1, <2>3 DEF Tables
<1> QED
  BY <1>6, <1>9, FlushedTables

-----------------------------------------------------------------------------
(***************************************************************************)
(* The deal.                                                               *)
(***************************************************************************)
\* The cards of a kind in everyone's hands.
inHands(h, c) == Sum([s \in Seats |-> h[s][c]], Seats)

\* What the hands hold of a kind is a sum over the seats.
LEMMA HandsAreSummed ==
  ASSUME NEW h, NEW c
  PROVE  MapThenSumSet(LAMBDA s : h[s][c], Seats) = inHands(h, c)
<1> DEFINE P(it) == it = [T \in SUBSET Seats |-> IF T = {} THEN 0 ELSE h[Pick(T)][c] + it[T \ {Pick(T)}]]
           f == [s \in Seats |-> h[s][c]]
<1>1. MapThenSumSet(LAMBDA s : h[s][c], Seats) = (CHOOSE it : P(it))[Seats]
  BY DEF MapThenSumSet, MapThenFoldSet, Pick
<1>2. ASSUME NEW it PROVE P(it) <=> Iterates(f, Seats, it)
  <2>1. \A T \in SUBSET Seats : T # {} => f[Pick(T)] = h[Pick(T)][c]
    BY DEF Pick
  <2> HIDE DEF f
  <2> QED
    BY <2>1 DEF Iterates
<1> HIDE DEF f
<1>3. (CHOOSE it : P(it)) = (CHOOSE it : Iterates(f, Seats, it))
  BY <1>2
<1> QED
  BY <1>1, <1>3, SumIterates DEF inHands, f

\* A change of one hand changes what is in hands by as much.
LEMMA HandChanges ==
  ASSUME NEW h \in [Seats -> Bags], NEW g \in [Seats -> Bags], NEW s \in Seats,
         \A t \in Seats \ {s} : g[t] = h[t], NEW c \in Cards
  PROVE  /\ inHands(g, c) = inHands(h, c) - h[s][c] + g[s][c]
         /\ inHands(h, c) \in Nat /\ h[s][c] \in Nat /\ g[s][c] \in Nat
<1> DEFINE before == [t \in Seats |-> h[t][c]]
           after  == [t \in Seats |-> g[t][c]]
<1>1. (\A t \in Seats : before[t] \in Nat) /\ before[s] = h[s][c]
  BY DEF Bags
<1>2. after[s] = g[s][c] /\ after[s] \in Nat /\ \A t \in Seats \ {s} : after[t] = before[t]
  BY DEF Bags
<1> HIDE DEF before, after
<1>3. Summable(before, Seats)
  BY <1>1, GameAssumption DEF Summable
<1>4. after[s] \in Int
  BY <1>2
<1>5. Sum(after, Seats) = Sum(before, Seats) - before[s] + after[s]
  BY <1>2, <1>3, <1>4, SumChange
<1>6. Sum(before, Seats) \in Nat
  BY <1>1, GameAssumption, SumType
<1> QED
  BY <1>1, <1>2, <1>5, <1>6 DEF inHands, before, after

\* What is dealt and what is left make up the deck; seats not dealt yet have
\* nothing.
Dealt(n) ==
  {d \in [hands : [Seats -> Bags], left : Bags] :
     /\ \A c \in Cards : d.left[c] + inHands(d.hands, c) = DeckComposition[c]
     /\ \A s \in Seats : place(s) >= n => d.hands[s] = NoCards}

\* A deal leaves what it does not hand out.
LEMMA DealsAreOfTheDeck ==
  \A d \in Deals : d.hands \in [Seats -> Bags] /\ d.left \in Bags /\ \A c \in Cards : d.left[c] + inHands(d.hands, c) = DeckComposition[c]
<1> DEFINE N == Cardinality(Seats)
           first == {[hands |-> [s \in Seats |-> NoCards], left |-> DeckComposition]}
           seat(n) == CHOOSE s \in Seats : place(s) = n - 1
           to(n, d) == {[hands |-> [d.hands EXCEPT ![seat(n)] = p], left |-> d.left (-) p] : p \in Picks(initialTrainCards, d.left)}
           next(n, D) == UNION {to(n, d) : d \in D}
           IsDeal(f) == f = [n \in 0..N |-> IF n = 0 THEN first ELSE next(n, f[n - 1])]
           V == SUBSET [hands : [Seats -> Bags], left : Bags]
           step == [x \in (1..N) \X V |-> next(x[1], x[2])]
           deal == CHOOSE f : IsDeal(f)
<1>0. N \in Nat /\ IsFiniteSet(Seats) /\ DeckComposition \in Bags /\ \A s \in Seats : s \in Int /\ place(s) \in Nat
  <2>1. \A s \in Seats : place(s) \in Nat
    BY GameAssumption, FS_Subset, FS_CardinalityType DEF place
  <2>2. IsFiniteSet(Seats) /\ \A s \in Seats : s \in Int
    BY GameAssumption
  <2>3. DeckComposition \in Bags
    BY GameAssumption DEF Bags, Cards
  <2> QED
    BY <2>1, <2>2, <2>3, FS_CardinalityType
<1>1. ASSUME NEW n \in 1..N PROVE seat(n) \in Seats /\ place(seat(n)) = n - 1
  BY <1>0, PlaceIsTaken DEF Place, place
<1> HIDE DEF seat, N
<1>2. ASSUME NEW n \in 1..N, NEW d \in [hands : [Seats -> Bags], left : Bags], NEW e \in to(n, d)
      PROVE  /\ e \in [hands : [Seats -> Bags], left : Bags]
             /\ d \in Dealt(n - 1) => e \in Dealt(n)
  <2>1. PICK p \in Picks(initialTrainCards, d.left) :
          e = [hands |-> [d.hands EXCEPT ![seat(n)] = p], left |-> d.left (-) p]
    OBVIOUS
  <2>2. /\ p \in Bags /\ d.left (-) p \in Bags /\ d.left \in Bags /\ d.hands \in [Seats -> Bags]
        /\ \A c \in Cards : (d.left (-) p)[c] = d.left[c] - p[c]
    BY PickedCards
  <2>3. e.hands = [d.hands EXCEPT ![seat(n)] = p] /\ e.left = d.left (-) p
    BY <2>1
  <2>4. e.hands \in [Seats -> Bags] /\ e \in [hands : [Seats -> Bags], left : Bags]
    BY <1>1, <2>1, <2>2, <2>3
  <2>5. ASSUME d \in Dealt(n - 1) PROVE e \in Dealt(n)
    <3>1. d.hands[seat(n)] = NoCards
      BY <1>0, <1>1, <2>5 DEF Dealt
    <3>2. ASSUME NEW c \in Cards PROVE e.left[c] + inHands(e.hands, c) = DeckComposition[c]
      <4>1. /\ inHands(e.hands, c) = inHands(d.hands, c) - d.hands[seat(n)][c] + p[c]
            /\ inHands(d.hands, c) \in Nat
        <5>1. /\ d.hands \in [Seats -> Bags] /\ e.hands \in [Seats -> Bags] /\ seat(n) \in Seats
              /\ e.hands[seat(n)] = p /\ \A t \in Seats \ {seat(n)} : e.hands[t] = d.hands[t]
          BY <1>1, <2>2, <2>3, <2>4
        <5> QED
          BY <5>1, HandChanges
      <4>2. d.left[c] + inHands(d.hands, c) = DeckComposition[c]
        BY <2>5 DEF Dealt
      <4>3. d.left[c] \in Nat /\ p[c] \in Nat /\ d.hands[seat(n)][c] = 0
        BY <2>2, <3>1, NoCardsIsEmpty DEF Bags
      <4> QED
        BY <2>2, <2>3, <4>1, <4>2, <4>3
    <3>3. ASSUME NEW s \in Seats, place(s) >= n PROVE e.hands[s] = NoCards
      <4>1. s # seat(n) /\ place(s) >= n - 1
        BY <1>0, <1>1, <3>3
      <4>2. d.hands[s] = NoCards
        BY <2>5, <4>1 DEF Dealt
      <4> QED
        BY <2>2, <2>3, <4>1, <4>2
    <3> QED
      BY <2>4, <3>2, <3>3 DEF Dealt
  <2> QED
    BY <2>4, <2>5
<1> HIDE DEF to
<1>3. first \in V /\ first \subseteq Dealt(0)
  <2> DEFINE d == [hands |-> [s \in Seats |-> NoCards], left |-> DeckComposition]
  <2>1. d.hands = [s \in Seats |-> NoCards] /\ d.left = DeckComposition
    OBVIOUS
  <2>2. d \in [hands : [Seats -> Bags], left : Bags]
    BY <1>0, NoCardsIsEmpty
  <2>3. ASSUME NEW c \in Cards PROVE d.left[c] + inHands(d.hands, c) = DeckComposition[c]
    <3> DEFINE f == [s \in Seats |-> d.hands[s][c]]
    <3>1. \A s \in Seats : f[s] = 0
      BY <2>1, NoCardsIsEmpty
    <3> HIDE DEF f
    <3>2. Sum(f, Seats) = 0 * Cardinality(Seats)
      BY <1>0, <3>1, SumConstant
    <3>3. inHands(d.hands, c) = 0
      BY <1>0, <3>2 DEF inHands, f, N
    <3>4. DeckComposition[c] \in Nat
      BY <1>0 DEF Bags
    <3> QED
      BY <2>1, <3>3, <3>4
  <2> QED
    BY <2>1, <2>2, <2>3 DEF Dealt
<1> HIDE DEF first
<1>4. \A n \in 1..N, D \in V : next(n, D) \in V /\ (D \subseteq Dealt(n - 1) => next(n, D) \subseteq Dealt(n))
  BY <1>2
<1> HIDE DEF next
<1>5. \E f : IsDeal(f)
  <2>1. step \in [(1..N) \X V -> V] /\ \A n \in 1..N, D \in V : step[<<n, D>>] = next(n, D)
    BY <1>4
  <2> HIDE DEF step, V
  <2>2. PICK f \in [0..N -> V] : Recurses(f, first, step, N)
    BY <1>0, <1>3, <2>1, RecursionExists
  <2>3. ASSUME NEW n \in 0..N PROVE f[n] = IF n = 0 THEN first ELSE next(n, f[n - 1])
    <3>1. f[n] = IF n = 0 THEN first ELSE step[<<n, f[n - 1]>>]
      BY <2>2 DEF Recurses
    <3>2. n # 0 => n \in 1..N /\ f[n - 1] \in V
      BY <1>0, <2>2
    <3> QED
      BY <2>1, <3>1, <3>2
  <2>4. f = [n \in 0..N |-> IF n = 0 THEN first ELSE next(n, f[n - 1])]
    BY <2>2, <2>3
  <2> QED
    BY <2>4
<1>6. IsDeal(deal)
  <2> HIDE DEF IsDeal
  <2> QED
    BY <1>5
<1>7. Deals = deal[N]
  BY DEF Deals, N, next, to, seat, first
<1> HIDE DEF deal
<1> DEFINE F == {n \in Nat : n <= N => deal[n] \in V /\ deal[n] \subseteq Dealt(n)}
<1>8. 0 \in F
  BY <1>0, <1>3, <1>6
<1>9. ASSUME NEW n \in Nat, n \in F PROVE n + 1 \in F
  <2> HIDE DEF V
  <2> SUFFICES ASSUME n + 1 <= N PROVE deal[n + 1] \in V /\ deal[n + 1] \subseteq Dealt(n + 1)
    OBVIOUS
  <2>1. n + 1 \in 1..N /\ n + 1 # 0 /\ (n + 1) - 1 = n /\ n + 1 \in 0..N
    BY <1>0
  <2>2. deal[n + 1] = next(n + 1, deal[n])
    BY <1>6, <2>1
  <2>3. deal[n] \in V /\ deal[n] \subseteq Dealt(n)
    BY <1>0, <1>9
  <2> QED
    BY <1>4, <2>1, <2>2, <2>3
<1> HIDE DEF F
<1>10. N \in F
  BY <1>0, <1>8, <1>9, NaturalsAreReached
<1>11. Deals \subseteq Dealt(N)
  BY <1>0, <1>7, <1>10 DEF F
<1> QED
  BY <1>11 DEF Dealt

-----------------------------------------------------------------------------
(***************************************************************************)
(* Every card is in one place.                                             *)
(***************************************************************************)
CardsTypeOK ==
  /\ hands \in [Seats -> Bags]
  /\ drawPile \in Bags /\ faceUp \in Bags /\ discardPile \in Bags
  /\ pendingTunnel # NoTunnel => pendingTunnel.base \in Bags /\ pendingTunnel.revealed \in Bags

\* The cards of a kind outside the hands.
onTable(c) == drawPile[c] + faceUp[c] + discardPile[c] + inTunnel(c)

CardsOK ==
  /\ CardsTypeOK
  /\ Size(faceUp) <= faceUpSlots
  /\ \A c \in Cards : onTable(c) + inHands(hands, c) = DeckComposition[c]

\* What lies in each place on the table is a number of cards.
LEMMA TableType ==
  ASSUME CardsTypeOK, NEW c \in Cards
  PROVE  /\ drawPile[c] \in Nat /\ faceUp[c] \in Nat /\ discardPile[c] \in Nat /\ inTunnel(c) \in Nat
         /\ onTable(c) \in Nat
BY DEF CardsTypeOK, inTunnel, onTable, Bags

\* A step that changes the hand of seat s, and the table by as much.
LEMMA CardMoves ==
  ASSUME CardsOK, CardsTypeOK', NEW s \in Seats, \A t \in Seats \ {s} : hands'[t] = hands[t],
         NEW c \in Cards, onTable(c)' + hands'[s][c] = onTable(c) + hands[s][c]
  PROVE  onTable(c)' + inHands(hands', c) = DeckComposition[c]
<1>1. /\ hands \in [Seats -> Bags] /\ hands' \in [Seats -> Bags]
  BY DEF CardsOK, CardsTypeOK
<1>2. /\ inHands(hands', c) = inHands(hands, c) - hands[s][c] + hands'[s][c]
      /\ inHands(hands, c) \in Nat /\ hands[s][c] \in Nat /\ hands'[s][c] \in Nat
  BY <1>1, HandChanges
<1>3. onTable(c) + inHands(hands, c) = DeckComposition[c] /\ onTable(c) \in Nat
  BY TableType DEF CardsOK
<1>4. onTable(c)' \in Nat
  BY DEF CardsTypeOK, inTunnel, onTable, Bags
<1> QED
  BY <1>2, <1>3, <1>4

\* When one player and the table exchange cards, kind by kind, none is lost.
LEMMA CardsMove ==
  ASSUME CardsOK, CardsTypeOK', NEW s \in Seats, \A t \in Seats \ {s} : hands'[t] = hands[t],
         Size(faceUp') <= faceUpSlots,
         \A c \in Cards : onTable(c)' + hands'[s][c] = onTable(c) + hands[s][c]
  PROVE  CardsOK'
<1>1. \A c \in Cards : onTable(c)' + inHands(hands', c) = DeckComposition[c]
  BY CardMoves
<1>2. Size(faceUp)' <= faceUpSlots
  OBVIOUS
<1>3. ASSUME NEW c \in Cards PROVE inHands(hands, c)' = inHands(hands', c)
  BY DEF inHands
<1> QED
  BY <1>1, <1>2, <1>3 DEF CardsOK

\* Outside a pending tunnel no cards are in one ...
LEMMA NoTunnelPending ==
  ASSUME PendingOK, phase \notin {"FINISHED", "AWAITING_TUNNEL"}
  PROVE  pendingTunnel = NoTunnel /\ \A c : inTunnel(c) = 0
BY DEF PendingOK, ScratchOK, inTunnel

\* ... and none are after it is settled.
LEMMA NoTunnelLeft ==
  ASSUME pendingTunnel' = NoTunnel
  PROVE  (pendingTunnel = NoTunnel)' /\ \A c : inTunnel(c)' = 0
BY DEF inTunnel, NoTunnel

\* A payment leaves the hand it is taken from.
LEMMA Paid ==
  ASSUME hands \in [Seats -> Bags], NEW s \in Seats, NEW k, NEW pay \in Picks(k, hands[s]),
         hands' = [hands EXCEPT ![s] = @ (-) pay]
  PROVE  /\ hands' \in [Seats -> Bags] /\ \A t \in Seats \ {s} : hands'[t] = hands[t]
         /\ pay \in Bags
         /\ \A c \in Cards : hands'[s][c] = hands[s][c] - pay[c] /\ hands[s][c] \in Nat
<1>1. hands[s] \in Bags
  OBVIOUS
<1>2. /\ pay \in Bags /\ hands[s] (-) pay \in Bags
      /\ \A c \in Cards : (hands[s] (-) pay)[c] = hands[s][c] - pay[c]
  BY <1>1, PickedCards
<1>3. \A c \in Cards : hands[s][c] \in Nat
  BY <1>1 DEF Bags
<1> DEFINE left == hands[s] (-) pay
<1>4. hands' = [hands EXCEPT ![s] = left]
  OBVIOUS
<1>5. left \in Bags /\ \A c \in Cards : left[c] = hands[s][c] - pay[c]
  BY <1>2
<1> HIDE DEF left
<1>6. hands' \in [Seats -> Bags] /\ hands'[s] = left /\ \A t \in Seats \ {s} : hands'[t] = hands[t]
  BY <1>4, <1>5
<1> QED
  BY <1>2, <1>3, <1>5, <1>6

\* A hand that takes cards.
LEMMA Received ==
  ASSUME hands \in [Seats -> Bags], NEW s \in Seats, NEW got \in Bags,
         hands' = [hands EXCEPT ![s] = @ (+) got]
  PROVE  /\ hands' \in [Seats -> Bags] /\ \A t \in Seats \ {s} : hands'[t] = hands[t]
         /\ \A c \in Cards : hands'[s][c] = hands[s][c] + got[c] /\ hands[s][c] \in Nat
<1>1. hands[s] \in Bags
  OBVIOUS
<1>2. /\ hands[s] (+) got \in Bags
      /\ \A c \in Cards : (hands[s] (+) got)[c] = hands[s][c] + got[c]
  BY <1>1, BagsAdd
<1>3. \A c \in Cards : hands[s][c] \in Nat
  BY <1>1 DEF Bags
<1> DEFINE more == hands[s] (+) got
<1>4. hands' = [hands EXCEPT ![s] = more]
  OBVIOUS
<1>5. more \in Bags /\ \A c \in Cards : more[c] = hands[s][c] + got[c]
  BY <1>2
<1> HIDE DEF more
<1>6. hands' \in [Seats -> Bags] /\ hands'[s] = more /\ \A t \in Seats \ {s} : hands'[t] = hands[t]
  BY <1>4, <1>5
<1> QED
  BY <1>3, <1>5, <1>6

\* What can be done with a card drawn leaves the pending tunnel closed.
LEMMA CardDrawnNoTunnel ==
  ASSUME PendingOK, NEW s, NEW ends, mayDraw(s), afterCard(s, ends)
  PROVE  pendingTunnel = NoTunnel /\ pendingTunnel' = NoTunnel
<1>1. pendingTunnel = NoTunnel
  BY NoTunnelPending DEF mayDraw, Turns!mayAct
<1>2. CASE draw \/ ends
  BY <1>1, <1>2, EndsTurn DEF afterCard
<1>3. CASE ~(draw \/ ends)
  BY <1>1, <1>3 DEF afterCard
<1> QED
  BY <1>1, <1>2, <1>3

\* A blind draw, with its reshuffle, takes a card from the piles.
LEMMA DrawFromDeckMoves ==
  ASSUME PendingOK, CardsOK, NEW s \in Seats, DrawFromDeck(s)
  PROVE  CardsOK' /\ UNCHANGED faceUp
<1>1. PICK x \in takenFrom(1, drawPile, discardPile) :
        /\ hands' = [hands EXCEPT ![s] = @ (+) x.cards]
        /\ drawPile' = x.pile /\ discardPile' = x.discard
  BY DEF DrawFromDeck
<1>2. UNCHANGED faceUp /\ mayDraw(s) /\ afterCard(s, FALSE)
  BY DEF DrawFromDeck
<1>3. hands \in [Seats -> Bags] /\ drawPile \in Bags /\ faceUp \in Bags /\ discardPile \in Bags
  BY DEF CardsOK, CardsTypeOK
<1>4. /\ x.cards \in Bags /\ x.pile \in Bags /\ x.discard \in Bags
      /\ \A c \in Cards : x.cards[c] + x.pile[c] + x.discard[c] = drawPile[c] + discardPile[c]
  BY <1>3, TakenCards
<1>5. /\ hands' \in [Seats -> Bags] /\ \A t \in Seats \ {s} : hands'[t] = hands[t]
      /\ \A c \in Cards : hands'[s][c] = hands[s][c] + x.cards[c] /\ hands[s][c] \in Nat
  BY <1>1, <1>3, <1>4, Received
<1>6. pendingTunnel' = NoTunnel /\ \A c \in Cards : inTunnel(c) = 0 /\ inTunnel(c)' = 0
  BY <1>2, CardDrawnNoTunnel, NoTunnelLeft DEF inTunnel
<1>7. CardsTypeOK'
  BY <1>1, <1>2, <1>3, <1>4, <1>5, <1>6 DEF CardsTypeOK, NoTunnel
<1>8. ASSUME NEW c \in Cards PROVE onTable(c)' + hands'[s][c] = onTable(c) + hands[s][c]
  <2>1. /\ drawPile[c] \in Nat /\ discardPile[c] \in Nat /\ faceUp[c] \in Nat /\ hands[s][c] \in Nat
        /\ x.cards[c] \in Nat /\ x.pile[c] \in Nat /\ x.discard[c] \in Nat
    BY <1>3, <1>4, <1>5 DEF Bags
  <2>2. onTable(c) = drawPile[c] + faceUp[c] + discardPile[c] /\ onTable(c)' = x.pile[c] + faceUp[c] + x.discard[c]
    BY <1>1, <1>2, <1>6, <2>1 DEF onTable
  <2> QED
    BY <1>4, <1>5, <2>1, <2>2
<1>9. Size(faceUp') <= faceUpSlots
  BY <1>2 DEF CardsOK
<1> QED
  BY <1>2, <1>5, <1>7, <1>8, <1>9, CardsMove

\* A draw from the row takes that card and refills the row.
LEMMA DrawFaceUpMoves ==
  ASSUME PendingOK, CardsOK, NEW s \in Seats, NEW c \in Cards, DrawFaceUp(s, c)
  PROVE  CardsOK' /\ RowFilled(faceUp', drawPile', discardPile')
<1> DEFINE total == [d \in Cards |-> faceUp[d] + drawPile[d] + discardPile[d]]
           left  == [d \in Cards |-> total[d] - One(c)[d]]
<1>1. PICK t \in takeFaceUp(c) : faceUp' = t.up /\ drawPile' = t.pile /\ discardPile' = t.discard
  BY DEF DrawFaceUp, Table
<1>2. mayDraw(s) /\ faceUp[c] > 0 /\ hands' = [hands EXCEPT ![s] = @ (+) One(c)] /\ afterCard(s, c = Loco)
  BY DEF DrawFaceUp, mayTakeFaceUp
<1>3. hands \in [Seats -> Bags] /\ drawPile \in Bags /\ faceUp \in Bags /\ discardPile \in Bags
  BY DEF CardsOK, CardsTypeOK
<1>4. Holds(faceUp, drawPile, discardPile, total) /\ \A d \in Cards : left[d] = total[d] - One(c)[d]
  BY <1>3 DEF Holds
<1>5. Size(faceUp) <= faceUpSlots
  BY DEF CardsOK
<1> HIDE DEF left
<1>6. t \in Tables(left)
  <2> HIDE DEF total
  <2> QED
    BY <1>1, <1>2, <1>4, <1>5, TakenFaceUp
<1>7. /\ faceUp' \in Bags /\ drawPile' \in Bags /\ discardPile' \in Bags
      /\ \A d \in Cards : faceUp'[d] + drawPile'[d] + discardPile'[d] = left[d]
      /\ RowFilled(faceUp', drawPile', discardPile')
  BY <1>1, <1>6 DEF Tables, Holds
<1>8. One(c) \in Bags
  BY OneIsOne
<1>9. /\ hands' \in [Seats -> Bags] /\ \A u \in Seats \ {s} : hands'[u] = hands[u]
      /\ \A d \in Cards : hands'[s][d] = hands[s][d] + One(c)[d] /\ hands[s][d] \in Nat
  BY <1>2, <1>3, <1>8, Received
<1>10. pendingTunnel' = NoTunnel /\ \A d \in Cards : inTunnel(d) = 0 /\ inTunnel(d)' = 0
  BY <1>2, CardDrawnNoTunnel, NoTunnelLeft DEF inTunnel
<1>11. CardsTypeOK'
  BY <1>7, <1>9, <1>10 DEF CardsTypeOK, NoTunnel
<1>12. ASSUME NEW d \in Cards PROVE onTable(d)' + hands'[s][d] = onTable(d) + hands[s][d]
  <2>1. /\ drawPile[d] \in Nat /\ discardPile[d] \in Nat /\ faceUp[d] \in Nat /\ hands[s][d] \in Nat
        /\ drawPile'[d] \in Nat /\ discardPile'[d] \in Nat /\ faceUp'[d] \in Nat /\ One(c)[d] \in Nat
    BY <1>3, <1>7, <1>8, <1>9 DEF Bags
  <2>2. onTable(d) = drawPile[d] + faceUp[d] + discardPile[d] /\ onTable(d)' = drawPile'[d] + faceUp'[d] + discardPile'[d]
    BY <1>10, <2>1 DEF onTable
  <2>3. left[d] = (faceUp[d] + drawPile[d] + discardPile[d]) - One(c)[d]
    BY <1>4
  <2>4. faceUp'[d] + drawPile'[d] + discardPile'[d] = left[d]
    BY <1>7
  <2>5. hands'[s][d] = hands[s][d] + One(c)[d]
    BY <1>9
  <2> QED
    BY <2>1, <2>2, <2>3, <2>4, <2>5
<1>13. Size(faceUp') <= faceUpSlots
  BY <1>7 DEF RowFilled
<1> QED
  BY <1>7, <1>9, <1>11, <1>12, <1>13, CardsMove

\* The row and the tunnel stay as they are, and one hand and the piles change.
LEMMA PilesMove ==
  ASSUME PendingOK, CardsOK, phase \notin {"FINISHED", "AWAITING_TUNNEL"},
         NEW s \in Seats, hands' \in [Seats -> Bags], \A t \in Seats \ {s} : hands'[t] = hands[t],
         UNCHANGED faceUp, drawPile' \in Bags, discardPile' \in Bags, pendingTunnel' = NoTunnel,
         \A c \in Cards : drawPile'[c] + discardPile'[c] + hands'[s][c] = drawPile[c] + discardPile[c] + hands[s][c]
  PROVE  CardsOK'
<1>1. \A c \in Cards : inTunnel(c) = 0 /\ inTunnel(c)' = 0
  BY NoTunnelPending, NoTunnelLeft
<1>2. CardsTypeOK' /\ CardsTypeOK
  BY DEF CardsOK, CardsTypeOK, NoTunnel
<1>3. ASSUME NEW c \in Cards PROVE onTable(c)' + hands'[s][c] = onTable(c) + hands[s][c]
  <2>1. /\ drawPile[c] \in Nat /\ discardPile[c] \in Nat /\ faceUp[c] \in Nat /\ hands[s][c] \in Nat
        /\ drawPile'[c] \in Nat /\ discardPile'[c] \in Nat /\ faceUp'[c] = faceUp[c] /\ hands'[s][c] \in Nat
    BY <1>2 DEF CardsTypeOK, Bags
  <2>2. /\ onTable(c) = drawPile[c] + faceUp[c] + discardPile[c]
        /\ onTable(c)' = drawPile'[c] + faceUp'[c] + discardPile'[c]
    BY <1>1, <2>1 DEF onTable
  <2> QED
    BY <2>1, <2>2
<1>4. Size(faceUp') <= faceUpSlots
  BY DEF CardsOK
<1> QED
  BY <1>2, <1>3, <1>4, CardsMove

\* Cards paid to the discard pile.
LEMMA PaymentMoves ==
  ASSUME PendingOK, CardsOK, phase \notin {"FINISHED", "AWAITING_TUNNEL"}, NEW s \in Seats,
         NEW k, NEW pay \in Picks(k, hands[s]), hands' = [hands EXCEPT ![s] = @ (-) pay],
         discardPile' = discardPile (+) pay, UNCHANGED <<faceUp, drawPile>>, pendingTunnel' = NoTunnel
  PROVE  CardsOK'
<1>1. hands \in [Seats -> Bags] /\ drawPile \in Bags /\ faceUp \in Bags /\ discardPile \in Bags
  BY DEF CardsOK, CardsTypeOK
<1>2. /\ hands' \in [Seats -> Bags] /\ \A t \in Seats \ {s} : hands'[t] = hands[t]
      /\ pay \in Bags
      /\ \A c \in Cards : hands'[s][c] = hands[s][c] - pay[c] /\ hands[s][c] \in Nat
  BY <1>1, Paid
<1>3. discardPile' \in Bags /\ \A c \in Cards : discardPile'[c] = discardPile[c] + pay[c]
  BY <1>1, <1>2, BagsAdd
<1>4. ASSUME NEW c \in Cards
      PROVE  drawPile'[c] + discardPile'[c] + hands'[s][c] = drawPile[c] + discardPile[c] + hands[s][c]
  <2>1. drawPile[c] \in Nat /\ discardPile[c] \in Nat /\ hands[s][c] \in Nat /\ pay[c] \in Nat /\ drawPile'[c] = drawPile[c]
    BY <1>1, <1>2 DEF Bags
  <2> QED
    BY <1>2, <1>3, <2>1
<1> QED
  BY <1>1, <1>2, <1>3, <1>4, PilesMove

\* Declaring a tunnel moves the payment and the revealed cards.
LEMMA BeginTunnelMoves ==
  ASSUME PendingOK, CardsOK, NEW s \in Seats, NEW r \in Routes,
         NEW pay \in payments(hands[s], Route[r].length), BeginTunnelClaim(s, r, pay)
  PROVE  CardsOK'
<1>1. /\ phase = "NORMAL" /\ hands' = [hands EXCEPT ![s] = @ (-) pay] /\ UNCHANGED faceUp
  BY DEF BeginTunnelClaim, Turns!mayAct
<1>2. PICK x \in takenFrom(tunnelRevealCount, drawPile, discardPile) :
        /\ drawPile' = x.pile
        /\ \/ discardPile' = x.discard (+) x.cards (+) pay /\ endTurn(s)
           \/ /\ pendingTunnel'.base = pay /\ pendingTunnel'.revealed = x.cards /\ pendingTunnel'.route = r
              /\ discardPile' = x.discard
  BY DEF BeginTunnelClaim, finishClaim
<1>3. hands \in [Seats -> Bags] /\ drawPile \in Bags /\ faceUp \in Bags /\ discardPile \in Bags
  BY DEF CardsOK, CardsTypeOK
<1>4. pay \in Picks(Route[r].length, hands[s])
  BY DEF payments
<1>5. /\ hands' \in [Seats -> Bags] /\ \A t \in Seats \ {s} : hands'[t] = hands[t]
      /\ pay \in Bags
      /\ \A c \in Cards : hands'[s][c] = hands[s][c] - pay[c] /\ hands[s][c] \in Nat
  BY <1>1, <1>3, <1>4, Paid
<1>6. /\ x.cards \in Bags /\ x.pile \in Bags /\ x.discard \in Bags
      /\ \A c \in Cards : x.cards[c] + x.pile[c] + x.discard[c] = drawPile[c] + discardPile[c]
  <2>1. tunnelRevealCount \in Int
    BY GameAssumption
  <2> QED
    BY <1>3, <2>1, TakenCards
<1>7. ASSUME NEW c \in Cards
      PROVE  /\ drawPile[c] \in Nat /\ discardPile[c] \in Nat /\ hands[s][c] \in Nat /\ pay[c] \in Nat
             /\ x.cards[c] \in Nat /\ x.pile[c] \in Nat /\ x.discard[c] \in Nat /\ faceUp[c] \in Nat
  BY <1>3, <1>5, <1>6 DEF Bags
<1>8. CASE discardPile' = x.discard (+) x.cards (+) pay /\ endTurn(s)
  <2>1. x.discard (+) x.cards \in Bags /\ \A c \in Cards : (x.discard (+) x.cards)[c] = x.discard[c] + x.cards[c]
    BY <1>6, BagsAdd
  <2>2. /\ x.discard (+) x.cards (+) pay \in Bags
        /\ \A c \in Cards : (x.discard (+) x.cards (+) pay)[c] = (x.discard (+) x.cards)[c] + pay[c]
    BY <1>5, <2>1, BagsAdd
  <2>3. discardPile' \in Bags /\ \A c \in Cards : discardPile'[c] = x.discard[c] + x.cards[c] + pay[c]
    BY <1>8, <2>1, <2>2
  <2>4. ASSUME NEW c \in Cards
        PROVE  drawPile'[c] + discardPile'[c] + hands'[s][c] = drawPile[c] + discardPile[c] + hands[s][c]
    BY <1>2, <1>5, <1>6, <1>7, <2>3
  <2>5. pendingTunnel' = NoTunnel
    BY <1>8, EndsTurn
  <2> QED
    BY <1>1, <1>2, <1>5, <1>6, <2>3, <2>4, <2>5, PilesMove
<1>9. CASE /\ pendingTunnel'.base = pay /\ pendingTunnel'.revealed = x.cards /\ pendingTunnel'.route = r
           /\ discardPile' = x.discard
  <2>1. pendingTunnel' # NoTunnel /\ \A c \in Cards : inTunnel(c) = 0
    BY <1>1, <1>9, TunnelIsPending, NoTunnelPending
  <2>2. \A c \in Cards : inTunnel(c)' = pay[c] + x.cards[c]
    BY <1>9, <2>1 DEF inTunnel, NoTunnel
  <2>3. CardsTypeOK'
    BY <1>1, <1>2, <1>3, <1>5, <1>6, <1>9 DEF CardsTypeOK
  <2>4. ASSUME NEW c \in Cards PROVE onTable(c)' + hands'[s][c] = onTable(c) + hands[s][c]
    <3>1. /\ onTable(c) = drawPile[c] + faceUp[c] + discardPile[c]
          /\ onTable(c)' = x.pile[c] + faceUp[c] + x.discard[c] + (pay[c] + x.cards[c])
      BY <1>1, <1>2, <1>7, <1>9, <2>1, <2>2 DEF onTable
    <3> QED
      BY <1>5, <1>6, <1>7, <3>1
  <2>5. Size(faceUp') <= faceUpSlots
    BY <1>1 DEF CardsOK
  <2> QED
    BY <1>5, <2>3, <2>4, <2>5, CardsMove
<1> QED
  BY <1>2, <1>8, <1>9

\* The pending tunnel's cards go where the hand and the discard pile say.
LEMMA TunnelMoves ==
  ASSUME PendingOK, CardsOK, NEW s \in Seats, phase = "AWAITING_TUNNEL", endTurn(s),
         hands' \in [Seats -> Bags], \A t \in Seats \ {s} : hands'[t] = hands[t],
         UNCHANGED <<faceUp, drawPile>>, discardPile' \in Bags,
         \A c \in Cards : discardPile'[c] + hands'[s][c]
                           = discardPile[c] + pendingTunnel.base[c] + pendingTunnel.revealed[c] + hands[s][c]
  PROVE  CardsOK'
<1>1. pendingTunnel # NoTunnel
  BY DEF PendingOK, ScratchOK
<1>2. pendingTunnel' = NoTunnel /\ \A c \in Cards : inTunnel(c)' = 0
  BY EndsTurn, NoTunnelLeft
<1>3. CardsTypeOK' /\ CardsTypeOK
  BY <1>2 DEF CardsOK, CardsTypeOK, NoTunnel
<1>4. ASSUME NEW c \in Cards PROVE onTable(c)' + hands'[s][c] = onTable(c) + hands[s][c]
  <2>1. /\ drawPile[c] \in Nat /\ discardPile[c] \in Nat /\ faceUp[c] \in Nat /\ hands[s][c] \in Nat
        /\ drawPile'[c] = drawPile[c] /\ discardPile'[c] \in Nat /\ faceUp'[c] = faceUp[c] /\ hands'[s][c] \in Nat
        /\ pendingTunnel.base[c] \in Nat /\ pendingTunnel.revealed[c] \in Nat
    BY <1>1, <1>3 DEF CardsTypeOK, Bags
  <2>2. /\ onTable(c) = drawPile[c] + faceUp[c] + discardPile[c] + (pendingTunnel.base[c] + pendingTunnel.revealed[c])
        /\ onTable(c)' = drawPile'[c] + faceUp'[c] + discardPile'[c]
    BY <1>1, <1>2, <2>1 DEF onTable, inTunnel
  <2> QED
    BY <2>1, <2>2
<1>5. Size(faceUp') <= faceUpSlots
  BY DEF CardsOK
<1> QED
  BY <1>3, <1>4, <1>5, CardsMove

\* Accepting a tunnel discards payment, surcharge and revealed cards.
LEMMA AcceptMoves ==
  ASSUME PendingOK, CardsOK, NEW s \in Seats, AcceptTunnel(s)
  PROVE  CardsOK'
<1> DEFINE pt == pendingTunnel
<1>1. phase = "AWAITING_TUNNEL" /\ endTurn(s) /\ UNCHANGED <<drawPile, faceUp>>
  BY DEF AcceptTunnel, Turns!mayAct
<1>2. PICK extra \in surcharges(pendingTunnel, hands[s]) :
        /\ hands' = [hands EXCEPT ![s] = @ (-) extra]
        /\ discardPile' = discardPile (+) pt.revealed (+) pt.base (+) extra
  BY DEF AcceptTunnel, finishClaim
<1>3. hands \in [Seats -> Bags] /\ discardPile \in Bags /\ pt.base \in Bags /\ pt.revealed \in Bags
  BY <1>1 DEF CardsOK, CardsTypeOK, PendingOK, ScratchOK
<1>4. extra \in Picks(pt.surcharge, hands[s])
  BY DEF surcharges
<1>5. /\ hands' \in [Seats -> Bags] /\ \A t \in Seats \ {s} : hands'[t] = hands[t]
      /\ extra \in Bags
      /\ \A c \in Cards : hands'[s][c] = hands[s][c] - extra[c] /\ hands[s][c] \in Nat
  BY <1>2, <1>3, <1>4, Paid
<1>6. /\ discardPile (+) pt.revealed \in Bags
      /\ \A c \in Cards : (discardPile (+) pt.revealed)[c] = discardPile[c] + pt.revealed[c]
  BY <1>3, BagsAdd
<1>7. /\ discardPile (+) pt.revealed (+) pt.base \in Bags
      /\ \A c \in Cards : (discardPile (+) pt.revealed (+) pt.base)[c] = (discardPile (+) pt.revealed)[c] + pt.base[c]
  BY <1>3, <1>6, BagsAdd
<1>8. /\ discardPile' \in Bags
      /\ \A c \in Cards : discardPile'[c] = (discardPile (+) pt.revealed (+) pt.base)[c] + extra[c]
  BY <1>2, <1>5, <1>7, BagsAdd
<1>9. ASSUME NEW c \in Cards
      PROVE  discardPile'[c] + hands'[s][c] = discardPile[c] + pt.base[c] + pt.revealed[c] + hands[s][c]
  <2>1. /\ discardPile[c] \in Nat /\ pt.base[c] \in Nat /\ pt.revealed[c] \in Nat /\ extra[c] \in Nat
        /\ hands[s][c] \in Nat
    BY <1>3, <1>5 DEF Bags
  <2> QED
    BY <1>5, <1>6, <1>7, <1>8, <2>1
<1> QED
  BY <1>1, <1>5, <1>8, <1>9, TunnelMoves

\* Refunding a tunnel returns the payment.
LEMMA RefundMoves ==
  ASSUME PendingOK, CardsOK, NEW s \in Seats, RefundTunnel(s)
  PROVE  CardsOK'
<1> DEFINE pt == pendingTunnel
<1>1. /\ phase = "AWAITING_TUNNEL" /\ endTurn(s) /\ UNCHANGED <<drawPile, faceUp>>
      /\ hands' = [hands EXCEPT ![s] = @ (+) pt.base]
      /\ discardPile' = discardPile (+) pt.revealed
  BY DEF RefundTunnel, Turns!mayAct
<1>2. hands \in [Seats -> Bags] /\ discardPile \in Bags /\ pt.base \in Bags /\ pt.revealed \in Bags
  BY <1>1 DEF CardsOK, CardsTypeOK, PendingOK, ScratchOK
<1>3. /\ hands' \in [Seats -> Bags] /\ \A t \in Seats \ {s} : hands'[t] = hands[t]
      /\ \A c \in Cards : hands'[s][c] = hands[s][c] + pt.base[c] /\ hands[s][c] \in Nat
  BY <1>1, <1>2, Received
<1>4. discardPile' \in Bags /\ \A c \in Cards : discardPile'[c] = discardPile[c] + pt.revealed[c]
  BY <1>1, <1>2, BagsAdd
<1>5. ASSUME NEW c \in Cards
      PROVE  discardPile'[c] + hands'[s][c] = discardPile[c] + pt.base[c] + pt.revealed[c] + hands[s][c]
  <2>1. discardPile[c] \in Nat /\ pt.base[c] \in Nat /\ pt.revealed[c] \in Nat /\ hands[s][c] \in Nat
    BY <1>2, <1>3 DEF Bags
  <2> QED
    BY <1>3, <1>4, <2>1
<1> QED
  BY <1>1, <1>3, <1>4, <1>5, TunnelMoves

\* Who resigns hands everything in, the cards of an open tunnel included.
LEMMA ResignMoves ==
  ASSUME PendingOK, CardsOK, NEW s \in Seats, Resign(s)
  PROVE  CardsOK'
<1> DEFINE pt == pendingTunnel
           open == Turns!holdsTurn(s) /\ pendingTunnel # NoTunnel
<1>1. /\ discardPile' = discardPile (+) heldBy(s) /\ hands' = [hands EXCEPT ![s] = NoCards]
      /\ UNCHANGED <<drawPile, faceUp>> /\ releaseDecision(s)
  BY DEF Resign
<1>2. hands \in [Seats -> Bags] /\ discardPile \in Bags /\ CardsTypeOK /\ hands[s] \in Bags
  BY DEF CardsOK, CardsTypeOK
<1>3. NoCards \in Bags /\ \A c \in Cards : NoCards[c] = 0
  BY NoCardsIsEmpty
<1>4. /\ hands' \in [Seats -> Bags] /\ \A t \in Seats \ {s} : hands'[t] = hands[t]
      /\ hands'[s] = NoCards
  BY <1>1, <1>2, <1>3
<1>5. /\ heldBy(s) \in Bags
      /\ \A c \in Cards : heldBy(s)[c] = hands[s][c] + (IF open THEN pt.base[c] + pt.revealed[c] ELSE 0)
  <2>1. CASE open
    <3>1. pt.base \in Bags /\ pt.revealed \in Bags
      BY <1>2, <2>1 DEF CardsTypeOK
    <3>2. hands[s] (+) pt.base \in Bags /\ \A c \in Cards : (hands[s] (+) pt.base)[c] = hands[s][c] + pt.base[c]
      BY <1>2, <3>1, BagsAdd
    <3>3. /\ hands[s] (+) pt.base (+) pt.revealed \in Bags
          /\ \A c \in Cards : (hands[s] (+) pt.base (+) pt.revealed)[c] = (hands[s] (+) pt.base)[c] + pt.revealed[c]
      BY <3>1, <3>2, BagsAdd
    <3>4. heldBy(s) = hands[s] (+) pt.base (+) pt.revealed
      BY <2>1 DEF heldBy
    <3>5. \A c \in Cards : hands[s][c] \in Nat /\ pt.base[c] \in Nat /\ pt.revealed[c] \in Nat
      BY <1>2, <3>1 DEF Bags
    <3> QED
      BY <2>1, <3>2, <3>3, <3>4, <3>5
  <2>2. CASE ~open
    <3>1. heldBy(s) = hands[s]
      BY <2>2 DEF heldBy
    <3> QED
      BY <1>2, <2>2, <3>1 DEF Bags
  <2> QED
    BY <2>1, <2>2
<1>6. /\ discardPile' \in Bags
      /\ \A c \in Cards : discardPile'[c] = discardPile[c] + heldBy(s)[c]
  BY <1>1, <1>2, <1>5, BagsAdd
<1>7. CASE open
  <2>1. pendingTunnel' = NoTunnel
    BY <1>1, <1>7 DEF releaseDecision
  <2>2. \A c \in Cards : inTunnel(c)' = 0 /\ inTunnel(c) = pt.base[c] + pt.revealed[c]
    BY <1>7, <2>1, NoTunnelLeft DEF inTunnel
  <2>3. CardsTypeOK'
    BY <1>1, <1>2, <1>4, <1>6, <2>1 DEF CardsTypeOK, NoTunnel
  <2>4. ASSUME NEW c \in Cards PROVE onTable(c)' + hands'[s][c] = onTable(c) + hands[s][c]
    <3>1. /\ drawPile[c] \in Nat /\ discardPile[c] \in Nat /\ faceUp[c] \in Nat /\ hands[s][c] \in Nat
          /\ pt.base[c] \in Nat /\ pt.revealed[c] \in Nat
      BY <1>2, <1>7 DEF CardsTypeOK, Bags
    <3>2. /\ onTable(c) = drawPile[c] + faceUp[c] + discardPile[c] + (pt.base[c] + pt.revealed[c])
          /\ onTable(c)' = drawPile[c] + faceUp[c] + discardPile'[c] + 0
      BY <1>1, <2>2 DEF onTable
    <3>3. hands'[s][c] = 0 /\ discardPile'[c] = discardPile[c] + (hands[s][c] + (pt.base[c] + pt.revealed[c]))
      BY <1>3, <1>4, <1>5, <1>6, <1>7
    <3> QED
      BY <3>1, <3>2, <3>3
  <2>5. Size(faceUp') <= faceUpSlots
    BY <1>1 DEF CardsOK
  <2> QED
    BY <1>4, <2>3, <2>4, <2>5, CardsMove
<1>8. CASE ~open
  <2>1. (pendingTunnel' = pendingTunnel \/ (pendingTunnel = NoTunnel /\ pendingTunnel' = NoTunnel)) /\ NoTunnel' = NoTunnel
    BY <1>1, <1>8 DEF releaseDecision, pendingVars, NoTunnel
  <2>2. \A c \in Cards : inTunnel(c)' = inTunnel(c)
    BY <2>1 DEF inTunnel
  <2>3. CardsTypeOK'
    BY <1>1, <1>2, <1>4, <1>6, <2>1 DEF CardsTypeOK
  <2>4. ASSUME NEW c \in Cards PROVE onTable(c)' + hands'[s][c] = onTable(c) + hands[s][c]
    <3>1. /\ drawPile[c] \in Nat /\ discardPile[c] \in Nat /\ faceUp[c] \in Nat /\ hands[s][c] \in Nat
          /\ inTunnel(c) \in Nat
      BY <1>2, TableType DEF Bags
    <3>2. /\ onTable(c) = drawPile[c] + faceUp[c] + discardPile[c] + inTunnel(c)
          /\ onTable(c)' = drawPile[c] + faceUp[c] + discardPile'[c] + inTunnel(c)
      BY <1>1, <2>2 DEF onTable
    <3>3. hands'[s][c] = 0 /\ discardPile'[c] = discardPile[c] + hands[s][c]
      BY <1>3, <1>4, <1>5, <1>6, <1>8, <3>1
    <3> QED
      BY <3>1, <3>2, <3>3
  <2>5. Size(faceUp') <= faceUpSlots
    BY <1>1 DEF CardsOK
  <2> QED
    BY <1>4, <2>3, <2>4, <2>5, CardsMove
<1> QED
  BY <1>7, <1>8

\* Nothing that has to do with train cards changes.
LEMMA CardsStay ==
  ASSUME CardsOK, UNCHANGED <<hands, drawPile, faceUp, discardPile>>,
         UNCHANGED pendingTunnel \/ (pendingTunnel = NoTunnel /\ pendingTunnel' = NoTunnel)
  PROVE  CardsOK'
<1>1. UNCHANGED pendingTunnel /\ NoTunnel' = NoTunnel
  BY DEF NoTunnel
<1>2. \A c \in Cards : onTable(c)' = onTable(c) /\ inHands(hands, c)' = inHands(hands, c)
  BY <1>1 DEF onTable, inTunnel, inHands
<1> QED
  BY <1>1, <1>2 DEF CardsOK, CardsTypeOK

\* Every step keeps the cards, and fills the row when it touches it.
LEMMA CardsStep ==
  ASSUME PendingOK, CardsOK, [Next]_vars
  PROVE  CardsOK' /\ (faceUp' # faceUp => RowFilled(faceUp', drawPile', discardPile'))
<1>0. CASE UNCHANGED vars
  BY <1>0, CardsStay DEF vars, cardVars, pendingVars
<1>1. ASSUME NEW s \in Seats, KeepSetupTickets(s) PROVE CardsOK' /\ UNCHANGED faceUp
  BY <1>1, CardsStay DEF KeepSetupTickets, cardVars, pendingVars
<1>2. ASSUME NEW s \in Seats, EndDraw(s) PROVE CardsOK' /\ UNCHANGED faceUp
  BY <1>2, CardsStay, NoTunnelPending, EndsTurn DEF EndDraw, cardVars, Turns!mayAct
<1>3. ASSUME NEW s \in Seats, NEW r \in Routes, NEW pay \in payments(hands[s], Route[r].length), ClaimRoute(s, r, pay)
      PROVE CardsOK' /\ UNCHANGED faceUp
  <2>1. /\ phase = "NORMAL" /\ hands' = [hands EXCEPT ![s] = @ (-) pay]
        /\ discardPile' = discardPile (+) pay /\ UNCHANGED <<faceUp, drawPile>> /\ endTurn(s)
    BY <1>3 DEF ClaimRoute, finishClaim, Turns!mayAct
  <2>2. pay \in Picks(Route[r].length, hands[s]) /\ pendingTunnel' = NoTunnel
    BY <2>1, EndsTurn DEF payments
  <2> QED
    BY <2>1, <2>2, PaymentMoves
<1>4. ASSUME NEW s \in Seats, NEW r \in Routes, NEW pay \in payments(hands[s], Route[r].length), BeginTunnelClaim(s, r, pay)
      PROVE CardsOK' /\ UNCHANGED faceUp
  BY <1>4, BeginTunnelMoves DEF BeginTunnelClaim
<1>5. ASSUME NEW s \in Seats, AcceptTunnel(s) PROVE CardsOK' /\ UNCHANGED faceUp
  BY <1>5, AcceptMoves DEF AcceptTunnel
<1>6. ASSUME NEW s \in Seats, RefundTunnel(s) PROVE CardsOK' /\ UNCHANGED faceUp
  BY <1>6, RefundMoves DEF RefundTunnel
<1>7. ASSUME NEW s \in Seats, NEW city \in Cities, BuildStation(s, city) PROVE CardsOK' /\ UNCHANGED faceUp
  <2>1. phase = "NORMAL" /\ UNCHANGED <<faceUp, drawPile>> /\ endTurn(s)
    BY <1>7 DEF BuildStation, Turns!mayAct
  <2>2. PICK pay \in payments(hands[s], stationCost(s)) :
          hands' = [hands EXCEPT ![s] = @ (-) pay] /\ discardPile' = discardPile (+) pay
    BY <1>7 DEF BuildStation
  <2>3. pay \in Picks(stationCost(s), hands[s]) /\ pendingTunnel' = NoTunnel
    BY <2>1, EndsTurn DEF payments
  <2> QED
    BY <2>1, <2>2, <2>3, PaymentMoves
<1>8. ASSUME NEW s \in Seats, DrawTickets(s) PROVE CardsOK' /\ UNCHANGED faceUp
  BY <1>8, CardsStay DEF DrawTickets, cardVars
<1>9. ASSUME NEW s \in Seats, KeepTickets(s) PROVE CardsOK' /\ UNCHANGED faceUp
  BY <1>9, CardsStay, NoTunnelPending, EndsTurn DEF KeepTickets, cardVars, Turns!mayAct
<1>10. ASSUME NEW s \in Seats, Resign(s) PROVE CardsOK' /\ UNCHANGED faceUp
  BY <1>10, ResignMoves DEF Resign
<1>11. CASE UNCHANGED vars
  BY <1>0, <1>11 DEF vars, cardVars
<1> QED
  BY <1>0, <1>1, <1>2, <1>3, <1>4, <1>5, <1>6, <1>7, <1>8, <1>9, <1>10, DrawFromDeckMoves, DrawFaceUpMoves
     DEF Next, Claim

\* The deal holds the whole deck.
LEMMA CardsAreDealt == Init => CardsOK
<1> SUFFICES ASSUME Init PROVE CardsOK
  OBVIOUS
<1>1. PICK d \in Deals :
        /\ hands = d.hands
        /\ \E u \in fillFaceUp([up |-> NoCards, pile |-> d.left, discard |-> NoCards]) :
           \E t \in flushFaceUpLocos(u) : faceUp = t.up /\ drawPile = t.pile /\ discardPile = t.discard
  BY DEF Init
<1> DEFINE t0 == [up |-> NoCards, pile |-> d.left, discard |-> NoCards]
<1>2. PICK u \in fillFaceUp(t0) :
        \E t \in flushFaceUpLocos(u) : faceUp = t.up /\ drawPile = t.pile /\ discardPile = t.discard
  BY <1>1
<1>3. PICK t \in flushFaceUpLocos(u) : faceUp = t.up /\ drawPile = t.pile /\ discardPile = t.discard
  BY <1>2
<1>4. /\ d.hands \in [Seats -> Bags] /\ d.left \in Bags
      /\ \A c \in Cards : d.left[c] + inHands(d.hands, c) = DeckComposition[c]
  BY DealsAreOfTheDeck
<1>5. NoCards \in Bags /\ Size(NoCards) = 0 /\ \A c \in Cards : NoCards[c] = 0
  BY NoCardsIsEmpty
<1>6. t0.up = NoCards /\ t0.pile = d.left /\ t0.discard = NoCards
  OBVIOUS
<1> HIDE DEF t0
<1>7. Holds(t0.up, t0.pile, t0.discard, d.left)
  <2>1. \A c \in Cards : NoCards[c] + d.left[c] + NoCards[c] = d.left[c]
    BY <1>4, <1>5 DEF Bags
  <2> QED
    BY <1>4, <1>5, <1>6, <2>1 DEF Holds
<1>8. Size(t0.up) <= faceUpSlots
  BY <1>5, <1>6, GameAssumption
<1>9. u \in Tables(d.left)
  <2>1. /\ u = [up |-> u.up, pile |-> u.pile, discard |-> u.discard]
        /\ Holds(u.up, u.pile, u.discard, d.left) /\ RowFilled(u.up, u.pile, u.discard)
    BY <1>2, <1>7, <1>8, FilledRow
  <2>2. u.up \in Bags /\ u.pile \in Bags /\ u.discard \in Bags
    BY <2>1 DEF Holds
  <2>3. u \in [up : Bags, pile : Bags, discard : Bags]
    BY <2>1, <2>2
  <2> QED
    BY <2>1, <2>3 DEF Tables
<1>10. t \in Tables(d.left)
  BY <1>3, <1>9, FlushedTables
<1>11. /\ faceUp \in Bags /\ drawPile \in Bags /\ discardPile \in Bags /\ Size(faceUp) <= faceUpSlots
       /\ \A c \in Cards : faceUp[c] + drawPile[c] + discardPile[c] = d.left[c]
  BY <1>3, <1>10 DEF Tables, Holds, RowFilled
<1>12. pendingTunnel = NoTunnel /\ hands = d.hands
  BY <1>1 DEF Init
<1>13. ASSUME NEW c \in Cards PROVE onTable(c) + inHands(hands, c) = DeckComposition[c]
  <2>1. faceUp[c] \in Nat /\ drawPile[c] \in Nat /\ discardPile[c] \in Nat
    BY <1>11 DEF Bags
  <2>2. onTable(c) = drawPile[c] + faceUp[c] + discardPile[c] + 0
    BY <1>12 DEF onTable, inTunnel
  <2>3. onTable(c) = d.left[c]
    BY <1>11, <2>1, <2>2
  <2> QED
    BY <1>4, <1>12, <2>3
<1> QED
  BY <1>4, <1>11, <1>12, <1>13 DEF CardsOK, CardsTypeOK

\* Every card of the deck is somewhere, always.
LEMMA CardsInvariant == Spec => [](PendingOK /\ CardsOK)
<1>1. Init => PendingOK /\ CardsOK
  BY StartsAsTurns, CardsAreDealt
<1>2. PendingOK /\ CardsOK /\ [Next]_vars => (PendingOK /\ CardsOK)'
  BY Follows, CardsStep
<1> QED
  BY <1>1, <1>2, PTL DEF Spec

(***************************************************************************)
(* No train card is lost, copied or paid from an empty hand: draws, middle *)
(* reshuffles, flushes, payments, surcharges, refunds and resignations     *)
(* only move cards.                                                        *)
(***************************************************************************)
THEOREM CardsConservedHolds == Spec => []CardsConserved
<1>1. ASSUME PendingOK, CardsOK PROVE CardsConserved
  <2> SUFFICES ASSUME NEW c \in Cards
               PROVE  /\ \A s \in Seats : hands[s][c] >= 0
                      /\ drawPile[c] + faceUp[c] + discardPile[c] + inTunnel(c)
                           + MapThenSumSet(LAMBDA s : hands[s][c], Seats) = DeckComposition[c]
    BY DEF CardsConserved
  <2>1. \A s \in Seats : hands[s][c] >= 0
    BY <1>1 DEF CardsOK, CardsTypeOK, Bags
  <2>2. MapThenSumSet(LAMBDA s : hands[s][c], Seats) = inHands(hands, c)
    BY HandsAreSummed
  <2> HIDE DEF CardsConserved
  <2>3. onTable(c) + inHands(hands, c) = DeckComposition[c]
    BY <1>1 DEF CardsOK
  <2> QED
    BY <2>1, <2>2, <2>3 DEF onTable
<1> QED
  BY <1>1, CardsInvariant, PTL

(***************************************************************************)
(* The face-up row catches up: whenever it changes it is filled, or there  *)
(* is nothing left to fill it with.                                        *)
(***************************************************************************)
THEOREM RowCatchesUpHolds == Spec => RowCatchesUp
<1>1. PendingOK /\ CardsOK /\ [Next]_vars
        => [faceUp' # faceUp => Size(faceUp') = faceUpSlots \/ Size(drawPile') + Size(discardPile') = 0]_vars
  BY CardsStep DEF RowFilled
<1> QED
  BY <1>1, CardsInvariant, PTL DEF Spec, RowCatchesUp

-----------------------------------------------------------------------------
(***************************************************************************)
(* The board.                                                              *)
(***************************************************************************)
lengths == [r \in Routes |-> Route[r].length]
points  == [r \in Routes |-> RoutePoints[Route[r].length]]

\* The trains a set of routes takes, as a sum.
LEMMA LengthsAreSummed ==
  ASSUME NEW R \in SUBSET Routes
  PROVE  lengthOf(R) = Sum(lengths, R)
<1> DEFINE P(it) == it = [T \in SUBSET R |-> IF T = {} THEN 0 ELSE Route[Pick(T)].length + it[T \ {Pick(T)}]]
<1>1. lengthOf(R) = (CHOOSE it : P(it))[R]
  BY DEF lengthOf, MapThenSumSet, MapThenFoldSet, Pick
<1>2. ASSUME NEW it PROVE P(it) <=> Iterates(lengths, R, it)
  <2>1. \A T \in SUBSET R : T # {} => lengths[Pick(T)] = Route[Pick(T)].length
    BY DEF Pick, lengths
  <2> QED
    BY <2>1 DEF Iterates
<1>3. (CHOOSE it : P(it)) = (CHOOSE it : Iterates(lengths, R, it))
  BY <1>2
<1> QED
  BY <1>1, <1>3, SumIterates

\* The points for a set of routes, as a sum.
LEMMA PointsAreSummed ==
  ASSUME NEW R \in SUBSET Routes
  PROVE  sumRoutePoints(R) = Sum(points, R)
<1> DEFINE P(it) == it = [T \in SUBSET R |-> IF T = {} THEN 0
                                            ELSE RoutePoints[Route[Pick(T)].length] + it[T \ {Pick(T)}]]
<1>1. sumRoutePoints(R) = (CHOOSE it : P(it))[R]
  BY DEF sumRoutePoints, MapThenSumSet, MapThenFoldSet, Pick
<1>2. ASSUME NEW it PROVE P(it) <=> Iterates(points, R, it)
  <2>1. \A T \in SUBSET R : T # {} => points[Pick(T)] = RoutePoints[Route[Pick(T)].length]
    BY DEF Pick, points
  <2> QED
    BY <2>1 DEF Iterates
<1>3. (CHOOSE it : P(it)) = (CHOOSE it : Iterates(points, R, it))
  BY <1>2
<1> QED
  BY <1>1, <1>3, SumIterates

\* Lengths and points of a route of the map are numbers.
LEMMA RouteValues ==
  ASSUME NEW r \in Routes
  PROVE  Route[r].length \in Nat \ {0} /\ RoutePoints[Route[r].length] \in Nat
<1>1. Route[r].length \in {1, 2, 3, 4, 6, 8}
  BY MapIsValid DEF validRouteAttributes, RoutePoints
<1>2. \A l \in {1, 2, 3, 4, 6, 8} : RoutePoints[l] \in Nat
  BY DEF RoutePoints
<1> QED
  BY <1>1, <1>2

\* One more route adds its length and its points.
LEMMA RouteAdded ==
  ASSUME NEW R \in SUBSET Routes, NEW r \in Routes \ R
  PROVE  /\ lengthOf(R \cup {r}) = lengthOf(R) + Route[r].length
         /\ sumRoutePoints(R \cup {r}) = sumRoutePoints(R) + RoutePoints[Route[r].length]
         /\ lengthOf(R) \in Int /\ sumRoutePoints(R) \in Int
<1>1. /\ \A q \in Routes : lengths[q] \in Int /\ points[q] \in Int
      /\ lengths[r] = Route[r].length /\ points[r] = RoutePoints[Route[r].length]
  BY RouteValues DEF lengths, points
<1>2. IsFiniteSet(Routes) /\ IsFiniteSet(R)
  BY GameAssumption, FS_Subset
<1>3. Sum(lengths, R \cup {r}) = Sum(lengths, R) + lengths[r] /\ Sum(points, R \cup {r}) = Sum(points, R) + points[r]
  BY <1>1, <1>2, SumOneMore
<1>4. Sum(lengths, R) \in Int /\ Sum(points, R) \in Int
  BY <1>1, <1>2, SumType
<1>5. R \cup {r} \in SUBSET Routes
  OBVIOUS
<1>6. /\ lengthOf(R) = Sum(lengths, R) /\ lengthOf(R \cup {r}) = Sum(lengths, R \cup {r})
      /\ sumRoutePoints(R) = Sum(points, R) /\ sumRoutePoints(R \cup {r}) = Sum(points, R \cup {r})
  BY <1>5, LengthsAreSummed, PointsAreSummed
<1> QED
  BY <1>1, <1>3, <1>4, <1>6

\* The two halves of a double route name each other.
LEMMA PairsAreMutual ==
  ASSUME NEW r \in Routes
  PROVE  /\ Route[r].pair # r
         /\ Route[r].pair \in Routes => Route[Route[r].pair].pair = r
         /\ Route[r].pair = NoRoute \/ Route[r].pair \in Routes
<1>1. validPair(r)
  BY MapIsValid
<1> QED
  BY <1>1, NoRouteIsNone DEF validPair

BoardTypeOK ==
  /\ routeOwner \in [Routes -> Seats \cup {Nobody}]
  /\ claimedRoutes \in [Seats -> SUBSET Routes]
  /\ trainsLeft \in [Seats -> Int] /\ routeScore \in [Seats -> Int]
  /\ stationsLeft \in [Seats -> Int] /\ stationCities \in [Seats -> Seq(Cities)]

\* A player's account of trains, points and stations.
AccountOf(s) ==
  /\ trainsLeft[s] + lengthOf(claimedRoutes[s]) = TrainsPerPlayer
  /\ routeScore[s] = sumRoutePoints(claimedRoutes[s])
  /\ stationsLeft[s] + Len(stationCities[s]) = StationsPerPlayer

\* Who may not claim what: no player both halves of a double route, and with
\* two or three players the other half of a claimed route is closed.
DoublesOK ==
  /\ \A s \in Seats : \A r \in claimedRoutes[s] : Route[r].pair \notin claimedRoutes[s]
  /\ Cardinality(Seats) <= 3 =>
       \A r \in Routes : routeOwner[r] # Nobody /\ Route[r].pair # NoRoute =>
         Route[r].pair \in closedRoutes /\ routeOwner[Route[r].pair] = Nobody

BoardOK ==
  /\ BoardTypeOK
  /\ \A r \in Routes, s \in Seats : routeOwner[r] = s <=> r \in claimedRoutes[s]
  /\ \A s \in Seats : AccountOf(s)
  /\ DoublesOK
  /\ phase = "AWAITING_TUNNEL" => claimability(currentSeat, pendingTunnel.route)

\* The owner of an unclaimed route is no seat.
LEMMA NobodyIsNone == Nobody \notin Seats
BY GameAssumption DEF Nobody

\* A claim keeps the books.
LEMMA ClaimKeepsBoard ==
  ASSUME BoardOK, NEW s \in Seats, NEW r \in Routes, claimability(s, r), NEW d, finishClaim(s, r, d),
         UNCHANGED <<stationsLeft, stationCities>>, phase' # "AWAITING_TUNNEL"
  PROVE  BoardOK'
<1>1. /\ routeOwner \in [Routes -> Seats \cup {Nobody}]
      /\ claimedRoutes \in [Seats -> SUBSET Routes]
      /\ trainsLeft \in [Seats -> Int] /\ routeScore \in [Seats -> Int]
      /\ stationsLeft \in [Seats -> Int] /\ stationCities \in [Seats -> Seq(Cities)]
  BY DEF BoardOK, BoardTypeOK
<1>2. /\ trainsLeft' = [trainsLeft EXCEPT ![s] = @ - Route[r].length]
      /\ routeScore' = [routeScore EXCEPT ![s] = @ + RoutePoints[Route[r].length]]
      /\ routeOwner' = [routeOwner EXCEPT ![r] = s]
      /\ claimedRoutes' = [claimedRoutes EXCEPT ![s] = @ \cup {r}]
      /\ closedRoutes' = siblingsClosed(r)
  BY DEF finishClaim
<1>3. /\ routeOwner[r] = Nobody /\ r \notin closedRoutes /\ Route[r].pair \notin claimedRoutes[s]
  BY DEF claimability
<1>4. /\ \A q \in Routes : routeOwner'[q] = IF q = r THEN s ELSE routeOwner[q]
      /\ \A t \in Seats : claimedRoutes'[t] = IF t = s THEN claimedRoutes[s] \cup {r} ELSE claimedRoutes[t]
  BY <1>1, <1>2
<1>5. Route[r].length \in Int /\ RoutePoints[Route[r].length] \in Int
  BY RouteValues
<1>6. BoardTypeOK'
  BY <1>1, <1>2, <1>5 DEF BoardTypeOK
<1>7. \A t \in Seats : r \notin claimedRoutes[t]
  BY <1>3, NobodyIsNone DEF BoardOK
<1>8. ASSUME NEW q \in Routes, NEW t \in Seats PROVE routeOwner'[q] = t <=> q \in claimedRoutes'[t]
  <2>1. routeOwner[q] = t <=> q \in claimedRoutes[t]
    BY DEF BoardOK
  <2> QED
    BY <1>3, <1>4, <1>7, <2>1, NobodyIsNone
<1>9. ASSUME NEW t \in Seats PROVE AccountOf(t)'
  <2>1. AccountOf(t)
    BY DEF BoardOK
  <2>2. CASE t = s
    <3>1. claimedRoutes[s] \in SUBSET Routes /\ r \in Routes \ claimedRoutes[s]
      BY <1>1, <1>7
    <3>2. /\ lengthOf(claimedRoutes[s] \cup {r}) = lengthOf(claimedRoutes[s]) + Route[r].length
          /\ sumRoutePoints(claimedRoutes[s] \cup {r}) = sumRoutePoints(claimedRoutes[s]) + RoutePoints[Route[r].length]
          /\ lengthOf(claimedRoutes[s]) \in Int /\ sumRoutePoints(claimedRoutes[s]) \in Int
      BY <3>1, RouteAdded
    <3>3. /\ trainsLeft'[s] = trainsLeft[s] - Route[r].length /\ trainsLeft[s] \in Int
          /\ routeScore'[s] = routeScore[s] + RoutePoints[Route[r].length]
          /\ claimedRoutes'[s] = claimedRoutes[s] \cup {r}
      BY <1>1, <1>2
    <3> HIDE <1>2
    <3>4. trainsLeft'[s] + lengthOf(claimedRoutes'[s]) = TrainsPerPlayer
      BY <1>5, <2>1, <2>2, <3>2, <3>3 DEF AccountOf
    <3>5. routeScore'[s] = sumRoutePoints(claimedRoutes'[s])
      BY <2>1, <2>2, <3>2, <3>3 DEF AccountOf
    <3>6. stationsLeft'[s] + Len(stationCities'[s]) = StationsPerPlayer
      BY <2>1, <2>2 DEF AccountOf
    <3> QED
      BY <2>2, <3>4, <3>5, <3>6 DEF AccountOf
  <2>3. CASE t # s
    <3>1. trainsLeft'[t] = trainsLeft[t] /\ routeScore'[t] = routeScore[t] /\ claimedRoutes'[t] = claimedRoutes[t]
      BY <1>1, <1>2, <2>3
    <3> QED
      BY <2>1, <3>1 DEF AccountOf
  <2> QED
    BY <2>2, <2>3
<1>10. ASSUME NEW t \in Seats, NEW q \in claimedRoutes'[t] PROVE Route[q].pair \notin claimedRoutes'[t]
  <2>1. q \in Routes
    BY <1>1, <1>4
  <2>2. \A p \in claimedRoutes[t] : Route[p].pair \notin claimedRoutes[t]
    BY DEF BoardOK, DoublesOK
  <2>3. CASE t # s
    BY <1>4, <1>10, <2>2, <2>3
  <2>4. CASE t = s /\ q = r
    BY <1>3, <1>4, <2>4, PairsAreMutual
  <2>5. CASE t = s /\ q # r
    <3>1. q \in claimedRoutes[s]
      BY <1>4, <1>10, <2>5
    <3>2. Route[q].pair # r
      BY <1>3, <2>1, <3>1, PairsAreMutual
    <3> QED
      BY <1>4, <2>2, <2>5, <3>1, <3>2
  <2> QED
    BY <2>3, <2>4, <2>5
<1>11. ASSUME Cardinality(Seats) <= 3, NEW q \in Routes, routeOwner'[q] # Nobody, Route[q].pair # NoRoute
       PROVE  Route[q].pair \in closedRoutes' /\ routeOwner'[Route[q].pair] = Nobody
  <2>1. Route[q].pair \in Routes /\ Route[Route[q].pair].pair = q
    BY <1>11, PairsAreMutual
  <2>2. \A p \in Routes : routeOwner[p] # Nobody /\ Route[p].pair # NoRoute =>
          Route[p].pair \in closedRoutes /\ routeOwner[Route[p].pair] = Nobody
    BY <1>11 DEF BoardOK, DoublesOK
  <2>3. closedRoutes \subseteq closedRoutes' /\ (Route[r].pair # NoRoute => Route[r].pair \in closedRoutes')
    BY <1>2, <1>11 DEF siblingsClosed
  <2>4. CASE q = r
    <3>1. routeOwner[Route[r].pair] = Nobody
      BY <1>3, <2>1, <2>2, <2>4, NoRouteIsNone
    <3> QED
      BY <1>4, <1>11, <2>1, <2>3, <2>4, <3>1, PairsAreMutual
  <2>5. CASE q # r
    <3>1. routeOwner[q] # Nobody
      BY <1>4, <1>11, <2>5
    <3>2. Route[q].pair \in closedRoutes /\ routeOwner[Route[q].pair] = Nobody
      BY <1>11, <2>2, <3>1
    <3> QED
      BY <1>3, <1>4, <2>1, <2>3, <3>2
  <2> QED
    BY <2>4, <2>5
<1>12. DoublesOK'
  BY <1>10, <1>11 DEF DoublesOK, Nobody, NoRoute
<1> QED
  BY <1>6, <1>8, <1>9, <1>12 DEF BoardOK

\* Routes and stations as they are.
LEMMA BoardStays ==
  ASSUME BoardOK, UNCHANGED <<routeVars, stationVars>>,
         phase' = "AWAITING_TUNNEL" => claimability(currentSeat, pendingTunnel.route)'
  PROVE  BoardOK'
<1>1. UNCHANGED <<trainsLeft, routeOwner, claimedRoutes, closedRoutes, routeScore, stationsLeft, stationCities>>
  BY DEF routeVars, stationVars
<1>2. BoardTypeOK' /\ DoublesOK'
  BY <1>1 DEF BoardOK, BoardTypeOK, DoublesOK, Nobody
<1>3. ASSUME NEW s \in Seats PROVE AccountOf(s)'
  BY <1>1 DEF BoardOK, AccountOf
<1> QED
  BY <1>1, <1>2, <1>3 DEF BoardOK

\* Building a station leaves the records of the board in agreement.
LEMMA StationKeepsBoard ==
  ASSUME BoardOK, NEW s \in Seats, NEW city \in Cities, BuildStation(s, city)
  PROVE  BoardOK'
<1>1. /\ UNCHANGED <<trainsLeft, routeOwner, claimedRoutes, closedRoutes, routeScore>>
      /\ stationsLeft' = [stationsLeft EXCEPT ![s] = @ - 1]
      /\ stationCities' = [stationCities EXCEPT ![s] = Append(@, city)]
      /\ phase' # "AWAITING_TUNNEL"
  BY EndsTurn DEF BuildStation, routeVars
<1>2. stationsLeft \in [Seats -> Int] /\ stationCities \in [Seats -> Seq(Cities)]
  BY DEF BoardOK, BoardTypeOK
<1>3. stationsLeft' \in [Seats -> Int] /\ stationCities' \in [Seats -> Seq(Cities)]
  BY <1>1, <1>2
<1>4. BoardTypeOK' /\ DoublesOK'
  BY <1>1, <1>3 DEF BoardOK, BoardTypeOK, DoublesOK, Nobody
<1>5. ASSUME NEW t \in Seats PROVE AccountOf(t)'
  <2>1. stationsLeft[t] + Len(stationCities[t]) = StationsPerPlayer
    BY DEF BoardOK, AccountOf
  <2>2. stationsLeft[t] \in Int /\ stationCities[t] \in Seq(Cities) /\ Len(stationCities[t]) \in Nat
    BY <1>2
  <2>3. stationsLeft'[t] + Len(stationCities'[t]) = StationsPerPlayer
    <3>1. CASE t = s
      <4>1. stationsLeft'[t] = stationsLeft[t] - 1 /\ stationCities'[t] = Append(stationCities[t], city)
        BY <1>1, <1>2, <3>1
      <4>2. Len(Append(stationCities[t], city)) = Len(stationCities[t]) + 1
        BY <2>2
      <4> QED
        BY <2>1, <2>2, <4>1, <4>2
    <3>2. CASE t # s
      BY <1>1, <1>2, <2>1, <3>2
    <3> QED
      BY <3>1, <3>2
  <2> QED
    BY <1>1, <2>3 DEF BoardOK, AccountOf
<1> QED
  BY <1>1, <1>4, <1>5 DEF BoardOK

\* So does every step.
LEMMA BoardStep ==
  ASSUME PendingOK, BoardOK, [Next]_vars
  PROVE  BoardOK'
<1>0. CASE UNCHANGED vars
  <2>1. UNCHANGED <<routeVars, stationVars, phase, currentSeat, pendingTunnel>>
    BY <1>0 DEF vars, turnVars, pendingVars
  <2> QED
    BY <2>1, BoardStays DEF BoardOK, claimability, routeVars
<1>1. ASSUME NEW s \in Seats, KeepSetupTickets(s) PROVE BoardOK'
  <2>1. phase' # "AWAITING_TUNNEL" /\ UNCHANGED <<routeVars, stationVars>>
    BY <1>1 DEF KeepSetupTickets, Turns!KeepSetupTickets
  <2> QED
    BY <2>1, BoardStays
<1>2. ASSUME NEW s \in Seats, NEW ends, afterCard(s, ends), UNCHANGED <<routeVars, stationVars>> PROVE BoardOK'
  <2>1. phase' # "AWAITING_TUNNEL"
    BY <1>2, EndsTurn DEF afterCard
  <2> QED
    BY <1>2, <2>1, BoardStays
<1>3. ASSUME NEW s \in Seats, endTurn(s), UNCHANGED <<routeVars, stationVars>> PROVE BoardOK'
  BY <1>3, EndsTurn, BoardStays
<1>4. ASSUME NEW s \in Seats, NEW r \in Routes, NEW pay, ClaimRoute(s, r, pay) PROVE BoardOK'
  BY <1>4, EndsTurn, ClaimKeepsBoard DEF ClaimRoute, stationVars
<1>5. ASSUME NEW s \in Seats, NEW r \in Routes, NEW pay, BeginTunnelClaim(s, r, pay) PROVE BoardOK'
  <2>1. claimability(s, r) /\ UNCHANGED <<stationVars, stationsLeft, stationCities>> /\ s = currentSeat
    BY <1>5 DEF BeginTunnelClaim, stationVars, Turns!mayAct
  <2>2. \/ (\E d : finishClaim(s, r, d)) /\ endTurn(s)
        \/ UNCHANGED <<routeVars, currentSeat>> /\ pendingTunnel'.route = r
    BY <1>5 DEF BeginTunnelClaim
  <2>3. CASE UNCHANGED <<routeVars, currentSeat>> /\ pendingTunnel'.route = r
    <3>1. claimability(currentSeat, pendingTunnel.route)'
      BY <2>1, <2>3 DEF claimability, routeVars, Nobody
    <3> QED
      BY <2>1, <2>3, <3>1, BoardStays
  <2> QED
    BY <2>1, <2>2, <2>3, EndsTurn, ClaimKeepsBoard
<1>6. ASSUME NEW s \in Seats, AcceptTunnel(s) PROVE BoardOK'
  <2>1. s = currentSeat /\ phase = "AWAITING_TUNNEL" /\ endTurn(s) /\ UNCHANGED <<stationsLeft, stationCities>>
    BY <1>6 DEF AcceptTunnel, stationVars, Turns!mayAct
  <2>2. claimability(s, pendingTunnel.route) /\ pendingTunnel.route \in Routes
    BY <2>1 DEF BoardOK, PendingOK, ScratchOK
  <2>3. PICK d : finishClaim(s, pendingTunnel.route, d)
    BY <1>6 DEF AcceptTunnel
  <2> QED
    BY <2>1, <2>2, <2>3, EndsTurn, ClaimKeepsBoard
<1>7. ASSUME NEW s \in Seats, DrawTickets(s) PROVE BoardOK'
  <2>1. phase' # "AWAITING_TUNNEL" /\ UNCHANGED <<routeVars, stationVars>>
    BY <1>7 DEF DrawTickets
  <2> QED
    BY <2>1, BoardStays
<1>8. ASSUME NEW s \in Seats, Resign(s) PROVE BoardOK'
  <2>1. UNCHANGED <<routeVars, stationVars>> /\ Turns!Resign(s) /\ releaseDecision(s)
    BY <1>8 DEF Resign
  <2>2. CASE phase' = "AWAITING_TUNNEL"
    <3>1. phase = "AWAITING_TUNNEL" /\ UNCHANGED currentSeat /\ ~Turns!holdsTurn(s)
      BY <2>1, <2>2 DEF Turns!Resign, Turns!advanceOrFinish
    <3>2. UNCHANGED pendingTunnel
      BY <2>1, <3>1 DEF releaseDecision, pendingVars
    <3>3. claimability(currentSeat, pendingTunnel.route)
      BY <3>1 DEF BoardOK
    <3>4. claimability(currentSeat, pendingTunnel.route)'
      BY <2>1, <3>1, <3>2, <3>3 DEF claimability, routeVars, Nobody
    <3> QED
      BY <2>1, <3>4, BoardStays
  <2> QED
    BY <2>1, <2>2, BoardStays
<1>9. ASSUME NEW s \in Seats, RefundTunnel(s) \/ EndDraw(s) \/ KeepTickets(s) PROVE BoardOK'
  BY <1>3, <1>9 DEF RefundTunnel, EndDraw, KeepTickets
<1>10. ASSUME NEW s \in Seats, DrawFromDeck(s) \/ \E c \in Cards : DrawFaceUp(s, c) PROVE BoardOK'
  BY <1>2, <1>10 DEF DrawFromDeck, DrawFaceUp
<1> QED
  BY <1>0, <1>1, <1>4, <1>5, <1>6, <1>7, <1>8, <1>9, <1>10, StationKeepsBoard DEF Next, Claim

\* They agree at the start, ...
LEMMA BoardStarts == Init => BoardOK
<1> SUFFICES ASSUME Init PROVE BoardOK
  OBVIOUS
<1>1. /\ routeOwner = [r \in Routes |-> Nobody] /\ claimedRoutes = [s \in Seats |-> {}] /\ closedRoutes = {}
      /\ routeScore = [s \in Seats |-> 0] /\ stationCities = [s \in Seats |-> <<>>]
      /\ stationsLeft = [s \in Seats |-> StationsPerPlayer]
      /\ trainsLeft = [s \in Seats |-> TrainsPerPlayer] /\ phase = "SETUP_TICKETS"
  BY DEF Init, Turns!Init
<1>2. TrainsPerPlayer \in Int /\ StationsPerPlayer \in Int
  BY MapIsValid
<1>3. <<>> \in Seq(Cities) /\ Len(<<>>) = 0
  OBVIOUS
<1>4. BoardTypeOK
  BY <1>1, <1>2, <1>3 DEF BoardTypeOK
<1>5. lengthOf({}) = 0 /\ sumRoutePoints({}) = 0
  BY LengthsAreSummed, PointsAreSummed, SumOfNone
<1>6. \A s \in Seats : AccountOf(s)
  BY <1>1, <1>2, <1>3, <1>5 DEF AccountOf
<1>7. DoublesOK
  BY <1>1 DEF DoublesOK
<1> QED
  BY <1>1, <1>4, <1>6, <1>7, NobodyIsNone DEF BoardOK

\* ... and so always.
LEMMA BoardInvariant == Spec => [](PendingOK /\ BoardOK)
<1>1. Init => PendingOK /\ BoardOK
  BY StartsAsTurns, BoardStarts
<1>2. PendingOK /\ BoardOK /\ [Next]_vars => (PendingOK /\ BoardOK)'
  BY Follows, BoardStep
<1> QED
  BY <1>1, <1>2, PTL DEF Spec

(***************************************************************************)
(* The route owners, the players' lists, the trains, the running score and *)
(* the stations agree on every map and with any number of players, and no  *)
(* double route is claimed twice where it may be claimed once only.        *)
(***************************************************************************)
THEOREM BoardAgreesHolds == Spec => []BoardAgrees
<1>1. PendingOK /\ BoardOK => BoardAgrees
  BY DEF BoardAgrees, BoardOK, AccountOf, DoublesOK
<1> QED
  BY <1>1, BoardInvariant, PTL

-----------------------------------------------------------------------------
(***************************************************************************)
(* What a view offers is what Apply accepts.                               *)
(***************************************************************************)
\* Cards of one colour and locomotives: their number.
LEMMA TwoKinds ==
  ASSUME NEW b \in Bags, NEW c \in Colours, \A d \in Cards \ {c, Loco} : b[d] = 0
  PROVE  Size(b) = b[c] + b[Loco]
<1>1. c \in Cards /\ Loco \in Cards /\ c # Loco
  BY MapIsValid DEF Cards
<1>2. \A d \in Cards : b[d] \in Nat
  BY DEF Bags
<1> DEFINE one == [d \in Cards |-> IF d = c THEN b[c] ELSE 0]
<1>3. (\A d \in Cards : one[d] \in Int) /\ one[c] = b[c] /\ one[Loco] = 0 /\ \A d \in Cards \ {c} : one[d] = 0
  BY <1>1, <1>2
<1> HIDE DEF one
<1>4. Summable(NoCards, Cards) /\ NoCards[c] = 0 /\ \A d \in Cards \ {c} : one[d] = NoCards[d]
  BY <1>1, <1>3, CardsAreFinite, NoCardsIsEmpty DEF Summable, Bags
<1>5. Sum(one, Cards) = Sum(NoCards, Cards) - NoCards[c] + one[c] /\ Summable(one, Cards)
  BY <1>1, <1>3, <1>4, SumChange
<1>6. b[Loco] \in Int /\ \A d \in Cards \ {Loco} : b[d] = one[d]
  BY <1>1, <1>2, <1>3
<1>7. Sum(b, Cards) = Sum(one, Cards) - one[Loco] + b[Loco]
  BY <1>1, <1>5, <1>6, SumChange
<1>8. Size(b) = Sum(b, Cards) /\ Sum(NoCards, Cards) = 0
  BY NoCardsIsEmpty DEF Size, Sum
<1> QED
  BY <1>1, <1>2, <1>3, <1>4, <1>5, <1>7, <1>8

\* A payment shows at most one colour, ...
LEMMA OneColour ==
  ASSUME NEW pay, Cardinality(coloursIn(pay)) <= 1, NEW c \in coloursIn(pay), NEW d \in coloursIn(pay)
  PROVE  c = d
<1> SUFFICES ASSUME c # d PROVE FALSE
  OBVIOUS
<1>1. IsFiniteSet(coloursIn(pay))
  BY GameAssumption, FS_Subset DEF coloursIn
<1>2. IsFiniteSet({c}) /\ Cardinality({c}) = 1
  BY FS_Singleton
<1>3. Cardinality({c} \cup {d}) = 2
  BY <1>2, FS_AddElement
<1>4. {c} \cup {d} \subseteq coloursIn(pay)
  OBVIOUS
<1>5. Cardinality({c} \cup {d}) <= Cardinality(coloursIn(pay)) /\ Cardinality(coloursIn(pay)) \in Nat
  BY <1>1, <1>4, FS_Subset, FS_CardinalityType
<1> QED
  BY <1>3, <1>5

\* ... and one that does is a payment.
LEMMA OneColourPays ==
  ASSUME NEW hand \in Bags, NEW pay \in Bags, NEW c \in Colours, \A d \in Cards \ {c, Loco} : pay[d] = 0,
         NEW k \in Nat, pay[c] + pay[Loco] = k, pay[c] <= hand[c], pay[Loco] <= hand[Loco]
  PROVE  pay \in payments(hand, k) /\ paymentColor(pay) \in {Loco, c}
<1>1. c \in Cards /\ Loco \in Cards /\ c # Loco
  BY MapIsValid DEF Cards
<1>2. Size(pay) = k
  BY TwoKinds
<1>3. \A d \in Cards : pay[d] \in Nat /\ pay[d] <= hand[d] /\ pay[d] <= k
  BY <1>1 DEF Bags
<1>4. pay \in Picks(k, hand)
  BY <1>2, <1>3 DEF Picks, Bags
<1>5. coloursIn(pay) \subseteq {c}
  BY MapIsValid DEF coloursIn, Cards
<1>6. Cardinality(coloursIn(pay)) <= 1
  <2>1. IsFiniteSet({c}) /\ Cardinality({c}) = 1
    BY FS_Singleton
  <2> QED
    BY <1>5, <2>1, FS_Subset
<1> QED
  BY <1>4, <1>5, <1>6 DEF payments, paymentColor

\* Every option of a route is a payment that is accepted.
LEMMA OptionsAreAccepted ==
  ASSUME NEW r \in Routes, NEW hand \in Bags, NEW pay \in PaymentOptions(r, hand)
  PROVE  pay \in payments(hand, Route[r].length) /\ validatePayment(r, pay)
<1> DEFINE remaining  == Route[r].length - Route[r].locos
           candidates == IF ~IsFerry(r) /\ Route[r].color # Gray THEN {Route[r].color} ELSE Colours
           used(c)    == Least(hand[c], remaining)
           locos(c)   == Route[r].locos + remaining - used(c)
<1>1. PICK c \in candidates : locos(c) <= hand[Loco] /\ pay = [NoCards EXCEPT ![c] = used(c), ![Loco] = locos(c)]
  BY DEF PaymentOptions
<1>2. /\ Route[r].length \in Nat /\ Route[r].locos \in 0..Route[r].length /\ Route[r].color \in Colours \cup {Gray}
      /\ IsFerry(r) => Route[r].color = Gray
  BY MapIsValid, RouteValues DEF validRouteAttributes
<1>3. c \in Colours /\ c # Loco /\ c \in Cards /\ Loco \in Cards
  BY <1>2, MapIsValid DEF Cards
<1>4. hand[c] \in Nat /\ hand[Loco] \in Nat
  BY <1>3 DEF Bags
<1>5. /\ used(c) \in Nat /\ used(c) <= hand[c] /\ locos(c) \in Nat /\ locos(c) >= Route[r].locos
      /\ used(c) + locos(c) = Route[r].length
  BY <1>2, <1>4 DEF Least
<1> HIDE DEF used, locos
<1>6. pay \in Bags /\ pay[c] = used(c) /\ pay[Loco] = locos(c) /\ \A d \in Cards \ {c, Loco} : pay[d] = 0
  BY <1>1, <1>3, <1>5 DEF NoCards, Bags
<1>7. pay \in payments(hand, Route[r].length) /\ paymentColor(pay) \in {Loco, c}
  <2>1. /\ pay[c] + pay[Loco] = Route[r].length /\ pay[c] <= hand[c] /\ pay[Loco] <= hand[Loco]
        /\ Route[r].length \in Nat
    BY <1>1, <1>2, <1>5, <1>6
  <2> QED
    BY <1>3, <1>6, <2>1, OneColourPays
<1>8. ~IsFerry(r) /\ Route[r].color # Gray => c = Route[r].color
  OBVIOUS
<1> QED
  BY <1>5, <1>6, <1>7, <1>8 DEF validatePayment

\* A route that some payment pays for has an option.
LEMMA PaidHasOption ==
  ASSUME NEW r \in Routes, NEW hand \in Bags, NEW pay \in payments(hand, Route[r].length), validatePayment(r, pay)
  PROVE  PaymentOptions(r, hand) # {}
<1> DEFINE remaining  == Route[r].length - Route[r].locos
           candidates == IF ~IsFerry(r) /\ Route[r].color # Gray THEN {Route[r].color} ELSE Colours
           used(c)    == Least(hand[c], remaining)
           locos(c)   == Route[r].locos + remaining - used(c)
<1>1. /\ Route[r].length \in Nat /\ Route[r].locos \in 0..Route[r].length /\ Route[r].color \in Colours \cup {Gray}
      /\ IsFerry(r) => Route[r].color = Gray
  BY MapIsValid, RouteValues DEF validRouteAttributes
<1>2. pay \in Picks(Route[r].length, hand) /\ Cardinality(coloursIn(pay)) <= 1
  BY DEF payments
<1>3. pay \in Bags /\ Size(pay) = Route[r].length /\ \A c \in Cards : pay[c] <= hand[c]
  BY <1>2, PickedCards
<1>4. \E c \in candidates : c \in Colours /\ coloursIn(pay) \subseteq {c}
  <2>1. CASE coloursIn(pay) = {}
    BY <1>1, <2>1, GameAssumption
  <2>2. CASE coloursIn(pay) # {}
    <3> DEFINE c == CHOOSE d \in coloursIn(pay) : TRUE
    <3>1. c \in coloursIn(pay) /\ paymentColor(pay) = c
      BY <2>2 DEF paymentColor
    <3>2. c \in Colours /\ c # Loco
      BY <3>1, MapIsValid DEF coloursIn
    <3> HIDE DEF c
    <3>3. coloursIn(pay) \subseteq {c}
      BY <1>2, <3>1, OneColour
    <3>4. c \in candidates
      BY <3>1, <3>2 DEF validatePayment
    <3> QED
      BY <3>2, <3>3, <3>4
  <2> QED
    BY <2>1, <2>2
<1>5. PICK c \in candidates : c \in Colours /\ coloursIn(pay) \subseteq {c}
  BY <1>4
<1>6. c # Loco /\ c \in Cards /\ Loco \in Cards
  BY <1>5, MapIsValid DEF Cards
<1>7. /\ hand[c] \in Nat /\ hand[Loco] \in Nat /\ pay[c] \in Nat /\ pay[Loco] \in Nat
      /\ pay[c] <= hand[c] /\ pay[Loco] <= hand[Loco]
  BY <1>3, <1>6 DEF Bags
<1>8. pay[c] + pay[Loco] = Route[r].length
  <2>1. \A d \in Cards \ {c, Loco} : pay[d] = 0
    BY <1>3, <1>5 DEF coloursIn, Cards, Bags
  <2> QED
    BY <1>3, <1>5, <2>1, TwoKinds
<1>9. pay[Loco] >= Route[r].locos
  BY <1>1, <1>7 DEF validatePayment, IsFerry
<1>10. pay[c] <= remaining /\ remaining \in Nat
  BY <1>1, <1>7, <1>8, <1>9
<1>11. locos(c) <= hand[Loco]
  BY <1>1, <1>7, <1>8, <1>10 DEF Least
<1> HIDE DEF used, locos, candidates
<1>12. [NoCards EXCEPT ![c] = used(c), ![Loco] = locos(c)] \in
         {[NoCards EXCEPT ![e] = used(e), ![Loco] = locos(e)] : e \in {e \in candidates : locos(e) <= hand[Loco]}}
  BY <1>5, <1>11
<1>13. PaymentOptions(r, hand) =
         {[NoCards EXCEPT ![e] = used(e), ![Loco] = locos(e)] : e \in {e \in candidates : locos(e) <= hand[Loco]}}
  BY DEF PaymentOptions, used, locos, candidates
<1> QED
  BY <1>12, <1>13

\* The routes a view offers are those with a payment validation accepts.
LEMMA ClaimableRoutes ==
  ASSUME CardsOK, NEW s \in Seats
  PROVE  claimableRoutes(s) =
           {r \in Routes : claimability(s, r)
              /\ \E pay \in payments(hands[s], Route[r].length) : validatePayment(r, pay)}
<1>1. hands[s] \in Bags
  BY DEF CardsOK, CardsTypeOK
<1>2. ASSUME NEW r \in Routes
      PROVE  PaymentOptions(r, hands[s]) # {} <=> \E pay \in payments(hands[s], Route[r].length) : validatePayment(r, pay)
  <2>1. ASSUME PaymentOptions(r, hands[s]) # {}
        PROVE  \E pay \in payments(hands[s], Route[r].length) : validatePayment(r, pay)
    <3>1. PICK pay : pay \in PaymentOptions(r, hands[s])
      BY <2>1
    <3> QED
      BY <1>1, <3>1, OptionsAreAccepted
  <2> QED
    BY <1>1, <2>1, PaidHasOption
<1> QED
  BY <1>2 DEF claimableRoutes

-----------------------------------------------------------------------------
(***************************************************************************)
(* Tickets: every ticket in play is in one place.                          *)
(***************************************************************************)
distinct(q) == \A i, j \in 1..Len(q) : q[i] = q[j] => i = j

\* A pile put under another.
LEMMA Joined ==
  ASSUME NEW p \in Seq(Tickets), NEW q \in Seq(Tickets)
  PROVE  /\ p \o q \in Seq(Tickets)
         /\ Range(p \o q) = Range(p) \cup Range(q)
         /\ distinct(p) /\ distinct(q) /\ Range(p) \cap Range(q) = {} => distinct(p \o q)
<1> DEFINE r == p \o q
<1>1. Len(p) \in Nat /\ Len(q) \in Nat /\ Len(r) = Len(p) + Len(q) /\ r \in Seq(Tickets)
  OBVIOUS
<1>2. /\ DOMAIN p = 1..Len(p) /\ DOMAIN q = 1..Len(q) /\ DOMAIN r = 1..Len(r)
  OBVIOUS
<1>3. \A i \in 1..Len(r) : r[i] = IF i <= Len(p) THEN p[i] ELSE q[i - Len(p)]
  OBVIOUS
<1> HIDE DEF r
<1>4. \A i \in 1..Len(p) : i \in 1..Len(r) /\ r[i] = p[i]
  BY <1>1, <1>3
<1>5. \A i \in 1..Len(q) : i + Len(p) \in 1..Len(r) /\ r[i + Len(p)] = q[i]
  <2> SUFFICES ASSUME NEW i \in 1..Len(q) PROVE i + Len(p) \in 1..Len(r) /\ r[i + Len(p)] = q[i]
    OBVIOUS
  <2>1. i + Len(p) \in 1..Len(r) /\ ~(i + Len(p) <= Len(p)) /\ (i + Len(p)) - Len(p) = i
    BY <1>1
  <2> QED
    BY <1>3, <2>1
<1>6. \A i \in 1..Len(r) : i \in 1..Len(p) \/ i - Len(p) \in 1..Len(q)
  BY <1>1
<1>7. Range(r) = Range(p) \cup Range(q)
  <2>1. ASSUME NEW x \in Range(r) PROVE x \in Range(p) \cup Range(q)
    <3>1. PICK i \in 1..Len(r) : x = r[i]
      BY <1>2 DEF Range
    <3>2. CASE i <= Len(p)
      BY <1>1, <1>2, <1>3, <3>1, <3>2 DEF Range
    <3>3. CASE ~(i <= Len(p))
      <4>1. i - Len(p) \in 1..Len(q) /\ x = q[i - Len(p)]
        BY <1>1, <1>3, <3>1, <3>3
      <4> QED
        BY <1>2, <4>1 DEF Range
    <3> QED
      BY <3>2, <3>3
  <2>2. Range(p) \subseteq Range(r)
    BY <1>2, <1>4 DEF Range
  <2>3. Range(q) \subseteq Range(r)
    BY <1>2, <1>5 DEF Range
  <2> QED
    BY <2>1, <2>2, <2>3
<1>8. ASSUME distinct(p), distinct(q), Range(p) \cap Range(q) = {} PROVE distinct(r)
  <2> SUFFICES ASSUME NEW i \in 1..Len(r), NEW j \in 1..Len(r), r[i] = r[j] PROVE i = j
    BY DEF distinct
  <2>1. \A x \in 1..Len(p), y \in 1..Len(q) : p[x] # q[y]
    BY <1>2, <1>8 DEF Range
  <2>2. CASE i <= Len(p) /\ j <= Len(p)
    BY <1>1, <1>3, <1>8, <2>2 DEF distinct
  <2>3. CASE i > Len(p) /\ j > Len(p)
    <3>1. i - Len(p) \in 1..Len(q) /\ j - Len(p) \in 1..Len(q) /\ q[i - Len(p)] = q[j - Len(p)]
      BY <1>1, <1>3, <2>3
    <3>2. i - Len(p) = j - Len(p)
      BY <1>8, <3>1 DEF distinct
    <3> QED
      BY <1>1, <3>2
  <2>4. CASE i <= Len(p) /\ j > Len(p)
    <3>1. i \in 1..Len(p) /\ j - Len(p) \in 1..Len(q) /\ r[i] = p[i] /\ r[j] = q[j - Len(p)]
      BY <1>1, <1>3, <2>4
    <3> QED
      BY <2>1, <3>1
  <2>5. CASE i > Len(p) /\ j <= Len(p)
    <3>1. j \in 1..Len(p) /\ i - Len(p) \in 1..Len(q) /\ r[j] = p[j] /\ r[i] = q[i - Len(p)]
      BY <1>1, <1>3, <2>5
    <3> QED
      BY <2>1, <3>1
  <2> QED
    BY <1>1, <2>2, <2>3, <2>4, <2>5
<1> QED
  BY <1>1, <1>7, <1>8 DEF r

\* A pile cut in two.
LEMMA Cut ==
  ASSUME NEW q \in Seq(Tickets), distinct(q), NEW n \in 0..Len(q)
  PROVE  /\ Range(q) = Range(SubSeq(q, 1, n)) \cup Range(SubSeq(q, n + 1, Len(q)))
         /\ distinct(SubSeq(q, 1, n)) /\ distinct(SubSeq(q, n + 1, Len(q)))
         /\ Range(SubSeq(q, 1, n)) \cap Range(SubSeq(q, n + 1, Len(q))) = {}
<1> DEFINE a == SubSeq(q, 1, n)
           b == SubSeq(q, n + 1, Len(q))
<1>1. Len(q) \in Nat /\ n \in Nat /\ n <= Len(q) /\ DOMAIN q = 1..Len(q)
  OBVIOUS
<1>2. a \in Seq(Tickets) /\ Len(a) = n /\ DOMAIN a = 1..n /\ \A i \in 1..n : a[i] = q[i]
  OBVIOUS
<1>3. b \in Seq(Tickets) /\ Len(b) = Len(q) - n /\ DOMAIN b = 1..(Len(q) - n) /\ \A i \in 1..(Len(q) - n) : b[i] = q[i + n]
  OBVIOUS
<1> HIDE DEF a, b
<1>4. Range(q) = Range(a) \cup Range(b)
  <2>1. ASSUME NEW x \in Range(q) PROVE x \in Range(a) \cup Range(b)
    <3>1. PICK i \in 1..Len(q) : x = q[i]
      BY <1>1 DEF Range
    <3>2. CASE i <= n
      <4>1. i \in 1..n /\ a[i] = q[i]
        BY <1>1, <1>2, <3>2
      <4> QED
        BY <1>2, <3>1, <4>1 DEF Range
    <3>3. CASE i > n
      <4>1. i - n \in 1..(Len(q) - n) /\ (i - n) + n = i
        BY <1>1, <3>3
      <4>2. b[i - n] = q[i]
        BY <1>3, <4>1
      <4> QED
        BY <1>3, <3>1, <4>1, <4>2 DEF Range
    <3> QED
      BY <1>1, <3>2, <3>3
  <2>2. Range(a) \subseteq Range(q)
    BY <1>1, <1>2 DEF Range
  <2>3. \A i \in 1..(Len(q) - n) : i + n \in 1..Len(q)
    BY <1>1
  <2>4. Range(b) \subseteq Range(q)
    BY <1>1, <1>3, <2>3 DEF Range
  <2> QED
    BY <2>1, <2>2, <2>4
<1>5. distinct(a) /\ distinct(b) /\ Range(a) \cap Range(b) = {}
  <2>1. \A i, j \in 1..Len(q) : q[i] = q[j] => i = j
    BY DEF distinct
  <2>2. distinct(a)
    BY <1>1, <1>2, <2>1 DEF distinct
  <2>3. distinct(b)
    <3> SUFFICES ASSUME NEW i \in 1..(Len(q) - n), NEW j \in 1..(Len(q) - n), b[i] = b[j] PROVE i = j
      BY <1>3 DEF distinct
    <3>1. i + n \in 1..Len(q) /\ j + n \in 1..Len(q) /\ q[i + n] = q[j + n]
      <4>1. i + n \in 1..Len(q) /\ j + n \in 1..Len(q)
        BY <1>1
      <4>2. b[i] = q[i + n] /\ b[j] = q[j + n]
        BY <1>3
      <4> QED
        BY <4>1, <4>2
    <3>2. i + n = j + n
      BY <2>1, <3>1
    <3> QED
      BY <1>1, <3>2
  <2>4. ASSUME NEW x \in Range(a), x \in Range(b) PROVE FALSE
    <3>1. PICK i \in 1..n : x = q[i]
      BY <1>2 DEF Range
    <3>2. PICK j \in 1..(Len(q) - n) : x = q[j + n]
      BY <1>3, <2>4 DEF Range
    <3>3. i \in 1..Len(q) /\ j + n \in 1..Len(q) /\ i # j + n
      BY <1>1
    <3> QED
      BY <2>1, <3>1, <3>2, <3>3
  <2> QED
    BY <2>2, <2>3, <2>4
<1> QED
  BY <1>4, <1>5 DEF a, b

\* What is put back is what was not kept, each ticket once.
LEMMA ReturnedTickets ==
  ASSUME PendingOK, distinct(pendingTicketDraw), NEW keep
  PROVE  /\ Range(returned(keep)) = Range(pendingTicketDraw) \ keep
         /\ distinct(returned(keep)) /\ returned(keep) \in Seq(Tickets)
<1> DEFINE p == pendingTicketDraw
           back == {i \in DOMAIN pendingTicketDraw : pendingTicketDraw[i] \notin keep}
           nth(k) == CHOOSE i \in back : Cardinality({j \in back : j < i}) = k - 1
           N == Cardinality(back)
<1>1. DOMAIN p = 1..Len(p) /\ Len(p) \in Nat
  BY DEF PendingOK
<1>2. IsFiniteSet(back) /\ N \in Nat /\ \A i \in back : i \in Int
  <2>1. IsFiniteSet(1..Len(p))
    BY <1>1, FS_Interval
  <2>2. back \subseteq 1..Len(p)
    BY <1>1
  <2> QED
    BY <2>1, <2>2, FS_Subset, FS_CardinalityType
<1>3. returned(keep) = [k \in 1..N |-> p[nth(k)]]
  BY DEF returned
<1>4. ASSUME NEW k \in 1..N PROVE nth(k) \in back /\ Place(back, nth(k)) = k - 1
  BY <1>2, PlaceIsTaken DEF Place
<1>5. ASSUME NEW i \in back PROVE \E k \in 1..N : nth(k) = i
  <2> HIDE DEF back, nth
  <2>1. Place(back, i) \in Nat /\ Place(back, i) < N
    BY <1>2, PlaceIsOwn DEF N
  <2> DEFINE k == Place(back, i) + 1
  <2>2. k \in 1..N /\ k - 1 = Place(back, i)
    BY <1>2, <2>1
  <2> HIDE DEF k
  <2>3. nth(k) \in back /\ Place(back, nth(k)) = Place(back, i)
    BY <1>4, <2>2
  <2>4. nth(k) = i
    BY <1>2, <2>3, PlaceIsOwn
  <2> QED
    BY <2>2, <2>4
<1>6. \A i \in DOMAIN p : i \in back <=> p[i] \notin keep
  OBVIOUS
<1>7. back \subseteq DOMAIN p
  OBVIOUS
<1>8. returned(keep) \in Seq(Tickets)
  BY ReturnedAreTickets
<1> HIDE DEF back, nth, N
<1>9. DOMAIN returned(keep) = 1..N /\ Len(returned(keep)) = N
  BY <1>2, <1>3
<1>10. Range(returned(keep)) = Range(p) \ keep
  <2>1. ASSUME NEW x \in Range(returned(keep)) PROVE x \in Range(p) \ keep
    <3>1. PICK k \in 1..N : x = p[nth(k)]
      BY <1>3, <1>9 DEF Range
    <3> QED
      BY <1>4, <1>6, <1>7, <3>1 DEF Range
  <2>2. ASSUME NEW x \in Range(p) \ keep PROVE x \in Range(returned(keep))
    <3>1. PICK i \in back : x = p[i]
      BY <1>6 DEF Range
    <3>2. PICK k \in 1..N : nth(k) = i
      BY <1>5
    <3> QED
      BY <1>3, <1>9, <3>1, <3>2 DEF Range
  <2> QED
    BY <2>1, <2>2
<1>11. distinct(returned(keep))
  <2> SUFFICES ASSUME NEW k \in 1..N, NEW l \in 1..N, p[nth(k)] = p[nth(l)] PROVE k = l
    BY <1>3, <1>9 DEF distinct
  <2>1. nth(k) \in DOMAIN p /\ nth(l) \in DOMAIN p
    BY <1>4, <1>7
  <2>2. nth(k) = nth(l)
    BY <1>1, <2>1 DEF distinct
  <2>3. k - 1 = l - 1
    BY <1>4, <2>2
  <2> QED
    BY <2>3
<1> QED
  BY <1>8, <1>10, <1>11

\* The tickets in a seat's hand, and those still to choose from at setup.
inHand(s) == tickets[s] \cup setupTicketOffer[s]

\* The tickets in play.
inPlay == Range(ticketDeck) \cup Range(pendingTicketDraw) \cup UNION {tickets[s] : s \in Seats}

TicketsOK ==
  /\ tickets \in [Seats -> SUBSET Tickets]
  /\ setupTicketOffer \in [Seats -> SUBSET Tickets]
  /\ distinct(ticketDeck) /\ distinct(pendingTicketDraw)
  /\ Range(ticketDeck) \cap Range(pendingTicketDraw) = {}
  /\ \A s \in Seats : inHand(s) \cap (Range(ticketDeck) \cup Range(pendingTicketDraw)) = {}
  /\ \A s, u \in Seats : s # u => inHand(s) \cap inHand(u) = {}

\* What a step shows: the tickets stay in their places, and in play.
Kept == TicketsOK' /\ inPlay' = inPlay

\* The empty sequence holds nothing twice.
LEMMA NothingPending == Range(<<>>) = {} /\ distinct(<<>>)
BY DEF Range, distinct

\* A step that touches no ticket.
LEMMA TicketsStay ==
  ASSUME TicketsOK, UNCHANGED ticketVars, UNCHANGED pendingTicketDraw
  PROVE  Kept
BY DEF Kept, TicketsOK, inPlay, inHand, ticketVars, distinct, Range, Tickets

\* A turn that ends without a decision about tickets.
LEMMA TurnKeepsTickets ==
  ASSUME PendingOK, TicketsOK, UNCHANGED ticketVars, NEW s, endTurn(s),
         phase \in {"NORMAL", "AWAITING_SECOND_DRAW", "AWAITING_TUNNEL"}
  PROVE  Kept
<1>1. pendingTicketDraw = <<>> /\ pendingTicketDraw' = <<>>
  BY EndsTurn DEF PendingOK, ScratchOK
<1> QED
  BY <1>1, TicketsStay

\* At setup a seat keeps some of its offer, and nobody else's tickets move.
LEMMA SetupKeepsTickets ==
  ASSUME PendingOK, TicketsOK, NEW s \in Seats, KeepSetupTickets(s)
  PROVE  TicketsOK'
<1>1. PICK keep \in SUBSET setupTicketOffer[s] : tickets' = [tickets EXCEPT ![s] = @ \cup keep]
  BY DEF KeepSetupTickets
<1>2. /\ setupTicketOffer' = [setupTicketOffer EXCEPT ![s] = {}]
      /\ UNCHANGED <<ticketDeck, pendingTicketDraw>>
  BY DEF KeepSetupTickets, pendingVars
<1>3. tickets' \in [Seats -> SUBSET Tickets] /\ setupTicketOffer' \in [Seats -> SUBSET Tickets]
  <2>1. tickets[s] \cup keep \in SUBSET Tickets
    BY DEF TicketsOK
  <2> QED
    BY <1>1, <1>2, <2>1 DEF TicketsOK
<1>4. \A u \in Seats : inHand(u)' \subseteq inHand(u)
  <2>1. \A u \in Seats : tickets'[u] = IF u = s THEN tickets[s] \cup keep ELSE tickets[u]
    BY <1>1 DEF TicketsOK
  <2>2. \A u \in Seats : setupTicketOffer'[u] = IF u = s THEN {} ELSE setupTicketOffer[u]
    BY <1>2 DEF TicketsOK
  <2> QED
    BY <2>1, <2>2 DEF inHand
<1>5. Range(ticketDeck)' = Range(ticketDeck) /\ Range(pendingTicketDraw)' = Range(pendingTicketDraw)
  BY <1>2 DEF Range
<1>6. distinct(ticketDeck)' /\ distinct(pendingTicketDraw)'
  BY <1>2 DEF TicketsOK, distinct
<1>7. \A u \in Seats : inHand(u)' \cap (Range(ticketDeck)' \cup Range(pendingTicketDraw)') = {}
  BY <1>4, <1>5 DEF TicketsOK
<1>8. \A u, v \in Seats : u # v => inHand(u)' \cap inHand(v)' = {}
  BY <1>4 DEF TicketsOK
<1>9. (Range(ticketDeck) \cap Range(pendingTicketDraw) = {})'
  BY <1>5 DEF TicketsOK
<1> QED
  BY <1>3, <1>6, <1>7, <1>8, <1>9 DEF TicketsOK, Tickets

\* Tickets move from the top of the deck to the offer.
LEMMA DrawKeepsTickets ==
  ASSUME PendingOK, TicketsOK, NEW s \in Seats, DrawTickets(s)
  PROVE  Kept
<1> DEFINE n == Least(ticketDrawCount, Len(ticketDeck))
<1>1. /\ phase = "NORMAL" /\ UNCHANGED <<tickets, setupTicketOffer>>
      /\ pendingTicketDraw' = SubSeq(ticketDeck, 1, n)
      /\ ticketDeck' = SubSeq(ticketDeck, n + 1, Len(ticketDeck))
  BY DEF DrawTickets, Turns!mayAct
<1>2. n \in 0..Len(ticketDeck) /\ ticketDeck \in Seq(Tickets)
  <2>1. ticketDrawCount \in Nat
    BY GameAssumption
  <2> QED
    BY <2>1 DEF PendingOK, Least
<1> HIDE DEF n
<1>3. /\ Range(ticketDeck) = Range(pendingTicketDraw') \cup Range(ticketDeck')
      /\ distinct(pendingTicketDraw') /\ distinct(ticketDeck')
      /\ Range(pendingTicketDraw') \cap Range(ticketDeck') = {}
  <2>1. distinct(ticketDeck)
    BY DEF TicketsOK
  <2> QED
    BY <1>1, <1>2, <2>1, Cut
<1>4. Range(pendingTicketDraw) = {}
  BY <1>1, NothingPending DEF PendingOK, ScratchOK
<1>5. \A u \in Seats : inHand(u)' = inHand(u)
  BY <1>1 DEF inHand
<1>6. \A u \in Seats : inHand(u)' \cap (Range(ticketDeck') \cup Range(pendingTicketDraw')) = {}
  BY <1>3, <1>4, <1>5 DEF TicketsOK
<1>7. \A u, v \in Seats : u # v => inHand(u)' \cap inHand(v)' = {}
  BY <1>5 DEF TicketsOK
<1>8. TicketsOK'
  BY <1>1, <1>3, <1>6, <1>7 DEF TicketsOK, Tickets
<1>9. inPlay' = inPlay
  BY <1>1, <1>3, <1>4 DEF inPlay
<1> QED
  BY <1>8, <1>9 DEF Kept

\* Kept tickets go to the hand, the others under the deck.
LEMMA KeepKeepsTickets ==
  ASSUME PendingOK, TicketsOK, NEW s \in Seats, KeepTickets(s)
  PROVE  Kept
<1>1. PICK keep \in SUBSET Range(pendingTicketDraw) :
        /\ tickets' = [tickets EXCEPT ![s] = @ \cup keep]
        /\ ticketDeck' = ticketDeck \o returned(keep)
  BY DEF KeepTickets
<1>2. UNCHANGED setupTicketOffer /\ pendingTicketDraw' = <<>>
  BY EndsTurn DEF KeepTickets
<1>3. /\ Range(returned(keep)) = Range(pendingTicketDraw) \ keep
      /\ distinct(returned(keep)) /\ returned(keep) \in Seq(Tickets)
  BY ReturnedTickets DEF TicketsOK
<1>4. /\ Range(ticketDeck') = Range(ticketDeck) \cup (Range(pendingTicketDraw) \ keep)
      /\ distinct(ticketDeck')
  <2>1. Range(ticketDeck) \cap Range(returned(keep)) = {} /\ ticketDeck \in Seq(Tickets) /\ distinct(ticketDeck)
    BY <1>3 DEF TicketsOK, PendingOK
  <2> HIDE DEF returned
  <2> QED
    BY <1>1, <1>3, <2>1, Joined
<1>5. Range(pendingTicketDraw') = {} /\ distinct(pendingTicketDraw')
  BY <1>2, NothingPending
<1>6. keep \subseteq Tickets
  BY DEF PendingOK, Range
<1>7. tickets' \in [Seats -> SUBSET Tickets] /\ \A u \in Seats : tickets'[u] = IF u = s THEN tickets[s] \cup keep ELSE tickets[u]
  <2>1. tickets[s] \cup keep \in SUBSET Tickets
    BY <1>6 DEF TicketsOK
  <2> QED
    BY <1>1, <2>1 DEF TicketsOK
<1>8. \A u \in Seats : inHand(u)' = IF u = s THEN inHand(s) \cup keep ELSE inHand(u)
  BY <1>2, <1>7 DEF inHand
<1>9. \A u \in Seats : inHand(u)' \cap (Range(ticketDeck') \cup Range(pendingTicketDraw')) = {}
  BY <1>4, <1>5, <1>8 DEF TicketsOK
<1>10. \A u, v \in Seats : u # v => inHand(u)' \cap inHand(v)' = {}
  BY <1>8 DEF TicketsOK
<1>11. TicketsOK'
  BY <1>2, <1>4, <1>5, <1>7, <1>9, <1>10 DEF TicketsOK, Tickets
<1>12. inPlay' = inPlay
  BY <1>4, <1>5, <1>7 DEF inPlay
<1> QED
  BY <1>11, <1>12 DEF Kept

\* An open offer goes under the deck when its player resigns.
LEMMA ResignKeepsTickets ==
  ASSUME PendingOK, TicketsOK, NEW s \in Seats, Resign(s)
  PROVE  Kept
<1>1. UNCHANGED <<setupTicketOffer, tickets>> /\ releaseDecision(s)
  BY DEF Resign
<1>2. CASE ~Turns!holdsTurn(s)
  BY <1>1, <1>2, TicketsStay DEF releaseDecision, ticketVars, pendingVars
<1>3. CASE Turns!holdsTurn(s)
  <2>1. ticketDeck' = ticketDeck \o pendingTicketDraw /\ pendingTicketDraw' = <<>>
    BY <1>1, <1>3 DEF releaseDecision
  <2>2. Range(ticketDeck') = Range(ticketDeck) \cup Range(pendingTicketDraw) /\ distinct(ticketDeck')
    BY <2>1, Joined DEF PendingOK, TicketsOK
  <2>3. Range(pendingTicketDraw') = {} /\ distinct(pendingTicketDraw')
    BY <2>1, NothingPending
  <2>4. \A u \in Seats : inHand(u)' = inHand(u)
    BY <1>1 DEF inHand
  <2>5. TicketsOK'
    BY <1>1, <2>2, <2>3, <2>4 DEF TicketsOK, Tickets
  <2>6. inPlay' = inPlay
    BY <1>1, <2>2, <2>3 DEF inPlay
  <2> QED
    BY <2>5, <2>6 DEF Kept
<1> QED
  BY <1>2, <1>3

\* Every step.
LEMMA TicketsStep ==
  ASSUME PendingOK, TicketsOK, [Next]_vars
  PROVE  TicketsOK' /\ (phase # "SETUP_TICKETS" => inPlay' = inPlay)
<1>0. CASE UNCHANGED vars
  BY <1>0, TicketsStay DEF vars, pendingVars, Kept
<1>1. ASSUME NEW s \in Seats, KeepSetupTickets(s)
      PROVE TicketsOK' /\ (phase # "SETUP_TICKETS" => inPlay' = inPlay)
  <2>1. phase = "SETUP_TICKETS"
    BY <1>1 DEF KeepSetupTickets, Turns!KeepSetupTickets
  <2> QED
    BY <1>1, <2>1, SetupKeepsTickets
<1>2. ASSUME NEW s \in Seats, mayDraw(s), UNCHANGED ticketVars, NEW ends, afterCard(s, ends) PROVE Kept
  <2>1. CASE draw \/ ends
    BY <1>2, <2>1, TurnKeepsTickets DEF mayDraw, afterCard, Turns!mayAct
  <2>2. CASE ~(draw \/ ends)
    BY <1>2, <2>2, TicketsStay DEF afterCard
  <2> QED
    BY <2>1, <2>2
<1>3. ASSUME NEW s \in Seats, DrawFromDeck(s) PROVE Kept
  BY <1>2, <1>3 DEF DrawFromDeck
<1>4. ASSUME NEW s \in Seats, NEW c \in Cards, DrawFaceUp(s, c) PROVE Kept
  <2>1. mayDraw(s) /\ UNCHANGED ticketVars /\ afterCard(s, c = Loco)
    BY <1>4 DEF DrawFaceUp
  <2> QED
    BY <1>2, <2>1
<1>5. ASSUME NEW s \in Seats, EndDraw(s) PROVE Kept
  BY <1>5, TurnKeepsTickets DEF EndDraw, Turns!mayAct
<1>6. ASSUME NEW s \in Seats, NEW r \in Routes, NEW pay, ClaimRoute(s, r, pay) PROVE Kept
  BY <1>6, TurnKeepsTickets DEF ClaimRoute, Turns!mayAct
<1>7. ASSUME NEW s \in Seats, NEW r \in Routes, NEW pay, BeginTunnelClaim(s, r, pay) PROVE Kept
  <2>1. phase = "NORMAL" /\ UNCHANGED ticketVars /\ (endTurn(s) \/ UNCHANGED pendingTicketDraw)
    BY <1>7 DEF BeginTunnelClaim, Turns!mayAct
  <2> QED
    BY <2>1, TurnKeepsTickets, TicketsStay
<1>8. ASSUME NEW s \in Seats, AcceptTunnel(s) \/ RefundTunnel(s) PROVE Kept
  BY <1>8, TurnKeepsTickets DEF AcceptTunnel, RefundTunnel, Turns!mayAct
<1>9. ASSUME NEW s \in Seats, NEW city \in Cities, BuildStation(s, city) PROVE Kept
  BY <1>9, TurnKeepsTickets DEF BuildStation, Turns!mayAct
<1> QED
  BY <1>0, <1>1, <1>3, <1>4, <1>5, <1>6, <1>7, <1>8, <1>9, DrawKeepsTickets, KeepKeepsTickets, ResignKeepsTickets
     DEF Next, Claim, Kept

\* Seats that get k tickets each get different ones.
LEMMA SharesApart ==
  ASSUME NEW k \in Nat, NEW p \in Nat, NEW n \in Nat, p < n
  PROVE  p * k \in Nat /\ n * k \in Nat /\ p * k + k <= n * k
<1> DEFINE d == n - (p + 1)
<1>1. d \in Nat /\ n = p + 1 + d
  OBVIOUS
<1> HIDE DEF d
<1>2. p * k \in Nat /\ d * k \in Nat
  BY <1>1
<1>3. n * k = p * k + k + d * k
  BY <1>1
<1> QED
  BY <1>2, <1>3

\* Who has yet to choose at setup has enough to choose from.
OfferOK == \A s \in Seats \ setupDone : Cardinality(setupTicketOffer[s]) >= minTicketsKeptAtSetup

\* At the start every ticket is once in an offer or in the deck, and each seat's
\* offer is a long ticket and its share of the regular ones.
LEMMA TicketsAreDealt == Init => TicketsOK /\ OfferOK
<1> SUFFICES ASSUME Init PROVE TicketsOK /\ OfferOK
  OBVIOUS
<1> DEFINE k == initialRegularTickets
           N == Cardinality(Seats)
<1>1. PICK longs \in LongShuffles, regulars \in TicketShuffles : dealTickets(longs, regulars)
  BY DEF Init
<1>2. k \in Nat /\ N \in Nat /\ IsFiniteSet(Seats) /\ \A s \in Seats : s \in Int
  BY GameAssumption, FS_CardinalityType
<1>3. /\ longs \in Seq(LongTicketIDs) /\ Len(longs) >= N
      /\ \A i, j \in 1..Len(longs) : longs[i] = longs[j] => i = j
  <2>1. isShuffle(longs, LongTicketIDs, N)
    BY GameAssumption
  <2>2. longs \in Seq(LongTicketIDs) => DOMAIN longs = 1..Len(longs)
    OBVIOUS
  <2> QED
    BY <2>1, <2>2 DEF isShuffle
<1>4. /\ regulars \in Seq(RegularTicketIDs) /\ Len(regulars) \in Nat /\ Len(regulars) >= k * N
      /\ \A i, j \in 1..Len(regulars) : regulars[i] = regulars[j] => i = j
  <2>1. isShuffle(regulars, RegularTicketIDs, k * N)
    BY GameAssumption
  <2>2. regulars \in Seq(RegularTicketIDs) => DOMAIN regulars = 1..Len(regulars) /\ Len(regulars) \in Nat
    OBVIOUS
  <2> QED
    BY <2>1, <2>2 DEF isShuffle
<1>5. \A s \in Seats : /\ place(s) \in Nat /\ place(s) < N
                       /\ \A t \in Seats : place(t) = place(s) => t = s
  BY <1>2, PlaceIsOwn DEF Place, place
<1>6. /\ setupTicketOffer = [s \in Seats |-> {longs[place(s) + 1]} \cup {regulars[place(s) * k + i] : i \in 1..k}]
      /\ ticketDeck = SubSeq(regulars, k * N + 1, Len(regulars))
  BY <1>1 DEF dealTickets
<1>7. tickets = [s \in Seats |-> {}] /\ pendingTicketDraw = <<>>
  BY DEF Init
<1> HIDE DEF k, N
<1> DEFINE given(s) == {regulars[place(s) * k + i] : i \in 1..k}
<1>8. LongTicketIDs \subseteq Tickets /\ RegularTicketIDs \subseteq Tickets /\ LongTicketIDs \cap RegularTicketIDs = {}
  BY DEF LongTicketIDs, RegularTicketIDs
<1>9. \A s \in Seats : longs[place(s) + 1] \in LongTicketIDs
  <2>1. \A s \in Seats : place(s) + 1 \in 1..Len(longs)
    BY <1>2, <1>3, <1>5
  <2> QED
    BY <1>3, <2>1
<1>10. k * N \in 0..Len(regulars)
  <2>1. k * N \in Nat
    BY <1>2
  <2> QED
    BY <1>4, <2>1
<1>11. ASSUME NEW s \in Seats, NEW i \in 1..k
       PROVE  /\ place(s) * k \in Nat /\ place(s) * k + i \in 1..Len(regulars) /\ place(s) * k + i <= k * N
              /\ regulars[place(s) * k + i] \in RegularTicketIDs
  <2>1. place(s) * k \in Nat /\ place(s) * k + k <= N * k
    BY <1>2, <1>5, SharesApart
  <2>2. N * k = k * N
    BY <1>2
  <2>3. place(s) * k + i \in 1..Len(regulars) /\ place(s) * k + i <= k * N
    BY <1>2, <1>4, <2>1, <2>2
  <2> QED
    BY <1>4, <2>1, <2>3
<1>12. ASSUME NEW s \in Seats, NEW t \in Seats, NEW i \in 1..k, NEW j \in 1..k,
              regulars[place(s) * k + i] = regulars[place(t) * k + j]
       PROVE  s = t
  <2>1. place(s) * k + i = place(t) * k + j
    BY <1>4, <1>11, <1>12
  <2>2. ~(place(s) < place(t)) /\ ~(place(t) < place(s))
    <3>1. ASSUME NEW u \in Seats, NEW v \in Seats, place(u) < place(v) PROVE place(u) * k + k <= place(v) * k
      BY <1>2, <1>5, <3>1, SharesApart
    <3>2. place(s) * k \in Nat /\ place(t) * k \in Nat
      BY <1>11
    <3> QED
      BY <1>2, <2>1, <3>1, <3>2
  <2>3. place(s) = place(t)
    BY <1>5, <2>2
  <2> QED
    BY <1>5, <2>3
<1>13. ASSUME NEW s \in Seats, NEW t \in Seats, longs[place(s) + 1] = longs[place(t) + 1]
       PROVE  s = t
  <2>1. place(s) + 1 \in 1..Len(longs) /\ place(t) + 1 \in 1..Len(longs)
    BY <1>2, <1>3, <1>5
  <2>2. place(s) + 1 = place(t) + 1
    BY <1>3, <1>13, <2>1
  <2>3. place(s) = place(t)
    BY <1>5, <2>2
  <2> QED
    BY <1>5, <2>3
<1>14. \A s \in Seats : given(s) \subseteq RegularTicketIDs
  BY <1>11
<1>15. \A s, t \in Seats : s # t => given(s) \cap given(t) = {}
  BY <1>12
<1>16. /\ distinct(ticketDeck) /\ Range(ticketDeck) \subseteq RegularTicketIDs
       /\ \A s \in Seats : given(s) \cap Range(ticketDeck) = {}
  <2>1. regulars \in Seq(Tickets) /\ distinct(regulars)
    BY <1>4, <1>8 DEF distinct
  <2>2. distinct(ticketDeck) /\ Range(SubSeq(regulars, 1, k * N)) \cap Range(ticketDeck) = {}
    BY <1>6, <1>10, <2>1, Cut
  <2>3. Range(ticketDeck) \subseteq Range(regulars)
    BY <1>6, <1>10, <2>1, Cut
  <2>4. Range(regulars) \subseteq RegularTicketIDs
    BY <1>4 DEF Range
  <2>5. ASSUME NEW s \in Seats, NEW i \in 1..k
        PROVE  regulars[place(s) * k + i] \in Range(SubSeq(regulars, 1, k * N))
    <3> DEFINE first == SubSeq(regulars, 1, k * N)
               x == place(s) * k + i
    <3>1. x \in 1..(k * N)
      BY <1>10, <1>11
    <3>2. DOMAIN first = 1..(k * N) /\ \A y \in 1..(k * N) : first[y] = regulars[y]
      BY <1>10, <2>1
    <3> HIDE DEF first, x
    <3>3. regulars[x] \in Range(first)
      BY <3>1, <3>2 DEF Range
    <3> QED
      BY <3>3 DEF first, x
  <2> QED
    BY <2>2, <2>3, <2>4, <2>5
<1>17. \A s \in Seats : inHand(s) = {longs[place(s) + 1]} \cup given(s)
  BY <1>6, <1>7 DEF inHand
<1>18. Range(pendingTicketDraw) = {} /\ distinct(pendingTicketDraw)
  BY <1>7, NothingPending
<1> HIDE DEF given
<1>19. \A s \in Seats : {longs[place(s) + 1]} \cup given(s) \subseteq Tickets
  BY <1>8, <1>9, <1>14
<1>20. tickets \in [Seats -> SUBSET Tickets] /\ setupTicketOffer \in [Seats -> SUBSET Tickets]
  BY <1>6, <1>7, <1>19 DEF given
<1>21. \A s \in Seats : inHand(s) \cap (Range(ticketDeck) \cup Range(pendingTicketDraw)) = {}
  BY <1>8, <1>9, <1>16, <1>17, <1>18
<1>22. \A s, u \in Seats : s # u => inHand(s) \cap inHand(u) = {}
  <2> SUFFICES ASSUME NEW s \in Seats, NEW u \in Seats, s # u PROVE inHand(s) \cap inHand(u) = {}
    OBVIOUS
  <2>1. longs[place(s) + 1] # longs[place(u) + 1] /\ given(s) \cap given(u) = {}
    BY <1>13, <1>15
  <2> QED
    BY <1>8, <1>9, <1>14, <1>17, <2>1
<1>23. OfferOK
  <2> SUFFICES ASSUME NEW s \in Seats PROVE Cardinality(setupTicketOffer[s]) >= minTicketsKeptAtSetup
    BY DEF OfferOK
  <2>1. PICK f : f = [i \in 1..k |-> regulars[place(s) * k + i]]
    OBVIOUS
  <2>2. PICK S : S = {regulars[place(s) * k + i] : i \in 1..k}
    OBVIOUS
  <2>3. S \subseteq RegularTicketIDs
    BY <1>14, <2>2 DEF given
  <2>4. IsFiniteSet(S)
    BY <1>8, <2>3, GameAssumption, FS_Subset
  <2>5. f \in Injection(1..k, S)
    <3>1. ASSUME NEW i \in 1..k, NEW j \in 1..k, f[i] = f[j]
          PROVE  i = j
      <4>1. place(s) * k + i = place(s) * k + j
        BY <1>4, <1>11, <2>1, <3>1
      <4> QED
        BY <1>11, <4>1
    <3>2. f \in [1..k -> S]
      BY <2>1, <2>2
    <3> QED
      BY <3>1, <3>2 DEF Injection, IsInjective
  <2>6. Cardinality(1..k) = k
    BY <1>2, FS_Interval
  <2>7. k <= Cardinality(S)
    BY <2>4, <2>5, <2>6, FS_Injection
  <2>8. longs[place(s) + 1] \notin S
    BY <1>8, <1>9, <2>3
  <2>9. setupTicketOffer[s] = S \cup {longs[place(s) + 1]}
    BY <1>6, <2>2
  <2>10. Cardinality(setupTicketOffer[s]) = Cardinality(S) + 1 /\ Cardinality(S) \in Nat
    BY <2>4, <2>8, <2>9, FS_AddElement, FS_CardinalityType
  <2>11. minTicketsKeptAtSetup \in Nat /\ minTicketsKeptAtSetup <= k + 1
    BY GameAssumption DEF k
  <2> QED
    BY <1>2, <2>7, <2>10, <2>11
<1> QED
  BY <1>16, <1>18, <1>20, <1>21, <1>22, <1>23 DEF TicketsOK

\* An offer stays as it is until its seat has chosen.
LEMMA OffersStay ==
  ASSUME PendingOK, TicketsOK, OfferOK, [Next]_vars
  PROVE  OfferOK'
<1>1. setupDone \subseteq setupDone'
  <2>1. [Turns!Next]_(Turns!vars)
    BY Follows
  <2>2. CASE UNCHANGED Turns!vars
    BY <2>2 DEF Turns!vars, Turns!gameVars
  <2>3. ASSUME NEW s, Turns!endTurn(s) PROVE setupDone' = setupDone
    BY <2>3 DEF Turns!endTurn
  <2>4. ASSUME NEW s, Turns!TurnMove(s) PROVE setupDone' = setupDone
    BY <2>3, <2>4 DEF Turns!TurnMove, Turns!DrawLocomotive, Turns!BuildStation, Turns!DrawFirstCard, Turns!EndDraw,
       Turns!DrawTickets, Turns!KeepTickets, Turns!ClaimRoute, Turns!BeginTunnelClaim, Turns!ResolveTunnel, Turns!Await
  <2>5. ASSUME NEW s, Turns!KeepSetupTickets(s) \/ Turns!Resign(s) PROVE setupDone \subseteq setupDone'
    BY <2>5 DEF Turns!KeepSetupTickets, Turns!Resign
  <2> QED
    BY <2>1, <2>2, <2>4, <2>5 DEF Turns!Next
<1>2. CASE UNCHANGED setupTicketOffer
  BY <1>1, <1>2 DEF OfferOK
<1>3. ASSUME NEW s \in Seats, KeepSetupTickets(s) PROVE OfferOK'
  <2>1. setupTicketOffer' = [setupTicketOffer EXCEPT ![s] = {}] /\ s \in setupDone'
    BY <1>3 DEF KeepSetupTickets, Turns!KeepSetupTickets
  <2>2. \A u \in Seats \ {s} : setupTicketOffer'[u] = setupTicketOffer[u]
    BY <2>1 DEF TicketsOK
  <2> QED
    BY <1>1, <2>1, <2>2 DEF OfferOK
<1>4. ASSUME NEW s \in Seats,
             \/ DrawFromDeck(s) \/ (\E c \in Cards : DrawFaceUp(s, c)) \/ EndDraw(s)
             \/ AcceptTunnel(s) \/ RefundTunnel(s) \/ \E city \in Cities : BuildStation(s, city)
      PROVE  UNCHANGED setupTicketOffer
  BY <1>4 DEF DrawFromDeck, DrawFaceUp, EndDraw, AcceptTunnel, RefundTunnel, BuildStation, ticketVars
<1>5. ASSUME NEW s \in Seats, DrawTickets(s) \/ KeepTickets(s) \/ Resign(s)
      PROVE  UNCHANGED setupTicketOffer
  BY <1>5 DEF DrawTickets, KeepTickets, Resign
<1>6. ASSUME NEW s \in Seats, NEW r \in Routes, NEW pay, ClaimRoute(s, r, pay) \/ BeginTunnelClaim(s, r, pay)
      PROVE  UNCHANGED setupTicketOffer
  BY <1>6 DEF ClaimRoute, BeginTunnelClaim, ticketVars
<1>7. CASE UNCHANGED vars
  BY <1>2, <1>7 DEF vars, ticketVars
<1> QED
  BY <1>2, <1>3, <1>4, <1>5, <1>6, <1>7 DEF Next, Claim

\* Tickets stay well placed, and offers large enough.
LEMMA TicketsInvariant == Spec => [](PendingOK /\ TicketsOK /\ OfferOK)
<1>1. Init => PendingOK /\ TicketsOK /\ OfferOK
  BY StartsAsTurns, TicketsAreDealt
<1>2. PendingOK /\ TicketsOK /\ OfferOK /\ [Next]_vars => (PendingOK /\ TicketsOK /\ OfferOK)'
  BY Follows, TicketsStep, OffersStay
<1> QED
  BY <1>1, <1>2, PTL DEF Spec

\* A ticket in play is there once.
Once == \A t \in Tickets : copies(t) = IF t \in inPlay THEN 1 ELSE 0

\* Then every ticket in play is there once.
LEMMA TicketsAreThereOnce == PendingOK /\ TicketsOK => Once
<1> SUFFICES ASSUME PendingOK, TicketsOK, NEW t \in Tickets PROVE copies(t) = IF t \in inPlay THEN 1 ELSE 0
  BY DEF Once
<1> DEFINE q       == ticketDeck \o pendingTicketDraw
           spots   == {i \in DOMAIN q : q[i] = t}
           holders == {s \in Seats : t \in tickets[s]}
<1>1. q \in Seq(Tickets) /\ distinct(q) /\ Range(q) = Range(ticketDeck) \cup Range(pendingTicketDraw)
  BY Joined DEF PendingOK, TicketsOK
<1>2. DOMAIN q = 1..Len(q)
  BY <1>1
<1>3. copies(t) = Cardinality(spots) + Cardinality(holders)
  BY DEF copies
<1> HIDE DEF q
<1>4. spots = {} \/ \E i : spots = {i}
  <2>1. \A i, j \in 1..Len(q) : q[i] = q[j] => i = j
    BY <1>1 DEF distinct
  <2>2. \A i, j \in spots : i = j
    BY <1>2, <2>1
  <2> QED
    BY <2>2, Zenon
<1>5. spots # {} <=> t \in Range(q)
  BY DEF Range
<1>6. holders = {} \/ \E s : holders = {s}
  BY DEF TicketsOK, inHand
<1>7. holders # {} <=> t \in UNION {tickets[s] : s \in Seats}
  OBVIOUS
<1>8. ~(spots # {} /\ holders # {})
  BY <1>1, <1>5 DEF TicketsOK, inHand
<1>9. t \in inPlay <=> spots # {} \/ holders # {}
  BY <1>1, <1>5, <1>7 DEF inPlay
<1> HIDE DEF spots, holders
<1>10. Cardinality(spots) = IF spots = {} THEN 0 ELSE 1
  BY <1>4, FS_EmptySet, FS_Singleton
<1>11. Cardinality(holders) = IF holders = {} THEN 0 ELSE 1
  BY <1>6, FS_EmptySet, FS_Singleton
<1>12. CASE spots = {} /\ holders = {}
  BY <1>12, <1>3, <1>9, <1>10, <1>11
<1>13. CASE spots # {} /\ holders = {}
  BY <1>13, <1>3, <1>9, <1>10, <1>11
<1>14. CASE spots = {} /\ holders # {}
  BY <1>14, <1>3, <1>9, <1>10, <1>11
<1> QED
  BY <1>8, <1>12, <1>13, <1>14

(***************************************************************************)
(* Tickets: once the setup is over none leaves the game and none is        *)
(* copied, through draws, returns to the bottom of the deck and            *)
(* resignations over an open offer.                                        *)
(***************************************************************************)
THEOREM TicketsConservedHolds == Spec => TicketsConserved
<1>1. ASSUME PendingOK, TicketsOK, [Next]_vars, Once, Once'
      PROVE  [phase # "SETUP_TICKETS" => \A t \in Tickets : copies(t)' = copies(t)]_vars
  <2> SUFFICES ASSUME phase # "SETUP_TICKETS", NEW t \in Tickets PROVE copies(t)' = copies(t)
    OBVIOUS
  <2>1. inPlay' = inPlay
    BY <1>1, TicketsStep
  <2>2. copies(t) = IF t \in inPlay THEN 1 ELSE 0
    BY <1>1 DEF Once
  <2>3. copies(t)' = IF t \in inPlay' THEN 1 ELSE 0
    <3>1. \A u \in Tickets : copies(u)' = IF u \in inPlay' THEN 1 ELSE 0
      BY <1>1 DEF Once, Tickets
    <3> QED
      BY <3>1
  <2> QED
    BY <2>1, <2>2, <2>3
<1> QED
  BY <1>1, TicketsInvariant, TicketsAreThereOnce, PTL DEF Spec, TicketsConserved

-----------------------------------------------------------------------------
(***************************************************************************)
(* What a player is offered.                                               *)
(***************************************************************************)
\* The moves offered, case by case.
LEMMA MovesByPhase ==
  ASSUME NEW s \in Seats
  PROVE  /\ Turns!mayAct(s, "NORMAL") =>
              LegalMoves(s) = [draw |-> canDraw, drawTickets |-> ticketDeck # <<>>, claim |-> claimableRoutes(s),
                               stations |-> stationOffers(s), cost |-> offeredCost(s), kind |-> "none"]
         /\ Turns!mayAct(s, "AWAITING_SECOND_DRAW") =>
              LegalMoves(s) = IF secondDrawAvailable THEN [NoMoves EXCEPT !.draw = TRUE]
                                                     ELSE [NoMoves EXCEPT !.kind = "end_draw"]
         /\ ~Turns!mayAct(s, "NORMAL") /\ ~Turns!mayAct(s, "AWAITING_SECOND_DRAW") =>
              LegalMoves(s) = IF phase = "SETUP_TICKETS" /\ s \notin resigned \cup setupDone
                              THEN [NoMoves EXCEPT !.kind = "setup_tickets"]
                              ELSE IF Turns!mayAct(s, "AWAITING_TUNNEL") THEN [NoMoves EXCEPT !.kind = "tunnel"]
                              ELSE IF Turns!mayAct(s, "AWAITING_TICKET_KEEP")
                                   THEN [NoMoves EXCEPT !.kind = "ticket_keep"]
                              ELSE NoMoves
BY DEF LegalMoves, Turns!mayAct, Turns!Playing, Turns!Awaiting

\* What an open decision offers can be answered.
LEMMA DecisionsAreAccepted ==
  ASSUME PendingOK, OfferOK, NEW s \in Seats
  PROVE  /\ accepts(s, "setup_tickets") <=> phase = "SETUP_TICKETS" /\ s \notin resigned \cup setupDone
         /\ accepts(s, "end_draw") <=> Turns!mayAct(s, "AWAITING_SECOND_DRAW") /\ ~secondDrawAvailable
         /\ accepts(s, "tunnel") <=> Turns!mayAct(s, "AWAITING_TUNNEL")
         /\ accepts(s, "ticket_keep") <=> Turns!mayAct(s, "AWAITING_TICKET_KEEP")
<1>1. ASSUME s \notin setupDone
      PROVE  \E keep \in SUBSET setupTicketOffer[s] : Cardinality(keep) >= minTicketsKeptAtSetup
  BY <1>1 DEF OfferOK
<1>2. ASSUME Turns!mayAct(s, "AWAITING_TICKET_KEEP")
      PROVE  \E keep \in SUBSET Range(pendingTicketDraw) : Cardinality(keep) >= minTicketsKeptInGame
  <2>1. pendingTicketDraw # <<>> /\ pendingTicketDraw \in Seq(Tickets)
    BY <1>2 DEF PendingOK, ScratchOK, Turns!mayAct
  <2>2. 1 \in DOMAIN pendingTicketDraw
    BY <2>1
  <2>3. {pendingTicketDraw[1]} \in SUBSET Range(pendingTicketDraw)
    BY <2>2 DEF Range
  <2>4. Cardinality({pendingTicketDraw[1]}) = 1 /\ minTicketsKeptInGame \in {0, 1}
    BY GameAssumption, FS_Singleton
  <2> QED
    BY <2>3, <2>4
<1>3. Turns!mayAct(s, "AWAITING_TUNNEL") => pendingTunnel # NoTunnel
  BY DEF PendingOK, ScratchOK, Turns!mayAct
<1> QED
  BY <1>1, <1>2, <1>3 DEF accepts

\* In states the game reaches, offered is accepted.
LEMMA Offers == ASSUME PendingOK, CardsOK, BoardOK, OfferOK PROVE OffersAreAccepted
<1> SUFFICES ASSUME NEW s \in Seats, NEW m, m = LegalMoves(s)
             PROVE  /\ m.draw <=> mayDraw(s) /\ (deckHasCard \/ \E c \in Cards : mayTakeFaceUp(c))
                    /\ m.drawTickets <=> Turns!mayAct(s, "NORMAL") /\ ticketDeck # <<>>
                    /\ m.claim = {r \in Routes : /\ Turns!mayAct(s, "NORMAL") /\ claimability(s, r)
                                                 /\ \E pay \in payments(hands[s], Route[r].length) :
                                                      validatePayment(r, pay)}
                    /\ \A r \in m.claim : \A pay \in PaymentOptions(r, hands[s]) :
                         pay \in payments(hands[s], Route[r].length) /\ validatePayment(r, pay)
                    /\ m.stations = {city \in Cities : Turns!mayAct(s, "NORMAL") /\ mayBuildStation(s, city)}
                    /\ m.stations # {} => m.cost = stationCost(s)
                    /\ \A kind \in {"setup_tickets", "end_draw", "tunnel", "ticket_keep"} :
                         m.kind = kind <=> accepts(s, kind)
  BY DEF OffersAreAccepted
<1>1. hands[s] \in Bags /\ faceUp \in Bags
  BY DEF CardsOK, CardsTypeOK
<1>2. Size(faceUp) > 0 <=> \E c \in Cards : faceUp[c] > 0
  BY <1>1, SizeType
<1>3. CASE Turns!mayAct(s, "NORMAL")
  <2>1. draw = FALSE /\ mayDraw(s)
    BY <1>3 DEF PendingOK, ScratchOK, Turns!mayAct, mayDraw
  <2>2. /\ (m.draw <=> canDraw) /\ (m.drawTickets <=> ticketDeck # <<>>) /\ m.claim = claimableRoutes(s)
        /\ m.stations = stationOffers(s) /\ m.cost = offeredCost(s) /\ m.kind = "none"
    <3> DEFINE r == [draw |-> canDraw, drawTickets |-> ticketDeck # <<>>, claim |-> claimableRoutes(s),
                     stations |-> stationOffers(s), cost |-> offeredCost(s), kind |-> "none"]
    <3>1. m = r
      BY <1>3, MovesByPhase
    <3>2. /\ (r.draw <=> canDraw) /\ (r.drawTickets <=> ticketDeck # <<>>) /\ r.claim = claimableRoutes(s)
          /\ r.stations = stationOffers(s) /\ r.cost = offeredCost(s) /\ r.kind = "none"
      OBVIOUS
    <3> HIDE DEF r
    <3> QED
      BY <3>1, <3>2
  <2>3. canDraw <=> deckHasCard \/ \E c \in Cards : mayTakeFaceUp(c)
    BY <1>2, <2>1 DEF canDraw, deckHasCard, mayTakeFaceUp
  <2>4. claimableRoutes(s) = {r \in Routes : claimability(s, r)
          /\ \E pay \in payments(hands[s], Route[r].length) : validatePayment(r, pay)}
    BY ClaimableRoutes
  <2>5. \A r \in claimableRoutes(s) : \A pay \in PaymentOptions(r, hands[s]) :
          pay \in payments(hands[s], Route[r].length) /\ validatePayment(r, pay)
    BY <1>1, OptionsAreAccepted DEF claimableRoutes
  <2>6. stationsLeft[s] \in Int
    BY DEF BoardOK, BoardTypeOK
  <2>7. /\ stationOffers(s) = {city \in Cities : mayBuildStation(s, city)}
        /\ stationOffers(s) # {} => offeredCost(s) = stationCost(s)
    BY <2>6 DEF stationOffers, offeredCost, mayBuildStation
  <2>8. ASSUME NEW kind \in {"setup_tickets", "end_draw", "tunnel", "ticket_keep"} PROVE ~accepts(s, kind)
    BY <1>3 DEF accepts, Turns!mayAct
  <2> QED
    BY <1>3, <2>1, <2>2, <2>3, <2>4, <2>5, <2>7, <2>8
<1>4. CASE Turns!mayAct(s, "AWAITING_SECOND_DRAW")
  <2>1. draw = TRUE /\ mayDraw(s) /\ ~Turns!mayAct(s, "NORMAL") /\ phase = "AWAITING_SECOND_DRAW"
    BY <1>4 DEF PendingOK, ScratchOK, Turns!mayAct, mayDraw
  <2>2. secondDrawAvailable <=> deckHasCard \/ \E c \in Cards : mayTakeFaceUp(c)
    BY <2>1, MapIsValid DEF secondDrawAvailable, deckHasCard, mayTakeFaceUp, Cards
  <2>3. /\ m.draw <=> secondDrawAvailable
        /\ m.drawTickets = FALSE /\ m.claim = {} /\ m.stations = {}
        /\ m.kind = IF secondDrawAvailable THEN "none" ELSE "end_draw"
    BY <1>4, MovesByPhase DEF NoMoves
  <2>4. \A kind \in {"setup_tickets", "end_draw", "tunnel", "ticket_keep"} : m.kind = kind <=> accepts(s, kind)
    BY <1>4, <2>1, <2>3, DecisionsAreAccepted DEF Turns!mayAct
  <2> QED
    BY <2>1, <2>2, <2>3, <2>4
<1>5. CASE ~Turns!mayAct(s, "NORMAL") /\ ~Turns!mayAct(s, "AWAITING_SECOND_DRAW")
  <2>1. PICK kind : kind = IF phase = "SETUP_TICKETS" /\ s \notin resigned \cup setupDone THEN "setup_tickets"
                           ELSE IF Turns!mayAct(s, "AWAITING_TUNNEL") THEN "tunnel"
                           ELSE IF Turns!mayAct(s, "AWAITING_TICKET_KEEP") THEN "ticket_keep"
                           ELSE "none"
    OBVIOUS
  <2>2. m = [NoMoves EXCEPT !.kind = kind]
    <3>1. NoMoves = [NoMoves EXCEPT !.kind = "none"]
      BY DEF NoMoves
    <3> QED
      BY <1>5, <2>1, <3>1, MovesByPhase
  <2>3. m.draw = FALSE /\ m.drawTickets = FALSE /\ m.claim = {} /\ m.stations = {} /\ m.kind = kind
    BY <2>2 DEF NoMoves
  <2>4. \A k \in {"setup_tickets", "end_draw", "tunnel", "ticket_keep"} : kind = k <=> accepts(s, k)
    BY <1>5, <2>1, DecisionsAreAccepted DEF Turns!mayAct
  <2> QED
    BY <1>5, <2>3, <2>4 DEF mayDraw
<1> QED
  BY <1>3, <1>4, <1>5

(***************************************************************************)
(* What a view offers is what Apply accepts: draws, routes with their      *)
(* payments and the decision that is open, which has an answer that is     *)
(* accepted, for every seat, hand and map.  Stations are offered wherever  *)
(* one may be built at the cost shown, whether or not the hand pays it.    *)
(***************************************************************************)
THEOREM OffersHold == Spec => []OffersAreAccepted
BY Offers, CardsInvariant, BoardInvariant, TicketsInvariant, PTL

-----------------------------------------------------------------------------
(***************************************************************************)
(* Places in an order.  Before is a strict total order on the finite set   *)
(* D: the number of elements before one is its place.                      *)
(***************************************************************************)
Orders(Before, D) ==
  /\ \A x \in D : <<x, x>> \notin Before
  /\ \A x, y, z \in D : <<x, y>> \in Before /\ <<y, z>> \in Before => <<x, z>> \in Before
  /\ \A x, y \in D : x # y => <<x, y>> \in Before \/ <<y, x>> \in Before

PlaceIn(Before, D, x) == Cardinality({y \in D : <<y, x>> \in Before})

\* What comes first has the lower place, and every place is taken.
LEMMA OrderPlaces ==
  ASSUME NEW D, IsFiniteSet(D), NEW Before, Orders(Before, D)
  PROVE  /\ \A x \in D : PlaceIn(Before, D, x) \in 0..(Cardinality(D) - 1)
         /\ \A x, y \in D : <<x, y>> \in Before <=> PlaceIn(Before, D, x) < PlaceIn(Before, D, y)
         /\ \A x, y \in D : PlaceIn(Before, D, x) = PlaceIn(Before, D, y) => x = y
         /\ \A k \in 0..(Cardinality(D) - 1) : \E x \in D : PlaceIn(Before, D, x) = k
<1> DEFINE below(x) == {y \in D : <<y, x>> \in Before}
           n == Cardinality(D)
<1>1. n \in Nat
  BY FS_CardinalityType
<1>2. ASSUME NEW x \in D PROVE IsFiniteSet(below(x)) /\ Cardinality(below(x)) \in Nat
  BY FS_Subset, FS_CardinalityType
<1>3. ASSUME NEW x \in D, NEW A \in SUBSET D, below(x) \subseteq A, x \in A
      PROVE  Cardinality(below(x)) < Cardinality(A)
  <2>1. IsFiniteSet(A)
    BY FS_Subset
  <2>2. below(x) # A
    BY <1>3 DEF Orders
  <2> HIDE DEF below
  <2>3. /\ Cardinality(below(x)) <= Cardinality(A)
        /\ Cardinality(A) = Cardinality(below(x)) => A = below(x)
    BY <1>3, <2>1, FS_Subset
  <2>4. Cardinality(below(x)) \in Nat /\ Cardinality(A) \in Nat
    BY <1>2, <2>1, FS_CardinalityType
  <2> QED
    BY <2>2, <2>3, <2>4
<1>4. ASSUME NEW x \in D PROVE PlaceIn(Before, D, x) \in 0..(n - 1)
  <2>1. Cardinality(below(x)) < n
    <3>1. below(x) \subseteq D
      OBVIOUS
    <3> HIDE DEF below
    <3> QED
      BY <1>3, <3>1
  <2> QED
    BY <1>1, <1>2, <2>1 DEF PlaceIn
<1>5. ASSUME NEW x \in D, NEW y \in D, <<x, y>> \in Before
      PROVE  PlaceIn(Before, D, x) < PlaceIn(Before, D, y)
  <2>1. below(x) \subseteq below(y) /\ x \in below(y) /\ below(y) \in SUBSET D
    BY <1>5 DEF Orders
  <2> HIDE DEF below
  <2>2. Cardinality(below(x)) < Cardinality(below(y))
    BY <1>3, <2>1
  <2> QED
    BY <2>2 DEF PlaceIn, below
<1>6. ASSUME NEW x \in D, NEW y \in D PROVE <<x, y>> \in Before <=> PlaceIn(Before, D, x) < PlaceIn(Before, D, y)
  <2>1. CASE <<x, y>> \in Before
    BY <1>5, <2>1
  <2>2. CASE x = y
    <3>1. ~(<<x, y>> \in Before)
      BY <2>2 DEF Orders
    <3>2. PlaceIn(Before, D, x) = PlaceIn(Before, D, y) /\ PlaceIn(Before, D, x) \in Int
      BY <1>4, <2>2
    <3> QED
      BY <3>1, <3>2
  <2>3. CASE <<y, x>> \in Before
    <3>1. ~(<<x, y>> \in Before)
      BY <2>3 DEF Orders
    <3>2. PlaceIn(Before, D, y) < PlaceIn(Before, D, x)
      BY <1>5, <2>3
    <3>3. PlaceIn(Before, D, x) \in Int /\ PlaceIn(Before, D, y) \in Int
      BY <1>4
    <3> QED
      BY <3>1, <3>2, <3>3
  <2> QED
    BY <2>1, <2>2, <2>3 DEF Orders
<1>7. ASSUME NEW x \in D, NEW y \in D, PlaceIn(Before, D, x) = PlaceIn(Before, D, y) PROVE x = y
  <2>1. PlaceIn(Before, D, x) \in Int
    BY <1>4
  <2>2. ~(<<x, y>> \in Before) /\ ~(<<y, x>> \in Before)
    BY <1>5, <1>7, <2>1
  <2> QED
    BY <2>2 DEF Orders
<1>8. ASSUME NEW k \in 0..(n - 1) PROVE \E x \in D : PlaceIn(Before, D, x) = k
  <2> DEFINE f == [x \in D |-> PlaceIn(Before, D, x)]
  <2>1. f \in Injection(D, 0..(n - 1))
    <3>1. f \in [D -> 0..(n - 1)]
      BY <1>4
    <3>2. \A x, y \in D : f[x] = f[y] => x = y
      BY <1>7
    <3> QED
      BY <3>1, <3>2 DEF Injection, IsInjective
  <2>2. 0 \in Int /\ n - 1 \in Int
    BY <1>1
  <2>3. IsFiniteSet(0..(n - 1)) /\ Cardinality(0..(n - 1)) = IF 0 > n - 1 THEN 0 ELSE n - 1 - 0 + 1
    BY <2>2, FS_Interval
  <2>4. Cardinality(0..(n - 1)) = n
    BY <1>1, <2>3
  <2> HIDE DEF f
  <2>5. f \in Surjection(D, 0..(n - 1))
    BY <2>1, <2>3, <2>4, FS_Injection
  <2>6. \E x \in D : f[x] = k
    BY <2>5 DEF Surjection
  <2> QED
    BY <2>6 DEF f
<1> QED
  BY <1>4, <1>6, <1>7, <1>8

-----------------------------------------------------------------------------
(***************************************************************************)
(* The places of a final score.                                            *)
(***************************************************************************)
\* What each player has made, with numbers where the order compares numbers.
IsScore(B) ==
  /\ DOMAIN B \subseteq Nat /\ IsFiniteSet(DOMAIN B)
  /\ \A s \in DOMAIN B : /\ B[s].total \in Int /\ Cardinality(B[s].completed) \in Int
                         /\ B[s].stations \in Int /\ B[s].hasLongest \in BOOLEAN

\* rankLess is a strict order in which those that tie cannot be told apart.
LEMMA RankLessOrders ==
  ASSUME NEW a, NEW b, NEW c,
         \A x \in {a, b, c} : /\ x.total \in Int /\ Cardinality(x.completed) \in Int
                              /\ x.stations \in Int /\ x.hasLongest \in BOOLEAN
  PROVE  /\ ~rankLess(a, a)
         /\ rankLess(a, b) => ~rankLess(b, a)
         /\ rankTie(a, b) <=> ~rankLess(a, b) /\ ~rankLess(b, a)
         /\ rankLess(a, b) /\ ~rankLess(c, b) => rankLess(a, c)
         /\ ~rankLess(b, a) /\ rankLess(b, c) => rankLess(a, c)
         /\ rankTie(a, b) => (rankLess(c, a) <=> rankLess(c, b))
<1>1. PICK ta, tb, tc, ca, cb, cc, sa, sb, sc \in Int :
        /\ ta = a.total /\ ca = Cardinality(a.completed) /\ sa = a.stations
        /\ tb = b.total /\ cb = Cardinality(b.completed) /\ sb = b.stations
        /\ tc = c.total /\ cc = Cardinality(c.completed) /\ sc = c.stations
  OBVIOUS
<1> DEFINE num(x) == IF x.hasLongest THEN 1 ELSE 0
<1>2. PICK la, lb, lc \in 0..1 : la = num(a) /\ lb = num(b) /\ lc = num(c)
  OBVIOUS
<1> DEFINE less(t, n, m, l, t2, n2, m2, l2) ==
             t > t2 \/ (t = t2 /\ (n > n2 \/ (n = n2 /\ (m < m2 \/ (m = m2 /\ l > l2)))))
<1>3. ASSUME NEW x \in {a, b, c}, NEW y \in {a, b, c}
      PROVE  /\ rankLess(x, y) <=> less(x.total, Cardinality(x.completed), x.stations, num(x),
                                       y.total, Cardinality(y.completed), y.stations, num(y))
             /\ rankTie(x, y) <=> /\ x.total = y.total /\ Cardinality(x.completed) = Cardinality(y.completed)
                                 /\ x.stations = y.stations /\ num(x) = num(y)
  <2>1. /\ x.hasLongest \in BOOLEAN /\ y.hasLongest \in BOOLEAN
    OBVIOUS
  <2>2. /\ num(x) > num(y) <=> x.hasLongest /\ ~y.hasLongest
        /\ num(x) = num(y) <=> x.hasLongest = y.hasLongest
    BY <2>1
  <2> HIDE DEF num
  <2> QED
    BY <2>2 DEF rankLess, rankTie
<1>4. /\ rankLess(a, a) <=> less(ta, ca, sa, la, ta, ca, sa, la)
      /\ rankLess(a, b) <=> less(ta, ca, sa, la, tb, cb, sb, lb)
      /\ rankLess(b, a) <=> less(tb, cb, sb, lb, ta, ca, sa, la)
      /\ rankLess(c, a) <=> less(tc, cc, sc, lc, ta, ca, sa, la)
      /\ rankLess(a, c) <=> less(ta, ca, sa, la, tc, cc, sc, lc)
      /\ rankLess(c, b) <=> less(tc, cc, sc, lc, tb, cb, sb, lb)
      /\ rankLess(b, c) <=> less(tb, cb, sb, lb, tc, cc, sc, lc)
      /\ rankTie(a, b) <=> ta = tb /\ ca = cb /\ sa = sb /\ la = lb
  <2> HIDE DEF less, num
  <2> QED
    BY <1>1, <1>2, <1>3
<1> QED
  BY <1>1, <1>2, <1>4

\* The order of sorted: ties go by seat.
Ahead(B) == {p \in (DOMAIN B) \X (DOMAIN B) :
               rankLess(B[p[1]], B[p[2]]) \/ (~rankLess(B[p[2]], B[p[1]]) /\ p[1] < p[2])}

\* Being ahead: the better rank, or the lower seat.
LEMMA AheadIs ==
  ASSUME NEW B, NEW x \in DOMAIN B, NEW y \in DOMAIN B
  PROVE  <<x, y>> \in Ahead(B) <=> rankLess(B[x], B[y]) \/ (~rankLess(B[y], B[x]) /\ x < y)
BY DEF Ahead

\* It is a strict total order of those scored.
LEMMA AheadOrders ==
  ASSUME NEW B, IsScore(B)
  PROVE  Orders(Ahead(B), DOMAIN B)
<1>1. \A x, y \in DOMAIN B : <<x, y>> \in Ahead(B) <=>
        rankLess(B[x], B[y]) \/ (~rankLess(B[y], B[x]) /\ x < y)
  BY AheadIs
<1>2. ASSUME NEW x \in DOMAIN B, NEW y \in DOMAIN B, NEW z \in DOMAIN B
      PROVE  /\ ~rankLess(B[x], B[x])
             /\ rankLess(B[x], B[y]) => ~rankLess(B[y], B[x])
             /\ rankLess(B[x], B[y]) /\ ~rankLess(B[z], B[y]) => rankLess(B[x], B[z])
             /\ ~rankLess(B[y], B[x]) /\ rankLess(B[y], B[z]) => rankLess(B[x], B[z])
  <2>1. \A b \in {B[x], B[y], B[z]} : /\ b.total \in Int /\ Cardinality(b.completed) \in Int
                                      /\ b.stations \in Int /\ b.hasLongest \in BOOLEAN
    BY DEF IsScore
  <2> QED
    BY <2>1, RankLessOrders
<1>3. \A x \in DOMAIN B : x \in Int
  BY DEF IsScore
<1>4. ASSUME NEW x \in DOMAIN B, NEW y \in DOMAIN B, NEW z \in DOMAIN B,
             <<x, y>> \in Ahead(B), <<y, z>> \in Ahead(B)
      PROVE  <<x, z>> \in Ahead(B)
  <2>1. CASE rankLess(B[x], B[y])
    <3>1. rankLess(B[x], B[z]) \/ rankLess(B[z], B[y])
      BY <1>2, <2>1
    <3>2. ~rankLess(B[z], B[y])
      BY <1>1, <1>2, <1>4
    <3> QED
      BY <1>1, <3>1, <3>2
  <2>2. CASE ~rankLess(B[x], B[y]) /\ rankLess(B[y], B[z])
    <3>1. ~rankLess(B[y], B[x])
      BY <1>1, <1>4, <2>2
    <3>2. rankLess(B[x], B[z])
      BY <1>2, <2>2, <3>1
    <3> QED
      BY <1>1, <3>2
  <2>3. CASE ~rankLess(B[x], B[y]) /\ ~rankLess(B[y], B[z])
    <3>1. ~rankLess(B[y], B[x]) /\ x < y /\ ~rankLess(B[z], B[y]) /\ y < z
      BY <1>1, <1>4, <2>3
    <3>2. ~rankLess(B[z], B[x])
      <4>1. rankLess(B[z], B[x]) /\ ~rankLess(B[y], B[x]) => rankLess(B[z], B[y])
        BY <1>2
      <4> QED
        BY <3>1, <4>1
    <3>3. x < z
      BY <1>3, <3>1
    <3> QED
      BY <1>1, <3>2, <3>3
  <2> QED
    BY <2>1, <2>2, <2>3
<1>5. \A x \in DOMAIN B : <<x, x>> \notin Ahead(B)
  BY <1>1, <1>2, <1>3
<1>6. ASSUME NEW x \in DOMAIN B, NEW y \in DOMAIN B, x # y
      PROVE  <<x, y>> \in Ahead(B) \/ <<y, x>> \in Ahead(B)
  <2>1. x < y \/ y < x
    BY <1>3, <1>6
  <2> QED
    BY <1>1, <2>1
<1> QED
  BY <1>4, <1>5, <1>6 DEF Orders

\* sorted lists every player once, at their place.
LEMMA SortedByPlace ==
  ASSUME NEW B, IsScore(B)
  PROVE  /\ DOMAIN sorted(B) = 1..Cardinality(DOMAIN B)
         /\ \A i \in 1..Cardinality(DOMAIN B) :
              sorted(B)[i] \in DOMAIN B /\ PlaceIn(Ahead(B), DOMAIN B, sorted(B)[i]) = i - 1
<1> DEFINE D == DOMAIN B
           ahead(s, t) == rankLess(B[s], B[t]) \/ (~rankLess(B[t], B[s]) /\ s < t)
           seats(s) == {t \in D : t # s /\ ahead(t, s)}
<1>1. \A s \in D : Cardinality(seats(s)) = PlaceIn(Ahead(B), D, s)
  <2> TAKE s \in D
  <2>1. <<s, s>> \notin Ahead(B)
    BY AheadOrders DEF Orders
  <2>2. seats(s) = {t \in D : <<t, s>> \in Ahead(B)}
    BY <2>1, AheadIs
  <2> QED
    BY <2>2 DEF PlaceIn
<1>2. sorted(B) = [i \in 1..Cardinality(D) |-> CHOOSE s \in D : Cardinality(seats(s)) = i - 1]
  BY DEF sorted
<1> HIDE DEF seats
<1>3. ASSUME NEW i \in 1..Cardinality(D)
      PROVE  sorted(B)[i] \in D /\ Cardinality(seats(sorted(B)[i])) = i - 1
  <2>1. IsFiniteSet(D) /\ Cardinality(D) \in Nat
    BY FS_CardinalityType DEF IsScore
  <2>2. i - 1 \in 0..(Cardinality(D) - 1)
    BY <2>1
  <2>3. \E s \in D : PlaceIn(Ahead(B), D, s) = i - 1
    BY <2>1, <2>2, AheadOrders, OrderPlaces
  <2>4. \E s \in D : Cardinality(seats(s)) = i - 1
    BY <1>1, <2>3
  <2>5. sorted(B)[i] = CHOOSE s \in D : Cardinality(seats(s)) = i - 1
    BY <1>2
  <2> QED
    BY <2>4, <2>5
<1> QED
  BY <1>1, <1>2, <1>3

\* The players with more than s.
Better(B, s) == {t \in DOMAIN B : rankLess(B[t], B[s])}

\* A place in the list of sorted is given as the number of better players, and
\* those tied share it.
LEMMA RankCountsBetter ==
  ASSUME NEW B, IsScore(B)
  PROVE  \A i \in 1..Cardinality(DOMAIN B) :
           rankAt(B, sorted(B))[i] = 1 + Cardinality(Better(B, sorted(B)[i]))
<1> DEFINE D == DOMAIN B
           n == Cardinality(D)
           order == sorted(B)
           tied(i) == i > 1 /\ rankTie(B[order[i - 1]], B[order[i]])
           want == [i \in 1..n |-> 1 + Cardinality(Better(B, order[i]))]
           Ranks(f) == f = [i \in DOMAIN order |-> IF tied(i) THEN f[i - 1] ELSE i]
<1>1. IsFiniteSet(D) /\ n \in Nat
  BY FS_CardinalityType DEF IsScore
<1>2. /\ DOMAIN order = 1..n
      /\ \A i \in 1..n : order[i] \in D /\ PlaceIn(Ahead(B), D, order[i]) = i - 1
  BY SortedByPlace
<1>3. rankAt(B, order) = CHOOSE f : Ranks(f)
  BY DEF rankAt
<1> HIDE DEF order
<1>4. \A s \in D : Better(B, s) \in SUBSET D /\ IsFiniteSet(Better(B, s)) /\ Cardinality(Better(B, s)) \in Nat
  BY <1>1, FS_Subset, FS_CardinalityType DEF Better
<1>5. ASSUME NEW s \in D, NEW t \in D
      PROVE  /\ rankTie(B[s], B[t]) => Better(B, s) = Better(B, t)
             /\ ~rankLess(B[s], B[s])
             /\ rankTie(B[s], B[t]) <=> ~rankLess(B[s], B[t]) /\ ~rankLess(B[t], B[s])
             /\ rankLess(B[s], B[t]) => ~rankLess(B[t], B[s])
  <2>1. \A u \in D : \A b \in {B[s], B[t], B[u]} :
          /\ b.total \in Int /\ Cardinality(b.completed) \in Int
          /\ b.stations \in Int /\ b.hasLongest \in BOOLEAN
    BY DEF IsScore
  <2>2. \A u \in D : rankTie(B[s], B[t]) => (rankLess(B[u], B[s]) <=> rankLess(B[u], B[t]))
    BY <2>1, RankLessOrders
  <2> QED
    BY <2>1, <2>2, RankLessOrders DEF Better
<1>6. ASSUME NEW i \in 1..n, ~tied(i) PROVE Cardinality(Better(B, order[i])) = i - 1
  <2> DEFINE s == order[i]
             before == {t \in D : <<t, s>> \in Ahead(B)}
  <2>1. s \in D /\ Cardinality(before) = i - 1
    BY <1>2 DEF PlaceIn
  <2>2. Better(B, s) \subseteq before
    BY <2>1, AheadIs DEF Better
  <2>3. ASSUME NEW t \in before PROVE t \in Better(B, s)
    <3> SUFFICES ASSUME ~rankLess(B[t], B[s]) PROVE FALSE
      BY DEF Better
    <3>1. t \in D /\ rankTie(B[t], B[s]) /\ t < s
      BY <1>5, <2>1, AheadIs
    <3>2. PlaceIn(Ahead(B), D, t) < i - 1 /\ PlaceIn(Ahead(B), D, t) \in 0..(n - 1)
      <4>1. PlaceIn(Ahead(B), D, t) < PlaceIn(Ahead(B), D, s)
        BY <1>1, <2>1, <3>1, AheadOrders, OrderPlaces
      <4> QED
        BY <1>1, <1>2, <3>1, <4>1, AheadOrders, OrderPlaces
    <3>3. i > 1 /\ i - 1 \in 1..n
      BY <1>1, <3>2
    <3> DEFINE p == order[i - 1]
    <3>4. p \in D /\ PlaceIn(Ahead(B), D, p) = i - 2
      BY <1>2, <3>3
    <3> HIDE DEF p
    <3>5. <<p, s>> \in Ahead(B) /\ ~rankTie(B[p], B[s])
      <4>1. PlaceIn(Ahead(B), D, p) < PlaceIn(Ahead(B), D, s)
        BY <1>2, <3>4
      <4>2. <<p, s>> \in Ahead(B)
        BY <1>1, <2>1, <3>4, <4>1, AheadOrders, OrderPlaces
      <4> QED
        BY <1>6, <3>3, <4>2 DEF p
    <3>6. rankLess(B[p], B[s])
      BY <1>5, <2>1, <3>4, <3>5, AheadIs
    <3>7. rankLess(B[p], B[t])
      <4>1. \A b \in {B[p], B[s], B[t]} :
              /\ b.total \in Int /\ Cardinality(b.completed) \in Int
              /\ b.stations \in Int /\ b.hasLongest \in BOOLEAN
        BY <2>1, <3>1, <3>4 DEF IsScore
      <4>2. rankLess(B[p], B[s]) /\ ~rankLess(B[t], B[s]) => rankLess(B[p], B[t])
        BY <4>1, RankLessOrders
      <4> QED
        BY <3>6, <4>2
    <3>8. <<p, t>> \in Ahead(B)
      BY <3>1, <3>4, <3>7, AheadIs
    <3>9. PlaceIn(Ahead(B), D, p) < PlaceIn(Ahead(B), D, t)
      BY <1>1, <3>1, <3>4, <3>8, AheadOrders, OrderPlaces
    <3> QED
      BY <3>2, <3>4, <3>9
  <2>4. Better(B, s) = before
    BY <2>2, <2>3
  <2> QED
    BY <2>1, <2>4
<1>7. ASSUME NEW i \in 1..n, tied(i)
      PROVE  i - 1 \in 1..n /\ Better(B, order[i - 1]) = Better(B, order[i])
  <2>1. i - 1 \in 1..n
    BY <1>1, <1>7
  <2>2. order[i] \in D /\ order[i - 1] \in D
    BY <1>2, <2>1
  <2> QED
    BY <1>5, <1>7, <2>1, <2>2
<1> HIDE DEF tied
<1>8. \A i \in 1..n : want[i] = IF tied(i) THEN want[i - 1] ELSE i
  <2> TAKE i \in 1..n
  <2>1. CASE tied(i)
    BY <1>7, <2>1
  <2>2. CASE ~tied(i)
    BY <1>1, <1>6, <2>2
  <2> QED
    BY <2>1, <2>2
<1>9. Ranks(want)
  BY <1>2, <1>8
<1>10. Ranks(rankAt(B, order))
  BY <1>3, <1>9
<1> DEFINE got == rankAt(B, order)
           N == {k \in Nat : k \in 1..n => got[k] = want[k]}
<1>11. \A i \in 1..n : got[i] = IF tied(i) THEN got[i - 1] ELSE i
  BY <1>2, <1>10
<1> HIDE DEF got, want
<1>12. 0 \in N
  OBVIOUS
<1>13. ASSUME NEW k \in Nat, k \in N PROVE k + 1 \in N
  <2> SUFFICES ASSUME k + 1 \in 1..n PROVE got[k + 1] = want[k + 1]
    OBVIOUS
  <2>1. CASE tied(k + 1)
    <3>1. k \in 1..n
      BY <1>7, <2>1
    <3>2. got[k] = want[k]
      BY <1>13, <3>1
    <3> QED
      BY <1>8, <1>11, <2>1, <3>2
  <2>2. CASE ~tied(k + 1)
    BY <1>8, <1>11, <2>2
  <2> QED
    BY <2>1, <2>2
<1>14. \A k \in Nat : k \in N
  <2> HIDE DEF N
  <2> QED
    BY <1>12, <1>13, NaturalsAreReached
<1>15. \A i \in 1..n : got[i] = want[i]
  BY <1>14
<1> QED
  BY <1>15 DEF got, want, order

\* A place is one more than the number of those who rank better.
LEMMA PlacesCountBetter ==
  ASSUME NEW B, IsScore(B), NEW seats, NEW s \in seats
  PROVE  /\ s \in DOMAIN B => placesOf(seats, B)[s] = 1 + Cardinality(Better(B, s))
         /\ s \notin DOMAIN B => placesOf(seats, B)[s] = Cardinality(seats)
<1> DEFINE order == sorted(B)
           spot == CHOOSE i \in DOMAIN order : order[i] = s
<1>1. placesOf(seats, B)[s] = IF s \notin DOMAIN B THEN Cardinality(seats) ELSE rankAt(B, order)[spot]
  BY DEF placesOf
<1>2. ASSUME s \in DOMAIN B
      PROVE  spot \in 1..Cardinality(DOMAIN B) /\ order[spot] = s
  <2> DEFINE i == PlaceIn(Ahead(B), DOMAIN B, s) + 1
  <2>1. IsFiniteSet(DOMAIN B) /\ Cardinality(DOMAIN B) \in Nat
    BY FS_CardinalityType DEF IsScore
  <2>2. PlaceIn(Ahead(B), DOMAIN B, s) \in 0..(Cardinality(DOMAIN B) - 1)
    BY <1>2, <2>1, AheadOrders, OrderPlaces
  <2>3. i \in 1..Cardinality(DOMAIN B) /\ i - 1 = PlaceIn(Ahead(B), DOMAIN B, s)
    BY <2>1, <2>2
  <2> HIDE DEF i
  <2>4. order[i] \in DOMAIN B /\ PlaceIn(Ahead(B), DOMAIN B, order[i]) = PlaceIn(Ahead(B), DOMAIN B, s)
    BY <2>3, SortedByPlace
  <2>5. order[i] = s
    BY <1>2, <2>1, <2>4, AheadOrders, OrderPlaces
  <2>6. DOMAIN order = 1..Cardinality(DOMAIN B)
    BY SortedByPlace
  <2> HIDE DEF order
  <2> QED
    BY <2>3, <2>5, <2>6
<1> HIDE DEF spot, order
<1>3. ASSUME s \in DOMAIN B
      PROVE  rankAt(B, order)[spot] = 1 + Cardinality(Better(B, s))
  BY <1>2, <1>3, RankCountsBetter DEF order
<1> QED
  BY <1>1, <1>3

-----------------------------------------------------------------------------
(***************************************************************************)
(* The result is the score of the position in which the game ended: no     *)
(* step after the end, and none that ends the game without scoring it.     *)
(***************************************************************************)
ScoredOK ==
  /\ resigned \subseteq Seats
  /\ phase = "FINISHED" => results = FinalScore(position) /\ ranks = placesOf(Seats, results)

\* Only the move that finishes the game scores it, and then with the board as
\* it is.
LEMMA ScoredStep ==
  ASSUME ScoredOK, [Next]_vars
  PROVE  ScoredOK'
<1>0. CASE UNCHANGED vars
  <2>1. UNCHANGED <<phase, resigned, results, ranks>> /\ position' = position
    BY <1>0 DEF vars, turnVars, routeVars, stationVars, ticketVars, resultVars, position
  <2> QED
    BY <2>1 DEF ScoredOK
<1>1. ASSUME resigned' \subseteq Seats, phase' # "FINISHED" PROVE ScoredOK'
  BY <1>1 DEF ScoredOK
<1>2. ASSUME resigned' \subseteq Seats, scoreIfFinished, phase' = "FINISHED" PROVE ScoredOK'
  <2>1. results' = FinalScore(position') /\ ranks' = placesOf(Seats, results')
    BY <1>2 DEF scoreIfFinished
  <2> QED
    BY <1>2, <2>1 DEF ScoredOK
<1>3. ASSUME NEW s \in Seats, endTurn(s) PROVE ScoredOK'
  <2>1. resigned' \subseteq Seats /\ scoreIfFinished
    BY <1>3 DEF endTurn, Turns!endTurn, ScoredOK
  <2> QED
    BY <1>1, <1>2, <2>1
<1>4. ASSUME NEW s \in Seats, NEW ends, afterCard(s, ends) PROVE ScoredOK'
  <2>1. CASE endTurn(s)
    BY <1>3, <2>1
  <2>2. CASE phase' = "AWAITING_SECOND_DRAW" /\ UNCHANGED resigned
    BY <1>1, <2>2 DEF ScoredOK
  <2> QED
    BY <1>4, <2>1, <2>2 DEF afterCard
<1>5. ASSUME NEW s \in Seats, KeepSetupTickets(s) PROVE ScoredOK'
  <2>1. phase' # "FINISHED" /\ resigned' = resigned
    BY <1>5 DEF KeepSetupTickets, Turns!KeepSetupTickets
  <2> QED
    BY <1>1, <2>1 DEF ScoredOK
<1>6. ASSUME NEW s \in Seats, DrawTickets(s) PROVE ScoredOK'
  <2>1. phase' # "FINISHED" /\ resigned' = resigned
    BY <1>6 DEF DrawTickets
  <2> QED
    BY <1>1, <2>1 DEF ScoredOK
<1>7. ASSUME NEW s \in Seats, Resign(s) PROVE ScoredOK'
  <2>1. resigned' = resigned \cup {s} /\ scoreIfFinished
    BY <1>7 DEF Resign, Turns!Resign
  <2>2. resigned' \subseteq Seats
    BY <2>1 DEF ScoredOK
  <2> QED
    BY <1>1, <1>2, <2>1, <2>2
<1>8. ASSUME NEW s \in Seats, NEW r \in Routes, NEW pay, BeginTunnelClaim(s, r, pay) PROVE ScoredOK'
  <2>1. CASE endTurn(s)
    BY <1>3, <2>1
  <2>2. CASE phase' = "AWAITING_TUNNEL" /\ UNCHANGED resigned
    BY <1>1, <2>2 DEF ScoredOK
  <2> QED
    BY <1>8, <2>1, <2>2 DEF BeginTunnelClaim
<1>9. ASSUME NEW s \in Seats,
             \/ EndDraw(s) \/ AcceptTunnel(s) \/ RefundTunnel(s) \/ KeepTickets(s)
             \/ \E r \in Routes : \E pay : ClaimRoute(s, r, pay)
             \/ \E city \in Cities : BuildStation(s, city)
      PROVE  ScoredOK'
  <2>1. endTurn(s)
    BY <1>9 DEF EndDraw, AcceptTunnel, RefundTunnel, KeepTickets, ClaimRoute, BuildStation
  <2> QED
    BY <1>3, <2>1
<1>10. ASSUME NEW s \in Seats, DrawFromDeck(s) \/ \E c \in Cards : DrawFaceUp(s, c) PROVE ScoredOK'
  BY <1>4, <1>10 DEF DrawFromDeck, DrawFaceUp
<1> QED
  BY <1>0, <1>5, <1>6, <1>7, <1>8, <1>9, <1>10 DEF Next, Claim

\* A finished game shows the score of its board.
LEMMA ScoredInvariant == Spec => []ScoredOK
<1>1. Init => ScoredOK
  BY DEF Init, Turns!Init, ScoredOK
<1> QED
  BY <1>1, ScoredStep, PTL DEF Spec

\* What tickets are worth.
ticketPoints == [t \in Tickets |-> Ticket[t].points]

\* The points for a set of tickets are a sum.
LEMMA TicketsAreSummed ==
  ASSUME NEW T \in SUBSET Tickets
  PROVE  sumTicketPoints(T) = Sum(ticketPoints, T) /\ sumTicketPoints(T) \in Int
<1> DEFINE P(it) == it = [U \in SUBSET T |-> IF U = {} THEN 0 ELSE Ticket[Pick(U)].points + it[U \ {Pick(U)}]]
<1>1. sumTicketPoints(T) = (CHOOSE it : P(it))[T]
  BY DEF sumTicketPoints, MapThenSumSet, MapThenFoldSet, Pick
<1>2. ASSUME NEW it PROVE P(it) <=> Iterates(ticketPoints, T, it)
  <2>1. \A U \in SUBSET T : U # {} => ticketPoints[Pick(U)] = Ticket[Pick(U)].points
    BY DEF Pick, ticketPoints
  <2> QED
    BY <2>1 DEF Iterates
<1>3. (CHOOSE it : P(it)) = (CHOOSE it : Iterates(ticketPoints, T, it))
  BY <1>2
<1>4. sumTicketPoints(T) = Sum(ticketPoints, T)
  BY <1>1, <1>3, SumIterates
<1>5. IsFiniteSet(T)
  BY GameAssumption, FS_Subset
<1>6. \A t \in T : ticketPoints[t] \in Int
  BY MapIsValid DEF validTickets, ticketPoints
<1> QED
  BY <1>4, <1>5, <1>6, SumType

\* The score of a position is one the places can be read from.
LEMMA ScoresAreNumbers ==
  ASSUME BoardOK, TicketsOK
  PROVE  IsScore(FinalScore(position)) /\ DOMAIN FinalScore(position) = Seats \ resigned
<1> DEFINE B == FinalScore(position)
<1>1. DOMAIN B = Seats \ resigned
  BY DEF FinalScore, activeOf, position, BoardOK, BoardTypeOK
<1>2. Seats \ resigned \subseteq Nat /\ IsFiniteSet(Seats \ resigned)
  BY GameAssumption, FS_Subset
<1>3. ASSUME NEW s \in DOMAIN B
      PROVE  /\ B[s].total \in Int /\ Cardinality(B[s].completed) \in Int
             /\ B[s].stations \in Int /\ B[s].hasLongest \in BOOLEAN
  <2> DEFINE a == bestStationAssignment(routeOwner, s, claimedRoutes[s], stationCities[s], tickets[s])
             completed == completedWith(a, claimedRoutes[s], tickets[s])
             len == longestTrail(claimedRoutes[s])
             bonus == IF len > 0 /\ len = maxLongest(position) THEN longestPathBonusPoints ELSE 0
             pts == sumRoutePoints(claimedRoutes[s])
  <2>1. s \in Seats /\ s \in DOMAIN claimedRoutes
    BY <1>1 DEF BoardOK, BoardTypeOK
  <2>2. B[s] = buildBreakdown(position, s)
    BY <1>1 DEF FinalScore, activeOf, position, BoardOK, BoardTypeOK
  <2>3. buildBreakdown(position, s) =
          [ routePoints |-> pts, completed |-> completed, hasLongest |-> bonus > 0,
            stations |-> Len(stationCities[s]),
            total |-> pts + sumTicketPoints(completed) - sumTicketPoints(tickets[s] \ completed)
                        + stationsLeft[s] * unbuiltStationPoints + bonus ]
    BY DEF buildBreakdown, position
  <2>4. completed \subseteq tickets[s] /\ tickets[s] \subseteq Tickets
    BY <2>1 DEF completedWith, TicketsOK
  <2>5. bonus \in {0, 10}
    BY DEF longestPathBonusPoints
  <2>6. pts \in Int
    <3>1. claimedRoutes[s] \in SUBSET Routes
      BY <2>1 DEF BoardOK, BoardTypeOK
    <3>2. \A r \in Routes : points[r] \in Int
      BY RouteValues DEF points
    <3>3. IsFiniteSet(claimedRoutes[s])
      BY <3>1, GameAssumption, FS_Subset
    <3> QED
      BY <3>1, <3>2, <3>3, PointsAreSummed, SumType
  <2>7. stationsLeft[s] \in Int /\ Len(stationCities[s]) \in Int
    BY <2>1 DEF BoardOK, BoardTypeOK
  <2> HIDE DEF completed, bonus, pts, len, a
  <2>8. sumTicketPoints(completed) \in Int /\ sumTicketPoints(tickets[s] \ completed) \in Int
    <3>1. completed \in SUBSET Tickets /\ tickets[s] \ completed \in SUBSET Tickets
      BY <2>4
    <3> QED
      BY <3>1, TicketsAreSummed
  <2>9. Cardinality(completed) \in Int
    BY <2>4, GameAssumption, FS_Subset, FS_CardinalityType
  <2>10. (bonus > 0) \in BOOLEAN
    OBVIOUS
  <2>11. stationsLeft[s] * unbuiltStationPoints \in Int
    BY <2>7 DEF unbuiltStationPoints
  <2>12. B[s].total = pts + sumTicketPoints(completed) - sumTicketPoints(tickets[s] \ completed)
                        + stationsLeft[s] * unbuiltStationPoints + bonus
    BY <2>2, <2>3
  <2>13. B[s].total \in Int
    BY <2>5, <2>6, <2>8, <2>11, <2>12
  <2>14. B[s].completed = completed /\ B[s].stations = Len(stationCities[s]) /\ B[s].hasLongest = (bonus > 0)
    BY <2>2, <2>3
  <2> QED
    BY <2>7, <2>9, <2>13, <2>14
<1> HIDE DEF B
<1> QED
  BY <1>1, <1>2, <1>3 DEF IsScore, B

\* Hence the places of a finished game are fair.
LEMMA RanksFair ==
  ASSUME ScoredOK, BoardOK, TicketsOK
  PROVE  RanksAreFair
<1> SUFFICES ASSUME phase = "FINISHED" PROVE RanksAreFair
  BY DEF RanksAreFair
<1>1. /\ results = FinalScore(position) /\ ranks = placesOf(Seats, results)
      /\ IsScore(results) /\ DOMAIN results = Seats \ resigned /\ resigned \subseteq Seats
  BY ScoresAreNumbers DEF ScoredOK
<1>2. ASSUME NEW s \in DOMAIN results
      PROVE  /\ ranks[s] = 1 + Cardinality({t \in DOMAIN results : rankLess(results[t], results[s])})
             /\ ranks[s] <= Cardinality(DOMAIN results)
  <2>1. ranks[s] = 1 + Cardinality(Better(results, s))
    BY <1>1, PlacesCountBetter
  <2>2. Better(results, s) \subseteq DOMAIN results \ {s}
    <3>1. \A b \in {results[s]} : /\ b.total \in Int /\ Cardinality(b.completed) \in Int
                                  /\ b.stations \in Int /\ b.hasLongest \in BOOLEAN
      BY <1>1 DEF IsScore
    <3>2. ~rankLess(results[s], results[s])
      BY <3>1, RankLessOrders
    <3> QED
      BY <3>2 DEF Better
  <2>3. IsFiniteSet(DOMAIN results) /\ Cardinality(DOMAIN results) \in Nat
    BY <1>1, FS_CardinalityType DEF IsScore
  <2>4. IsFiniteSet(DOMAIN results \ {s}) /\ Cardinality(DOMAIN results \ {s}) = Cardinality(DOMAIN results) - 1
    BY <2>3, FS_RemoveElement
  <2>5. Cardinality(Better(results, s)) <= Cardinality(DOMAIN results) - 1 /\ Cardinality(Better(results, s)) \in Nat
    BY <2>2, <2>4, FS_Subset, FS_CardinalityType
  <2>6. ranks[s] <= Cardinality(DOMAIN results)
    BY <2>1, <2>3, <2>5
  <2> QED
    BY <2>1, <2>6 DEF Better
<1>3. ASSUME NEW s \in DOMAIN results, NEW t \in resigned
      PROVE  ranks[s] < ranks[t]
  <2>1. ranks[t] = Cardinality(Seats)
    BY <1>1, PlacesCountBetter
  <2>2. DOMAIN results \subseteq Seats \ {t} /\ IsFiniteSet(Seats) /\ Cardinality(Seats) \in Nat
    BY <1>1, GameAssumption, FS_CardinalityType
  <2>3. IsFiniteSet(Seats \ {t}) /\ Cardinality(Seats \ {t}) = Cardinality(Seats) - 1
    BY <1>1, <2>2, FS_RemoveElement
  <2>4. Cardinality(DOMAIN results) <= Cardinality(Seats) - 1 /\ Cardinality(DOMAIN results) \in Nat
    BY <2>2, <2>3, FS_Subset, FS_CardinalityType
  <2>5. ranks[s] \in Int
    <3>1. ranks[s] = 1 + Cardinality(Better(results, s))
      BY <1>1, PlacesCountBetter
    <3>2. Cardinality(Better(results, s)) \in Nat
      BY <1>1, FS_Subset, FS_CardinalityType DEF Better, IsScore
    <3> QED
      BY <3>1, <3>2
  <2>6. ranks[s] <= Cardinality(DOMAIN results)
    BY <1>2
  <2> QED
    BY <2>1, <2>2, <2>4, <2>5, <2>6
<1>4. ASSUME NEW s \in DOMAIN results PROVE results[s].routePoints = routeScore[s]
  <2>1. s \in Seats /\ s \in activeOf(position)
    BY <1>1 DEF activeOf, position, BoardOK, BoardTypeOK
  <2>2. results[s].routePoints = sumRoutePoints(claimedRoutes[s])
    BY <1>1, <2>1 DEF FinalScore, buildBreakdown, position
  <2> QED
    BY <2>1, <2>2 DEF BoardOK, AccountOf
<1> QED
  BY <1>2, <1>3, <1>4 DEF RanksAreFair

-----------------------------------------------------------------------------
(***************************************************************************)
(* Borrowed routes.                                                        *)
(***************************************************************************)
\* Of any assignments for n stations one is tried before all others.
LEMMA OneIsTriedFirst ==
  ASSUME NEW n \in Nat, NEW S \in SUBSET [1..n -> Nat], S # {}
  PROVE  \E a \in S : \A b \in S \ {a} : triedBefore(a, b)
<1> DEFINE same(a, b, k)   == \A j \in 1..k : b[j] = a[j]
           before(a, b, k) == \E i \in 1..k : a[i] < b[i] /\ \A j \in 1..(i - 1) : a[j] = b[j]
           First(a, k)     == \A b \in S : same(a, b, k) \/ before(a, b, k)
           F == {k \in Nat : k <= n => \E a \in S : First(a, k)}
<1>1. 0 \in F
  OBVIOUS
<1>2. ASSUME NEW k \in Nat, k \in F PROVE k + 1 \in F
  <2> SUFFICES ASSUME k + 1 <= n PROVE \E a \in S : First(a, k + 1)
    OBVIOUS
  <2>1. PICK a \in S : First(a, k)
    BY <1>2
  <2> DEFINE T == {b \in S : same(a, b, k)}
             V == {b[k + 1] : b \in T}
  <2>2. k + 1 \in 1..n /\ \A b \in S : b[k + 1] \in Nat
    OBVIOUS
  <2>3. V \in SUBSET Nat /\ V # {}
    BY <2>2
  <2>4. PICK v \in V : \A w \in V : v <= w
    <3> HIDE DEF V
    <3> QED
      BY <2>3, LeastNatural
  <2>5. PICK b \in T : b[k + 1] = v
    OBVIOUS
  <2>6. ASSUME NEW c \in S PROVE same(b, c, k + 1) \/ before(b, c, k + 1)
    <3>1. \A j \in 1..k : b[j] = a[j]
      BY <2>5
    <3>2. CASE same(a, c, k)
      <4>1. c[k + 1] \in V /\ v <= c[k + 1] /\ v \in Nat /\ c[k + 1] \in Nat
        BY <2>2, <2>3, <2>4, <3>2
      <4>2. CASE c[k + 1] = v
        <5>1. ASSUME NEW j \in 1..(k + 1) PROVE c[j] = b[j]
          <6>1. CASE j = k + 1
            BY <2>5, <4>2, <6>1
          <6>2. CASE j # k + 1
            <7>1. j \in 1..k
              BY <6>2
            <7> QED
              BY <3>1, <3>2, <7>1
          <6> QED
            BY <6>1, <6>2
        <5>2. same(b, c, k + 1)
          BY <5>1
        <5> HIDE DEF same, before
        <5> QED
          BY <5>2
      <4>3. CASE v < c[k + 1]
        <5>1. \A j \in 1..(k + 1 - 1) : b[j] = c[j]
          BY <3>1, <3>2
        <5>2. k + 1 \in 1..(k + 1) /\ b[k + 1] < c[k + 1]
          BY <2>5, <4>3
        <5> QED
          BY <5>1, <5>2
      <4> HIDE DEF F, First, T, V, same, before
      <4>4. c[k + 1] = v \/ v < c[k + 1]
        BY <4>1
      <4> QED
        BY <4>2, <4>3, <4>4
    <3>3. CASE before(a, c, k)
      <4>1. PICK i \in 1..k : a[i] < c[i] /\ \A j \in 1..(i - 1) : a[j] = c[j]
        BY <3>3
      <4>2. i \in 1..(k + 1) /\ b[i] < c[i]
        BY <3>1, <4>1
      <4>3. \A j \in 1..(i - 1) : b[j] = c[j]
        BY <3>1, <4>1
      <4> HIDE DEF F, First, T, V, same
      <4>4. before(b, c, k + 1)
        BY <4>2, <4>3
      <4> HIDE DEF before
      <4> QED
        BY <4>4
    <3> QED
      BY <2>1, <3>2, <3>3
  <2> QED
    BY <2>6
<1>3. \A k \in Nat : k \in F
  <2> HIDE DEF F
  <2> QED
    BY <1>1, <1>2, NaturalsAreReached
<1>4. PICK a \in S : First(a, n)
  <2>1. n \in F
    BY <1>3
  <2>2. \E a \in S : First(a, n)
    <3> HIDE DEF First
    <3> QED
      BY <2>1
  <2> HIDE DEF First
  <2> QED
    BY <2>2
<1>5. ASSUME NEW b \in S \ {a} PROVE triedBefore(a, b)
  <2>1. DOMAIN a = 1..n /\ DOMAIN b = 1..n /\ a \in [1..n -> Nat] /\ b \in [1..n -> Nat]
    OBVIOUS
  <2>2. ~same(a, b, n)
    BY <1>5, <2>1
  <2>3. before(a, b, n)
    BY <1>4, <2>2
  <2> QED
    BY <2>1, <2>3 DEF triedBefore
<1> QED
  BY <1>5

\* What an assignment is worth.
LEMMA NetIsNumber ==
  ASSUME NEW a, NEW claimed, NEW T \in SUBSET Tickets
  PROVE  netOf(a, claimed, T) \in Int
<1>1. completedWith(a, claimed, T) \in SUBSET Tickets /\ T \ completedWith(a, claimed, T) \in SUBSET Tickets
  BY DEF completedWith
<1>2. /\ sumTicketPoints(completedWith(a, claimed, T)) \in Int
      /\ sumTicketPoints(T \ completedWith(a, claimed, T)) \in Int
  BY <1>1, TicketsAreSummed
<1> QED
  BY <1>2 DEF netOf

\* Assignments have a best net, however many they are: what they are worth
\* depends on the tickets they complete.
LEMMA BestNet ==
  ASSUME NEW all, all # {}, NEW claimed, NEW T \in SUBSET Tickets,
         NEW nets, \A a \in all : netOf(a, claimed, T) \in nets,
         \A x \in nets : \E a \in all : netOf(a, claimed, T) = x
  PROVE  /\ \E a \in all : netOf(a, claimed, T) = Max(nets)
         /\ \A a \in all : Max(nets) >= netOf(a, claimed, T)
<1> DEFINE worth(C) == sumTicketPoints(C) - sumTicketPoints(T \ C)
           sets == {completedWith(a, claimed, T) : a \in all}
           f == [C \in sets |-> worth(C)]
<1>1. sets \in SUBSET (SUBSET T)
  BY DEF completedWith
<1>2. IsFiniteSet(SUBSET T)
  BY GameAssumption, FS_Subset, FS_SUBSET
<1>3. IsFiniteSet(sets)
  <2> HIDE DEF sets
  <2> QED
    BY <1>1, <1>2, FS_Subset
<1>4. f \in Surjection(sets, nets)
  <2>1. \A a \in all : netOf(a, claimed, T) = worth(completedWith(a, claimed, T))
    BY DEF netOf
  <2> HIDE DEF worth
  <2>2. \A C \in sets : f[C] \in nets
    BY <2>1
  <2>3. \A x \in nets : \E C \in sets : f[C] = x
    BY <2>1
  <2>4. f \in [sets -> nets]
    BY <2>2
  <2> HIDE DEF f, sets
  <2> QED
    BY <2>3, <2>4 DEF Surjection
<1>5. IsFiniteSet(nets)
  <2> HIDE DEF f, sets
  <2> QED
    BY <1>3, <1>4, FS_Surjection
<1>6. nets # {} /\ \A x \in nets : x \in Int
  BY NetIsNumber
<1>7. \A a \in all : netOf(a, claimed, T) \in nets
  OBVIOUS
<1>8. Max(nets) \in nets /\ \A x \in nets : Max(nets) >= x
  BY <1>5, <1>6, MaxIsGreatest
<1>9. \A a \in all : Max(nets) >= netOf(a, claimed, T)
  BY <1>7, <1>8
<1>10. \E a \in all : netOf(a, claimed, T) = Max(nets)
  <2> HIDE DEF Max
  <2>1. PICK a \in all : Max(nets) = netOf(a, claimed, T)
    BY <1>8
  <2> QED
    BY <2>1
<1> QED
  BY <1>9, <1>10

\* What the stations of any player borrow is allowed and gains something.
LEMMA BorrowingFair ==
  ASSUME BoardOK, TicketsOK
  PROVE  BorrowingIsFair
<1> SUFFICES ASSUME NEW s \in Seats
             PROVE  LET a   == bestStationAssignment(routeOwner, s, claimedRoutes[s], stationCities[s], tickets[s])
                        own == [i \in DOMAIN stationCities[s] |-> noBorrow]
                    IN  /\ \A i \in DOMAIN a : a[i] # noBorrow =>
                             /\ routeOwner[a[i]] \in Seats \ {s}
                             /\ stationCities[s][i] \in {Route[a[i]].a, Route[a[i]].b}
                        /\ Range(a) \subseteq {noBorrow}
                             \/ netOf(a, claimedRoutes[s], tickets[s]) > netOf(own, claimedRoutes[s], tickets[s])
  BY DEF BorrowingIsFair
<1> DEFINE cities == stationCities[s]
           n == Len(cities)
           own == [i \in DOMAIN cities |-> noBorrow]
           all == assignments(routeOwner, s, cities)
           net(b) == netOf(b, claimedRoutes[s], tickets[s])
           nets == {net(b) : b \in all}
           best == {b \in all : net(b) = Max(nets)}
           a == CHOOSE b \in best : \A c \in best \ {b} : triedBefore(b, c)
<1>1. cities \in Seq(Cities) /\ n \in Nat /\ DOMAIN cities = 1..n
  BY DEF BoardOK, BoardTypeOK
<1>2. tickets[s] \in SUBSET Tickets
  BY DEF TicketsOK
<1>3. bestStationAssignment(routeOwner, s, claimedRoutes[s], cities, tickets[s]) = a
  BY DEF bestStationAssignment
<1>4. Routes \cup {noBorrow} \subseteq Nat
  BY MapIsValid DEF noBorrow, NoRoute
<1>5. all \in SUBSET [1..n -> Routes \cup {noBorrow}] /\ own \in all
  <2>1. all \in SUBSET [1..n -> Routes \cup {noBorrow}]
    BY <1>1 DEF assignments
  <2>2. own \in [DOMAIN cities -> Routes \cup {noBorrow}]
    OBVIOUS
  <2>3. \A i \in DOMAIN cities : own[i] \in stationOptions(routeOwner, s, cities[i])
    BY DEF stationOptions
  <2>4. own \in all
    BY <2>2, <2>3 DEF assignments
  <2> QED
    BY <2>1, <2>4
<1>6. (\E b \in all : net(b) = Max(nets)) /\ \A b \in all : Max(nets) >= net(b)
  <2> HIDE DEF all, net
  <2>1. /\ \A b \in all : netOf(b, claimedRoutes[s], tickets[s]) \in nets
        /\ \A x \in nets : \E b \in all : netOf(b, claimedRoutes[s], tickets[s]) = x
    BY DEF net
  <2> HIDE DEF nets
  <2>2. all # {}
    BY <1>5
  <2>3. /\ \E b \in all : netOf(b, claimedRoutes[s], tickets[s]) = Max(nets)
        /\ \A b \in all : Max(nets) >= netOf(b, claimedRoutes[s], tickets[s])
    BY <1>2, <2>1, <2>2, BestNet
  <2> QED
    BY <2>3 DEF net
<1>7. best # {} /\ best \in SUBSET [1..n -> Nat]
  <2>1. [1..n -> Routes \cup {noBorrow}] \subseteq [1..n -> Nat]
    BY <1>4
  <2>2. PICK b \in all : net(b) = Max(nets)
    BY <1>6
  <2> HIDE DEF all, nets, net
  <2> QED
    BY <1>5, <2>1, <2>2
<1>8. a \in best /\ \A c \in best \ {a} : triedBefore(a, c)
  <2> HIDE DEF best
  <2> QED
    BY <1>1, <1>7, OneIsTriedFirst
<1> HIDE DEF a, nets
<1>9. a \in all /\ a \in [1..n -> Routes \cup {noBorrow}]
  BY <1>5, <1>8
<1>10. ASSUME NEW i \in DOMAIN a, a[i] # noBorrow
       PROVE  /\ routeOwner[a[i]] \in Seats \ {s}
              /\ cities[i] \in {Route[a[i]].a, Route[a[i]].b}
  <2>1. i \in DOMAIN cities /\ a[i] \in stationOptions(routeOwner, s, cities[i])
    BY <1>1, <1>9, <1>10 DEF assignments
  <2>2. a[i] \in at(cities[i], Routes) /\ routeOwner[a[i]] >= 0 /\ routeOwner[a[i]] # s
    BY <1>10, <2>1 DEF stationOptions
  <2>3. a[i] \in Routes /\ cities[i] \in {Route[a[i]].a, Route[a[i]].b}
    BY <2>2 DEF at
  <2>4. routeOwner[a[i]] \in Seats
    BY <2>2, <2>3 DEF BoardOK, BoardTypeOK, Nobody
  <2> QED
    BY <2>2, <2>3, <2>4
<1>11. Range(a) \subseteq {noBorrow} \/ net(a) > net(own)
  <2>1. net(a) = Max(nets) /\ net(a) >= net(own) /\ net(a) \in Int /\ net(own) \in Int
    BY <1>2, <1>5, <1>6, <1>8, NetIsNumber
  <2>2. CASE net(a) = net(own)
    <3>1. own \in best
      BY <1>5, <2>1, <2>2
    <3>2. a = own
      <4> SUFFICES ASSUME a # own PROVE FALSE
        OBVIOUS
      <4>1. triedBefore(a, own)
        BY <1>8, <3>1
      <4>2. PICK i \in DOMAIN a : a[i] < own[i]
        BY <4>1 DEF triedBefore
      <4>3. i \in 1..n /\ own[i] = 0 /\ a[i] \in Nat
        BY <1>1, <1>4, <1>9, <4>2 DEF noBorrow, NoRoute
      <4> QED
        BY <4>2, <4>3
    <3>3. Range(own) \subseteq {noBorrow}
      BY DEF Range
    <3> QED
      BY <3>2, <3>3
  <2> QED
    BY <2>1, <2>2
<1> HIDE DEF own
<1> QED
  BY <1>3, <1>10, <1>11 DEF own

-----------------------------------------------------------------------------
(***************************************************************************)
(* The longest trail.  Lengths(c, S) are the lengths of the trails that    *)
(* start at c and take routes of S, each once, the trail of none included. *)
(***************************************************************************)
Leads(w, p, n) ==
  /\ \A i, j \in 1..n : w[i] = w[j] => i = j
  /\ \A i \in 1..n : {p[i], p[i + 1]} = {Route[w[i]].a, Route[w[i]].b}

Walked(w, n) == {w[i] : i \in 1..n}

Lengths(c, S) ==
  {x \in Int : \E n \in Nat : \E w \in [1..n -> S] : \E p \in [1..(n + 1) -> Cities] :
     Leads(w, p, n) /\ p[1] = c /\ x = lengthOf(Walked(w, n))}

\* The far end of a route at c is another city.
LEMMA OtherEnds ==
  ASSUME NEW S \in SUBSET Routes, NEW c, NEW r \in at(c, S)
  PROVE  /\ r \in S /\ otherEnd(r, c) \in Cities
         /\ {c, otherEnd(r, c)} = {Route[r].a, Route[r].b}
         /\ \A d : {c, d} = {Route[r].a, Route[r].b} => d = otherEnd(r, c)
BY MapIsValid DEF at, otherEnd, validRouteIdentity

\* Lengths of sets of routes are numbers.
LEMMA LengthIsNumber ==
  /\ lengthOf({}) = 0
  /\ \A S \in SUBSET Routes : lengthOf(S) \in Int
<1>1. lengthOf({}) = 0
  BY LengthsAreSummed, SumOfNone
<1>2. ASSUME NEW S \in SUBSET Routes PROVE lengthOf(S) \in Int
  <2>1. IsFiniteSet(S) /\ \A q \in S : lengths[q] \in Int
    BY GameAssumption, RouteValues, FS_Subset DEF lengths
  <2>2. Sum(lengths, S) \in Int
    BY <2>1, SumType
  <2> QED
    BY <2>2, LengthsAreSummed
<1> QED
  BY <1>1, <1>2

\* The lengths from a city are those of sets of routes: finitely many numbers.
LEMMA LengthsAreFinite ==
  ASSUME NEW S \in SUBSET Routes
  PROVE  \E all : /\ IsFiniteSet(all) /\ all \subseteq Int
                  /\ \A c : Lengths(c, S) \subseteq all
<1> DEFINE f == [X \in SUBSET S |-> lengthOf(X)]
           all == {lengthOf(X) : X \in SUBSET S}
<1>1. IsFiniteSet(SUBSET S)
  BY GameAssumption, FS_Subset, FS_SUBSET
<1>2. f \in Surjection(SUBSET S, all)
  BY DEF Surjection
<1>3. IsFiniteSet(all)
  <2> HIDE DEF f, all
  <2> QED
    BY <1>1, <1>2, FS_Surjection
<1>4. all \subseteq Int
  BY LengthIsNumber
<1>5. ASSUME NEW c PROVE Lengths(c, S) \subseteq all
  BY DEF Lengths, Walked
<1> HIDE DEF all
<1> QED
  BY <1>3, <1>4, <1>5

\* A trail may take a route to where another trail starts that does not take it, ...
LEMMA TrailsGrow ==
  ASSUME NEW S \in SUBSET Routes, NEW c \in Cities, NEW r \in at(c, S),
         NEW x \in Lengths(otherEnd(r, c), S \ {r})
  PROVE  Route[r].length + x \in Lengths(c, S)
<1> DEFINE d == otherEnd(r, c)
<1>1. r \in S /\ d \in Cities /\ {c, d} = {Route[r].a, Route[r].b}
  BY OtherEnds
<1>0. PICK n \in Nat : \E w \in [1..n -> S \ {r}] : \E p \in [1..(n + 1) -> Cities] :
        Leads(w, p, n) /\ p[1] = d /\ x = lengthOf(Walked(w, n))
  BY DEF Lengths
<1>2. PICK w \in [1..n -> S \ {r}], p \in [1..(n + 1) -> Cities] :
        Leads(w, p, n) /\ p[1] = d /\ x = lengthOf(Walked(w, n)) /\ x \in Int
  BY <1>0 DEF Lengths
<1> DEFINE v == [i \in 1..(n + 1) |-> IF i = 1 THEN r ELSE w[i - 1]]
           q == [i \in 1..(n + 2) |-> IF i = 1 THEN c ELSE p[i - 1]]
<1>3. v \in [1..(n + 1) -> S] /\ q \in [1..(n + 1 + 1) -> Cities] /\ q[1] = c
  <2>1. \A i \in 1..(n + 1) : i # 1 => i - 1 \in 1..n
    OBVIOUS
  <2>2. \A i \in 1..(n + 2) : i # 1 => i - 1 \in 1..(n + 1)
    OBVIOUS
  <2>3. v \in [1..(n + 1) -> S]
    BY <1>1, <1>2, <2>1
  <2>4. q \in [1..(n + 2) -> Cities] /\ n + 2 = n + 1 + 1
    BY <1>2, <2>2
  <2> QED
    BY <2>3, <2>4
<1>4. v[1] = r /\ q[1] = c /\ q[2] = d
  BY <1>2
<1>5. \A i \in 1..(n + 1) : i # 1 => i - 1 \in 1..n /\ v[i] = w[i - 1] /\ q[i] = p[i - 1] /\ q[i + 1] = p[i]
  OBVIOUS
<1> HIDE DEF v, q, d
<1>6. Leads(v, q, n + 1)
  <2>1. ASSUME NEW i \in 1..(n + 1), NEW j \in 1..(n + 1), v[i] = v[j] PROVE i = j
    <3>1. CASE i # 1 /\ j # 1
      BY <1>2, <1>5, <2>1, <3>1 DEF Leads
    <3>2. CASE i = 1 /\ j # 1
      BY <1>2, <1>4, <1>5, <2>1, <3>2
    <3>3. CASE i # 1 /\ j = 1
      BY <1>2, <1>4, <1>5, <2>1, <3>3
    <3> QED
      BY <3>1, <3>2, <3>3
  <2>2. ASSUME NEW i \in 1..(n + 1) PROVE {q[i], q[i + 1]} = {Route[v[i]].a, Route[v[i]].b}
    <3>1. CASE i = 1
      BY <1>1, <1>4, <3>1
    <3>2. CASE i # 1
      <4>1. i - 1 \in 1..n /\ v[i] = w[i - 1] /\ q[i] = p[i - 1] /\ q[i + 1] = p[i - 1 + 1]
        BY <1>5, <3>2
      <4> QED
        BY <1>2, <4>1 DEF Leads
    <3> QED
      BY <3>1, <3>2
  <2> QED
    BY <2>1, <2>2 DEF Leads
<1>7. Walked(v, n + 1) = Walked(w, n) \cup {r} /\ Walked(w, n) \in SUBSET Routes /\ r \in Routes \ Walked(w, n)
  <2>1. ASSUME NEW e \in Walked(v, n + 1) PROVE e \in Walked(w, n) \cup {r}
    <3>1. PICK i \in 1..(n + 1) : e = v[i]
      BY DEF Walked
    <3>2. CASE i = 1
      BY <1>4, <3>1, <3>2
    <3>3. CASE i # 1
      BY <1>5, <3>1, <3>3 DEF Walked
    <3> QED
      BY <3>2, <3>3
  <2>2. ASSUME NEW e \in Walked(w, n) PROVE e \in Walked(v, n + 1)
    <3>1. PICK i \in 1..n : e = w[i]
      BY DEF Walked
    <3>2. i + 1 \in 1..(n + 1) /\ i + 1 # 1 /\ (i + 1) - 1 = i
      OBVIOUS
    <3>3. v[i + 1] = w[i]
      BY <1>5, <3>2
    <3> QED
      BY <3>1, <3>2, <3>3 DEF Walked
  <2>3. r \in Walked(v, n + 1)
    BY <1>4 DEF Walked
  <2>4. Walked(w, n) \subseteq S \ {r}
    BY <1>2 DEF Walked
  <2> QED
    BY <1>1, <2>1, <2>2, <2>3, <2>4
<1>8. Route[r].length + x = lengthOf(Walked(v, n + 1)) /\ Route[r].length + x \in Int
  BY <1>2, <1>7, RouteAdded, RouteValues
<1>9. n + 1 \in Nat
  OBVIOUS
<1> QED
  BY <1>3, <1>6, <1>8, <1>9 DEF Lengths

\* ... and what remains of a trail after its first route is one.
LEMMA TrailsShrink ==
  ASSUME NEW S \in SUBSET Routes, NEW c, NEW x \in Lengths(c, S), x # 0
  PROVE  \E r \in at(c, S) : x - Route[r].length \in Lengths(otherEnd(r, c), S \ {r})
<1>0. PICK m \in Nat : \E v \in [1..m -> S] : \E q \in [1..(m + 1) -> Cities] :
        Leads(v, q, m) /\ q[1] = c /\ x = lengthOf(Walked(v, m))
  BY DEF Lengths
<1>1. PICK v \in [1..m -> S], q \in [1..(m + 1) -> Cities] :
        Leads(v, q, m) /\ q[1] = c /\ x = lengthOf(Walked(v, m))
  BY <1>0
<1>2. m # 0
  <2> SUFFICES ASSUME m = 0 PROVE FALSE
    OBVIOUS
  <2>1. Walked(v, m) = {}
    BY DEF Walked
  <2> QED
    BY <1>1, <2>1, LengthIsNumber
<1> DEFINE n == m - 1
           r == v[1]
           w == [i \in 1..n |-> v[i + 1]]
           p == [i \in 1..(n + 1) |-> q[i + 1]]
<1>3. n \in Nat /\ m = n + 1 /\ 1 \in 1..m
  BY <1>2
<1>4. /\ \A i \in 1..n : i + 1 \in 1..m /\ i + 1 # 1
      /\ \A i \in 1..(n + 1) : i + 1 \in 1..(m + 1)
  BY <1>3
<1>5. /\ \A i \in 1..n : w[i] = v[i + 1]
      /\ \A i \in 1..(n + 1) : p[i] = q[i + 1]
  OBVIOUS
<1>6. p \in [1..(n + 1) -> Cities]
  BY <1>4
<1>7. {c, q[2]} = {Route[r].a, Route[r].b} /\ r \in S
  BY <1>1, <1>3 DEF Leads
<1>8. r \in at(c, S) /\ q[2] = otherEnd(r, c)
  <2>1. r \in at(c, S)
    BY <1>7 DEF at
  <2>2. Route[r].a # Route[r].b
    BY <1>7, MapIsValid DEF validRouteIdentity
  <2> HIDE DEF r
  <2> QED
    BY <1>7, <2>1, <2>2 DEF otherEnd
<1>9. w \in [1..n -> S \ {r}]
  <2>1. ASSUME NEW i \in 1..n PROVE v[i + 1] \in S \ {r}
    BY <1>1, <1>3, <1>4 DEF Leads
  <2> QED
    BY <2>1
<1>10. p[1] = q[2]
  BY <1>3, <1>5
<1> HIDE DEF w, p, r, n
<1>11. Leads(w, p, n)
  <2>1. ASSUME NEW i \in 1..n, NEW j \in 1..n, w[i] = w[j] PROVE i = j
    <3>1. v[i + 1] = v[j + 1] /\ i + 1 \in 1..m /\ j + 1 \in 1..m
      BY <1>4, <1>5, <2>1
    <3>2. i + 1 = j + 1
      BY <1>1, <3>1 DEF Leads
    <3> QED
      BY <1>3, <3>2
  <2>2. ASSUME NEW i \in 1..n PROVE {p[i], p[i + 1]} = {Route[w[i]].a, Route[w[i]].b}
    <3>1. i \in 1..(n + 1) /\ i + 1 \in 1..(n + 1)
      BY <1>3
    <3>2. w[i] = v[i + 1] /\ p[i] = q[i + 1] /\ p[i + 1] = q[i + 1 + 1] /\ i + 1 \in 1..m
      BY <1>4, <1>5, <3>1
    <3> QED
      BY <1>1, <3>2 DEF Leads
  <2> QED
    BY <2>1, <2>2 DEF Leads
<1>12. Walked(v, m) = Walked(w, n) \cup {r} /\ Walked(w, n) \in SUBSET Routes /\ r \in Routes \ Walked(w, n)
  <2>1. ASSUME NEW e \in Walked(v, m) PROVE e \in Walked(w, n) \cup {r}
    <3>1. PICK i \in 1..m : e = v[i]
      BY DEF Walked
    <3>2. CASE i = 1
      BY <3>1, <3>2 DEF r
    <3>3. CASE i # 1
      <4>1. i - 1 \in 1..n /\ (i - 1) + 1 = i
        BY <1>3, <3>3
      <4>2. w[i - 1] = v[i]
        BY <1>5, <4>1
      <4> QED
        BY <3>1, <4>1, <4>2 DEF Walked
    <3> QED
      BY <3>2, <3>3
  <2>2. ASSUME NEW e \in Walked(w, n) PROVE e \in Walked(v, m)
    BY <1>4, <1>5 DEF Walked
  <2>3. r \in Walked(v, m)
    BY <1>3 DEF Walked, r
  <2>4. Walked(w, n) \subseteq S \ {r}
    BY <1>9 DEF Walked
  <2> QED
    BY <1>7, <2>1, <2>2, <2>3, <2>4
<1>13. x = Route[r].length + lengthOf(Walked(w, n)) /\ lengthOf(Walked(w, n)) \in Int
  BY <1>1, <1>12, RouteAdded, RouteValues
<1>14. lengthOf(Walked(w, n)) \in Lengths(otherEnd(r, c), S \ {r})
  BY <1>3, <1>6, <1>8, <1>9, <1>10, <1>11, <1>13 DEF Lengths
<1>15. Route[r].length \in Int
  BY <1>12, RouteValues
<1>16. x - Route[r].length = lengthOf(Walked(w, n))
  BY <1>13, <1>15
<1> QED
  BY <1>8, <1>14, <1>16

\* The longest trail from c over S: the greatest of its lengths.
LEMMA BestFrom ==
  ASSUME NEW S \in SUBSET Routes, NEW c \in Cities
  PROVE  /\ 0 \in Lengths(c, S)
         /\ Max(Lengths(c, S)) \in Lengths(c, S)
         /\ \A x \in Lengths(c, S) : Max(Lengths(c, S)) >= x
         /\ Lengths(c, S) \subseteq Int
<1> DEFINE none == [i \in 1..0 |-> i]
           here == [i \in 1..(0 + 1) |-> c]
<1>1. 0 \in Lengths(c, S)
  <2>1. none \in [1..0 -> S] /\ here \in [1..(0 + 1) -> Cities] /\ here[1] = c
    OBVIOUS
  <2>2. Leads(none, here, 0) /\ Walked(none, 0) = {}
    BY DEF Leads, Walked
  <2>3. lengthOf(Walked(none, 0)) = 0
    BY <2>2, LengthIsNumber
  <2> HIDE DEF none, here
  <2>4. \E w \in [1..0 -> S] : \E p \in [1..(0 + 1) -> Cities] :
          Leads(w, p, 0) /\ p[1] = c /\ 0 = lengthOf(Walked(w, 0))
    BY <2>1, <2>2, <2>3
  <2>5. \E n \in Nat : \E w \in [1..n -> S] : \E p \in [1..(n + 1) -> Cities] :
          Leads(w, p, n) /\ p[1] = c /\ 0 = lengthOf(Walked(w, n))
    <3>1. 0 \in Nat
      OBVIOUS
    <3> QED
      BY <2>4, <3>1, Zenon
  <2> QED
    BY <2>5 DEF Lengths
<1>2. IsFiniteSet(Lengths(c, S)) /\ \A x \in Lengths(c, S) : x \in Int
  BY LengthsAreFinite, FS_Subset
<1> QED
  BY <1>1, <1>2, MaxIsGreatest

\* The greatest element of a set is its Max.
LEMMA GreatestIsMax ==
  ASSUME NEW S, NEW m \in S, \A x \in S : x \in Int /\ m >= x
  PROVE  Max(S) = m
BY DEF Max

\* What dfs compares at c with the routes S left.
Compares(cand, c, S) ==
  /\ 0 \in cand
  /\ \A r \in at(c, S) : Route[r].length + Max(Lengths(otherEnd(r, c), S \ {r})) \in cand
  /\ \A x \in cand : \/ x = 0
                      \/ \E r \in at(c, S) : x = Route[r].length + Max(Lengths(otherEnd(r, c), S \ {r}))

\* A longest trail from c is none, or a route at c and a longest trail of the
\* rest from its far end: the longest lengths solve the recursion of dfs.
LEMMA BestStep ==
  ASSUME NEW S \in SUBSET Routes, NEW c \in Cities,
         NEW cand, Compares(cand, c, S)
  PROVE  Max(cand) = Max(Lengths(c, S))
<1> DEFINE g == [r \in at(c, S) |-> Max(Lengths(otherEnd(r, c), S \ {r}))]
           m == Max(Lengths(c, S))
<1>0. /\ \A r \in at(c, S) : g[r] = Max(Lengths(otherEnd(r, c), S \ {r}))
      /\ 0 \in cand /\ \A r \in at(c, S) : Route[r].length + g[r] \in cand
      /\ \A x \in cand : x = 0 \/ \E r \in at(c, S) : x = Route[r].length + g[r]
  BY DEF Compares
<1> HIDE DEF g
<1>1. m \in Lengths(c, S) /\ m \in Int /\ 0 \in Lengths(c, S) /\ \A x \in Lengths(c, S) : x \in Int /\ m >= x
  BY BestFrom
<1> HIDE DEF m
<1>2. ASSUME NEW r \in at(c, S)
      PROVE  /\ g[r] \in Int /\ Route[r].length \in Int
             /\ Route[r].length + g[r] \in Lengths(c, S)
             /\ \A y \in Lengths(otherEnd(r, c), S \ {r}) : y \in Int /\ g[r] >= y
  <2>1. r \in Routes /\ otherEnd(r, c) \in Cities /\ S \ {r} \in SUBSET Routes
    BY OtherEnds
  <2>2. /\ g[r] \in Lengths(otherEnd(r, c), S \ {r}) /\ Lengths(otherEnd(r, c), S \ {r}) \subseteq Int
        /\ \A y \in Lengths(otherEnd(r, c), S \ {r}) : g[r] >= y
    BY <1>0, <2>1, BestFrom
  <2>3. Route[r].length + g[r] \in Lengths(c, S)
    BY <2>2, TrailsGrow
  <2>4. Route[r].length \in Int /\ g[r] \in Int
    <3>1. Route[r].length \in Int
      BY <2>1, RouteValues
    <3> QED
      BY <2>2, <3>1
  <2> QED
    BY <2>2, <2>3, <2>4
<1>3. \A x \in cand : x \in Lengths(c, S)
  BY <1>0, <1>1, <1>2
<1>4. m \in cand
  <2>1. CASE m = 0
    BY <1>0, <2>1
  <2>2. CASE m # 0
    <3>1. PICK r \in at(c, S) : m - Route[r].length \in Lengths(otherEnd(r, c), S \ {r})
      <4>1. S \in SUBSET Routes /\ m \in Lengths(c, S) /\ m # 0
        BY <1>1, <2>2
      <4> QED
        BY <4>1, TrailsShrink
    <3>2. g[r] >= m - Route[r].length /\ m >= Route[r].length + g[r]
      BY <1>1, <1>2, <3>1
    <3>3. m = Route[r].length + g[r]
      <4>1. m \in Int /\ g[r] \in Int /\ Route[r].length \in Int
        BY <1>1, <1>2
      <4> QED
        BY <3>2, <4>1
    <3> QED
      BY <1>0, <3>3
  <2> QED
    BY <2>1, <2>2
<1>5. Max(cand) = m
  BY <1>1, <1>3, <1>4, GreatestIsMax
<1> QED
  BY <1>5 DEF m

\* What dfs returns at a city, for the routes not used yet.
LEMMA DfsFinds ==
  ASSUME NEW R \in SUBSET Routes
  PROVE  \A c \in Cities : dfsOver(R)[<<c, R>>] = Max(Lengths(c, R))
<1> DEFINE body(d, v) == Max({0} \cup {Route[r].length + d[<<otherEnd(r, v[1]), v[2] \ {r}>>] : r \in at(v[1], v[2])})
           Solves(d)  == d = [v \in Cities \X SUBSET R |-> body(d, v)]
           best       == [v \in Cities \X SUBSET R |-> Max(Lengths(v[1], v[2]))]
           found      == CHOOSE d : Solves(d)
<1>1. dfsOver(R) = found
  BY DEF dfsOver
<1>2. ASSUME NEW d, NEW c \in Cities, NEW S \in SUBSET R,
             \A r \in at(c, S) : d[<<otherEnd(r, c), S \ {r}>>] = Max(Lengths(otherEnd(r, c), S \ {r}))
      PROVE  body(d, <<c, S>>) = Max(Lengths(c, S))
  <2> DEFINE cand == {0} \cup {Route[r].length + d[<<otherEnd(r, c), S \ {r}>>] : r \in at(c, S)}
  <2>1. body(d, <<c, S>>) = Max(cand)
    <3>1. <<c, S>>[1] = c /\ <<c, S>>[2] = S
      OBVIOUS
    <3> QED
      BY <3>1
  <2>2. Compares(cand, c, S)
    BY <1>2 DEF Compares
  <2> HIDE DEF cand, body
  <2>3. S \in SUBSET Routes
    OBVIOUS
  <2>4. Max(cand) = Max(Lengths(c, S))
    BY <2>2, <2>3, BestStep
  <2> QED
    BY <2>1, <2>4
<1> HIDE DEF body
<1>3. Solves(best)
  <2>1. ASSUME NEW v \in Cities \X SUBSET R PROVE body(best, v) = Max(Lengths(v[1], v[2]))
    <3>1. v[1] \in Cities /\ v[2] \in SUBSET R /\ v = <<v[1], v[2]>>
      OBVIOUS
    <3>2. ASSUME NEW r \in at(v[1], v[2])
          PROVE  best[<<otherEnd(r, v[1]), v[2] \ {r}>>] = Max(Lengths(otherEnd(r, v[1]), v[2] \ {r}))
      <4>1. otherEnd(r, v[1]) \in Cities /\ v[2] \ {r} \in SUBSET R
        BY <3>1, OtherEnds
      <4> QED
        BY <4>1
    <3> HIDE DEF best
    <3> QED
      BY <1>2, <3>1, <3>2
  <2> QED
    BY <2>1
<1>4. Solves(found)
  <2> HIDE DEF Solves
  <2> QED
    BY <1>3
<1> HIDE DEF best, found
<1> DEFINE F == {n \in Nat : \A c \in Cities : \A S \in SUBSET R :
                   Cardinality(S) <= n => found[<<c, S>>] = Max(Lengths(c, S))}
<1>5. ASSUME NEW c \in Cities, NEW S \in SUBSET R,
             \A r \in at(c, S) : found[<<otherEnd(r, c), S \ {r}>>] = Max(Lengths(otherEnd(r, c), S \ {r}))
      PROVE  found[<<c, S>>] = Max(Lengths(c, S))
  <2>1. <<c, S>> \in Cities \X SUBSET R
    OBVIOUS
  <2>2. found[<<c, S>>] = body(found, <<c, S>>)
    BY <1>4, <2>1
  <2> QED
    BY <1>2, <1>5, <2>2
<1>6. \A S \in SUBSET R : IsFiniteSet(S) /\ Cardinality(S) \in Nat
  BY GameAssumption, FS_Subset, FS_CardinalityType
<1>7. 0 \in F
  <2>1. ASSUME NEW c \in Cities, NEW S \in SUBSET R, Cardinality(S) <= 0 PROVE found[<<c, S>>] = Max(Lengths(c, S))
    <3>1. S = {}
      BY <1>6, <2>1, FS_EmptySet
    <3>2. at(c, S) = {}
      BY <3>1 DEF at
    <3> QED
      BY <1>5, <3>2
  <2> QED
    BY <2>1
<1>8. ASSUME NEW n \in Nat, n \in F PROVE n + 1 \in F
  <2>1. ASSUME NEW c \in Cities, NEW S \in SUBSET R, Cardinality(S) <= n + 1 PROVE found[<<c, S>>] = Max(Lengths(c, S))
    <3>1. ASSUME NEW r \in at(c, S)
          PROVE  found[<<otherEnd(r, c), S \ {r}>>] = Max(Lengths(otherEnd(r, c), S \ {r}))
      <4>1. r \in S /\ otherEnd(r, c) \in Cities
        BY OtherEnds
      <4>2. Cardinality(S \ {r}) = Cardinality(S) - 1
        BY <1>6, <4>1, FS_RemoveElement
      <4>3. Cardinality(S \ {r}) <= n
        BY <1>6, <2>1, <4>2
      <4> QED
        BY <1>8, <4>1, <4>3
    <3> QED
      BY <1>5, <3>1
  <2> QED
    BY <2>1
<1>9. Cardinality(R) \in F
  <2> HIDE DEF F
  <2>1. \A n \in Nat : n \in F
    BY <1>7, <1>8, NaturalsAreReached
  <2> QED
    BY <1>6, <2>1
<1> QED
  BY <1>1, <1>6, <1>9

\* A trail as Trails has it is one of those walked from a city of its routes,
\* and the other way round: no trail has more routes than there are.
LEMMA TrailsAreWalked ==
  ASSUME NEW R \in SUBSET Routes, NEW x
  PROVE  /\ (\E t \in Trails(R) : x = lengthOf(Range(t))) =>
              \E c \in citiesOf(R) \cap Cities : x \in Lengths(c, R)
         /\ \A c : x \in Lengths(c, R) => x = 0 \/ \E t \in Trails(R) : x = lengthOf(Range(t))
<1>1. IsFiniteSet(R) /\ Cardinality(R) \in Nat
  BY GameAssumption, FS_Subset, FS_CardinalityType
<1>2. ASSUME NEW t \in Trails(R) PROVE \E c \in citiesOf(R) \cap Cities : lengthOf(Range(t)) \in Lengths(c, R)
  <2>1. PICK n \in 1..Cardinality(R) : t \in [1..n -> R]
    BY DEF Trails
  <2>2. n \in Nat /\ 1 \in 1..n /\ Len(t) = n /\ DOMAIN t = 1..n
    BY <1>1, <2>1
  <2>3. /\ \A i, j \in DOMAIN t : t[i] = t[j] => i = j
        /\ \E p \in [1..(Len(t) + 1) -> Cities] :
             \A i \in DOMAIN t : {p[i], p[i + 1]} = {Route[t[i]].a, Route[t[i]].b}
    BY DEF Trails
  <2>4. PICK p \in [1..(n + 1) -> Cities] : \A i \in 1..n : {p[i], p[i + 1]} = {Route[t[i]].a, Route[t[i]].b}
    BY <2>2, <2>3
  <2>5. Leads(t, p, n)
    BY <2>2, <2>3, <2>4 DEF Leads
  <2>6. Range(t) = Walked(t, n) /\ Walked(t, n) \in SUBSET Routes
    BY <2>1, <2>2 DEF Range, Walked
  <2>7. lengthOf(Range(t)) \in Int /\ lengthOf(Range(t)) = lengthOf(Walked(t, n))
    BY <2>6, LengthIsNumber
  <2>8. p[1] \in Cities /\ p[1] \in citiesOf(R)
    <3>1. {p[1], p[1 + 1]} = {Route[t[1]].a, Route[t[1]].b} /\ t[1] \in R
      BY <2>1, <2>2, <2>4
    <3>2. 1 \in 1..(n + 1)
      BY <2>2
    <3> QED
      BY <3>1, <3>2 DEF citiesOf
  <2>9. lengthOf(Range(t)) \in Lengths(p[1], R)
    <3>1. \E w \in [1..n -> R] : \E q \in [1..(n + 1) -> Cities] :
            Leads(w, q, n) /\ q[1] = p[1] /\ lengthOf(Range(t)) = lengthOf(Walked(w, n))
      BY <2>1, <2>5, <2>7
    <3> QED
      BY <2>2, <2>7, <3>1 DEF Lengths
  <2> QED
    BY <2>8, <2>9
<1>3. ASSUME NEW c, x \in Lengths(c, R), x # 0 PROVE \E t \in Trails(R) : x = lengthOf(Range(t))
  <2>1. PICK n \in Nat : \E w \in [1..n -> R] : \E p \in [1..(n + 1) -> Cities] :
          Leads(w, p, n) /\ p[1] = c /\ x = lengthOf(Walked(w, n))
    BY <1>3 DEF Lengths
  <2>2. PICK w \in [1..n -> R], p \in [1..(n + 1) -> Cities] :
          Leads(w, p, n) /\ x = lengthOf(Walked(w, n))
    BY <2>1
  <2>3. Len(w) = n /\ DOMAIN w = 1..n /\ Range(w) = Walked(w, n)
    BY <2>2 DEF Range, Walked
  <2>4. n # 0
    <3> SUFFICES ASSUME n = 0 PROVE FALSE
      OBVIOUS
    <3>1. Walked(w, n) = {}
      BY DEF Walked
    <3> QED
      BY <1>3, <2>2, <3>1, LengthIsNumber
  <2>5. n <= Cardinality(R)
    <3>1. IsFiniteSet(1..n) /\ Cardinality(1..n) = n
      <4>1. 1 \in Int /\ n \in Int
        OBVIOUS
      <4> QED
        BY <4>1, FS_Interval
    <3>2. w \in Injection(1..n, R)
      BY <2>2 DEF Leads, Injection, IsInjective
    <3>3. Cardinality(1..n) <= Cardinality(R)
      BY <1>1, <3>2, FS_Injection
    <3> QED
      BY <3>1, <3>3
  <2>6. n \in 1..Cardinality(R)
    BY <1>1, <2>4, <2>5
  <2>7. w \in UNION {[1..k -> R] : k \in 1..Cardinality(R)}
    BY <2>2, <2>6
  <2>8. \A i, j \in DOMAIN w : w[i] = w[j] => i = j
    BY <2>2, <2>3 DEF Leads
  <2>9. \E q \in [1..(Len(w) + 1) -> Cities] :
          \A i \in DOMAIN w : {q[i], q[i + 1]} = {Route[w[i]].a, Route[w[i]].b}
    BY <2>2, <2>3 DEF Leads
  <2>10. w \in Trails(R)
    BY <2>7, <2>8, <2>9 DEF Trails
  <2> QED
    BY <2>2, <2>3, <2>10
<1> QED
  BY <1>2, <1>3

\* longestTrail's search finds the length of a longest trail, whatever the
\* routes: in particular those of a player, for the bonus.
THEOREM LongestTrailIsLongest ==
  ASSUME NEW R \in SUBSET Routes
  PROVE  longestTrail(R) = Max({0} \cup {lengthOf(Range(t)) : t \in Trails(R)})
<1> DEFINE best(c) == Max(Lengths(c, R))
           found   == {0} \cup {best(c) : c \in citiesOf(R)}
           walked  == {0} \cup {lengthOf(Range(t)) : t \in Trails(R)}
           most    == Max(found)
<1>1. citiesOf(R) \subseteq Cities
  BY MapIsValid DEF citiesOf, validRouteIdentity
<1>2. longestTrail(R) = most
  <2>1. \A c \in citiesOf(R) : dfsOver(R)[<<c, R>>] = best(c)
    BY <1>1, DfsFinds
  <2>2. {dfsOver(R)[<<c, R>>] : c \in citiesOf(R)} = {best(c) : c \in citiesOf(R)}
    BY <2>1
  <2> HIDE DEF best
  <2> QED
    BY <2>2 DEF longestTrail
<1>3. \A c \in citiesOf(R) : /\ best(c) \in Lengths(c, R) /\ best(c) \in Int
                            /\ \A x \in Lengths(c, R) : best(c) >= x
  BY <1>1, BestFrom
<1>4. IsFiniteSet(found)
  <2>1. PICK all : IsFiniteSet(all) /\ all \subseteq Int /\ \A c : Lengths(c, R) \subseteq all
    BY LengthsAreFinite
  <2>2. found \subseteq all \cup {0}
    BY <1>3, <2>1
  <2>3. IsFiniteSet(all \cup {0})
    BY <2>1, FS_AddElement
  <2> HIDE DEF found
  <2> QED
    BY <2>2, <2>3, FS_Subset
<1>5. most \in found /\ most \in Int /\ \A x \in found : most >= x
  <2>1. found # {} /\ \A x \in found : x \in Int
    BY <1>3
  <2> HIDE DEF found
  <2> QED
    BY <1>4, <2>1, MaxIsGreatest
<1> HIDE DEF most
<1>6. most \in walked
  <2>1. CASE most = 0
    BY <2>1
  <2>2. CASE most # 0
    <3>1. PICK c \in citiesOf(R) : most = best(c)
      BY <1>5, <2>2
    <3>2. most \in Lengths(c, R)
      BY <1>3, <3>1
    <3>3. \E t \in Trails(R) : most = lengthOf(Range(t))
      BY <2>2, <3>2, TrailsAreWalked
    <3> QED
      BY <3>3
  <2> QED
    BY <2>1, <2>2
<1>7. ASSUME NEW x \in walked PROVE x \in Int /\ most >= x
  <2>1. CASE x = 0
    BY <1>5, <2>1
  <2>2. CASE x # 0
    <3>1. \E t \in Trails(R) : x = lengthOf(Range(t))
      BY <2>2
    <3>2. PICK c \in citiesOf(R) \cap Cities : x \in Lengths(c, R)
      BY <3>1, TrailsAreWalked
    <3>3. x \in Int
      BY <3>2 DEF Lengths
    <3>4. best(c) \in found /\ best(c) >= x /\ best(c) \in Int
      BY <1>3, <3>2
    <3>5. most >= best(c)
      BY <1>5, <3>4
    <3> HIDE DEF best
    <3> QED
      BY <1>5, <3>3, <3>4, <3>5
  <2> QED
    BY <2>1, <2>2
<1> HIDE DEF walked
<1>8. Max(walked) = most
  BY <1>6, <1>7, GreatestIsMax
<1> QED
  BY <1>2, <1>8 DEF walked

\* In particular over the routes that are owned.
LEMMA TrailLongest == TrailIsLongest
<1> DEFINE R == {r \in Routes : routeOwner[r] # Nobody}
<1>1. longestTrail(R) = Max({0} \cup {lengthOf(Range(w)) : w \in Trails(R)})
  <2>1. R \in SUBSET Routes
    OBVIOUS
  <2> HIDE DEF R
  <2> QED
    BY <2>1, LongestTrailIsLongest
<1> QED
  BY <1>1 DEF TrailIsLongest

(***************************************************************************)
(* Scoring: the longest trail is one, a station borrows a route that may   *)
(* be borrowed and gains by it, and a place is one more than the number of *)
(* players ahead.                                                          *)
(***************************************************************************)
THEOREM ScoringHolds == Spec => []ScoringIsFair
<1>1. BoardOK /\ TicketsOK /\ ScoredOK => ScoringIsFair
  BY TrailLongest, BorrowingFair, RanksFair DEF ScoringIsFair
<1> QED
  BY <1>1, BoardInvariant, TicketsInvariant, ScoredInvariant, PTL

=============================================================================
