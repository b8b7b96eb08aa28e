------------------------------ MODULE TtrTurns ------------------------------
(***************************************************************************)
(* The turn flow of Ticket to Ride: ticket setup, turns and the decisions  *)
(* that interrupt them, the final round, and resignation.                  *)
(*                                                                         *)
(* Each action is one Engine.Apply, which the session runs in a            *)
(* transaction that locks the game's row.  Cards, tickets and the board    *)
(* appear only as the choices they leave to the player: which of the       *)
(* outcomes of a draw, a claim or a tunnel comes about is left open.       *)
(***************************************************************************)
EXTENDS Integers, FiniteSets

CONSTANTS
  Seats,            \* the seats the game was started with
  TrainsPerPlayer,  \* rules.trains_per_player of the map
  Lengths           \* the lengths of the map's routes

ASSUME TtrAssumption ==
  /\ Seats \subseteq Nat
  /\ IsFiniteSet(Seats)
  /\ Cardinality(Seats) >= 2
  /\ TrainsPerPlayer \in Nat
  /\ Lengths \subseteq Nat \ {0}

VARIABLES
  phase,
  currentSeat,
  finalTurnsLeft,  \* -1 until the final round is armed
  resigned,        \* the seats that have resigned
  setupDone,       \* the seats that have answered the setup keep
  trainsLeft,      \* each seat's trains
  scratch,         \* which of gs.Draw, PendingTunnel, PendingTicketDraw are set
  tunnelLength,    \* length of the route in PendingTunnel, 0 when there is none
  finalSeats,      \* history: who was playing when the final round was armed
  turns            \* history: turns each seat has ended since then, up to turnsCounted

gameVars    == <<phase, currentSeat, finalTurnsLeft, resigned, setupDone, trainsLeft,
                 scratch, tunnelLength>>
historyVars == <<finalSeats, turns>>
vars        == <<gameVars, historyVars>>

Awaiting == {"AWAITING_SECOND_DRAW", "AWAITING_TUNNEL", "AWAITING_TICKET_KEEP"}
Playing  == {"NORMAL"} \cup Awaiting
Phases   == {"SETUP_TICKETS", "FINISHED"} \cup Playing

endTriggerTrains == 2
minPlayers       == 2

\* Bound on the history variable turns: one more than anyone should get.
turnsCounted == 2

activePlayers == Seats \ resigned

\* The first of a set of seats in seat order.
FirstSeat(S) == CHOOSE s \in S : \A t \in S : s <= t

\* nextActiveSeat: the next seat clockwise, or the first one when the given
\* seat is not active itself.
nextActiveSeat(active, seat) ==
  LET later == {s \in active : s > seat}
  IN  IF seat \in active /\ later # {} THEN FirstSeat(later) ELSE FirstSeat(active)

Init ==
  /\ phase = "SETUP_TICKETS"
  /\ currentSeat \in Seats
  /\ finalTurnsLeft = -1
  /\ resigned = {}
  /\ setupDone = {}
  /\ trainsLeft = [s \in Seats |-> TrainsPerPlayer]
  /\ scratch = {}
  /\ tunnelLength = 0
  /\ finalSeats = {}
  /\ turns = [s \in Seats |-> 0]

-----------------------------------------------------------------------------
(***************************************************************************)
(* Setup: every player answers once, in any order.  The answer that        *)
(* completes the setup starts the first turn, past a first player who has  *)
(* resigned meanwhile.                                                     *)
(***************************************************************************)
allSetupDone(done) == activePlayers \subseteq done

\* Mutant: the first player keeps the turn although resigned.
firstTurn_Kept == currentSeat

firstTurn ==
  IF currentSeat \in activePlayers THEN currentSeat ELSE nextActiveSeat(activePlayers, currentSeat)

KeepSetupTickets(s) ==
  /\ phase = "SETUP_TICKETS"
  /\ s \notin resigned
  /\ s \notin setupDone
  /\ setupDone' = setupDone \cup {s}
  /\ IF allSetupDone(setupDone')
     THEN phase' = "NORMAL" /\ currentSeat' = firstTurn
     ELSE UNCHANGED <<phase, currentSeat>>
  /\ UNCHANGED <<finalTurnsLeft, resigned, trainsLeft, scratch, tunnelLength, historyVars>>

-----------------------------------------------------------------------------
(***************************************************************************)
(* The end of a turn.                                                      *)
(***************************************************************************)
\* advanceOrFinish, once the countdown is known.
advanceOrFinish(left, active) ==
  IF left = 0
  THEN phase' = "FINISHED" /\ UNCHANGED currentSeat
  ELSE phase' = "NORMAL" /\ currentSeat' = nextActiveSeat(active, currentSeat)

\* Mutants: arming also spends a turn; the trigger arms again.
countdown_ArmAndSpend(trains) ==
  IF finalTurnsLeft < 0 /\ trains <= endTriggerTrains THEN Cardinality(activePlayers) - 1
  ELSE IF finalTurnsLeft >= 0 THEN finalTurnsLeft - 1
  ELSE finalTurnsLeft

countdown_Rearms(trains) ==
  IF trains <= endTriggerTrains THEN Cardinality(activePlayers)
  ELSE IF finalTurnsLeft >= 0 THEN finalTurnsLeft - 1
  ELSE finalTurnsLeft

\* A turn either arms the final round or counts against it, never both.
countdown(trains) ==
  IF finalTurnsLeft < 0 /\ trains <= endTriggerTrains THEN Cardinality(activePlayers)
  ELSE IF finalTurnsLeft >= 0 THEN finalTurnsLeft - 1
  ELSE finalTurnsLeft

\* endTurn of seat s, whose trains are already counted.
endTurn(s) ==
  /\ scratch' = {}
  /\ tunnelLength' = 0
  /\ finalTurnsLeft' = countdown(trainsLeft'[s])
  /\ advanceOrFinish(finalTurnsLeft', activePlayers)
  /\ finalSeats' = IF finalTurnsLeft < 0 /\ finalTurnsLeft' >= 0 THEN activePlayers ELSE finalSeats
  /\ turns' = IF finalTurnsLeft >= 0 /\ turns[s] < turnsCounted
              THEN [turns EXCEPT ![s] = @ + 1] ELSE turns
  /\ UNCHANGED <<resigned, setupDone>>

\* checkPhaseGate: who may act in which phase.
mayAct(s, ph) == phase = ph /\ s = currentSeat /\ s \notin resigned

(***************************************************************************)
(* Turn actions.                                                           *)
(***************************************************************************)
\* A turn that ends with the action and spends no train: a face-up locomotive
\* taken first, or a station.
DrawLocomotive(s) == mayAct(s, "NORMAL") /\ UNCHANGED trainsLeft /\ endTurn(s)
BuildStation(s)   == mayAct(s, "NORMAL") /\ UNCHANGED trainsLeft /\ endTurn(s)

\* The action opens a decision.
Await(ph, field) ==
  /\ phase' = ph
  /\ scratch' = scratch \cup {field}
  /\ UNCHANGED <<currentSeat, finalTurnsLeft, resigned, setupDone, trainsLeft, historyVars>>

DrawFirstCard(s) ==
  /\ mayAct(s, "NORMAL")
  /\ Await("AWAITING_SECOND_DRAW", "draw")
  /\ UNCHANGED tunnelLength

DrawTickets(s) ==
  /\ mayAct(s, "NORMAL")
  /\ Await("AWAITING_TICKET_KEEP", "tickets")
  /\ UNCHANGED tunnelLength

\* A second card, or end_draw when there is none.
EndDraw(s) == mayAct(s, "AWAITING_SECOND_DRAW") /\ UNCHANGED trainsLeft /\ endTurn(s)

KeepTickets(s) == mayAct(s, "AWAITING_TICKET_KEEP") /\ UNCHANGED trainsLeft /\ endTurn(s)

claimability(s, length) == trainsLeft[s] >= length

\* A route that is no tunnel, or a tunnel whose reveal matches nothing.
ClaimRoute(s, length) ==
  /\ mayAct(s, "NORMAL")
  /\ claimability(s, length)
  /\ trainsLeft' = [trainsLeft EXCEPT ![s] = @ - length]
  /\ endTurn(s)

BeginTunnelClaim(s, length) ==
  /\ mayAct(s, "NORMAL")
  /\ claimability(s, length)
  /\ Await("AWAITING_TUNNEL", "tunnel")
  /\ tunnelLength' = length

\* resolveTunnel: the surcharge is paid and the route claimed, or the base
\* payment goes back; the turn ends either way.
ResolveTunnel(s, accept) ==
  /\ mayAct(s, "AWAITING_TUNNEL")
  /\ trainsLeft' = IF accept THEN [trainsLeft EXCEPT ![s] = @ - tunnelLength] ELSE trainsLeft
  /\ endTurn(s)

-----------------------------------------------------------------------------
(***************************************************************************)
(* Resignation, in any phase but the last.  The countdown is clamped to    *)
(* the players left; a resignation in turn also counts as a turn and       *)
(* passes the turn on.                                                     *)
(***************************************************************************)
holdsTurn(s) == phase \in Playing /\ s = currentSeat

\* Mutant: an open decision stays open.
released_Kept == scratch

released == {}

clamped(left) ==
  IF finalTurnsLeft >= 0 /\ Cardinality(left) < finalTurnsLeft
  THEN Cardinality(left) ELSE finalTurnsLeft

Resign(s) ==
  /\ phase # "FINISHED"
  /\ s \notin resigned
  /\ resigned' = resigned \cup {s}
  /\ LET left == activePlayers \ {s}
     IN  IF Cardinality(left) < minPlayers
         THEN /\ phase' = "FINISHED"
              /\ UNCHANGED <<currentSeat, finalTurnsLeft>>
         ELSE IF holdsTurn(s)
         THEN /\ finalTurnsLeft' = IF finalTurnsLeft >= 0 THEN clamped(left) - 1 ELSE finalTurnsLeft
              /\ advanceOrFinish(finalTurnsLeft', left)
         ELSE /\ finalTurnsLeft' = clamped(left)
              /\ UNCHANGED <<phase, currentSeat>>
  /\ scratch' = IF holdsTurn(s) THEN released ELSE scratch
  /\ tunnelLength' = IF holdsTurn(s) THEN 0 ELSE tunnelLength
  /\ UNCHANGED <<setupDone, trainsLeft, historyVars>>

TurnMove(s) ==
  \/ DrawLocomotive(s)
  \/ BuildStation(s)
  \/ DrawFirstCard(s)
  \/ EndDraw(s)
  \/ DrawTickets(s)
  \/ KeepTickets(s)
  \/ \E length \in Lengths : ClaimRoute(s, length) \/ BeginTunnelClaim(s, length)
  \/ \E accept \in BOOLEAN : ResolveTunnel(s, accept)

Next == \E s \in Seats : KeepSetupTickets(s) \/ TurnMove(s) \/ Resign(s)

Spec == Init /\ [][Next]_vars

(***************************************************************************)
(* Players whose turn it is keep moving (weak fairness of their moves).    *)
(* Nothing in the code obliges them to, and a player whom cards, tickets   *)
(* and routes leave without a legal move cannot: this only asks whether a  *)
(* game that is played can go on for ever.                                 *)
(***************************************************************************)
PlayedSpec == Spec /\ \A s \in Seats : WF_vars(TurnMove(s))

-----------------------------------------------------------------------------
(***************************************************************************)
(* The stored game is well formed.                                         *)
(***************************************************************************)
TypeOK ==
  /\ phase \in Phases
  /\ currentSeat \in Seats
  /\ finalTurnsLeft \in Int
  /\ resigned \subseteq Seats
  /\ setupDone \subseteq Seats
  /\ trainsLeft \in [Seats -> Nat]
  /\ scratch \subseteq {"draw", "tunnel", "tickets"}
  /\ tunnelLength \in Lengths \cup {0}
  /\ finalSeats \subseteq Seats
  /\ turns \in [Seats -> 0..turnsCounted]

(***************************************************************************)
(* In play the turn is on a seat that has not resigned: requireCurrentSeat *)
(* refuses everyone else, so a resigned seat holding the turn would stop   *)
(* the game for good.                                                      *)
(***************************************************************************)
TurnHolderIsActive == phase \in Playing => currentSeat \in activePlayers

(***************************************************************************)
(* Nobody plays before every player still in the game has kept tickets.    *)
(***************************************************************************)
SetupIsComplete == phase \in Playing => activePlayers \subseteq setupDone

(***************************************************************************)
(* In a running game the scratch fields are exactly those of the decision  *)
(* the phase awaits, and a pending tunnel is one its player still has the  *)
(* trains for: no turn end or resignation leaves a decision behind or      *)
(* takes one away.                                                         *)
(***************************************************************************)
ScratchOf == [p \in Phases |->
  CASE p = "AWAITING_SECOND_DRAW" -> {"draw"}
    [] p = "AWAITING_TUNNEL"      -> {"tunnel"}
    [] p = "AWAITING_TICKET_KEEP" -> {"tickets"}
    [] OTHER                      -> {}]

ScratchMatchesPhase ==
  phase # "FINISHED" =>
    /\ scratch = ScratchOf[phase]
    /\ tunnelLength > 0 <=> phase = "AWAITING_TUNNEL"
    /\ tunnelLength <= trainsLeft[currentSeat]

(***************************************************************************)
(* While an armed final round is on, between one and as many turns are     *)
(* left as there are players, whoever resigns and when.                    *)
(***************************************************************************)
CountdownInRange ==
  phase # "FINISHED" /\ finalTurnsLeft # -1 => finalTurnsLeft \in 1..Cardinality(activePlayers)

(***************************************************************************)
(* The final round is armed once: the countdown never rises and is never   *)
(* disarmed.                                                               *)
(***************************************************************************)
ArmedOnce ==
  [][finalTurnsLeft >= 0 => finalTurnsLeft' >= 0 /\ finalTurnsLeft' <= finalTurnsLeft]_vars

(***************************************************************************)
(* endTurn: "every player, including the triggering player, takes exactly  *)
(* one more turn", when nobody resigns during the final round.             *)
(***************************************************************************)
OneMoreTurn ==
  phase = "FINISHED" /\ finalSeats # {} /\ activePlayers = finalSeats =>
    \A s \in activePlayers : turns[s] = 1

(***************************************************************************)
(* A final round whose players keep moving ends the game.                  *)
(***************************************************************************)
FinalRoundEnds == finalTurnsLeft >= 0 ~> phase = "FINISHED"

=============================================================================
