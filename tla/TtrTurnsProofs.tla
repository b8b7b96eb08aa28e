--------------------------- MODULE TtrTurnsProofs ---------------------------
(***************************************************************************)
(* Proofs about the turn flow of Ticket to Ride, for any seats, number of  *)
(* trains and route lengths.  The invariants are proved together: that a   *)
(* turn holder exists needs that two players are left while the game runs, *)
(* and that trains stay natural needs that a pending tunnel is one its     *)
(* player can still place.                                                 *)
(***************************************************************************)
EXTENDS TtrTurns, BasicFacts, FiniteSetTheorems

\* While the game runs, enough players are left.
EnoughPlayers == phase # "FINISHED" => Cardinality(activePlayers) >= minPlayers

Inv ==
  /\ TypeOK
  /\ EnoughPlayers
  /\ TurnHolderIsActive
  /\ SetupIsComplete
  /\ ScratchMatchesPhase
  /\ CountdownInRange
  /\ finalTurnsLeft >= -1

\* The first of a nonempty set of seats is one of them.
LEMMA FirstSeatIn ==
  ASSUME NEW S \in SUBSET Seats, S # {}
  PROVE  FirstSeat(S) \in S
<1>1. S \in SUBSET Nat
  BY TtrAssumption
<1>2. \E s \in S : \A t \in S : s <= t
  BY <1>1, LeastNatural
<1> QED
  BY <1>2 DEF FirstSeat

\* nextActiveSeat answers with an active seat, whatever seat it starts from.
LEMMA NextIsActive ==
  ASSUME NEW A \in SUBSET Seats, A # {}, NEW s \in Seats
  PROVE  nextActiveSeat(A, s) \in A
<1> DEFINE later == {t \in A : t > s}
<1>1. later # {} => FirstSeat(later) \in later
  BY FirstSeatIn
<1>2. FirstSeat(A) \in A
  BY FirstSeatIn
<1> QED
  BY <1>1, <1>2 DEF nextActiveSeat

\* Counting players.
LEMMA PlayerCount ==
  ASSUME NEW A \in SUBSET Seats
  PROVE  /\ Cardinality(A) \in Nat
         /\ Cardinality(A) >= minPlayers => A # {}
         /\ \A s \in A : Cardinality(A \ {s}) = Cardinality(A) - 1
         /\ \A s \in Seats : s \notin A => A \ {s} = A
<1>1. IsFiniteSet(A)
  BY TtrAssumption, FS_Subset
<1>2. Cardinality(A) \in Nat
  BY <1>1, FS_CardinalityType
<1>3. Cardinality({}) = 0
  BY FS_EmptySet
<1>4. \A s \in A : Cardinality(A \ {s}) = Cardinality(A) - 1
  BY <1>1, FS_RemoveElement
<1> QED
  BY <1>2, <1>3, <1>4 DEF minPlayers

\* The initial state.
LEMMA InitInv == Init => Inv
<1> SUFFICES ASSUME Init PROVE Inv
  OBVIOUS
<1>1. TypeOK
  BY TtrAssumption DEF Init, TypeOK, Phases, turnsCounted
<1>2. activePlayers = Seats
  BY DEF Init, activePlayers
<1>3. EnoughPlayers
  BY <1>2, TtrAssumption DEF EnoughPlayers, minPlayers
<1>4. ScratchMatchesPhase
  BY TtrAssumption DEF Init, ScratchMatchesPhase, ScratchOf, Phases
<1> QED
  BY <1>1, <1>3, <1>4 DEF Inv, Init, TurnHolderIsActive, SetupIsComplete, CountdownInRange,
     Playing, Awaiting

\* The common end of every turn.
LEMMA EndTurnInv ==
  ASSUME Inv, NEW s \in Seats, s = currentSeat, phase \in Playing,
         trainsLeft' \in [Seats -> Nat], endTurn(s)
  PROVE  Inv'
<1> DEFINE n == Cardinality(activePlayers)
<1> USE DEF Inv
<1>1. /\ activePlayers' = activePlayers
      /\ activePlayers \in SUBSET Seats
  BY DEF endTurn, activePlayers, TypeOK
<1>2. phase # "FINISHED" /\ n \in Nat /\ n >= 2 /\ activePlayers # {}
  BY <1>1, PlayerCount DEF EnoughPlayers, Playing, Awaiting, minPlayers
<1>3. nextActiveSeat(activePlayers, currentSeat) \in activePlayers
  BY <1>1, <1>2, NextIsActive DEF TypeOK
<1>4. finalTurnsLeft' \in Int /\ finalTurnsLeft' >= -1
  BY <1>2 DEF endTurn, countdown, TypeOK
<1>5. finalTurnsLeft' \notin {-1, 0} => finalTurnsLeft' \in 1..n
  BY <1>2 DEF endTurn, countdown, TypeOK, CountdownInRange
<1>6. \/ finalTurnsLeft' = 0 /\ phase' = "FINISHED" /\ currentSeat' = currentSeat
      \/ finalTurnsLeft' # 0 /\ phase' = "NORMAL" /\ currentSeat' \in activePlayers
  BY <1>3 DEF endTurn, advanceOrFinish
<1>7. TypeOK'
  <2>1. turns' \in [Seats -> 0..turnsCounted]
    BY DEF endTurn, TypeOK, turnsCounted
  <2> QED
    BY <2>1, <1>1, <1>4, <1>6 DEF endTurn, TypeOK, Phases, Playing
<1>8. ScratchMatchesPhase'
  BY <1>6, <1>7 DEF endTurn, ScratchMatchesPhase, ScratchOf, Phases, Playing, TypeOK
<1>9. EnoughPlayers' /\ TurnHolderIsActive' /\ CountdownInRange'
  BY <1>1, <1>2, <1>5, <1>6 DEF EnoughPlayers, TurnHolderIsActive, CountdownInRange, minPlayers
<1>10. SetupIsComplete'
  BY <1>1 DEF endTurn, SetupIsComplete
<1> QED
  BY <1>4, <1>7, <1>8, <1>9, <1>10

\* Opening a decision changes the phase and its scratch field only.
LEMMA AwaitInv ==
  ASSUME Inv, NEW s \in Seats, mayAct(s, "NORMAL"),
         NEW ph \in Awaiting, NEW field, ScratchOf[ph] = {field},
         field \in {"draw", "tunnel", "tickets"},
         Await(ph, field),
         tunnelLength' \in Lengths \cup {0}, tunnelLength' <= trainsLeft[s],
         tunnelLength' > 0 <=> ph = "AWAITING_TUNNEL"
  PROVE  Inv'
<1> USE DEF Inv
<1>1. activePlayers' = activePlayers
  BY DEF Await, activePlayers
<1>2. scratch = {}
  BY DEF mayAct, ScratchMatchesPhase, ScratchOf, Phases, Playing
<1>3. phase' = ph /\ scratch' = {field} /\ ph \in Phases /\ ph # "FINISHED" /\ phase \in Playing
  BY <1>2 DEF Await, mayAct, Phases, Playing, Awaiting
<1>4. TypeOK'
  BY <1>3 DEF Await, TypeOK, historyVars
<1>5. ScratchMatchesPhase'
  BY <1>3 DEF ScratchMatchesPhase, Await, mayAct, TypeOK
<1>6. EnoughPlayers' /\ TurnHolderIsActive' /\ SetupIsComplete' /\ CountdownInRange'
  BY <1>1, <1>3 DEF Await, mayAct, EnoughPlayers, TurnHolderIsActive, SetupIsComplete,
     CountdownInRange, activePlayers
<1> QED
  BY <1>4, <1>5, <1>6 DEF Await

\* A setup answer.
LEMMA SetupInv ==
  ASSUME Inv, NEW s \in Seats, KeepSetupTickets(s)
  PROVE  Inv'
<1> USE DEF Inv
<1>1. /\ activePlayers' = activePlayers
      /\ activePlayers \in SUBSET Seats
  BY DEF KeepSetupTickets, activePlayers, TypeOK
<1>2. activePlayers # {} /\ phase # "FINISHED"
  BY <1>1, PlayerCount DEF KeepSetupTickets, EnoughPlayers
<1>3. firstTurn \in activePlayers
  BY <1>1, <1>2, NextIsActive DEF firstTurn, TypeOK
<1>4. \/ phase' = "SETUP_TICKETS" /\ currentSeat' = currentSeat
      \/ phase' = "NORMAL" /\ currentSeat' \in activePlayers /\ activePlayers \subseteq setupDone'
  BY <1>3 DEF KeepSetupTickets, allSetupDone
<1>5. TypeOK'
  BY <1>1, <1>4 DEF KeepSetupTickets, TypeOK, Phases, Playing, historyVars
<1>6. ScratchMatchesPhase'
  <2>1. scratch = {} /\ tunnelLength' = tunnelLength /\ trainsLeft' = trainsLeft /\ scratch' = scratch
    BY DEF KeepSetupTickets, ScratchMatchesPhase, ScratchOf, Phases
  <2>2. tunnelLength = 0
    <3>1. phase = "SETUP_TICKETS"
      BY DEF KeepSetupTickets
    <3>2. ~(tunnelLength > 0)
      BY <3>1 DEF ScratchMatchesPhase
    <3>3. tunnelLength \in Nat
      BY TtrAssumption DEF TypeOK
    <3> QED
      BY <3>2, <3>3
  <2> QED
    BY <2>1, <2>2, <1>4, <1>5 DEF ScratchMatchesPhase, ScratchOf, Phases, Playing, TypeOK
<1>7. EnoughPlayers' /\ TurnHolderIsActive' /\ SetupIsComplete' /\ CountdownInRange'
  BY <1>1, <1>2, <1>4 DEF KeepSetupTickets, EnoughPlayers, TurnHolderIsActive, SetupIsComplete,
     CountdownInRange, Playing, Awaiting
<1> QED
  BY <1>5, <1>6, <1>7 DEF KeepSetupTickets

\* A resignation, in turn or not.
LEMMA ResignInv ==
  ASSUME Inv, NEW s \in Seats, Resign(s)
  PROVE  Inv'
<1> DEFINE left == activePlayers \ {s}
           n    == Cardinality(left)
<1> USE DEF Inv
<1>1. /\ activePlayers' = left
      /\ left \in SUBSET Seats
      /\ activePlayers \in SUBSET Seats
      /\ s \in activePlayers
  BY DEF Resign, activePlayers, TypeOK
<1>2. n \in Nat /\ n = Cardinality(activePlayers) - 1 /\ Cardinality(activePlayers) \in Nat
  BY <1>1, PlayerCount
<1>3. TypeOK' /\ finalTurnsLeft' >= -1
  <2>1. n >= 2 => nextActiveSeat(left, currentSeat) \in left
    BY <1>1, PlayerCount, NextIsActive DEF TypeOK, minPlayers
  <2>2. phase' \in Phases /\ currentSeat' \in Seats
    BY <2>1, <1>1, <1>2 DEF Resign, advanceOrFinish, minPlayers, TypeOK, Phases, Playing
  <2>3. finalTurnsLeft' \in Int /\ finalTurnsLeft' >= -1
    BY <1>2 DEF Resign, clamped, TypeOK, CountdownInRange
  <2> QED
    BY <2>2, <2>3 DEF Resign, TypeOK, released, historyVars
<1>4. CASE n < 2
  <2>1. phase' = "FINISHED"
    BY <1>4 DEF Resign, minPlayers
  <2> QED
    BY <2>1, <1>3 DEF EnoughPlayers, TurnHolderIsActive, SetupIsComplete, ScratchMatchesPhase,
       CountdownInRange, Playing, Awaiting
<1>5. CASE n >= 2 /\ holdsTurn(s)
  <2>1. nextActiveSeat(left, currentSeat) \in left
    BY <1>5, <1>1, PlayerCount, NextIsActive DEF TypeOK, minPlayers
  <2>2. \/ finalTurnsLeft' = 0 /\ phase' = "FINISHED"
        \/ finalTurnsLeft' # 0 /\ phase' = "NORMAL" /\ currentSeat' \in left
    BY <2>1, <1>5, <1>2 DEF Resign, advanceOrFinish, minPlayers
  <2>3. finalTurnsLeft' \notin {-1, 0} => finalTurnsLeft' \in 1..n
    BY <1>5, <1>2 DEF Resign, clamped, minPlayers, TypeOK, CountdownInRange
  <2>4. scratch' = {} /\ tunnelLength' = 0
    BY <1>5 DEF Resign, released
  <2>5. ScratchMatchesPhase'
    BY <2>2, <2>4, <1>3 DEF ScratchMatchesPhase, ScratchOf, Phases, Playing, TypeOK
  <2>6. SetupIsComplete'
    BY <1>1, <1>5 DEF SetupIsComplete, Resign, holdsTurn
  <2>7. EnoughPlayers'
    BY <1>1, <1>5 DEF EnoughPlayers, minPlayers
  <2>8. TurnHolderIsActive'
    BY <2>2, <1>1 DEF TurnHolderIsActive, Playing, Awaiting
  <2>9. CountdownInRange'
    BY <2>2, <2>3, <1>1 DEF CountdownInRange
  <2> QED
    BY <2>5, <2>6, <2>7, <2>8, <2>9, <1>3
<1>6. CASE n >= 2 /\ ~holdsTurn(s)
  <2>1. phase' = phase /\ currentSeat' = currentSeat /\ finalTurnsLeft' = clamped(left)
    BY <1>6, <1>2 DEF Resign, minPlayers
  <2>2. scratch' = scratch /\ tunnelLength' = tunnelLength /\ trainsLeft' = trainsLeft
        /\ setupDone' = setupDone
    BY <1>6 DEF Resign
  <2>3. phase' # "FINISHED" /\ finalTurnsLeft' # -1 => finalTurnsLeft' \in 1..n
    BY <2>1, <1>6, <1>2 DEF clamped, TypeOK, CountdownInRange
  <2>4. TurnHolderIsActive'
    BY <2>1, <1>1, <1>6 DEF TurnHolderIsActive, holdsTurn
  <2> QED
    BY <2>1, <2>2, <2>3, <2>4, <1>1, <1>3, <1>6
    DEF EnoughPlayers, SetupIsComplete, ScratchMatchesPhase, CountdownInRange, minPlayers
<1> QED
  BY <1>2, <1>4, <1>5, <1>6

\* Every move of the player whose turn it is.
LEMMA MoveInv ==
  ASSUME Inv, NEW s \in Seats, TurnMove(s)
  PROVE  Inv'
<1>1. TypeOK /\ ScratchMatchesPhase
  BY DEF Inv
<1>2. ASSUME mayAct(s, phase), phase \in Playing, trainsLeft' = trainsLeft, endTurn(s)
      PROVE  Inv'
  BY <1>2, <1>1, EndTurnInv DEF mayAct, TypeOK
<1>3. CASE DrawLocomotive(s) \/ BuildStation(s) \/ EndDraw(s) \/ KeepTickets(s)
  BY <1>2, <1>3 DEF DrawLocomotive, BuildStation, EndDraw, KeepTickets, mayAct, Playing, Awaiting
<1>4. CASE DrawFirstCard(s)
  BY <1>1, <1>4, AwaitInv, TtrAssumption
  DEF DrawFirstCard, mayAct, ScratchMatchesPhase, ScratchOf, Phases, Playing, Awaiting, TypeOK
<1>5. CASE DrawTickets(s)
  BY <1>1, <1>5, AwaitInv, TtrAssumption
  DEF DrawTickets, mayAct, ScratchMatchesPhase, ScratchOf, Phases, Playing, Awaiting, TypeOK
<1>6. ASSUME NEW length \in Lengths, ClaimRoute(s, length)
      PROVE  Inv'
  <2>1. trainsLeft' \in [Seats -> Nat]
    BY <1>1, <1>6, TtrAssumption DEF ClaimRoute, claimability, TypeOK
  <2> QED
    BY <2>1, <1>6, EndTurnInv DEF ClaimRoute, mayAct, Playing
<1>7. ASSUME NEW length \in Lengths, BeginTunnelClaim(s, length)
      PROVE  Inv'
  <2>1. ScratchOf["AWAITING_TUNNEL"] = {"tunnel"} /\ "AWAITING_TUNNEL" \in Awaiting
    BY DEF ScratchOf, Phases, Playing, Awaiting
  <2>2. tunnelLength' = length /\ length > 0 /\ length <= trainsLeft[s]
    BY <1>1, <1>7, TtrAssumption DEF BeginTunnelClaim, claimability, TypeOK
  <2> QED
    BY <2>1, <2>2, <1>7, AwaitInv DEF BeginTunnelClaim
<1>8. ASSUME NEW accept \in BOOLEAN, ResolveTunnel(s, accept)
      PROVE  Inv'
  <2>1. tunnelLength \in Nat /\ tunnelLength <= trainsLeft[s]
    BY <1>1, <1>8, TtrAssumption DEF ResolveTunnel, mayAct, ScratchMatchesPhase, TypeOK
  <2>2. trainsLeft' \in [Seats -> Nat]
    BY <2>1, <1>1, <1>8 DEF ResolveTunnel, TypeOK
  <2> QED
    BY <2>2, <1>8, EndTurnInv DEF ResolveTunnel, mayAct, Playing, Awaiting
<1> QED
  BY <1>3, <1>4, <1>5, <1>6, <1>7, <1>8 DEF TurnMove

\* A step that changes nothing.
LEMMA StutterInv == Inv /\ UNCHANGED vars => Inv'
<1> SUFFICES ASSUME Inv, UNCHANGED vars PROVE Inv'
  OBVIOUS
<1>1. /\ phase' = phase /\ currentSeat' = currentSeat /\ finalTurnsLeft' = finalTurnsLeft
      /\ resigned' = resigned /\ setupDone' = setupDone /\ trainsLeft' = trainsLeft
      /\ scratch' = scratch /\ tunnelLength' = tunnelLength
      /\ finalSeats' = finalSeats /\ turns' = turns
  BY DEF vars, gameVars, historyVars
<1> QED
  BY <1>1 DEF Inv, TypeOK, EnoughPlayers, TurnHolderIsActive, SetupIsComplete,
     ScratchMatchesPhase, CountdownInRange, activePlayers

\* Every step.
LEMMA StepInv == Inv /\ [Next]_vars => Inv'
BY SetupInv, MoveInv, ResignInv, StutterInv DEF Next

\* The invariant of the turn flow, from which the theorems follow.
LEMMA Invariance == Spec => []Inv
BY InitInv, StepInv, PTL DEF Spec

(***************************************************************************)
(* The stored game is always well formed; in particular no claim, direct   *)
(* or through a tunnel decided on later, takes more trains than there are. *)
(***************************************************************************)
THEOREM TypeCorrect == Spec => []TypeOK
BY Invariance, PTL DEF Inv

(***************************************************************************)
(* In play the turn is on a seat that has not resigned, through setup,     *)
(* turn ends and resignations in any order.                                *)
(***************************************************************************)
THEOREM TurnHolderHolds == Spec => []TurnHolderIsActive
BY Invariance, PTL DEF Inv

(***************************************************************************)
(* Nobody plays before every player still in the game has kept tickets.    *)
(***************************************************************************)
THEOREM SetupHolds == Spec => []SetupIsComplete
BY Invariance, PTL DEF Inv

(***************************************************************************)
(* The scratch fields of a running game are those of the decision its      *)
(* phase awaits.                                                           *)
(***************************************************************************)
THEOREM ScratchHolds == Spec => []ScratchMatchesPhase
BY Invariance, PTL DEF Inv

(***************************************************************************)
(* The countdown of a running final round is between one and the number of *)
(* players, whoever resigns and when.                                      *)
(***************************************************************************)
THEOREM CountdownHolds == Spec => []CountdownInRange
BY Invariance, PTL DEF Inv

\* What one step does to an armed countdown.
LEMMA ArmedStep ==
  ASSUME Inv, [Next]_vars, finalTurnsLeft >= 0
  PROVE  finalTurnsLeft' >= 0 /\ finalTurnsLeft' <= finalTurnsLeft
<1>1. TypeOK /\ CountdownInRange
  BY DEF Inv
<1>2. CASE UNCHANGED vars
  BY <1>1, <1>2 DEF vars, gameVars, TypeOK
<1>3. ASSUME NEW s \in Seats, KeepSetupTickets(s)
      PROVE  finalTurnsLeft' = finalTurnsLeft
  BY <1>3 DEF KeepSetupTickets
<1>4. ASSUME NEW s \in Seats, phase # "FINISHED", endTurn(s)
      PROVE  finalTurnsLeft' = finalTurnsLeft - 1 /\ finalTurnsLeft >= 1
  BY <1>1, <1>4 DEF endTurn, countdown, TypeOK, CountdownInRange
<1>5. ASSUME NEW s \in Seats, TurnMove(s)
      PROVE  finalTurnsLeft' >= 0 /\ finalTurnsLeft' <= finalTurnsLeft
  <2>1. \/ phase # "FINISHED" /\ endTurn(s)
        \/ finalTurnsLeft' = finalTurnsLeft
    BY <1>5 DEF TurnMove, DrawLocomotive, BuildStation, DrawFirstCard, EndDraw, DrawTickets,
       KeepTickets, ClaimRoute, BeginTunnelClaim, ResolveTunnel, Await, mayAct
  <2> QED
    BY <2>1, <1>4, <1>1 DEF TypeOK
<1>6. ASSUME NEW s \in Seats, Resign(s)
      PROVE  finalTurnsLeft' >= 0 /\ finalTurnsLeft' <= finalTurnsLeft
  <2>1. activePlayers \ {s} \in SUBSET Seats
    BY <1>1 DEF activePlayers
  <2>2. Cardinality(activePlayers \ {s}) \in Nat
    BY <2>1, PlayerCount
  <2>3. finalTurnsLeft >= 1
    BY <1>1, <1>6 DEF CountdownInRange, Resign, TypeOK
  <2> QED
    BY <2>2, <2>3, <1>1, <1>6 DEF Resign, clamped, minPlayers, TypeOK
<1> QED
  BY <1>1, <1>2, <1>3, <1>5, <1>6 DEF Next, TypeOK

(***************************************************************************)
(* The final round is armed once: its countdown never rises and is never   *)
(* disarmed.                                                               *)
(***************************************************************************)
THEOREM ArmedOnceHolds == Spec => ArmedOnce
<1>1. Inv /\ [Next]_vars =>
        [finalTurnsLeft >= 0 => finalTurnsLeft' >= 0 /\ finalTurnsLeft' <= finalTurnsLeft]_vars
  BY ArmedStep
<1> QED
  BY <1>1, Invariance, PTL DEF Spec, ArmedOnce

-----------------------------------------------------------------------------
(***************************************************************************)
(* The final round.  While nobody resigns in it, the seats that still have *)
(* a turn are those from the one whose turn it is around to the one that   *)
(* armed the round, and the countdown is their number.                     *)
(***************************************************************************)
\* The seats of A from c around to z.
around(A, c, z) ==
  IF c <= z THEN {t \in A : c <= t /\ t <= z} ELSE {t \in A : c <= t \/ t <= z}

waiting == {s \in activePlayers : turns[s] = 0}

RoundOK ==
  /\ finalTurnsLeft = -1 => finalSeats = {} /\ \A s \in Seats : turns[s] = 0
  /\ finalTurnsLeft # -1 => phase # "SETUP_TICKETS" /\ activePlayers \subseteq finalSeats
  /\ finalTurnsLeft # -1 /\ activePlayers = finalSeats =>
       /\ \A s \in activePlayers : turns[s] \in {0, 1}
       /\ IF phase = "FINISHED"
          THEN waiting = {}
          ELSE /\ Cardinality(waiting) = finalTurnsLeft
               /\ \E z \in activePlayers : waiting = around(activePlayers, currentSeat, z)

\* The seat after c, as nextActiveSeat finds it.
LEMMA NextSeat ==
  ASSUME NEW A \in SUBSET Seats, NEW c \in A
  PROVE  LET n == nextActiveSeat(A, c) IN
         /\ n \in A
         /\ \/ n > c /\ \A t \in A : t > c => n <= t
            \/ (\A t \in A : t <= c) /\ \A t \in A : n <= t
<1> DEFINE later == {t \in A : t > c}
           Least(S, n) == n \in S /\ \A t \in S : n <= t
<1>1. \A S \in SUBSET Seats : S # {} => Least(S, FirstSeat(S))
  <2> SUFFICES ASSUME NEW S \in SUBSET Seats, S # {} PROVE Least(S, FirstSeat(S))
    OBVIOUS
  <2>1. \E s \in S : \A t \in S : s <= t
    BY TtrAssumption, LeastNatural
  <2> QED
    BY <2>1 DEF FirstSeat
<1>2. CASE later # {}
  <2>1. nextActiveSeat(A, c) = FirstSeat(later)
    BY <1>2 DEF nextActiveSeat
  <2>2. Least(later, FirstSeat(later))
    BY <1>1, <1>2
  <2> QED
    BY <2>1, <2>2
<1>3. CASE later = {}
  <2>1. nextActiveSeat(A, c) = FirstSeat(A)
    BY <1>3 DEF nextActiveSeat
  <2>2. Least(A, FirstSeat(A))
    BY <1>1
  <2>3. \A t \in A : t <= c
    BY <1>3, TtrAssumption
  <2> QED
    BY <2>1, <2>2, <2>3
<1> QED
  BY <1>2, <1>3

\* A turn passed on leaves the seats around to the last but the one that had
\* it; from the last itself it goes around to everyone.
LEMMA TurnGoesAround ==
  ASSUME NEW A \in SUBSET Seats, NEW c \in A, NEW z \in A
  PROVE  /\ c \in around(A, c, z)
         /\ c # z => around(A, nextActiveSeat(A, c), z) = around(A, c, z) \ {c}
         /\ around(A, c, c) = {c}
         /\ around(A, nextActiveSeat(A, c), c) = A
<1> DEFINE n == nextActiveSeat(A, c)
<1>1. /\ n \in A
      /\ \/ n > c /\ \A t \in A : t > c => n <= t
         \/ (\A t \in A : t <= c) /\ \A t \in A : n <= t
  BY NextSeat
<1>2. \A t \in A : t \in Nat
  BY TtrAssumption
<1> HIDE DEF n
<1>3. c \in around(A, c, z) /\ around(A, c, c) = {c}
  BY <1>2 DEF around
<1>4. c # z => around(A, n, z) = around(A, c, z) \ {c}
  BY <1>1, <1>2 DEF around
<1>5. around(A, n, c) = A
  BY <1>1, <1>2 DEF around
<1> QED
  BY <1>3, <1>4, <1>5 DEF n

\* A turn that ends arms the round, counts, or neither.
LEMMA EndTurnRound ==
  ASSUME Inv, RoundOK, NEW s \in Seats, s = currentSeat, phase \in Playing, endTurn(s)
  PROVE  RoundOK'
<1> DEFINE A == activePlayers
<1>1. TypeOK /\ A \in SUBSET Seats /\ s \in A /\ activePlayers' = A
  BY DEF Inv, TurnHolderIsActive, activePlayers, endTurn, TypeOK
<1>2. Cardinality(A) \in Nat /\ Cardinality(A) >= 2 /\ IsFiniteSet(A)
  <2>1. phase # "FINISHED"
    BY DEF Playing, Awaiting
  <2> QED
    BY <2>1, <1>1, PlayerCount, TtrAssumption, FS_Subset DEF Inv, EnoughPlayers, minPlayers
<1>3. phase' \in {"NORMAL", "FINISHED"}
  BY DEF endTurn, advanceOrFinish
<1>4. CASE finalTurnsLeft = -1 /\ finalTurnsLeft' = -1
  BY <1>4 DEF RoundOK, endTurn
<1>5. CASE finalTurnsLeft = -1 /\ finalTurnsLeft' # -1
  <2>1. finalTurnsLeft' = Cardinality(A)
    BY <1>5 DEF endTurn, countdown
  <2>2. finalSeats' = A /\ turns' = turns /\ \A t \in Seats : turns[t] = 0
    BY <1>2, <1>5, <2>1 DEF endTurn, RoundOK
  <2>3. phase' = "NORMAL" /\ currentSeat' = nextActiveSeat(A, s)
    BY <1>2, <2>1 DEF endTurn, advanceOrFinish
  <2>4. waiting' = A
    BY <1>1, <2>2 DEF waiting
  <2>5. around(A, currentSeat', s) = A
    BY <1>1, <2>3, TurnGoesAround
  <2>6. /\ \A t \in A : turns'[t] \in {0, 1}
        /\ Cardinality(waiting') = finalTurnsLeft'
        /\ \E z \in A : waiting' = around(A, currentSeat', z)
    BY <1>1, <2>1, <2>2, <2>4, <2>5
  <2>7. phase' # "FINISHED" /\ phase' # "SETUP_TICKETS" /\ A \subseteq finalSeats'
    BY <2>2, <2>3
  <2> HIDE DEF A
  <2> QED
    BY <1>1, <1>5, <2>6, <2>7 DEF RoundOK
<1>6. CASE finalTurnsLeft # -1
  <2>1. finalTurnsLeft \in Nat /\ finalTurnsLeft >= 1 /\ finalTurnsLeft' = finalTurnsLeft - 1
    BY <1>1, <1>2, <1>6 DEF Inv, CountdownInRange, endTurn, countdown, Playing, Awaiting, TypeOK
  <2>2. finalSeats' = finalSeats /\ A \subseteq finalSeats
    BY <1>6, <2>1 DEF endTurn, RoundOK
  <2>3. ASSUME A = finalSeats
        PROVE  /\ \A t \in A : turns'[t] \in {0, 1}
               /\ IF phase' = "FINISHED" THEN waiting' = {}
                  ELSE /\ Cardinality(waiting') = finalTurnsLeft'
                       /\ \E z \in A : waiting' = around(A, currentSeat', z)
    <3>1. phase # "FINISHED"
      BY DEF Playing, Awaiting
    <3>2. PICK z \in A : waiting = around(A, s, z)
      BY <1>6, <2>3, <3>1 DEF RoundOK
    <3>3. Cardinality(waiting) = finalTurnsLeft /\ \A t \in A : turns[t] \in {0, 1}
      BY <1>6, <2>3, <3>1 DEF RoundOK
    <3>4. s \in waiting
      BY <1>1, <3>2, TurnGoesAround
    <3>5. \A t \in Seats : turns'[t] = IF t = s THEN 1 ELSE turns[t]
      <4>1. turns[s] = 0
        BY <3>4 DEF waiting
      <4> QED
        BY <1>1, <2>1, <4>1 DEF endTurn, turnsCounted, TypeOK
    <3>6. waiting' = waiting \ {s}
      <4>1. waiting' = {t \in A : turns'[t] = 0}
        BY <1>1 DEF waiting
      <4> QED
        BY <1>1, <3>5, <4>1 DEF waiting
    <3>7. IsFiniteSet(waiting) /\ Cardinality(waiting') = finalTurnsLeft'
      <4>1. IsFiniteSet(waiting)
        BY <1>2, FS_Subset DEF waiting
      <4>2. Cardinality(waiting \ {s}) = Cardinality(waiting) - 1
        BY <3>4, <4>1, FS_RemoveElement
      <4> QED
        BY <2>1, <3>3, <3>6, <4>1, <4>2
    <3>8. CASE finalTurnsLeft' = 0
      <4>1. waiting' = {}
        <5>1. IsFiniteSet(waiting')
          BY <3>6, <3>7, FS_Subset
        <5> QED
          BY <3>7, <3>8, <5>1, FS_EmptySet
      <4>2. phase' = "FINISHED"
        BY <3>8 DEF endTurn, advanceOrFinish
      <4> QED
        BY <1>1, <3>3, <3>5, <4>1, <4>2
    <3>9. CASE finalTurnsLeft' # 0
      <4>1. phase' = "NORMAL" /\ currentSeat' = nextActiveSeat(A, s)
        BY <3>9 DEF endTurn, advanceOrFinish
      <4>2. s # z
        <5>1. ASSUME s = z PROVE FALSE
          <6>1. waiting = {s}
            BY <1>1, <3>2, <5>1, TurnGoesAround
          <6>2. Cardinality(waiting) = 1
            BY <6>1, FS_Singleton
          <6> QED
            BY <2>1, <3>3, <3>9, <6>2
        <5> QED
          BY <5>1
      <4>3. around(A, currentSeat', z) = waiting'
        BY <1>1, <3>2, <3>6, <4>1, <4>2, TurnGoesAround
      <4> HIDE DEF A
      <4> QED
        BY <1>1, <3>3, <3>5, <3>7, <4>1, <4>3
    <3> QED
      BY <3>8, <3>9
  <2> HIDE DEF A
  <2>4. (finalTurnsLeft # -1)'
    BY <2>1
  <2> QED
    BY <1>1, <1>3, <2>2, <2>3, <2>4 DEF RoundOK
<1> QED
  BY <1>4, <1>5, <1>6

\* Who resigns leaves the round to fewer than began it.
LEMMA ResignRound ==
  ASSUME Inv, RoundOK, NEW s \in Seats, Resign(s)
  PROVE  RoundOK'
<1>1. /\ s \in activePlayers /\ activePlayers' = activePlayers \ {s}
      /\ phase' \in {phase, "NORMAL", "FINISHED"} /\ UNCHANGED historyVars
  BY DEF Resign, activePlayers, advanceOrFinish
<1>2. CASE finalTurnsLeft = -1
  <2>1. finalTurnsLeft' = -1
    BY <1>2 DEF Resign, clamped
  <2> QED
    BY <1>1, <1>2, <2>1 DEF RoundOK, historyVars
<1>3. CASE finalTurnsLeft # -1
  <2>1. finalTurnsLeft >= 0 /\ finalTurnsLeft \in Int
    BY <1>3 DEF Inv, TypeOK
  <2>2. finalTurnsLeft' >= 0
    BY <2>1, ArmedStep DEF Next
  <2>3. activePlayers \subseteq finalSeats /\ phase # "SETUP_TICKETS" /\ finalSeats' = finalSeats
    BY <1>1, <1>3 DEF RoundOK, historyVars
  <2>4. activePlayers' \subseteq finalSeats' /\ activePlayers' # finalSeats' /\ phase' # "SETUP_TICKETS"
    BY <1>1, <2>3
  <2>5. finalTurnsLeft' # -1
    BY <2>2
  <2> QED
    BY <2>4, <2>5 DEF RoundOK
<1> QED
  BY <1>2, <1>3

\* What opens a decision, or changes nothing, leaves the round as it is.
LEMMA RoundStays ==
  ASSUME RoundOK, UNCHANGED <<currentSeat, finalTurnsLeft, resigned, historyVars>>,
         phase' = phase \/ {phase, phase'} \subseteq Playing
  PROVE  RoundOK'
<1>1. activePlayers' = activePlayers /\ finalSeats' = finalSeats /\ turns' = turns
      /\ currentSeat' = currentSeat /\ finalTurnsLeft' = finalTurnsLeft
  BY DEF activePlayers, historyVars
<1>2. waiting' = waiting
  BY <1>1 DEF waiting
<1>3. /\ (phase' = "FINISHED") <=> (phase = "FINISHED")
      /\ (phase' = "SETUP_TICKETS") <=> (phase = "SETUP_TICKETS")
  BY DEF Playing, Awaiting
<1> QED
  BY <1>1, <1>2, <1>3 DEF RoundOK

\* Every step keeps the final round in order.
LEMMA RoundStep ==
  ASSUME Inv, RoundOK, [Next]_vars
  PROVE  RoundOK'
<1>1. CASE UNCHANGED vars
  BY <1>1, RoundStays DEF vars, gameVars
<1>2. ASSUME NEW s \in Seats, KeepSetupTickets(s) PROVE RoundOK'
  <2>1. finalTurnsLeft = -1 /\ finalTurnsLeft' = -1 /\ UNCHANGED historyVars
    BY <1>2 DEF KeepSetupTickets, RoundOK
  <2> QED
    BY <2>1 DEF RoundOK, historyVars
<1>3. ASSUME NEW s \in Seats, TurnMove(s) PROVE RoundOK'
  <2>1. \/ s = currentSeat /\ phase \in Playing /\ endTurn(s)
        \/ /\ UNCHANGED <<currentSeat, finalTurnsLeft, resigned, historyVars>>
           /\ {phase, phase'} \subseteq Playing
    BY <1>3 DEF TurnMove, DrawLocomotive, BuildStation, DrawFirstCard, EndDraw, DrawTickets,
       KeepTickets, ClaimRoute, BeginTunnelClaim, ResolveTunnel, Await, mayAct, Playing, Awaiting
  <2> QED
    BY <2>1, EndTurnRound, RoundStays
<1> QED
  BY <1>1, <1>2, <1>3, ResignRound DEF Next

(***************************************************************************)
(* endTurn: "every player, including the triggering player, takes exactly  *)
(* one more turn", when nobody resigns during the final round.             *)
(***************************************************************************)
THEOREM OneMoreTurnHolds == Spec => []OneMoreTurn
<1>1. Init => RoundOK
  BY DEF Init, RoundOK
<1>2. Inv /\ RoundOK /\ [Next]_vars => RoundOK'
  BY RoundStep
<1>3. Inv /\ RoundOK => OneMoreTurn
  BY DEF RoundOK, OneMoreTurn, waiting
<1> QED
  BY <1>1, <1>2, <1>3, Invariance, PTL DEF Spec

=============================================================================
