------------------------------ MODULE PokerHand ------------------------------
(***************************************************************************)
(* One poker table played through the engine's entry points: InitState,    *)
(* Apply (one action per kind of player move) and NextHand.  Each of them  *)
(* is one atomic step here because the session runs each one in a          *)
(* transaction that locks the table's row; PokerSession models what        *)
(* happens around those transactions.                                      *)
(***************************************************************************)
EXTENDS PokerEngine

CONSTANTS
  Strengths,  \* hand strengths a showdown may compare
  MaxHands,   \* bound on the number of hands played
  NoShowdown  \* the value of settled when the last hand had no showdown

ASSUME HandAssumption == Strengths \subseteq Nat /\ MaxHands \in Nat \ {0}

VARIABLES
  ts,         \* the stored TableState
  settled     \* history: the table and ranking the last showdown settled

vars == <<ts, settled>>

\* The bet and raise targets a player can name that could be accepted.
Amounts == 1..(BuyIn * Cardinality(Seats))

Rankings(t) == [nonFolded(t) -> Strengths]

(***************************************************************************)
(* The stored outcomes of an engine call that computed table t: the        *)
(* showdown, when t is due one, is part of the call.                       *)
(***************************************************************************)
Outcomes(t) ==
  IF t.stage = "SHOWDOWN"
  THEN {[ts |-> runShowdown(t, rank), settled |-> [table |-> t, rank |-> rank]] :
          rank \in Rankings(t)}
  ELSE {[ts |-> t, settled |-> NoShowdown]}

Store(t) == \E o \in Outcomes(t) : ts' = o.ts /\ settled' = o.settled

InitState == \E o \in Outcomes(dealHand(newTable)) : ts = o.ts /\ settled = o.settled

Fold(s) ==
  /\ mayAct(ts, s)
  /\ Store(resolve(fold(ts, s), s))

Check(s) ==
  /\ mayAct(ts, s)
  /\ checkOK(ts, s)
  /\ Store(resolve(check(ts, s), s))

Call(s) ==
  /\ mayAct(ts, s)
  /\ Store(resolve(call(ts, s), s))

Bet(s, target) ==
  /\ mayAct(ts, s)
  /\ betOK(ts, s, target)
  /\ Store(resolve(bet(ts, s, target), s))

Raise(s, target) ==
  /\ mayAct(ts, s)
  /\ raiseOK(ts, s, target)
  /\ Store(resolve(raise(ts, s, target), s))

NextHand ==
  /\ ts.stage = "HAND_OVER"
  /\ ts.handNo < MaxHands
  /\ enoughPlayers(rotated(ts))
  /\ Store(dealHand(rotated(ts)))

PlayerMove ==
  \E s \in Seats :
    \/ Fold(s)
    \/ Check(s)
    \/ Call(s)
    \/ \E target \in Amounts : Bet(s, target) \/ Raise(s, target)

\* The table stops when one seat holds every chip, or at the bound on hands.
Closed ==
  /\ ts.stage = "HAND_OVER"
  /\ ts.handNo = MaxHands \/ ~enoughPlayers(rotated(ts))
  /\ UNCHANGED vars

Next == PlayerMove \/ NextHand \/ Closed

Spec == InitState /\ [][Next]_vars

(***************************************************************************)
(* Weak fairness of PlayerMove, with its enabling condition written out    *)
(* (a fold is always accepted, so a move is possible exactly while a       *)
(* street is being bet, and a step out of such a state is a move).         *)
(* Nothing in the code obliges a player to move: this is used only to ask  *)
(* whether a hand that is played can go on for ever.                       *)
(***************************************************************************)
PlayersMove ==
  []<>(ts.stage \notin BettingStages) \/ []<><<ts.stage \in BettingStages>>_vars

PlayedSpec == Spec /\ PlayersMove

-----------------------------------------------------------------------------
(***************************************************************************)
(* While a street is being bet, the turn is on a seat that can and must    *)
(* act.  Apply refuses everyone else, so a table that stored any other     *)
(* turn (nextActor, advanceStage, dealHand) would be stuck for good.       *)
(***************************************************************************)
TurnIsActionable ==
  ts.stage \in BettingStages => ts.currentTurn \in Seats /\ isActionable(ts, ts.currentTurn)

(***************************************************************************)
(* No chip is lost or invented between the stacks and the pot: what        *)
(* returnUncalled says of pot construction ("never strands live chips")    *)
(* and engine_test.go asserts of a finished hand.                          *)
(***************************************************************************)
ChipsConserved ==
  SumSeats(ts.stack) + SumSeats(ts.totalCommitted) = BuyIn * Cardinality(Seats)

(***************************************************************************)
(* A contested street closes only when every other seat that can still     *)
(* bet has acted on it and has matched the bet: the big blind keeps its    *)
(* option, and a raise is answered by everyone (isActionable, reopen).     *)
(***************************************************************************)
StreetCloses ==
  /\ ts.stage \in BettingStages
  /\ ts'.stage # ts.stage
  /\ Cardinality(nonFolded(ts')) > 1

StreetClosesWhenAllActed ==
  [][StreetCloses => \A s \in canAct(ts) \ {ts.currentTurn} :
                       ts.hasActed[s] /\ ts.committed[s] = ts.currentBet]_vars

(***************************************************************************)
(* The moves the view offers are exactly the ones Apply takes from the     *)
(* seat to act (a call of nothing aside): each amount from the offered     *)
(* minimum to the offered maximum, and no other.                           *)
(***************************************************************************)
OfferedIsAccepted ==
  ts.stage \in BettingStages =>
    LET s == ts.currentTurn
        l == legalActions(ts, s)
    IN  /\ l.canCheck <=> checkOK(ts, s)
        /\ l.canCall <=> ~checkOK(ts, s)
        /\ \A target \in Amounts :
             /\ betOK(ts, s, target) <=> l.canBet /\ target \in l.minBet..l.maxAmount
             /\ raiseOK(ts, s, target) <=> l.canRaise /\ target \in l.minRaise..l.maxAmount

(***************************************************************************)
(* What a showdown should pay, defined chip by chip instead of by pots.    *)
(* The c-th chip of every contribution of at least c forms a layer.  A     *)
(* layer with one contributor is an uncalled bet and goes back; any other  *)
(* goes to the best live hands among its contributors.                     *)
(***************************************************************************)
Layers == 1..(BuyIn * Cardinality(Seats))

InLayer(t, c) == {s \in Seats : t.totalCommitted[s] >= c}

BestOf(t, rank, c) ==
  LET live == InLayer(t, c) \cap nonFolded(t)
  IN  IF Cardinality(InLayer(t, c)) = 1 THEN InLayer(t, c)
      ELSE {s \in live : \A o \in live : rank[o] <= rank[s]}

ChipsOf(t, CS) == MapThenSumSet(LAMBDA c : Cardinality(InLayer(t, c)), CS)

(***************************************************************************)
(* A showdown pays every seat at least the layers it wins alone and at     *)
(* most the layers it wins or ties: exactly its due when no hands tie, and *)
(* never more from an opponent than it staked against that opponent.       *)
(***************************************************************************)
ShowdownIsFair ==
  settled # NoShowdown =>
    LET t      == settled.table
        best   == [c \in Layers |-> BestOf(t, settled.rank, c)]
        got(s) == ts.stack[s] - t.stack[s]
    IN  \A s \in Seats :
          /\ got(s) >= ChipsOf(t, {c \in Layers : best[c] = {s}})
          /\ got(s) <= ChipsOf(t, {c \in Layers : s \in best[c]})

(***************************************************************************)
(* A hand whose players keep acting ends: there is no endless betting.     *)
(***************************************************************************)
HandEnds == ts.stage \in BettingStages ~> ts.stage = "HAND_OVER"

=============================================================================
