----------------------------- MODULE PokerEngine -----------------------------
(***************************************************************************)
(* The Texas Hold'em engine as a library of operators on a table record.   *)
(*                                                                         *)
(* The Go engine (internal/games/poker) loads a TableState, mutates it     *)
(* through a chain of helpers and stores the result; every helper is here  *)
(* an operator from a table to a table, composed in the same order.        *)
(*                                                                         *)
(* Cards are abstracted: the only thing the engine does with them is to    *)
(* compare the live hands at showdown, so a showdown takes a ranking of    *)
(* the seats (any weak order is possible: the deck is shuffled).           *)
(***************************************************************************)
EXTENDS Integers, FiniteSets, FiniteSetsExt

CONSTANTS
  Seats,        \* the seat indexes that are occupied, a subset of 0..MaxSeats-1
  MaxSeats,     \* maxSeats
  BuyIn,        \* defaultBuyIn: chips each seat starts with
  SmallBlind,   \* defaultSmallBlind
  BigBlind      \* defaultBigBlind

ASSUME PokerAssumption ==
  /\ MaxSeats \in Nat
  /\ Seats \subseteq 0..(MaxSeats - 1)
  /\ Cardinality(Seats) >= 2
  /\ BuyIn \in Nat \ {0}
  /\ SmallBlind \in Nat \ {0}
  /\ BigBlind \in Nat \ {0}
  /\ SmallBlind <= BigBlind

NoSeat == -1

(***************************************************************************)
(* A table.  The per-seat fields of pb.Seat are functions of the seat.     *)
(***************************************************************************)
Statuses      == {"active", "folded", "allIn", "sittingOut"}
BettingStages == {"PREFLOP", "FLOP", "TURN", "RIVER"}
Stages        == BettingStages \cup {"SHOWDOWN", "HAND_OVER"}

Tables == [ stack          : [Seats -> Nat],
            committed      : [Seats -> Nat],
            totalCommitted : [Seats -> Nat],
            status         : [Seats -> Statuses],
            hasActed       : [Seats -> BOOLEAN],
            stage          : Stages,
            currentBet     : Nat,
            minRaise       : Nat,
            lastAggressor  : Seats \cup {NoSeat},
            currentTurn    : Seats \cup {NoSeat},
            button         : Seats,
            handNo         : Nat ]

MinOf(a, b) == IF a < b THEN a ELSE b

SumSeats(f) == MapThenSumSet(LAMBDA s : f[s], DOMAIN f)

-----------------------------------------------------------------------------
(***************************************************************************)
(* Seat order.  The code sorts the seats by index and walks the slice      *)
(* modulo its length from the position after a given seat (from the start  *)
(* of the slice when that seat is not in it), so the seat itself is last.  *)
(***************************************************************************)
Distance(from, s) == IF s > from THEN s - from ELSE s - from + MaxSeats

FirstAfter(from, S) ==
  CHOOSE s \in S : \A t \in S : Distance(from, s) <= Distance(from, t)

inHandSeats(ts) == {s \in Seats : ts.status[s] # "sittingOut"}

\* Mutant: a seat that has not acted owes nothing once the bet is matched.
isActionable_NoOption(ts, s) ==
  ts.status[s] = "active" /\ ts.stack[s] > 0 /\ ts.committed[s] < ts.currentBet

isActionable(ts, s) ==
  /\ ts.status[s] = "active"
  /\ ts.stack[s] > 0
  /\ \/ ~ts.hasActed[s]
     \/ ts.committed[s] < ts.currentBet

nextActor(ts, after) ==
  LET from  == IF after \in inHandSeats(ts) THEN after ELSE NoSeat
      ready == {s \in inHandSeats(ts) : isActionable(ts, s)}
  IN  IF ready = {} THEN NoSeat ELSE FirstAfter(from, ready)

canAct(ts)    == {s \in Seats : ts.status[s] = "active" /\ ts.stack[s] > 0}
nonFolded(ts) == {s \in Seats : ts.status[s] \in {"active", "allIn"}}

maxCommitted(ts) ==
  CHOOSE m \in {ts.committed[s] : s \in Seats} : \A s \in Seats : ts.committed[s] <= m

-----------------------------------------------------------------------------
(***************************************************************************)
(* Moving chips from a stack into the pot.                                 *)
(***************************************************************************)
commit(ts, s, pay) ==
  [ts EXCEPT !.stack[s] = @ - pay,
             !.committed[s] = @ + pay,
             !.totalCommitted[s] = @ + pay,
             !.status[s] = IF ts.stack[s] = pay THEN "allIn" ELSE @]

postBlind(ts, s, amount) == commit(ts, s, MinOf(amount, ts.stack[s]))

\* Every other active seat has to answer the new bet.
reopen(ts, raiser) ==
  [ts EXCEPT !.hasActed =
     [s \in Seats |-> @[s] /\ ~(s # raiser /\ ts.status[s] = "active")]]

-----------------------------------------------------------------------------
(***************************************************************************)
(* Showdown: the uncalled part of the largest contribution is returned,    *)
(* the rest is layered into pots, and every pot goes to the best of the    *)
(* seats eligible for it.                                                  *)
(***************************************************************************)
contributors(ts) == {s \in Seats : ts.totalCommitted[s] > 0}

\* Applies even when the top contributor has folded.
returnUncalled(ts) ==
  LET tops == {s \in contributors(ts) : \A t \in contributors(ts) :
                 t # s => ts.totalCommitted[t] < ts.totalCommitted[s]}
  IN  IF Cardinality(contributors(ts)) < 2 \/ tops = {}
      THEN ts
      ELSE LET top    == CHOOSE s \in tops : TRUE
               second == Max({ts.totalCommitted[t] : t \in contributors(ts) \ {top}})
               diff   == ts.totalCommitted[top] - second
           IN  [ts EXCEPT !.stack[top] = @ + diff,
                          !.totalCommitted[top] = @ - diff]

levels(ts) == {ts.totalCommitted[s] : s \in contributors(ts)}

eligible(ts, lvl) ==
  {s \in contributors(ts) : ts.totalCommitted[s] >= lvl /\ ts.status[s] # "folded"}

\* Mutant: the layers below are counted again.
levelAmount_Whole(ts, lvl) ==
  lvl * Cardinality({s \in contributors(ts) : ts.totalCommitted[s] >= lvl})

levelAmount(ts, lvl) ==
  LET prev == Max({0} \cup {l \in levels(ts) : l < lvl})
  IN  (lvl - prev) * Cardinality({s \in contributors(ts) : ts.totalCommitted[s] >= lvl})

\* Adjacent levels with the same eligible seats are merged; a level nobody is
\* eligible for is skipped, chips and all.
buildPots(ts) ==
  { [seats  |-> E,
     amount |-> MapThenSumSet(LAMBDA l : levelAmount(ts, l),
                              {l \in levels(ts) : eligible(ts, l) = E})] :
    E \in {eligible(ts, l) : l \in levels(ts)} \ {{}} }

\* The share of seat s in a pot: the odd chips go to the lowest winning seats.
potShare(pot, rank, s) ==
  LET winners == {w \in pot.seats : \A o \in pot.seats : rank[o] <= rank[w]}
      n       == Cardinality(winners)
      place   == Cardinality({w \in winners : w < s})
  IN  IF s \in winners
      THEN pot.amount \div n + (IF place < pot.amount % n THEN 1 ELSE 0)
      ELSE 0

payouts(ts, rank) ==
  [s \in Seats |-> MapThenSumSet(LAMBDA pot : potShare(pot, rank, s), buildPots(ts))]

\* Mutant: only the street's commitments are cleared.
clearCommitments_Street(ts) == [ts EXCEPT !.committed = [s \in Seats |-> 0]]

clearCommitments(ts) ==
  [ts EXCEPT !.committed = [s \in Seats |-> 0], !.totalCommitted = [s \in Seats |-> 0]]

runShowdown(ts, rank) ==
  LET t == returnUncalled(ts)
      p == payouts(t, rank)
  IN  [clearCommitments(t) EXCEPT !.stack = [s \in Seats |-> t.stack[s] + p[s]],
                                  !.stage = "HAND_OVER",
                                  !.currentTurn = NoSeat]

endHandUncontested(ts) ==
  LET winner == CHOOSE s \in nonFolded(ts) : TRUE
  IN  [clearCommitments(ts) EXCEPT !.stack[winner] = @ + SumSeats(ts.totalCommitted),
                                   !.stage = "HAND_OVER",
                                   !.currentTurn = NoSeat]

-----------------------------------------------------------------------------
(***************************************************************************)
(* Streets.  A table that has reached SHOWDOWN here is waiting for its     *)
(* ranking: the caller applies runShowdown in the same step.               *)
(***************************************************************************)
nextStage == [PREFLOP |-> "FLOP", FLOP |-> "TURN", TURN |-> "RIVER", RIVER |-> "SHOWDOWN"]

\* Deals the remaining board without betting.
runOut(ts) == [ts EXCEPT !.stage = "SHOWDOWN"]

\* The per-round bookkeeping a new street starts from.
resetRound(ts) ==
  [ts EXCEPT !.committed = [s \in Seats |-> 0],
             !.hasActed = [s \in Seats |-> @[s] /\ ts.status[s] # "active"],
             !.currentBet = 0,
             !.minRaise = BigBlind,
             !.lastAggressor = NoSeat]

\* Mutant: the seat left of the button opens the street, folded or not.
firstToAct_LeftOfButton(ts) == FirstAfter(ts.button, inHandSeats(ts))

firstToAct(ts) == nextActor(ts, ts.button)

advanceStage(ts) ==
  LET t == [resetRound(ts) EXCEPT !.stage = nextStage[@]]
  IN  IF t.stage = "SHOWDOWN" \/ Cardinality(canAct(t)) < 2
      THEN runOut(t)
      ELSE [t EXCEPT !.currentTurn = firstToAct(t)]

-----------------------------------------------------------------------------
(***************************************************************************)
(* Dealing a hand.                                                         *)
(***************************************************************************)
nextSeatWithChips(ts, from) ==
  LET funded == {s \in Seats : ts.stack[s] > 0}
  IN  IF funded = {} THEN from ELSE FirstAfter(from, funded)

\* dealHand returns ErrNotEnoughPlayers when this is FALSE.
enoughPlayers(ts) == Cardinality({s \in Seats : ts.stack[s] > 0}) >= 2

\* The table with the blinds posted and the first actor chosen.
dealt(ts) ==
  LET fresh  == [ts EXCEPT !.committed = [s \in Seats |-> 0],
                           !.totalCommitted = [s \in Seats |-> 0],
                           !.hasActed = [s \in Seats |-> FALSE],
                           !.status = [s \in Seats |-> IF ts.stack[s] > 0 THEN "active"
                                                                          ELSE "sittingOut"],
                           !.stage = "PREFLOP",
                           !.minRaise = BigBlind]
      inHand == inHandSeats(fresh)
      button == IF fresh.button \in inHand THEN fresh.button ELSE FirstAfter(NoSeat, inHand)
      left   == FirstAfter(button, inHand)
      headsUp == Cardinality(inHand) = 2
      sb     == IF headsUp THEN button ELSE left
      bb     == IF headsUp THEN left ELSE FirstAfter(sb, inHand)
      first  == FirstAfter(bb, inHand)
      posted == postBlind(postBlind([fresh EXCEPT !.button = button], sb, SmallBlind),
                          bb, BigBlind)
      open   == [posted EXCEPT !.currentBet = maxCommitted(posted), !.lastAggressor = bb]
  IN  [open EXCEPT !.currentTurn = IF first \in canAct(open) THEN first
                                                             ELSE nextActor(open, first)]

\* With nobody, or only one seat, left to bet the hand is run out at once.
dealHand(ts) ==
  LET d == dealt(ts)
  IN  IF d.currentTurn = NoSeat \/ Cardinality(canAct(d)) < 2 THEN runOut(d) ELSE d

\* The seats before the first hand; the button starts on the lowest seat.
newTable ==
  [ stack          |-> [s \in Seats |-> BuyIn],
    committed      |-> [s \in Seats |-> 0],
    totalCommitted |-> [s \in Seats |-> 0],
    status         |-> [s \in Seats |-> "sittingOut"],
    hasActed       |-> [s \in Seats |-> FALSE],
    stage          |-> "PREFLOP",
    currentBet     |-> 0,
    minRaise       |-> BigBlind,
    lastAggressor  |-> NoSeat,
    currentTurn    |-> NoSeat,
    button         |-> FirstAfter(NoSeat, Seats),
    handNo         |-> 1 ]

\* The table dealHand works on for the next hand.
rotated(ts) == [ts EXCEPT !.button = nextSeatWithChips(ts, @), !.handNo = @ + 1]

-----------------------------------------------------------------------------
(***************************************************************************)
(* Player actions: when each is accepted, and what it does to the table.   *)
(* The amount of a bet or raise is the seat's target for the street.       *)
(***************************************************************************)
toCall(ts, s) == ts.currentBet - ts.committed[s]

acted(ts, s) == [ts EXCEPT !.hasActed[s] = TRUE]

fold(ts, s) == acted([ts EXCEPT !.status[s] = "folded"], s)

checkOK(ts, s) == toCall(ts, s) <= 0
\* Mutant: a check is not recorded.
check_Unmarked(ts, s) == ts

check(ts, s) == acted(ts, s)

call(ts, s) == acted(commit(ts, s, MinOf(toCall(ts, s), ts.stack[s])), s)

betOK(ts, s, target) ==
  LET pay == target - ts.committed[s]
  IN  /\ ts.currentBet = 0
      /\ pay > 0 /\ pay <= ts.stack[s]
      /\ target >= BigBlind \/ pay = ts.stack[s]
bet(ts, s, target) ==
  LET paid == commit(ts, s, target - ts.committed[s])
      t    == [paid EXCEPT !.currentBet = target, !.minRaise = target, !.lastAggressor = s]
  IN  acted(reopen(t, s), s)

\* Mutant: an all-in below the minimum raise is refused.
raiseOK_FullOnly(ts, s, target) ==
  /\ ts.currentBet # 0
  /\ target > ts.currentBet /\ target - ts.committed[s] <= ts.stack[s]
  /\ target - ts.currentBet >= ts.minRaise

raiseOK(ts, s, target) ==
  LET pay == target - ts.committed[s]
  IN  /\ ts.currentBet # 0
      /\ target > ts.currentBet /\ pay <= ts.stack[s]
      /\ target - ts.currentBet >= ts.minRaise \/ pay = ts.stack[s]
raise(ts, s, target) ==
  LET increment == target - ts.currentBet
      paid      == [commit(ts, s, target - ts.committed[s]) EXCEPT !.currentBet = target]
      t         == [paid EXCEPT !.minRaise = increment, !.lastAggressor = s]
  IN  IF increment >= ts.minRaise THEN acted(reopen(t, s), s) ELSE acted(paid, s)

\* What Apply does once seat s has acted.
resolve(ts, s) ==
  LET next == nextActor(ts, s)
  IN  IF Cardinality(nonFolded(ts)) = 1 THEN endHandUncontested(ts)
      ELSE IF next = NoSeat THEN advanceStage(ts)
      ELSE [ts EXCEPT !.currentTurn = next]

\* Apply refuses everyone but the seat whose turn it is, and any action on a
\* finished hand.
mayAct(ts, s) == ts.stage # "HAND_OVER" /\ ts.currentTurn = s

(***************************************************************************)
(* The moves the view offers the seat whose turn it is; amounts are        *)
(* targets for the street, as in a bet or raise.                           *)
(***************************************************************************)
legalActions(ts, s) ==
  LET maxAmount == ts.committed[s] + ts.stack[s]
  IN  [ canCheck  |-> toCall(ts, s) <= 0,
        canCall   |-> toCall(ts, s) > 0,
        canBet    |-> ts.currentBet = 0,
        minBet    |-> MinOf(BigBlind, maxAmount),
        canRaise  |-> ts.currentBet # 0 /\ ts.stack[s] > toCall(ts, s),
        minRaise  |-> MinOf(ts.currentBet + ts.minRaise, maxAmount),
        maxAmount |-> maxAmount ]

=============================================================================
