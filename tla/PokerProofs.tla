---------------------------- MODULE PokerProofs -----------------------------
(***************************************************************************)
(* Proofs about poker, for any seats, stacks and blinds: the turn, the     *)
(* chips, the offered moves and the showdowns of a table, then the session *)
(* around it (the row's two hand numbers, the archive and the next-hand    *)
(* trigger), for any number of hands and of faults.                        *)
(***************************************************************************)
EXTENDS PokerSession, BasicFacts

Fields == {"stack", "committed", "totalCommitted", "status", "hasActed", "stage", "currentBet",
           "minRaise", "lastAggressor", "currentTurn", "button", "handNo"}

\* All that turn order needs of a table's shape: it has its twelve fields.
IsTable(t) == DOMAIN t = Fields

-----------------------------------------------------------------------------
(***************************************************************************)
(* Seat order: the walk around the table finds a seat when there is one.   *)
(***************************************************************************)
LEMMA DistanceIsNat ==
  ASSUME NEW from \in Seats \cup {NoSeat}, NEW s \in Seats
  PROVE  Distance(from, s) \in Nat
BY PokerAssumption DEF Distance, NoSeat

\* The first seat after another, around the table.
LEMMA FirstAfterIsIn ==
  ASSUME NEW from \in Seats \cup {NoSeat}, NEW S \in SUBSET Seats, S # {}
  PROVE  FirstAfter(from, S) \in S
<1> DEFINE D == {Distance(from, s) : s \in S}
<1>1. D \in SUBSET Nat /\ D # {}
  BY DistanceIsNat
<1>2. PICK d \in D : \A e \in D : d <= e
  BY <1>1, LeastNatural
<1>3. \E s \in S : \A t \in S : Distance(from, s) <= Distance(from, t)
  BY <1>2
<1> QED
  BY <1>3 DEF FirstAfter

\* nextActor returns a seat that owes an action, or NoSeat when no seat does.
LEMMA NextActorOwes ==
  ASSUME NEW t, NEW after
  PROVE  /\ nextActor(t, after) # NoSeat =>
              nextActor(t, after) \in Seats /\ isActionable(t, nextActor(t, after))
         /\ nextActor(t, after) = NoSeat =>
              \A s \in inHandSeats(t) : ~isActionable(t, s)
<1> DEFINE from  == IF after \in inHandSeats(t) THEN after ELSE NoSeat
           ready == {s \in inHandSeats(t) : isActionable(t, s)}
<1>1. from \in Seats \cup {NoSeat} /\ ready \in SUBSET Seats
  BY DEF inHandSeats
<1>2. nextActor(t, after) = IF ready = {} THEN NoSeat ELSE FirstAfter(from, ready)
  BY DEF nextActor
<1>3. ready # {} => FirstAfter(from, ready) \in ready
  BY <1>1, FirstAfterIsIn
<1>4. NoSeat \notin Seats
  BY PokerAssumption DEF NoSeat
<1> QED
  BY <1>1, <1>2, <1>3, <1>4

-----------------------------------------------------------------------------
\* A seat to act on, for tables that are being bet.
TurnOK(t) == t.stage \in BettingStages => t.currentTurn \in Seats /\ isActionable(t, t.currentTurn)

\* Handing the turn to a seat changes nothing else.
LEMMA TurnSet ==
  ASSUME NEW t, IsTable(t), NEW s \in Seats, isActionable(t, s)
  PROVE  TurnOK([t EXCEPT !.currentTurn = s])
BY DEF IsTable, Fields, TurnOK, isActionable

(***************************************************************************)
(* A new street: with two seats able to bet, the first of them is found.   *)
(***************************************************************************)
LEMMA AdvanceStageTurn ==
  ASSUME NEW ts0, IsTable(ts0)
  PROVE  IsTable(advanceStage(ts0)) /\ TurnOK(advanceStage(ts0))
<1> DEFINE r == resetRound(ts0)
           t == [r EXCEPT !.stage = nextStage[@]]
<1>1. IsTable(r) /\ IsTable(t)
  BY DEF IsTable, Fields, resetRound
<1>2. t.status = ts0.status /\ t.stack = ts0.stack
  BY DEF IsTable, Fields, resetRound
<1>3. \A s \in Seats : t.hasActed[s] = (ts0.hasActed[s] /\ ts0.status[s] # "active")
  BY DEF IsTable, Fields, resetRound
<1> HIDE DEF r, t
<1>4. advanceStage(ts0) = IF t.stage = "SHOWDOWN" \/ Cardinality(canAct(t)) < 2
                          THEN runOut(t)
                          ELSE [t EXCEPT !.currentTurn = firstToAct(t)]
  BY DEF advanceStage, r, t
<1>5. CASE t.stage = "SHOWDOWN" \/ Cardinality(canAct(t)) < 2
  BY <1>1, <1>4, <1>5 DEF runOut, IsTable, Fields, TurnOK, BettingStages
<1>6. CASE ~(t.stage = "SHOWDOWN" \/ Cardinality(canAct(t)) < 2)
  <2>1. PICK s \in Seats : t.status[s] = "active" /\ t.stack[s] > 0
    <3>1. canAct(t) # {}
      BY <1>6, FS_EmptySet
    <3> QED
      BY <3>1 DEF canAct
  <2>2. s \in inHandSeats(t) /\ isActionable(t, s)
    BY <1>2, <1>3, <2>1 DEF inHandSeats, isActionable
  <2>3. firstToAct(t) \in Seats /\ isActionable(t, firstToAct(t))
    BY <2>2, NextActorOwes DEF firstToAct
  <2>4. TurnOK([t EXCEPT !.currentTurn = firstToAct(t)])
    BY <1>1, <2>3, TurnSet
  <2> QED
    BY <1>1, <1>4, <1>6, <2>4 DEF IsTable
<1> QED
  BY <1>5, <1>6

(***************************************************************************)
(* Moving chips and marking seats keeps the table and its hand number.     *)
(***************************************************************************)
LEMMA CommitKeeps ==
  ASSUME NEW t, IsTable(t), NEW s, NEW pay
  PROVE  LET u == commit(t, s, pay)
         IN  /\ IsTable(u)
             /\ u.handNo = t.handNo
             /\ u.stage = t.stage
             /\ u.hasActed = t.hasActed
BY DEF commit, IsTable, Fields

\* Marking that a seat has acted keeps the shape of the table, ...
LEMMA ActedKeeps ==
  ASSUME NEW t, IsTable(t), NEW s
  PROVE  IsTable(acted(t, s)) /\ acted(t, s).handNo = t.handNo
BY DEF acted, IsTable, Fields

\* ... and so does reopening the street.
LEMMA ReopenKeeps ==
  ASSUME NEW t, IsTable(t), NEW s
  PROVE  IsTable(reopen(t, s)) /\ reopen(t, s).handNo = t.handNo
BY DEF reopen, IsTable, Fields

\* The tables an accepted move can lead to, before what follows is resolved.
Moved(t, s, target) ==
  {fold(t, s), check(t, s), call(t, s), bet(t, s, target), raise(t, s, target)}

\* Every accepted move.
LEMMA MoveKeeps ==
  ASSUME NEW t, IsTable(t), NEW s, NEW target, NEW u \in Moved(t, s, target)
  PROVE  IsTable(u) /\ u.handNo = t.handNo
<1>1. CASE u = fold(t, s)
  <2> DEFINE f == [t EXCEPT !.status[s] = "folded"]
  <2>1. IsTable(f) /\ f.handNo = t.handNo
    BY DEF IsTable, Fields
  <2> HIDE DEF f
  <2> QED
    BY <1>1, <2>1, ActedKeeps DEF fold, f
<1>2. CASE u = check(t, s)
  BY <1>2, ActedKeeps DEF check
<1>3. CASE u = call(t, s)
  <2> DEFINE c == commit(t, s, MinOf(toCall(t, s), t.stack[s]))
  <2>1. IsTable(c) /\ c.handNo = t.handNo
    BY CommitKeeps
  <2> HIDE DEF c
  <2> QED
    BY <1>3, <2>1, ActedKeeps DEF call, c
<1>4. CASE u = bet(t, s, target)
  <2> DEFINE c == commit(t, s, target - t.committed[s])
             b == [c EXCEPT !.currentBet = target, !.minRaise = target, !.lastAggressor = s]
  <2>1. IsTable(c) /\ c.handNo = t.handNo
    BY CommitKeeps
  <2> HIDE DEF c
  <2>2. IsTable(b) /\ b.handNo = t.handNo
    BY <2>1 DEF IsTable, Fields
  <2> HIDE DEF b
  <2>3. IsTable(reopen(b, s)) /\ reopen(b, s).handNo = t.handNo
    BY <2>2, ReopenKeeps
  <2>4. u = acted(reopen(b, s), s)
    BY <1>4 DEF bet, b, c
  <2> QED
    BY <2>3, <2>4, ActedKeeps
<1>5. CASE u = raise(t, s, target)
  <2> DEFINE c == commit(t, s, target - t.committed[s])
             paid == [c EXCEPT !.currentBet = target]
             b == [paid EXCEPT !.minRaise = target - t.currentBet, !.lastAggressor = s]
  <2>1. IsTable(c) /\ c.handNo = t.handNo
    BY CommitKeeps
  <2> HIDE DEF c
  <2>2. IsTable(paid) /\ paid.handNo = t.handNo
    BY <2>1 DEF IsTable, Fields
  <2> HIDE DEF paid
  <2>3. IsTable(b) /\ b.handNo = t.handNo
    BY <2>2 DEF IsTable, Fields
  <2> HIDE DEF b
  <2>4. IsTable(reopen(b, s)) /\ reopen(b, s).handNo = t.handNo
    BY <2>3, ReopenKeeps
  <2>5. u = acted(reopen(b, s), s) \/ u = acted(paid, s)
    BY <1>5 DEF raise, b, paid, c
  <2> QED
    BY <2>2, <2>4, <2>5, ActedKeeps
<1> QED
  BY <1>1, <1>2, <1>3, <1>4, <1>5 DEF Moved

(***************************************************************************)
(* What Apply does after a move leaves the turn on a seat that must act.   *)
(***************************************************************************)
LEMMA AdvanceStageHandNo ==
  ASSUME NEW t, IsTable(t)
  PROVE  advanceStage(t).handNo = t.handNo
<1> DEFINE r == resetRound(t)
           n == [r EXCEPT !.stage = nextStage[@]]
<1>1. IsTable(r) /\ r.handNo = t.handNo
  BY DEF resetRound, IsTable, Fields
<1> HIDE DEF r
<1>2. IsTable(n) /\ n.handNo = t.handNo
  BY <1>1 DEF IsTable, Fields
<1> HIDE DEF n
<1>3. advanceStage(t) = runOut(n) \/ advanceStage(t) = [n EXCEPT !.currentTurn = firstToAct(n)]
  BY DEF advanceStage, n, r
<1> QED
  BY <1>2, <1>3 DEF runOut, IsTable, Fields

\* After a move the turn is on a seat that must act, or betting has stopped.
LEMMA ResolveTurn ==
  ASSUME NEW t, IsTable(t), NEW s
  PROVE  /\ IsTable(resolve(t, s))
         /\ TurnOK(resolve(t, s))
         /\ resolve(t, s).handNo = t.handNo
<1> DEFINE next == nextActor(t, s)
<1>1. CASE Cardinality(nonFolded(t)) = 1
  <2>1. resolve(t, s) = endHandUncontested(t)
    BY <1>1 DEF resolve
  <2> QED
    BY <2>1 DEF endHandUncontested, clearCommitments, IsTable, Fields, TurnOK, BettingStages
<1>2. CASE Cardinality(nonFolded(t)) # 1 /\ next = NoSeat
  <2>1. resolve(t, s) = advanceStage(t)
    BY <1>2 DEF resolve
  <2> QED
    BY <2>1, AdvanceStageTurn, AdvanceStageHandNo
<1>3. CASE Cardinality(nonFolded(t)) # 1 /\ next # NoSeat
  <2>1. resolve(t, s) = [t EXCEPT !.currentTurn = next]
    BY <1>3 DEF resolve
  <2>2. next \in Seats /\ isActionable(t, next)
    BY <1>3, NextActorOwes
  <2>3. TurnOK(resolve(t, s))
    BY <2>1, <2>2, TurnSet
  <2> HIDE DEF next
  <2> QED
    BY <2>1, <2>3 DEF IsTable, Fields
<1> QED
  BY <1>1, <1>2, <1>3

-----------------------------------------------------------------------------
(***************************************************************************)
(* Dealing: nobody has acted, so whoever can bet owes an action; a hand    *)
(* without a seat to act on is run out.                                    *)
(***************************************************************************)
LEMMA PostBlindKeeps ==
  ASSUME NEW t, IsTable(t), NEW s, NEW amount
  PROVE  LET u == postBlind(t, s, amount)
         IN  /\ IsTable(u)
             /\ u.handNo = t.handNo
             /\ u.hasActed = t.hasActed
BY CommitKeeps DEF postBlind

\* So it is after a deal.
LEMMA DealHandTurn ==
  ASSUME NEW t, IsTable(t)
  PROVE  /\ IsTable(dealHand(t))
         /\ TurnOK(dealHand(t))
         /\ dealHand(t).handNo = t.handNo
<1> DEFINE fresh == [t EXCEPT !.committed = [s \in Seats |-> 0],
                              !.totalCommitted = [s \in Seats |-> 0],
                              !.hasActed = [s \in Seats |-> FALSE],
                              !.status = [s \in Seats |-> IF t.stack[s] > 0 THEN "active"
                                                                            ELSE "sittingOut"],
                              !.stage = "PREFLOP",
                              !.minRaise = BigBlind]
           NobodyActed == [s \in Seats |-> FALSE]
           inHand == inHandSeats(fresh)
           button == IF fresh.button \in inHand THEN fresh.button ELSE FirstAfter(NoSeat, inHand)
           left   == FirstAfter(button, inHand)
           headsUp == Cardinality(inHand) = 2
           sb     == IF headsUp THEN button ELSE left
           bb     == IF headsUp THEN left ELSE FirstAfter(sb, inHand)
           first  == FirstAfter(bb, inHand)
           placed == [fresh EXCEPT !.button = button]
           small  == postBlind(placed, sb, SmallBlind)
           posted == postBlind(small, bb, BigBlind)
           open   == [posted EXCEPT !.currentBet = maxCommitted(posted), !.lastAggressor = bb]
           turn   == IF first \in canAct(open) THEN first ELSE nextActor(open, first)
           d      == [open EXCEPT !.currentTurn = turn]
<1>1. dealt(t) = d
  BY DEF dealt
<1>2. IsTable(fresh) /\ fresh.handNo = t.handNo /\ fresh.hasActed = NobodyActed
  BY DEF IsTable, Fields
<1> HIDE DEF fresh, inHand, button, sb, bb, first
<1>3. IsTable(placed) /\ placed.handNo = t.handNo /\ placed.hasActed = NobodyActed
  BY <1>2 DEF IsTable, Fields
<1> HIDE DEF placed
<1>4. IsTable(small) /\ small.handNo = t.handNo /\ small.hasActed = NobodyActed
  BY <1>3, PostBlindKeeps
<1> HIDE DEF small
<1>5. IsTable(posted) /\ posted.handNo = t.handNo /\ posted.hasActed = NobodyActed
  BY <1>4, PostBlindKeeps
<1> HIDE DEF posted
<1>6. IsTable(open) /\ open.handNo = t.handNo /\ open.hasActed = NobodyActed
  BY <1>5 DEF IsTable, Fields
<1> HIDE DEF open
<1>7. turn # NoSeat => turn \in Seats /\ isActionable(open, turn)
  <2>1. CASE first \in canAct(open)
    BY <1>6, <2>1 DEF canAct, isActionable
  <2>2. CASE first \notin canAct(open)
    BY <2>2, NextActorOwes
  <2> QED
    BY <2>1, <2>2
<1> HIDE DEF turn
<1>8. IsTable(d) /\ d.handNo = t.handNo /\ d.currentTurn = turn
  BY <1>6 DEF IsTable, Fields
<1>9. turn # NoSeat => TurnOK(d)
  BY <1>6, <1>7, TurnSet
<1> HIDE DEF d
<1>10. dealHand(t) = IF d.currentTurn = NoSeat \/ Cardinality(canAct(d)) < 2 THEN runOut(d) ELSE d
  BY <1>1 DEF dealHand
<1>11. IsTable(runOut(d)) /\ TurnOK(runOut(d)) /\ runOut(d).handNo = t.handNo
  BY <1>8 DEF runOut, IsTable, Fields, TurnOK, BettingStages
<1> QED
  BY <1>8, <1>9, <1>10, <1>11

(***************************************************************************)
(* A showdown ends the hand on the same table.                             *)
(***************************************************************************)
LEMMA ShowdownEnds ==
  ASSUME NEW t, IsTable(t), NEW rank
  PROVE  LET u == runShowdown(t, rank)
         IN  IsTable(u) /\ u.stage = "HAND_OVER" /\ u.handNo = t.handNo
<1> DEFINE r == returnUncalled(t)
           c == clearCommitments(r)
<1>1. IsTable(r) /\ r.handNo = t.handNo
  BY DEF returnUncalled, IsTable, Fields
<1> HIDE DEF r
<1>2. IsTable(c) /\ c.handNo = t.handNo
  BY <1>1 DEF clearCommitments, IsTable, Fields
<1> HIDE DEF c
<1>3. runShowdown(t, rank) = [c EXCEPT !.stack = [s \in Seats |-> r.stack[s] + payouts(r, rank)[s]],
                                       !.stage = "HAND_OVER",
                                       !.currentTurn = NoSeat]
  BY DEF runShowdown, c, r
<1> QED
  BY <1>2, <1>3 DEF IsTable, Fields

\* Whatever is stored of a computed table has its turn in order.
LEMMA OutcomeTurn ==
  ASSUME NEW t, IsTable(t), TurnOK(t), NEW o \in Outcomes(t)
  PROVE  IsTable(o.ts) /\ TurnOK(o.ts) /\ o.ts.handNo = t.handNo
<1>1. CASE t.stage = "SHOWDOWN"
  <2>1. PICK rank \in Rankings(t) : o.ts = runShowdown(t, rank)
    BY <1>1 DEF Outcomes
  <2> QED
    BY <2>1, ShowdownEnds DEF TurnOK, BettingStages
<1>2. CASE t.stage # "SHOWDOWN"
  BY <1>2 DEF Outcomes
<1> QED
  BY <1>1, <1>2

-----------------------------------------------------------------------------
\* A player's move: taken only while a hand is played, and it stays in that hand.
LEMMA PlayerMoveTurn ==
  ASSUME IsTable(ts), PlayerMove
  PROVE  /\ ts.stage # "HAND_OVER"
         /\ IsTable(ts') /\ TurnOK(ts') /\ ts'.handNo = ts.handNo
<1>0. PICK s \in Seats, target \in Amounts \cup {0} :
        mayAct(ts, s) /\ \E u \in Moved(ts, s, target) : Store(resolve(u, s))
  BY DEF PlayerMove, Fold, Check, Call, Bet, Raise, Moved
<1>1. PICK u \in Moved(ts, s, target) : Store(resolve(u, s))
  BY <1>0
<1>2. IsTable(u) /\ u.handNo = ts.handNo
  BY MoveKeeps
<1>3. IsTable(resolve(u, s)) /\ TurnOK(resolve(u, s)) /\ resolve(u, s).handNo = ts.handNo
  BY <1>2, ResolveTurn
<1> QED
  BY <1>0, <1>1, <1>3, OutcomeTurn DEF Store, mayAct

\* The next hand: dealt only when the last is over, under the next number.
LEMMA NextHandTurn ==
  ASSUME IsTable(ts), NextHand
  PROVE  /\ ts.stage = "HAND_OVER"
         /\ IsTable(ts') /\ TurnOK(ts') /\ ts'.handNo = ts.handNo + 1
<1> DEFINE r == rotated(ts)
<1>1. IsTable(r) /\ r.handNo = ts.handNo + 1
  BY DEF rotated, IsTable, Fields
<1> HIDE DEF r
<1>2. IsTable(dealHand(r)) /\ TurnOK(dealHand(r)) /\ dealHand(r).handNo = ts.handNo + 1
  BY <1>1, DealHandTurn
<1> QED
  BY <1>2, OutcomeTurn DEF NextHand, Store, r

\* The first hand.
LEMMA InitStateTurn ==
  ASSUME InitState
  PROVE  IsTable(ts) /\ TurnOK(ts) /\ ts.handNo = 1
<1>1. IsTable(newTable) /\ newTable.handNo = 1
  BY DEF newTable, IsTable, Fields
<1>2. IsTable(dealHand(newTable)) /\ TurnOK(dealHand(newTable)) /\ dealHand(newTable).handNo = 1
  BY <1>1, DealHandTurn
<1> QED
  BY <1>2, OutcomeTurn DEF InitState

(***************************************************************************)
(* The turn is never lost: on every table that is being bet it is on a     *)
(* seat that must act and whose move Apply takes, for any number of seats, *)
(* any stacks and blinds, and any sequence of moves.                       *)
(***************************************************************************)
THEOREM TurnHolds == Spec => []TurnIsActionable
<1> DEFINE Inv == IsTable(ts) /\ TurnOK(ts)
<1>1. InitState => Inv
  BY InitStateTurn
<1>2. Inv /\ [Next]_vars => Inv'
  <2> SUFFICES ASSUME Inv, [Next]_vars PROVE Inv'
    OBVIOUS
  <2>1. CASE PlayerMove
    BY <2>1, PlayerMoveTurn
  <2>2. CASE NextHand
    BY <2>2, NextHandTurn
  <2>3. CASE UNCHANGED ts
    BY <2>3 DEF IsTable, TurnOK, isActionable
  <2> QED
    BY <2>1, <2>2, <2>3 DEF Next, Closed, vars
<1>3. Inv => TurnIsActionable
  BY DEF TurnOK, TurnIsActionable
<1> QED
  BY <1>1, <1>2, <1>3, PTL DEF Spec

-----------------------------------------------------------------------------
(***************************************************************************)
(* Sums over the seats, as the engine's operators write them.              *)
(***************************************************************************)
Chips(t) == SumSeats(t.stack) + SumSeats(t.totalCommitted)

\* Sets of seats are finite, seats are numbers.
LEMMA SeatsFinite ==
  /\ IsFiniteSet(Seats)
  /\ \A S \in SUBSET Seats : IsFiniteSet(S) /\ Cardinality(S) \in Nat
  /\ \A s \in Seats : s \in Int
<1>1. IsFiniteSet(0..(MaxSeats - 1))
  BY PokerAssumption, FS_Interval
<1>2. IsFiniteSet(Seats)
  BY <1>1, PokerAssumption, FS_Subset
<1>3. \A S \in SUBSET Seats : IsFiniteSet(S) /\ Cardinality(S) \in Nat
  BY <1>2, FS_Subset, FS_CardinalityType
<1>4. \A s \in Seats : s \in Int
  BY PokerAssumption
<1> QED
  BY <1>2, <1>3, <1>4

\* Sums over the seats.
LEMMA SumSeatsIs ==
  ASSUME NEW f \in [Seats -> Nat]
  PROVE  SumSeats(f) = Sum(f, Seats) /\ Summable(f, Seats) /\ SumSeats(f) \in Nat
<1>1. DOMAIN f = Seats
  OBVIOUS
<1>2. SumSeats(f) = Sum(f, Seats)
  BY <1>1 DEF SumSeats, Sum
<1>3. \A s \in Seats : f[s] \in Nat
  OBVIOUS
<1> QED
  BY <1>2, <1>3, SeatsFinite, SumType DEF Summable

\* The image of a finite set is finite.
LEMMA ImageIsFinite ==
  ASSUME NEW S, IsFiniteSet(S), NEW f, DOMAIN f = S
  PROVE  IsFiniteSet({f[x] : x \in S})
<1> DEFINE F == {T \in SUBSET S : IsFiniteSet({f[x] : x \in T})}
<1>1. {} \in F
  <2>1. {f[x] : x \in {}} = {}
    OBVIOUS
  <2> QED
    BY <2>1, FS_EmptySet
<1>2. ASSUME NEW T \in SUBSET S, NEW x \in S \ T, T \in F PROVE T \cup {x} \in F
  <2>1. {f[y] : y \in T \cup {x}} = {f[y] : y \in T} \cup {f[x]}
    OBVIOUS
  <2>2. IsFiniteSet({f[y] : y \in T})
    BY <1>2
  <2> DEFINE I == {f[y] : y \in T}
             v == f[x]
  <2>3. IsFiniteSet(I \cup {v})
    <3> HIDE DEF I, v
    <3>1. IsFiniteSet(I)
      BY <2>2 DEF I
    <3> QED
      BY <3>1, FS_AddElement
  <2> QED
    BY <2>1, <2>3
<1>3. S \in F
  <2> HIDE DEF F
  <2> QED
    BY <1>1, <1>2, FiniteSetIsReached
<1> QED
  BY <1>3

-----------------------------------------------------------------------------
(***************************************************************************)
(* The pots of a showdown.                                                 *)
(***************************************************************************)
\* The chips in the layers that no seat still in the hand has reached.
Stranded(t) ==
  MapThenSumSet(LAMBDA l : levelAmount(t, l), {l \in levels(t) : eligible(t, l) = {}})

\* levelAmount as a function, to sum it.
LEMMA AmountsSum ==
  ASSUME NEW t, NEW L, NEW R \in SUBSET L, NEW a, a = [l \in L |-> levelAmount(t, l)]
  PROVE  MapThenSumSet(LAMBDA l : levelAmount(t, l), R) = Sum(a, R)
<1> DEFINE P(it) == it = [T \in SUBSET R |-> IF T = {} THEN 0
                                             ELSE levelAmount(t, Pick(T)) + it[T \ {Pick(T)}]]
<1>1. MapThenSumSet(LAMBDA l : levelAmount(t, l), R) = (CHOOSE it : P(it))[R]
  BY DEF MapThenSumSet, MapThenFoldSet, Pick
<1>2. ASSUME NEW it PROVE P(it) <=> Iterates(a, R, it)
  <2>1. \A T \in SUBSET R : T # {} => a[Pick(T)] = levelAmount(t, Pick(T))
    BY DEF Pick
  <2> QED
    BY <2>1 DEF Iterates
<1>3. (CHOOSE it : P(it)) = (CHOOSE it : Iterates(a, R, it))
  BY <1>2
<1> QED
  BY <1>1, <1>3, SumIterates

\* The shares of one seat as a function of the pot.
LEMMA SharesSum ==
  ASSUME NEW rank, NEW s, NEW P, NEW a, a = [pot \in P |-> potShare(pot, rank, s)]
  PROVE  MapThenSumSet(LAMBDA pot : potShare(pot, rank, s), P) = Sum(a, P)
<1> DEFINE Q(it) == it = [T \in SUBSET P |-> IF T = {} THEN 0
                                             ELSE potShare(Pick(T), rank, s) + it[T \ {Pick(T)}]]
<1>1. MapThenSumSet(LAMBDA pot : potShare(pot, rank, s), P) = (CHOOSE it : Q(it))[P]
  BY DEF MapThenSumSet, MapThenFoldSet, Pick
<1>2. ASSUME NEW it PROVE Q(it) <=> Iterates(a, P, it)
  <2>1. \A T \in SUBSET P : T # {} => a[Pick(T)] = potShare(Pick(T), rank, s)
    BY DEF Pick
  <2> QED
    BY <2>1 DEF Iterates
<1>3. (CHOOSE it : Q(it)) = (CHOOSE it : Iterates(a, P, it))
  BY <1>2
<1> QED
  BY <1>1, <1>3, SumIterates

\* Contributions are finitely many positive levels.
LEMMA LevelsAre ==
  ASSUME NEW t \in Tables
  PROVE  /\ contributors(t) \in SUBSET Seats
         /\ IsFiniteSet(contributors(t))
         /\ IsFiniteSet(levels(t))
         /\ \A l \in levels(t) : l \in Nat /\ l > 0
         /\ \A s \in contributors(t) : t.totalCommitted[s] \in levels(t)
         /\ \A s \in Seats : t.totalCommitted[s] \in Nat
         /\ \A s \in Seats : t.stack[s] \in Nat
<1>1. t.totalCommitted \in [Seats -> Nat] /\ t.stack \in [Seats -> Nat]
  BY DEF Tables
<1>2. contributors(t) \in SUBSET Seats /\ IsFiniteSet(contributors(t))
  BY SeatsFinite DEF contributors
<1>3. IsFiniteSet(levels(t))
  <2> DEFINE f == [s \in contributors(t) |-> t.totalCommitted[s]]
  <2>1. levels(t) = {f[s] : s \in contributors(t)}
    BY DEF levels
  <2>2. DOMAIN f = contributors(t)
    OBVIOUS
  <2> HIDE DEF f
  <2> QED
    BY <1>2, <2>1, <2>2, ImageIsFinite
<1>4. \A l \in levels(t) : l \in Nat /\ l > 0
  BY <1>1 DEF levels, contributors
<1>5. \A s \in contributors(t) : t.totalCommitted[s] \in levels(t)
  BY DEF levels
<1> QED
  BY <1>1, <1>2, <1>3, <1>4, <1>5

\* A layer holds its height of every seat that reached it.
LEMMA AmountIs ==
  ASSUME NEW t \in Tables, NEW l \in levels(t), NEW w, w = l - Below(levels(t), l)
  PROVE  /\ w \in Nat /\ w > 0
         /\ levelAmount(t, l) = Sum([s \in contributors(t) |-> IF t.totalCommitted[s] >= l THEN w ELSE 0],
                                    contributors(t))
         /\ levelAmount(t, l) \in Nat
<1> DEFINE C == contributors(t)
           R == {s \in C : t.totalCommitted[s] >= l}
           f == [s \in C |-> w]
           g == [s \in C |-> IF t.totalCommitted[s] >= l THEN w ELSE 0]
<1>1. w \in Nat /\ w > 0
  <2>1. l \in Nat /\ Below(levels(t), l) \in {0} \cup levels(t) /\ Below(levels(t), l) < l
    BY LevelsAre, BelowIsNext
  <2>2. \A k \in levels(t) : k \in Nat
    BY LevelsAre
  <2> DEFINE b == Below(levels(t), l)
  <2>3. b \in {0} \cup levels(t) /\ b < l /\ w = l - b
    BY <2>1
  <2> HIDE DEF b
  <2> QED
    BY <2>1, <2>2, <2>3
<1>2. levelAmount(t, l) = w * Cardinality(R)
  BY DEF levelAmount, Below
<1>3. IsFiniteSet(C) /\ IsFiniteSet(R) /\ R \in SUBSET C
  BY LevelsAre, FS_Subset
<1>4. (\A s \in R : f[s] = w) /\ Summable(f, C) /\ \A s \in C : g[s] = IF s \in R THEN f[s] ELSE 0
  BY <1>1, <1>3 DEF Summable
<1>5. Cardinality(R) \in Nat
  BY <1>3, FS_CardinalityType
<1> HIDE DEF C, R, f, g
<1>6. Sum(f, R) = w * Cardinality(R)
  BY <1>1, <1>3, <1>4, SumConstant
<1>7. Sum(f, R) = Sum(g, C)
  BY <1>3, <1>4, SumRestricted
<1>8. w * Cardinality(R) \in Nat
  BY <1>1, <1>5
<1> QED
  BY <1>1, <1>2, <1>6, <1>7, <1>8 DEF C, g

\* The layers together hold what was contributed.
LEMMA LayersAddUp ==
  ASSUME NEW t \in Tables, NEW a, a = [l \in levels(t) |-> levelAmount(t, l)]
  PROVE  Sum(a, levels(t)) = Sum(t.totalCommitted, Seats)
<1> DEFINE C == contributors(t)
           L == levels(t)
           width == [l \in L |-> l - Below(L, l)]
           m == [l \in L |-> [s \in C |-> IF t.totalCommitted[s] >= l THEN width[l] ELSE 0]]
           paid == [s \in C |-> t.totalCommitted[s]]
<1>1. /\ IsFiniteSet(C) /\ IsFiniteSet(L) /\ C \in SUBSET Seats
      /\ \A l \in L : l \in Nat /\ l > 0
      /\ \A s \in C : t.totalCommitted[s] \in L
      /\ \A s \in Seats : t.totalCommitted[s] \in Nat
  BY LevelsAre
<1>2. \A l \in L : width[l] \in Nat
  <2> TAKE l \in L
  <2>1. l - Below(levels(t), l) \in Nat
    BY AmountIs
  <2> QED
    BY <2>1
<1>3. \A l \in L : a[l] = Sum([s \in C |-> m[l][s]], C)
  <2> TAKE l \in L
  <2>1. levelAmount(t, l)
          = Sum([s \in contributors(t) |-> IF t.totalCommitted[s] >= l THEN l - Below(levels(t), l) ELSE 0],
                contributors(t))
    BY AmountIs
  <2> QED
    BY <2>1
<1>4. \A s \in C : Sum([l \in L |-> m[l][s]], L) = paid[s]
  <2> TAKE s \in C
  <2> DEFINE v == t.totalCommitted[s]
             R == {l \in L : l <= v}
             g == [l \in L |-> m[l][s]]
  <2>1. v \in L /\ v \in Nat
    BY <1>1
  <2>2. \A l \in L : g[l] = IF l \in R THEN width[l] ELSE 0
    BY <1>1, <2>1
  <2>3. Summable(width, L) /\ R \in SUBSET L
    BY <1>1, <1>2 DEF Summable
  <2>4. \A l \in L : width[l] = l - Below(L, l)
    OBVIOUS
  <2>5. Sum(width, {l \in L : l <= v}) = v
    <3> HIDE DEF L, v, width
    <3> QED
      BY <1>1, <2>1, <2>4, LevelsAddUp
  <2> HIDE DEF g, L, width, v
  <2>6. Sum(width, R) = Sum(g, L)
    BY <2>2, <2>3, SumRestricted
  <2> QED
    BY <2>5, <2>6 DEF g, v
<1>5. \A l \in L, s \in C : m[l][s] \in Int
  BY <1>2
<1>6. Sum([l \in L |-> Sum([s \in C |-> m[l][s]], C)], L)
        = Sum([s \in C |-> Sum([l \in L |-> m[l][s]], L)], C)
  <2> HIDE DEF m, L, C
  <2> QED
    BY <1>1, <1>5, SumExchange
<1>7. a = [l \in L |-> Sum([s \in C |-> m[l][s]], C)]
  BY <1>3
<1>8. paid = [s \in C |-> Sum([l \in L |-> m[l][s]], L)]
  BY <1>4
<1>9. Sum(paid, C) = Sum(t.totalCommitted, Seats)
  <2>1. \A s \in Seats : t.totalCommitted[s] = IF s \in C THEN t.totalCommitted[s] ELSE 0
    BY <1>1 DEF contributors
  <2>2. Summable(t.totalCommitted, Seats)
    BY <1>1, SeatsFinite DEF Summable
  <2>3. Sum(t.totalCommitted, C) = Sum(t.totalCommitted, Seats)
    <3> HIDE DEF C
    <3> QED
      BY <1>1, <2>1, <2>2, SumRestricted
  <2>4. \A s \in C : paid[s] = t.totalCommitted[s]
    OBVIOUS
  <2>5. Summable(paid, C)
    BY <1>1 DEF Summable
  <2>6. Sum(paid, C) = Sum(t.totalCommitted, C)
    <3> HIDE DEF C, paid
    <3> QED
      BY <2>4, <2>5, SumCongruence
  <2> QED
    BY <2>3, <2>6
<1> QED
  BY <1>6, <1>7, <1>8, <1>9

\* What a sum leaves out.
LEMMA SumTogether ==
  ASSUME NEW S, NEW f, Summable(f, S), NEW R \in SUBSET S, NEW Q \in SUBSET S,
         R \cap Q = {}, R \cup Q = S
  PROVE  Sum(f, S) = Sum(f, R) + Sum(f, Q) /\ Sum(f, R) \in Int /\ Sum(f, Q) \in Int
<1> DEFINE g == [x \in S |-> IF x \in R THEN f[x] ELSE 0]
           h == [x \in S |-> IF x \in Q THEN f[x] ELSE 0]
<1>1. /\ \A x \in S : g[x] = IF x \in R THEN f[x] ELSE 0
      /\ \A x \in S : h[x] = IF x \in Q THEN f[x] ELSE 0
      /\ \A x \in S : f[x] = g[x] + h[x]
  BY DEF Summable
<1>2. Summable(g, S) /\ Summable(h, S)
  BY DEF Summable
<1>3. IsFiniteSet(S) /\ \A x \in S : g[x] \in Int /\ h[x] \in Int
  BY <1>2 DEF Summable
<1> HIDE DEF g, h
<1>4. Sum(f, R) = Sum(g, S) /\ Sum(f, Q) = Sum(h, S)
  BY <1>1, SumRestricted
<1>5. Sum(f, S) = Sum(g, S) + Sum(h, S)
  BY <1>1, <1>2, SumPlus
<1>6. Sum(g, S) \in Int /\ Sum(h, S) \in Int
  BY <1>3, SumType
<1> QED
  BY <1>4, <1>5, <1>6

\* A seat that sits out has nothing in the pot.
OutHasNothing(t) == \A s \in Seats : t.status[s] = "sittingOut" => t.totalCommitted[s] = 0

\* The seats that may win something of a pot are among those still in the hand.
LEMMA EligibleIsLive ==
  ASSUME NEW t \in Tables, OutHasNothing(t), NEW l
  PROVE  eligible(t, l) \in SUBSET nonFolded(t) /\ eligible(t, l) \in SUBSET Seats
<1>1. \A s \in contributors(t) : s \in Seats /\ t.totalCommitted[s] > 0
  BY DEF contributors
<1>2. \A s \in contributors(t) : t.status[s] # "sittingOut"
  BY <1>1 DEF OutHasNothing
<1>3. \A s \in Seats : t.status[s] \in Statuses
  BY DEF Tables
<1> QED
  BY <1>1, <1>2, <1>3 DEF eligible, nonFolded, Statuses

\* A pot is paid out, to the last chip.
LEMMA PotIsPaid ==
  ASSUME NEW E \in SUBSET Seats, E # {}, NEW rank, \A s \in E : rank[s] \in Int,
         NEW pot, pot.seats = E, pot.amount \in Nat,
         NEW share, share = [s \in Seats |-> potShare(pot, rank, s)]
  PROVE  Sum(share, Seats) = pot.amount /\ \A s \in Seats : share[s] \in Nat
<1> DEFINE W == {w \in E : \A o \in E : rank[o] <= rank[w]}
           n == Cardinality(W)
<1>1. IsFiniteSet(E) /\ IsFiniteSet(W) /\ (\A w \in W : w \in Int) /\ W \in SUBSET Seats
  BY SeatsFinite, FS_Subset
<1>2. W # {}
  <2> DEFINE r == [s \in E |-> rank[s]]
             I == {r[s] : s \in E}
  <2>1. IsFiniteSet(I)
    <3> HIDE DEF r
    <3>1. DOMAIN r = E
      BY DEF r
    <3> QED
      BY <1>1, <3>1, ImageIsFinite
  <2>2. I # {} /\ \A x \in I : x \in Int
    OBVIOUS
  <2>3. Max(I) \in I /\ \A y \in I : Max(I) >= y
    <3> HIDE DEF I
    <3> QED
      BY <2>1, <2>2, MaxIsGreatest
  <2>4. PICK w \in E : \A o \in E : r[w] >= r[o]
    BY <2>3
  <2> QED
    BY <2>4
<1>3. n \in Nat /\ n > 0
  <2>1. n \in Nat /\ n # 0
    BY <1>1, <1>2, FS_CardinalityType, FS_EmptySet
  <2> QED
    BY <2>1
<1>4. \A s \in Seats : share[s] = IF s \in W
                                  THEN pot.amount \div n + (IF Place(W, s) < pot.amount % n THEN 1 ELSE 0)
                                  ELSE 0
  BY DEF potShare, Place
<1> HIDE DEF W
<1>5. pot.amount \div n \in Nat
  BY <1>3
<1>6. Sum(share, W) = pot.amount
  <2>1. \A s \in W : share[s] = pot.amount \div Cardinality(W)
                                 + (IF Place(W, s) < pot.amount % Cardinality(W) THEN 1 ELSE 0)
    BY <1>1, <1>4
  <2> QED
    BY <1>1, <1>2, <2>1, SharesAddUp
<1>7. \A s \in Seats : share[s] \in Nat
  BY <1>4, <1>5
<1>8. Sum(share, W) = Sum(share, Seats)
  <2>1. \A s \in Seats : share[s] = IF s \in W THEN share[s] ELSE 0
    BY <1>4
  <2>2. Summable(share, Seats)
    BY <1>7, SeatsFinite DEF Summable
  <2> QED
    BY <1>1, <2>1, <2>2, SumRestricted
<1> QED
  BY <1>6, <1>7, <1>8

\* The sets of seats that share a pot, and the pot they share.
potSeats(t) == {eligible(t, l) : l \in levels(t)} \ {{}}

potOf(t, E) ==
  [seats  |-> E,
   amount |-> MapThenSumSet(LAMBDA l : levelAmount(t, l), {l \in levels(t) : eligible(t, l) = E})]

\* A seat is paid its share of every pot; a pot holds the levels its seats are
\* the ones eligible for.
LEMMA PotsOf ==
  ASSUME NEW t \in Tables, OutHasNothing(t), NEW rank, \A s \in nonFolded(t) : rank[s] \in Int,
         NEW a, a = [l \in levels(t) |-> levelAmount(t, l)]
  PROVE  /\ IsFiniteSet(levels(t)) /\ \A l \in levels(t) : a[l] \in Nat
         /\ IsFiniteSet(potSeats(t))
         /\ \A E \in potSeats(t) :
              /\ E # {} /\ E \in SUBSET Seats /\ \A s \in E : rank[s] \in Int
              /\ potOf(t, E).seats = E
              /\ potOf(t, E).amount = Sum(a, {l \in levels(t) : eligible(t, l) = E})
              /\ potOf(t, E).amount \in Nat
         /\ \A s \in Seats :
              payouts(t, rank)[s] = Sum([E \in potSeats(t) |-> potShare(potOf(t, E), rank, s)], potSeats(t))
<1> DEFINE L    == levels(t)
           e    == [l \in L |-> eligible(t, l)]
           G    == {e[l] : l \in L} \ {{}}
           pot  == [E \in G |-> potOf(t, E)]
<1>1. IsFiniteSet(L) /\ \A l \in L : a[l] \in Nat
  <2>1. \A l \in L : levelAmount(t, l) \in Nat
    <3> TAKE l \in L
    <3> QED
      BY AmountIs
  <2> QED
    BY <2>1, LevelsAre
<1>2. G = potSeats(t)
  BY DEF potSeats
<1>3. IsFiniteSet(G)
  <2> DEFINE I == {e[l] : l \in L}
  <2>1. IsFiniteSet(I)
    <3> HIDE DEF e, L
    <3>1. DOMAIN e = L
      BY DEF e
    <3> QED
      BY <1>1, <3>1, ImageIsFinite
  <2>2. G \in SUBSET I
    OBVIOUS
  <2> HIDE DEF I
  <2> QED
    BY <2>1, <2>2, FS_Subset
<1>4. \A E \in G : E # {} /\ E \in SUBSET Seats /\ \A s \in E : rank[s] \in Int
  BY EligibleIsLive
<1>5. ASSUME NEW E \in G
      PROVE  /\ potOf(t, E).seats = E
             /\ potOf(t, E).amount = Sum(a, {l \in levels(t) : eligible(t, l) = E})
             /\ potOf(t, E).amount \in Nat
  <2> DEFINE R == {l \in levels(t) : eligible(t, l) = E}
  <2>1. R \in SUBSET levels(t) /\ potOf(t, E).seats = E
        /\ potOf(t, E).amount = MapThenSumSet(LAMBDA l : levelAmount(t, l), R)
    BY DEF potOf
  <2>2. \A l \in R : a[l] \in Nat
    BY <1>1
  <2> HIDE DEF R
  <2>3. potOf(t, E).amount = Sum(a, R)
    BY <2>1, AmountsSum
  <2>4. IsFiniteSet(R)
    BY <1>1, <2>1, FS_Subset
  <2>5. Sum(a, R) \in Nat
    BY <2>2, <2>4, SumType
  <2> QED
    BY <2>1, <2>3, <2>5 DEF R
<1>6. buildPots(t) = {pot[E] : E \in G}
  <2>1. \A E \in G : pot[E] = [seats |-> E, amount |-> MapThenSumSet(LAMBDA l : levelAmount(t, l), {l \in levels(t) : eligible(t, l) = E})]
    BY DEF potOf
  <2>2. G = {eligible(t, l) : l \in levels(t)} \ {{}}
    OBVIOUS
  <2> HIDE DEF pot, G
  <2> QED
    BY <2>1, <2>2 DEF buildPots
<1>7. \A E, D \in G : pot[E] = pot[D] => E = D
  <2> TAKE E, D \in G
  <2>1. pot[E] = potOf(t, E) /\ pot[D] = potOf(t, D)
    OBVIOUS
  <2> HIDE DEF pot
  <2> QED
    BY <1>5, <2>1
<1>8. ASSUME NEW s \in Seats
      PROVE  payouts(t, rank)[s] = Sum([E \in G |-> potShare(potOf(t, E), rank, s)], G)
  <2> DEFINE P == {pot[E] : E \in G}
             f == [p \in P |-> potShare(p, rank, s)]
             g == [E \in G |-> potShare(potOf(t, E), rank, s)]
  <2>1. payouts(t, rank)[s] = MapThenSumSet(LAMBDA p : potShare(p, rank, s), P)
    BY <1>6 DEF payouts
  <2>2. f = [p \in P |-> potShare(p, rank, s)]
    OBVIOUS
  <2>3. \A E \in G : g[E] \in Nat
    <3> TAKE E \in G
    <3> DEFINE p == potOf(t, E)
    <3>1. p.seats = E /\ p.amount \in Nat /\ E # {} /\ E \in SUBSET Seats /\ \A q \in E : rank[q] \in Int
      BY <1>4, <1>5
    <3> HIDE DEF p
    <3>2. potShare(p, rank, s) \in Nat
      <4> DEFINE sh == [q \in Seats |-> potShare(p, rank, q)]
      <4>1. \A q \in Seats : sh[q] \in Nat
        BY <3>1, PotIsPaid
      <4> QED
        BY <4>1
    <3> QED
      BY <3>2 DEF p
  <2>4. \A E \in G : g[E] = f[pot[E]]
    OBVIOUS
  <2> HIDE DEF f, g, pot, P
  <2>5. payouts(t, rank)[s] = Sum(f, P)
    BY <2>1, <2>2, SharesSum, ZenonT(40)
  <2>6. \A E \in G : f[pot[E]] \in Int /\ g[E] = f[pot[E]]
    BY <2>3, <2>4
  <2>7. Sum(f, {pot[E] : E \in G}) = Sum(g, G)
    <3> HIDE DEF G
    <3> QED
      BY <1>3, <1>7, <2>6, SumRenamed
  <2> QED
    BY <2>5, <2>7 DEF g, P
<1> HIDE DEF L, e, G, pot
<1> QED
  BY <1>1, <1>2, <1>3, <1>4, <1>5, <1>8 DEF L

(***************************************************************************)
(* Everything contributed is paid out, except the layers that no seat      *)
(* still in the hand has reached.                                          *)
(***************************************************************************)
LEMMA PotsAddUp ==
  ASSUME NEW t \in Tables, OutHasNothing(t), NEW rank, \A s \in nonFolded(t) : rank[s] \in Int
  PROVE  /\ payouts(t, rank) \in [Seats -> Nat]
         /\ SumSeats(payouts(t, rank)) + Stranded(t) = SumSeats(t.totalCommitted)
         /\ Stranded(t) \in Nat
<1> DEFINE L    == levels(t)
           a    == [l \in L |-> levelAmount(t, l)]
           e    == [l \in L |-> eligible(t, l)]
           G    == potSeats(t)
           amt  == [E \in G |-> Sum(a, {l \in L : e[l] = E})]
           share == [s \in Seats |-> [E \in G |-> potShare(potOf(t, E), rank, s)]]
<1>1. /\ IsFiniteSet(L)
      /\ \A l \in L : a[l] \in Nat
      /\ Sum(a, L) = SumSeats(t.totalCommitted)
  <2>1. IsFiniteSet(L)
    BY LevelsAre
  <2>2. \A l \in L : a[l] \in Nat
    <3> TAKE l \in L
    <3>1. levelAmount(t, l) \in Nat
      BY AmountIs
    <3> QED
      BY <3>1
  <2>3. Sum(a, levels(t)) = Sum(t.totalCommitted, Seats)
    BY LayersAddUp
  <2>4. t.totalCommitted \in [Seats -> Nat]
    BY DEF Tables
  <2>5. SumSeats(t.totalCommitted) = Sum(t.totalCommitted, Seats)
    BY <2>4, SumSeatsIs
  <2> QED
    BY <2>1, <2>2, <2>3, <2>5
<1>2. Summable(a, L)
  BY <1>1 DEF Summable
<1>3. /\ IsFiniteSet(G)
      /\ \A E \in G : /\ E # {} /\ E \in SUBSET Seats /\ \A s \in E : rank[s] \in Int
                      /\ potOf(t, E).seats = E
                      /\ potOf(t, E).amount = Sum(a, {l \in levels(t) : eligible(t, l) = E})
                      /\ potOf(t, E).amount \in Nat
      /\ \A s \in Seats : payouts(t, rank)[s] = Sum([E \in G |-> potShare(potOf(t, E), rank, s)], G)
  BY PotsOf, ZenonT(40)
<1>4. \A E \in G : potOf(t, E).amount = amt[E] /\ amt[E] \in Nat
  <2> TAKE E \in G
  <2>1. {l \in levels(t) : eligible(t, l) = E} = {l \in L : e[l] = E}
    OBVIOUS
  <2>2. amt[E] = Sum(a, {l \in L : e[l] = E})
    OBVIOUS
  <2> HIDE DEF amt, a, L, e
  <2> QED
    BY <1>3, <2>1, <2>2
<1>5. G = {e[l] : l \in L} \ {{}}
  BY DEF potSeats
<1>6. Stranded(t) = Sum(a, {l \in L : e[l] = {}}) /\ Stranded(t) \in Nat
  <2> DEFINE R == {l \in L : e[l] = {}}
  <2>1. R = {l \in levels(t) : eligible(t, l) = {}} /\ R \in SUBSET L
    OBVIOUS
  <2>2. a = [l \in L |-> levelAmount(t, l)]
    OBVIOUS
  <2>3. \A l \in R : a[l] \in Nat
    BY <1>1
  <2> HIDE DEF R, a, L
  <2>4. MapThenSumSet(LAMBDA l : levelAmount(t, l), R) = Sum(a, R)
    BY <2>1, <2>2, AmountsSum
  <2>5. IsFiniteSet(R)
    BY <1>1, <2>1, FS_Subset
  <2>6. Sum(a, R) \in Nat
    BY <2>3, <2>5, SumType
  <2> QED
    BY <2>1, <2>4, <2>6 DEF Stranded, R
<1>8. ASSUME NEW E \in G
      PROVE  Sum([s \in Seats |-> share[s][E]], Seats) = amt[E] /\ \A s \in Seats : share[s][E] \in Nat
  <2> DEFINE p == potOf(t, E)
             sh == [s \in Seats |-> potShare(p, rank, s)]
  <2>1. p.seats = E /\ p.amount = amt[E]
    BY <1>3, <1>4
  <2>2. p.amount \in Nat
    BY <1>3
  <2>3. [s \in Seats |-> share[s][E]] = sh
    OBVIOUS
  <2>4. E # {} /\ E \in SUBSET Seats /\ \A s \in E : rank[s] \in Int
    BY <1>3
  <2>5. sh = [s \in Seats |-> potShare(p, rank, s)]
    OBVIOUS
  <2> HIDE DEF p, sh
  <2>6. Sum(sh, Seats) = p.amount /\ \A s \in Seats : sh[s] \in Nat
    BY <2>1, <2>2, <2>4, <2>5, PotIsPaid
  <2> QED
    BY <2>1, <2>3, <2>6 DEF sh, p
<1>9. ASSUME NEW s \in Seats
      PROVE  payouts(t, rank)[s] = Sum([E \in G |-> share[s][E]], G) /\ payouts(t, rank)[s] \in Nat
  <2> DEFINE g == [E \in G |-> share[s][E]]
  <2>1. g = [E \in G |-> potShare(potOf(t, E), rank, s)]
    OBVIOUS
  <2>2. \A E \in G : g[E] \in Nat
    BY <1>8
  <2> HIDE DEF g, G
  <2>3. Sum(g, G) \in Nat
    BY <1>3, <2>2, SumType
  <2> QED
    BY <1>3, <2>1, <2>3 DEF g
<1>10. payouts(t, rank) \in [Seats -> Nat]
  <2>1. payouts(t, rank) = [s \in Seats |-> payouts(t, rank)[s]]
    BY DEF payouts
  <2> HIDE DEF L, a, e, G, amt, share
  <2> QED
    BY <1>9, <2>1
<1>11. SumSeats(payouts(t, rank)) = Sum(amt, G)
  <2>1. SumSeats(payouts(t, rank)) = Sum(payouts(t, rank), Seats)
    BY <1>10, SumSeatsIs
  <2>6. amt = [E \in G |-> amt[E]]
    OBVIOUS
  <2> HIDE DEF share, G, amt
  <2>2. \A s \in Seats, E \in G : share[s][E] \in Int
    <3>1. \A s \in Seats, E \in G : share[s][E] \in Nat
      BY <1>8, Zenon
    <3> QED
      BY <3>1
  <2>3. Sum([s \in Seats |-> Sum([E \in G |-> share[s][E]], G)], Seats)
          = Sum([E \in G |-> Sum([s \in Seats |-> share[s][E]], Seats)], G)
    <3>1. IsFiniteSet(G) /\ IsFiniteSet(Seats)
      BY <1>3, SeatsFinite
    <3> QED
      BY <2>2, <3>1, SumExchange
  <2>4. payouts(t, rank) = [s \in Seats |-> Sum([E \in G |-> share[s][E]], G)]
    BY <1>9, <1>10
  <2>5. amt = [E \in G |-> Sum([s \in Seats |-> share[s][E]], Seats)]
    <3>1. \A E \in G : amt[E] = Sum([s \in Seats |-> share[s][E]], Seats)
      BY <1>8
    <3> QED
      BY <2>6, <3>1, Zenon
  <2> QED
    BY <2>1, <2>3, <2>4, <2>5
<1>12. Sum(amt, G) = Sum(a, {l \in L : e[l] # {}})
  <2>1. {l \in L : e[l] \in G} = {l \in L : e[l] # {}}
    BY <1>5
  <2>2. amt = [k \in G |-> Sum(a, {l \in L : e[l] = k})]
    OBVIOUS
  <2> HIDE DEF L, a, e, G, amt
  <2>3. Sum([k \in G |-> Sum(a, {l \in L : e[l] = k})], G) = Sum(a, {l \in L : e[l] \in G})
    BY <1>2, <1>3, SumGrouped
  <2> QED
    BY <2>1, <2>2, <2>3
<1>13. /\ Sum(a, L) = Sum(a, {l \in L : e[l] # {}}) + Sum(a, {l \in L : e[l] = {}})
       /\ Sum(a, {l \in L : e[l] # {}}) \in Int
  <2> DEFINE R == {l \in L : e[l] # {}}
             Q == {l \in L : e[l] = {}}
  <2>1. R \in SUBSET L /\ Q \in SUBSET L /\ R \cap Q = {} /\ R \cup Q = L
    OBVIOUS
  <2> HIDE DEF R, Q, L, a, e
  <2>2. Sum(a, L) = Sum(a, R) + Sum(a, Q) /\ Sum(a, R) \in Int
    BY <1>2, <2>1, SumTogether
  <2> QED
    BY <2>2 DEF R, Q
<1> QED
  <2> HIDE DEF L, a, e, G, amt, share
  <2> QED
    BY <1>1, <1>6, <1>10, <1>11, <1>12, <1>13

-----------------------------------------------------------------------------
(***************************************************************************)
(* The uncalled part of a bet.                                             *)
(***************************************************************************)
\* Every contribution is reached by another seat's.
Matched(t) ==
  \A s \in contributors(t) : \E q \in Seats \ {s} : t.totalCommitted[q] >= t.totalCommitted[s]

\* Moving chips within a seat.
LEMMA SeatChange ==
  ASSUME NEW f \in [Seats -> Nat], NEW s \in Seats, NEW v \in Nat,
         NEW g, g = [f EXCEPT ![s] = v]
  PROVE  g \in [Seats -> Nat] /\ SumSeats(g) = SumSeats(f) - f[s] + v
<1>1. g \in [Seats -> Nat] /\ g[s] = v /\ \A y \in Seats \ {s} : g[y] = f[y]
  OBVIOUS
<1>2. SumSeats(g) = Sum(g, Seats) /\ SumSeats(f) = Sum(f, Seats) /\ Summable(f, Seats)
  BY <1>1, SumSeatsIs
<1>3. Sum(g, Seats) = Sum(f, Seats) - f[s] + g[s]
  <2>1. g[s] \in Int
    BY <1>1
  <2>2. \A y \in Seats \ {s} : g[y] = f[y]
    BY <1>1
  <2>3. Summable(f, Seats)
    BY <1>2
  <2>4. ASSUME NEW h, h[s] \in Int, \A y \in Seats \ {s} : h[y] = f[y]
        PROVE  Sum(h, Seats) = Sum(f, Seats) - f[s] + h[s]
    BY <2>3, <2>4, SumChange
  <2> QED
    BY <2>1, <2>2, <2>4
<1> QED
  BY <1>1, <1>2, <1>3

\* Two numbers moved between a seat's stack and its contribution.
LEMMA ChipsMoved ==
  ASSUME NEW t \in Tables, NEW u \in Tables, NEW s \in Seats, NEW pay \in Int,
         t.stack[s] - pay \in Nat, t.totalCommitted[s] + pay \in Nat,
         u.stack = [t.stack EXCEPT ![s] = @ - pay],
         u.totalCommitted = [t.totalCommitted EXCEPT ![s] = @ + pay]
  PROVE  Chips(u) = Chips(t)
<1>1. /\ t.stack \in [Seats -> Nat] /\ t.totalCommitted \in [Seats -> Nat]
      /\ t.stack[s] \in Nat /\ t.totalCommitted[s] \in Nat
  BY DEF Tables
<1>2. SumSeats(u.stack) = SumSeats(t.stack) - t.stack[s] + (t.stack[s] - pay)
  BY <1>1, SeatChange
<1>3. SumSeats(u.totalCommitted) = SumSeats(t.totalCommitted) - t.totalCommitted[s] + (t.totalCommitted[s] + pay)
  BY <1>1, SeatChange
<1>4. SumSeats(t.stack) \in Nat /\ SumSeats(t.totalCommitted) \in Nat
  BY <1>1, SumSeatsIs
<1> QED
  BY <1>1, <1>2, <1>3, <1>4 DEF Chips

\* What a seat gets back is the part of its contribution nobody else has reached.
Returned(t, u) ==
  \A s \in Seats :
    /\ u.totalCommitted[s] <= t.totalCommitted[s]
    /\ u.stack[s] - t.stack[s] = t.totalCommitted[s] - u.totalCommitted[s]
    /\ u.totalCommitted[s] < t.totalCommitted[s] =>
         \A q \in Seats \ {s} : t.totalCommitted[q] <= u.totalCommitted[s]

\* Returning the uncalled bet leaves every level with two contributors and
\* loses no chip.
LEMMA UncalledReturned ==
  ASSUME NEW t \in Tables, OutHasNothing(t), Cardinality(contributors(t)) >= 2,
         NEW u, u = returnUncalled(t)
  PROVE  /\ u \in Tables /\ u.status = t.status
         /\ OutHasNothing(u) /\ Matched(u) /\ Chips(u) = Chips(t)
         /\ Returned(t, u)
<1> DEFINE C == contributors(t)
           tot == t.totalCommitted
           tops == {s \in C : \A o \in C : o # s => tot[o] < tot[s]}
<1>1. /\ C \in SUBSET Seats /\ IsFiniteSet(C)
      /\ \A s \in Seats : tot[s] \in Nat /\ t.stack[s] \in Nat /\ (s \in C <=> tot[s] > 0)
  BY LevelsAre DEF contributors
<1>2. CASE tops = {}
  <2>1. u = t
    BY <1>2 DEF returnUncalled
  <2>2. \A s \in C : \E o \in C : o # s /\ ~(tot[o] < tot[s])
    BY <1>2
  <2>3. Matched(t)
    BY <1>1, <2>2 DEF Matched
  <2>4. Returned(t, t)
    BY <1>1 DEF Returned
  <2> QED
    BY <2>1, <2>3, <2>4
<1>3. CASE tops # {}
  <2> DEFINE top    == CHOOSE s \in tops : TRUE
             rest   == C \ {top}
             second == Max({tot[o] : o \in rest})
             diff   == tot[top] - second
  <2>1. top \in C /\ \A o \in C : o # top => tot[o] < tot[top]
    BY <1>3
  <2>2. u = [t EXCEPT !.stack[top] = @ + diff, !.totalCommitted[top] = @ - diff]
    <3>1. ~(Cardinality(C) < 2)
      BY <1>1, FS_CardinalityType
    <3> QED
      BY <1>3, <3>1 DEF returnUncalled
  <2> HIDE DEF top
  <2>3. IsFiniteSet(rest) /\ rest # {}
    <3>1. IsFiniteSet(rest) /\ Cardinality(rest) = Cardinality(C) - 1
      BY <1>1, <2>1, FS_RemoveElement
    <3>2. Cardinality(C) >= 2 /\ Cardinality(C) \in Nat
      BY <1>1, FS_CardinalityType
    <3>3. Cardinality(rest) # 0
      BY <3>1, <3>2
    <3> QED
      BY <3>1, <3>3, FS_EmptySet
  <2>4. PICK q \in rest : second = tot[q] /\ \A o \in rest : tot[o] <= second
    <3> DEFINE r == [o \in rest |-> tot[o]]
               I == {r[o] : o \in rest}
    <3>1. IsFiniteSet(I)
      <4> HIDE DEF r
      <4>1. DOMAIN r = rest
        BY DEF r
      <4> QED
        BY <2>3, <4>1, ImageIsFinite
    <3>2. I # {} /\ \A x \in I : x \in Int
      BY <1>1, <2>3
    <3>3. I = {tot[o] : o \in rest}
      OBVIOUS
    <3>4. Max(I) \in I /\ \A y \in I : Max(I) >= y
      <4> HIDE DEF I
      <4> QED
        BY <3>1, <3>2, MaxIsGreatest
    <3>5. second \in I /\ \A y \in I : second >= y
      BY <3>3, <3>4
    <3> HIDE DEF second
    <3> QED
      BY <1>1, <3>5
  <2> HIDE DEF second
  <2>5. /\ second \in Nat /\ second > 0 /\ diff \in Nat /\ diff > 0
        /\ tot[top] - diff = second /\ q # top /\ q \in Seats /\ top \in Seats
    BY <1>1, <2>1, <2>4
  <2> HIDE DEF diff
  <2>6. /\ u.stack = [t.stack EXCEPT ![top] = @ + diff]
        /\ u.totalCommitted = [tot EXCEPT ![top] = @ - diff]
        /\ u.status = t.status
    BY <2>2 DEF Tables
  <2>7. t.stack[top] + diff \in Nat /\ tot[top] - diff \in Nat
    BY <1>1, <2>5
  <2>8. u \in Tables
    <3>1. [t.stack EXCEPT ![top] = @ + diff] \in [Seats -> Nat]
      BY <1>1, <2>7 DEF Tables
    <3>2. [tot EXCEPT ![top] = @ - diff] \in [Seats -> Nat]
      BY <1>1, <2>7 DEF Tables
    <3> QED
      BY <2>2, <3>1, <3>2 DEF Tables
  <2>9. u.totalCommitted[top] = second /\ \A s \in Seats \ {top} : u.totalCommitted[s] = tot[s]
    BY <2>5, <2>6 DEF Tables
  <2>10. contributors(u) = C
    BY <1>1, <2>1, <2>5, <2>9 DEF contributors
  <2>11. Matched(u)
    <3> SUFFICES ASSUME NEW s \in C
                 PROVE  \E o \in Seats \ {s} : u.totalCommitted[o] >= u.totalCommitted[s]
      BY <2>10 DEF Matched
    <3>1. CASE s = top
      BY <2>4, <2>5, <2>9, <3>1
    <3>2. CASE s # top
      BY <1>1, <2>4, <2>5, <2>9, <3>2
    <3> QED
      BY <3>1, <3>2
  <2>12. OutHasNothing(u)
    <3>1. t.status[top] # "sittingOut"
      BY <1>1, <2>1, <2>5 DEF OutHasNothing
    <3> QED
      BY <2>6, <2>9, <3>1 DEF OutHasNothing
  <2>13. Chips(u) = Chips(t)
    <3> DEFINE pay == -diff
    <3>1. pay \in Int /\ t.stack[top] - pay \in Nat /\ tot[top] + pay \in Nat
      BY <1>1, <2>5, <2>7
    <3>2. t.stack[top] - pay = t.stack[top] + diff /\ tot[top] + pay = tot[top] - diff
      BY <1>1, <2>5
    <3>3. /\ u.stack = [t.stack EXCEPT ![top] = @ - pay]
          /\ u.totalCommitted = [t.totalCommitted EXCEPT ![top] = @ + pay]
      BY <2>6, <3>2
    <3> HIDE DEF pay
    <3> QED
      BY <2>5, <2>8, <3>1, <3>3, ChipsMoved
  <2>14. Returned(t, u)
    <3>1. u.stack[top] = t.stack[top] + diff /\ \A s \in Seats \ {top} : u.stack[s] = t.stack[s]
      BY <2>5, <2>6 DEF Tables
    <3>2. \A s \in Seats \ {top} : tot[s] <= second
      BY <1>1, <2>4, <2>5
    <3>3. /\ u.totalCommitted[top] <= tot[top]
          /\ u.stack[top] - t.stack[top] = tot[top] - u.totalCommitted[top]
      BY <1>1, <2>5, <2>9, <3>1
    <3>4. \A s \in Seats \ {top} : /\ u.totalCommitted[s] = tot[s]
                                   /\ u.stack[s] - t.stack[s] = tot[s] - u.totalCommitted[s]
      BY <1>1, <2>9, <3>1
    <3> QED
      BY <1>1, <2>9, <3>2, <3>3, <3>4 DEF Returned
  <2> QED
    BY <2>6, <2>8, <2>11, <2>12, <2>13, <2>14
<1> QED
  BY <1>2, <1>3

-----------------------------------------------------------------------------
(***************************************************************************)
(* The table a hand is played on, and what each of the engine's helpers    *)
(* makes of it.                                                            *)
(***************************************************************************)
\* No seat has bet more than the bet, and a raise is always of something.
Sound(t) ==
  /\ t \in Tables
  /\ t.minRaise > 0
  /\ \A s \in Seats : t.committed[s] <= t.currentBet

\* Two seats have paid into the pot, and only seats that were dealt in.
Played(t) ==
  /\ Sound(t)
  /\ OutHasNothing(t)
  /\ Cardinality(contributors(t)) >= 2

\* The pot is empty.
PaidOut(t) == t \in Tables /\ \A s \in Seats : t.totalCommitted[s] = 0

\* A table as it is computed, before a showdown is settled.
Computed(t) ==
  \/ t.stage \in BettingStages \cup {"SHOWDOWN"} /\ Played(t) /\ Cardinality(nonFolded(t)) >= 2
  \/ t.stage = "HAND_OVER" /\ Sound(t) /\ PaidOut(t)

\* A table as it is stored.
Stored(t) == Computed(t) /\ t.stage # "SHOWDOWN"

\* An empty pot holds no chips.
LEMMA EmptyPot ==
  ASSUME NEW t, PaidOut(t)
  PROVE  Chips(t) = SumSeats(t.stack) /\ Chips(t) \in Nat
<1>1. /\ t.totalCommitted \in [Seats -> Nat] /\ t.stack \in [Seats -> Nat]
      /\ \A s \in Seats : t.totalCommitted[s] = 0
  BY DEF PaidOut, Tables
<1>2. SumSeats(t.totalCommitted) = Sum(t.totalCommitted, Seats) /\ SumSeats(t.stack) \in Nat
  BY <1>1, SumSeatsIs
<1>3. Sum(t.totalCommitted, Seats) = 0 * Cardinality(Seats)
  BY <1>1, SeatsFinite, SumConstant
<1>4. Cardinality(Seats) \in Nat
  BY SeatsFinite
<1> QED
  BY <1>2, <1>3, <1>4 DEF Chips

\* Clearing the commitments touches no stack.
LEMMA ClearKeeps ==
  ASSUME NEW t \in Tables, NEW u, u = clearCommitments(t)
  PROVE  /\ u \in Tables
         /\ u.stack = t.stack /\ u.status = t.status /\ u.minRaise = t.minRaise
         /\ \A s \in Seats : u.totalCommitted[s] = 0 /\ u.committed[s] = 0
BY DEF clearCommitments, Tables

\* A hand that is over: the pot has gone to the stacks.
OverWith(t, won) ==
  [clearCommitments(t) EXCEPT !.stack = won, !.stage = "HAND_OVER", !.currentTurn = NoSeat]

\* The end of a hand stores what was won.
LEMMA HandOver ==
  ASSUME NEW t \in Tables, t.minRaise > 0, NEW won \in [Seats -> Nat], NEW u,
         u = OverWith(t, won)
  PROVE  /\ Stored(u) /\ PaidOut(u)
         /\ u.stage = "HAND_OVER" /\ u.stack = won
         /\ Chips(u) = SumSeats(won)
<1> DEFINE c == clearCommitments(t)
<1>1. /\ c \in Tables /\ c.minRaise = t.minRaise
      /\ \A s \in Seats : c.totalCommitted[s] = 0 /\ c.committed[s] = 0
  BY ClearKeeps
<1>2. u = [c EXCEPT !.stack = won, !.stage = "HAND_OVER", !.currentTurn = NoSeat]
  BY DEF OverWith
<1> HIDE DEF c
<1>3. /\ u \in Tables /\ u.stage = "HAND_OVER" /\ u.stack = won
      /\ u.minRaise = c.minRaise /\ u.totalCommitted = c.totalCommitted /\ u.committed = c.committed
  BY <1>1, <1>2 DEF Tables, Stages, NoSeat
<1>4. u.currentBet \in Nat
  BY <1>3 DEF Tables
<1>5. Sound(u) /\ PaidOut(u)
  BY <1>1, <1>3, <1>4 DEF Sound, PaidOut
<1>6. Chips(u) = SumSeats(won)
  BY <1>3, <1>5, EmptyPot
<1> QED
  BY <1>3, <1>5, <1>6 DEF Stored, Computed

(***************************************************************************)
(* A showdown pays out all but the stranded layers.                        *)
(***************************************************************************)
LEMMA ShowdownPays ==
  ASSUME NEW t, Played(t), NEW rank \in Rankings(t), NEW u, u = runShowdown(t, rank)
  PROVE  /\ Stored(u) /\ PaidOut(u) /\ u.stage = "HAND_OVER"
         /\ Chips(u) = Chips(t) - Stranded(returnUncalled(t))
         /\ Stranded(returnUncalled(t)) \in Nat
         /\ \A s \in Seats : u.stack[s] = returnUncalled(t).stack[s] + payouts(returnUncalled(t), rank)[s]
<1> DEFINE r == returnUncalled(t)
           p == payouts(r, rank)
           won == [s \in Seats |-> r.stack[s] + p[s]]
<1>1. t \in Tables /\ t.minRaise > 0 /\ OutHasNothing(t) /\ Cardinality(contributors(t)) >= 2
  BY DEF Played, Sound
<1>2. r \in Tables /\ r.status = t.status /\ OutHasNothing(r) /\ Chips(r) = Chips(t)
  BY <1>1, UncalledReturned
<1>3. r.minRaise = t.minRaise
  BY <1>1 DEF returnUncalled, Tables
<1>4. u = OverWith(r, won)
  BY DEF runShowdown, OverWith
<1> HIDE DEF r
<1>5. \A s \in nonFolded(r) : rank[s] \in Int
  <2>1. nonFolded(r) = nonFolded(t)
    BY <1>2 DEF nonFolded
  <2>2. \A s \in nonFolded(t) : rank[s] \in Strengths
    BY DEF Rankings
  <2>3. \A x \in Strengths : x \in Int
    BY HandAssumption
  <2> QED
    BY <2>1, <2>2, <2>3, Zenon
<1>6. /\ p \in [Seats -> Nat]
      /\ SumSeats(p) + Stranded(r) = SumSeats(r.totalCommitted)
      /\ Stranded(r) \in Nat
  BY <1>2, <1>5, PotsAddUp
<1> HIDE DEF p
<1>7. r.stack \in [Seats -> Nat] /\ r.totalCommitted \in [Seats -> Nat]
  BY <1>2 DEF Tables
<1>8. won \in [Seats -> Nat] /\ \A s \in Seats : won[s] = r.stack[s] + p[s]
  BY <1>6, <1>7
<1> HIDE DEF won
<1>9. SumSeats(won) = SumSeats(r.stack) + SumSeats(p)
  <2>1. /\ SumSeats(won) = Sum(won, Seats)
        /\ SumSeats(r.stack) = Sum(r.stack, Seats) /\ Summable(r.stack, Seats)
        /\ SumSeats(p) = Sum(p, Seats) /\ Summable(p, Seats)
    BY <1>6, <1>7, <1>8, SumSeatsIs
  <2>2. Sum(won, Seats) = Sum(r.stack, Seats) + Sum(p, Seats)
    BY <1>8, <2>1, SumPlus
  <2> QED
    BY <2>1, <2>2
<1>10. /\ Stored(u) /\ PaidOut(u) /\ u.stage = "HAND_OVER" /\ Chips(u) = SumSeats(won)
       /\ u.stack = won
  <2>1. r.minRaise > 0 /\ won \in [Seats -> Nat]
    BY <1>1, <1>3, <1>8
  <2>2. r \in Tables
    BY <1>2
  <2> QED
    BY <1>4, <2>1, <2>2, HandOver
<1>11. SumSeats(r.stack) \in Nat /\ SumSeats(p) \in Nat /\ SumSeats(r.totalCommitted) \in Nat
  BY <1>6, <1>7, SumSeatsIs
<1>12. Chips(u) = Chips(r) - Stranded(r)
  BY <1>6, <1>9, <1>10, <1>11 DEF Chips
<1> QED
  BY <1>2, <1>6, <1>8, <1>10, <1>12 DEF r, p

\* The last seat left takes the pot.
LEMMA UncontestedPays ==
  ASSUME NEW t, Sound(t), Cardinality(nonFolded(t)) = 1, NEW u, u = endHandUncontested(t)
  PROVE  Stored(u) /\ u.stage = "HAND_OVER" /\ Chips(u) = Chips(t)
<1> DEFINE winner == CHOOSE s \in nonFolded(t) : TRUE
           pot == SumSeats(t.totalCommitted)
           won == [t.stack EXCEPT ![winner] = @ + pot]
<1>1. winner \in Seats
  <2>1. nonFolded(t) # {}
    BY FS_EmptySet
  <2>2. winner \in nonFolded(t)
    BY <2>1
  <2> QED
    BY <2>2 DEF nonFolded
<1>2. t \in Tables /\ t.minRaise > 0 /\ t.stack \in [Seats -> Nat] /\ t.totalCommitted \in [Seats -> Nat]
  BY DEF Sound, Tables
<1>3. u = OverWith(t, won)
  <2>1. clearCommitments(t).stack = t.stack
    BY <1>2, ClearKeeps
  <2>2. u = [clearCommitments(t) EXCEPT !.stack[winner] = @ + pot, !.stage = "HAND_OVER",
                                        !.currentTurn = NoSeat]
    BY DEF endHandUncontested
  <2>3. DOMAIN clearCommitments(t) = Fields
    BY <1>2 DEF clearCommitments, Tables, Fields
  <2> HIDE DEF winner, pot
  <2> QED
    BY <2>1, <2>2, <2>3 DEF OverWith
<1>4. pot \in Nat /\ t.stack[winner] \in Nat
  BY <1>1, <1>2, SumSeatsIs
<1> HIDE DEF winner, pot
<1>5. t.stack[winner] + pot \in Nat
  BY <1>4
<1>6. /\ won \in [Seats -> Nat]
      /\ SumSeats(won) = SumSeats(t.stack) - t.stack[winner] + (t.stack[winner] + pot)
  BY <1>1, <1>2, <1>5, SeatChange
<1>7. SumSeats(t.stack) \in Nat
  BY <1>2, SumSeatsIs
<1>8. SumSeats(won) = Chips(t)
  BY <1>4, <1>6, <1>7 DEF Chips, pot
<1> HIDE DEF won
<1> QED
  BY <1>2, <1>3, <1>6, <1>8, HandOver

\* Changes to a table that leave the stacks, the pot and who is in the hand alone.
SamePot(t, u) ==
  u.stack = t.stack /\ u.totalCommitted = t.totalCommitted /\ u.status = t.status

\* Changes that leave the pot alone leave the chips alone.
LEMMA SamePotKeeps ==
  ASSUME NEW t, NEW u, SamePot(t, u)
  PROVE  /\ Chips(u) = Chips(t)
         /\ contributors(u) = contributors(t) /\ nonFolded(u) = nonFolded(t)
         /\ OutHasNothing(t) => OutHasNothing(u)
BY DEF SamePot, Chips, contributors, nonFolded, OutHasNothing

(***************************************************************************)
(* The end of a street opens the next one, or runs the board out.          *)
(***************************************************************************)
LEMMA AdvanceKeeps ==
  ASSUME NEW t, Played(t), t.stage \in BettingStages, Cardinality(nonFolded(t)) >= 2,
         NEW u, u = advanceStage(t)
  PROVE  Computed(u) /\ Chips(u) = Chips(t)
<1> DEFINE r == resetRound(t)
           n == [r EXCEPT !.stage = nextStage[@]]
<1>1. t \in Tables /\ t.minRaise > 0 /\ OutHasNothing(t) /\ Cardinality(contributors(t)) >= 2
  BY DEF Played, Sound
<1>2. /\ r \in Tables /\ SamePot(t, r) /\ r.stage = t.stage
      /\ r.minRaise = BigBlind /\ r.currentBet = 0
      /\ \A s \in Seats : r.committed[s] = 0
  <2>1. BigBlind \in Nat /\ NoSeat \in Seats \cup {NoSeat}
    BY PokerAssumption
  <2> QED
    BY <1>1, <2>1 DEF resetRound, Tables, SamePot
<1> HIDE DEF r
<1>3. nextStage[r.stage] \in BettingStages \cup {"SHOWDOWN"}
  BY <1>2 DEF nextStage, BettingStages
<1>4. /\ n \in Tables /\ SamePot(r, n) /\ n.stage \in BettingStages \cup {"SHOWDOWN"}
      /\ n.minRaise = r.minRaise /\ n.currentBet = r.currentBet /\ n.committed = r.committed
  BY <1>2, <1>3 DEF Tables, Stages, SamePot
<1>5. u = runOut(n) \/ (u = [n EXCEPT !.currentTurn = firstToAct(n)] /\ firstToAct(n) \in Seats \cup {NoSeat})
  <2>1. u = runOut(n) \/ u = [n EXCEPT !.currentTurn = firstToAct(n)]
    BY DEF advanceStage, r
  <2>2. firstToAct(n) \in Seats \cup {NoSeat}
    BY NextActorOwes DEF firstToAct
  <2> QED
    BY <2>1, <2>2
<1> HIDE DEF n
<1>6. /\ u \in Tables /\ SamePot(n, u) /\ u.stage \in BettingStages \cup {"SHOWDOWN"}
      /\ u.minRaise = n.minRaise /\ u.currentBet = n.currentBet /\ u.committed = n.committed
  <2>1. CASE u = runOut(n)
    BY <1>4, <2>1 DEF runOut, Tables, Stages, SamePot
  <2>2. CASE u = [n EXCEPT !.currentTurn = firstToAct(n)] /\ firstToAct(n) \in Seats \cup {NoSeat}
    BY <1>4, <2>2 DEF Tables, SamePot
  <2> QED
    BY <1>5, <2>1, <2>2
<1>7. SamePot(t, u)
  BY <1>2, <1>4, <1>6 DEF SamePot
<1>8. Sound(u)
  BY <1>2, <1>4, <1>6, PokerAssumption DEF Sound
<1>9. Played(u) /\ Cardinality(nonFolded(u)) >= 2 /\ Chips(u) = Chips(t)
  BY <1>1, <1>7, <1>8, SamePotKeeps DEF Played
<1> QED
  BY <1>6, <1>9 DEF Computed

\* What Apply does after a move.
LEMMA ResolveKeeps ==
  ASSUME NEW t, Played(t), t.stage \in BettingStages, Cardinality(nonFolded(t)) >= 1,
         NEW s, NEW u, u = resolve(t, s)
  PROVE  Computed(u) /\ Chips(u) = Chips(t)
<1> DEFINE next == nextActor(t, s)
<1>1. CASE Cardinality(nonFolded(t)) = 1
  <2>1. u = endHandUncontested(t) /\ Sound(t)
    BY <1>1 DEF resolve, Played
  <2> QED
    BY <1>1, <2>1, UncontestedPays DEF Stored
<1>2. CASE Cardinality(nonFolded(t)) # 1
  <2>1. Cardinality(nonFolded(t)) >= 2
    <3>1. nonFolded(t) \in SUBSET Seats
      BY DEF nonFolded
    <3>2. Cardinality(nonFolded(t)) \in Nat
      BY <3>1, SeatsFinite
    <3> QED
      BY <1>2, <3>2
  <2>2. CASE next = NoSeat
    <3>1. u = advanceStage(t)
      BY <1>2, <2>2 DEF resolve
    <3> QED
      BY <2>1, <3>1, AdvanceKeeps
  <2>3. CASE next # NoSeat
    <3>1. u = [t EXCEPT !.currentTurn = next] /\ next \in Seats
      BY <1>2, <2>3, NextActorOwes DEF resolve
    <3> HIDE DEF next
    <3>2. t \in Tables /\ Sound(t) /\ OutHasNothing(t) /\ Cardinality(contributors(t)) >= 2
      BY DEF Played, Sound
    <3>3. /\ u \in Tables /\ SamePot(t, u) /\ u.stage = t.stage
          /\ u.minRaise = t.minRaise /\ u.currentBet = t.currentBet /\ u.committed = t.committed
      BY <3>1, <3>2 DEF Tables, SamePot
    <3>4. Sound(u)
      BY <3>2, <3>3 DEF Sound
    <3> QED
      BY <2>1, <3>2, <3>3, <3>4, SamePotKeeps DEF Computed, Played
  <2> QED
    BY <2>2, <2>3
<1> QED
  BY <1>1, <1>2

(***************************************************************************)
(* Chips paid in by a seat that is in the hand and has them.               *)
(***************************************************************************)
LEMMA CommitPays ==
  ASSUME NEW t, t \in Tables, NEW s \in Seats, t.status[s] = "active",
         NEW pay \in Nat, pay <= t.stack[s], NEW u, u = commit(t, s, pay)
  PROVE  /\ u \in Tables /\ Chips(u) = Chips(t)
         /\ u.stage = t.stage /\ u.minRaise = t.minRaise /\ u.currentBet = t.currentBet
         /\ \A o \in Seats \ {s} : /\ u.committed[o] = t.committed[o]
                                 /\ u.totalCommitted[o] = t.totalCommitted[o]
                                 /\ u.stack[o] = t.stack[o]
         /\ u.committed[s] = t.committed[s] + pay
         /\ u.totalCommitted[s] = t.totalCommitted[s] + pay
         /\ u.stack[s] = t.stack[s] - pay
         /\ \A o \in Seats \ {s} : u.status[o] = t.status[o]
         /\ u.status[s] \in {"active", "allIn"}
<1>1. /\ t.stack \in [Seats -> Nat] /\ t.totalCommitted \in [Seats -> Nat]
      /\ t.committed \in [Seats -> Nat] /\ t.status \in [Seats -> Statuses]
  BY DEF Tables
<1>2. /\ t.stack[s] - pay \in Nat /\ t.totalCommitted[s] + pay \in Nat /\ t.committed[s] + pay \in Nat
  BY <1>1
<1>3. /\ [t.stack EXCEPT ![s] = @ - pay] \in [Seats -> Nat]
      /\ [t.totalCommitted EXCEPT ![s] = @ + pay] \in [Seats -> Nat]
      /\ [t.committed EXCEPT ![s] = @ + pay] \in [Seats -> Nat]
  BY <1>1, <1>2
<1>4. [t.status EXCEPT ![s] = IF t.stack[s] = pay THEN "allIn" ELSE @] \in [Seats -> Statuses]
  BY <1>1 DEF Statuses
<1>5. u \in Tables
  BY <1>3, <1>4 DEF commit, Tables
<1>6. /\ u.stage = t.stage /\ u.minRaise = t.minRaise /\ u.currentBet = t.currentBet
      /\ u.committed = [t.committed EXCEPT ![s] = @ + pay]
      /\ u.stack = [t.stack EXCEPT ![s] = @ - pay]
      /\ u.totalCommitted = [t.totalCommitted EXCEPT ![s] = @ + pay]
      /\ u.status = [t.status EXCEPT ![s] = IF t.stack[s] = pay THEN "allIn" ELSE @]
  BY DEF commit, Tables
<1>7. pay \in Int
  OBVIOUS
<1>8. Chips(u) = Chips(t)
  BY <1>2, <1>5, <1>6, <1>7, ChipsMoved
<1>9. u.status \in [Seats -> Statuses] /\ (\A o \in Seats \ {s} : u.status[o] = t.status[o])
      /\ u.status[s] \in {"active", "allIn"}
  BY <1>1, <1>6 DEF Statuses
<1>10. /\ \A o \in Seats \ {s} : /\ u.committed[o] = t.committed[o]
                               /\ u.totalCommitted[o] = t.totalCommitted[o]
                               /\ u.stack[o] = t.stack[o]
       /\ u.committed[s] = t.committed[s] + pay
       /\ u.totalCommitted[s] = t.totalCommitted[s] + pay
       /\ u.stack[s] = t.stack[s] - pay
  BY <1>1, <1>6
<1> QED
  BY <1>5, <1>6, <1>8, <1>9, <1>10

\* Paying in keeps everybody's part in the hand.
LEMMA CommitKeepsHand ==
  ASSUME NEW t, Played(t), NEW s \in Seats, t.status[s] = "active",
         NEW pay \in Nat, pay <= t.stack[s], NEW u, u = commit(t, s, pay)
  PROVE  /\ OutHasNothing(u) /\ nonFolded(u) = nonFolded(t)
         /\ Cardinality(contributors(u)) >= 2
<1>0. t \in Tables /\ OutHasNothing(t) /\ Cardinality(contributors(t)) >= 2
  BY DEF Played, Sound
<1>1. /\ t.totalCommitted \in [Seats -> Nat]
      /\ \A o \in Seats \ {s} : u.totalCommitted[o] = t.totalCommitted[o]
      /\ u.totalCommitted[s] = t.totalCommitted[s] + pay
      /\ \A o \in Seats \ {s} : u.status[o] = t.status[o]
      /\ u.status[s] \in {"active", "allIn"}
  <2>1. t.totalCommitted \in [Seats -> Nat]
    BY <1>0 DEF Tables
  <2> QED
    BY <1>0, <2>1, CommitPays
<1>2. \A o \in Seats : u.totalCommitted[o] >= t.totalCommitted[o] /\ t.totalCommitted[o] \in Nat
  BY <1>1
<1>3. contributors(t) \in SUBSET contributors(u) /\ contributors(u) \in SUBSET Seats
  BY <1>1, <1>2 DEF contributors
<1>4. Cardinality(contributors(t)) <= Cardinality(contributors(u))
  BY <1>3, SeatsFinite, FS_Subset
<1>5. Cardinality(contributors(t)) \in Nat /\ Cardinality(contributors(u)) \in Nat
  BY <1>3, SeatsFinite
<1>6. OutHasNothing(u)
  BY <1>0, <1>1 DEF OutHasNothing
<1>7. nonFolded(u) = nonFolded(t)
  BY <1>1 DEF nonFolded
<1> QED
  BY <1>0, <1>4, <1>5, <1>6, <1>7

\* Marking who has acted touches nothing else.
LEMMA MarkKeeps ==
  ASSUME NEW t \in Tables, NEW s \in Seats, NEW u, u = acted(t, s) \/ u = reopen(t, s)
  PROVE  /\ u \in Tables /\ SamePot(t, u) /\ u.stage = t.stage
         /\ u.minRaise = t.minRaise /\ u.currentBet = t.currentBet /\ u.committed = t.committed
<1>1. [t.hasActed EXCEPT ![s] = TRUE] \in [Seats -> BOOLEAN]
  BY DEF Tables
<1>2. CASE u = acted(t, s)
  BY <1>1, <1>2 DEF acted, Tables, SamePot
<1>3. CASE u = reopen(t, s)
  BY <1>3 DEF reopen, Tables, SamePot
<1> QED
  BY <1>2, <1>3

\* The same, of a sound table of the hand.
LEMMA MarkKeepsHand ==
  ASSUME NEW t, Played(t), NEW s \in Seats, NEW u, u = acted(t, s) \/ u = reopen(t, s)
  PROVE  /\ Played(u) /\ u.stage = t.stage /\ nonFolded(u) = nonFolded(t)
         /\ Chips(u) = Chips(t)
<1>1. t \in Tables
  BY DEF Played, Sound
<1>2. /\ u \in Tables /\ SamePot(t, u) /\ u.stage = t.stage
      /\ u.minRaise = t.minRaise /\ u.currentBet = t.currentBet /\ u.committed = t.committed
  BY <1>1, MarkKeeps
<1> QED
  BY <1>2, SamePotKeeps DEF Played, Sound

(***************************************************************************)
(* The moves.  Each leaves a table the hand can go on from.                *)
(***************************************************************************)
\* Seat s may move on table t.
Turn(t, s) ==
  /\ Played(t) /\ t.stage \in BettingStages /\ Cardinality(nonFolded(t)) >= 2
  /\ s \in Seats /\ t.status[s] = "active" /\ t.stack[s] > 0

\* Table u is where a move on t leads, before what follows is resolved.
Goes(t, u) ==
  /\ Played(u) /\ u.stage = t.stage
  /\ Cardinality(nonFolded(u)) >= 1
  /\ Chips(u) = Chips(t)

\* A fold keeps bets sound and chips at the table.
LEMMA FoldGoes ==
  ASSUME NEW t, NEW s, Turn(t, s), NEW u, u = fold(t, s)
  PROVE  Goes(t, u)
<1> DEFINE f == [t EXCEPT !.status[s] = "folded"]
<1>1. /\ t \in Tables /\ t.minRaise > 0 /\ OutHasNothing(t) /\ Cardinality(contributors(t)) >= 2
      /\ s \in Seats /\ t.status[s] = "active" /\ Cardinality(nonFolded(t)) >= 2
      /\ \A o \in Seats : t.committed[o] <= t.currentBet
  BY DEF Turn, Played, Sound
<1>2. [t.status EXCEPT ![s] = "folded"] \in [Seats -> Statuses]
  BY <1>1 DEF Tables, Statuses
<1>3. /\ f \in Tables /\ f.stack = t.stack /\ f.totalCommitted = t.totalCommitted
      /\ f.stage = t.stage
      /\ f.minRaise = t.minRaise /\ f.currentBet = t.currentBet /\ f.committed = t.committed
      /\ f.status = [t.status EXCEPT ![s] = "folded"]
  BY <1>1, <1>2 DEF Tables
<1>4. u = acted(f, s)
  BY DEF fold
<1> HIDE DEF f
<1>5. /\ f.status[s] = "folded"
      /\ \A o \in Seats \ {s} : f.status[o] = t.status[o]
  BY <1>1, <1>3 DEF Tables
<1>6. OutHasNothing(f) /\ contributors(f) = contributors(t) /\ Chips(f) = Chips(t)
  BY <1>1, <1>3, <1>5 DEF OutHasNothing, contributors, Chips
<1>7. Played(f)
  BY <1>1, <1>3, <1>6 DEF Played, Sound
<1>8. nonFolded(f) = nonFolded(t) \ {s} /\ s \in nonFolded(t)
  BY <1>1, <1>5 DEF nonFolded
<1>9. Cardinality(nonFolded(f)) >= 1
  <2>1. nonFolded(t) \in SUBSET Seats
    BY DEF nonFolded
  <2>2. IsFiniteSet(nonFolded(t)) /\ Cardinality(nonFolded(t)) \in Nat
    BY <2>1, SeatsFinite
  <2>3. Cardinality(nonFolded(t) \ {s}) = Cardinality(nonFolded(t)) - 1
    BY <1>8, <2>2, FS_RemoveElement
  <2> QED
    BY <1>1, <1>8, <2>2, <2>3
<1>10. /\ Played(u) /\ u.stage = f.stage /\ nonFolded(u) = nonFolded(f) /\ Chips(u) = Chips(f)
  BY <1>1, <1>4, <1>7, MarkKeepsHand
<1> QED
  BY <1>3, <1>6, <1>9, <1>10 DEF Goes

\* A check does, ...
LEMMA CheckGoes ==
  ASSUME NEW t, NEW s, Turn(t, s), NEW u, u = check(t, s)
  PROVE  Goes(t, u)
<1>1. Played(t) /\ s \in Seats /\ Cardinality(nonFolded(t)) >= 1 /\ u = acted(t, s)
  <2>1. Cardinality(nonFolded(t)) >= 2 /\ nonFolded(t) \in SUBSET Seats
    BY DEF Turn, nonFolded
  <2>2. Cardinality(nonFolded(t)) \in Nat
    BY <2>1, SeatsFinite
  <2> QED
    BY <2>1, <2>2 DEF Turn, check
<1> QED
  BY <1>1, MarkKeepsHand DEF Goes

\* A payment that leaves the bet at least as high as what was paid.
LEMMA PaymentGoes ==
  ASSUME NEW t, NEW s, Turn(t, s), NEW pay \in Nat, pay <= t.stack[s],
         NEW c, c = commit(t, s, pay),
         NEW u \in Tables, SamePot(c, u), u.stage = c.stage, u.committed = c.committed,
         u.minRaise > 0, u.currentBet >= t.currentBet, u.currentBet >= t.committed[s] + pay
  PROVE  /\ Goes(t, u)
         /\ nonFolded(u) = nonFolded(t)
<1>1. /\ t \in Tables /\ Played(t) /\ s \in Seats /\ t.status[s] = "active"
      /\ Cardinality(nonFolded(t)) >= 2
      /\ \A o \in Seats : t.committed[o] <= t.currentBet
      /\ \A o \in Seats : t.committed[o] \in Nat
  BY DEF Turn, Played, Sound, Tables
<1>2. /\ Chips(c) = Chips(t) /\ c.stage = t.stage
      /\ c.committed[s] = t.committed[s] + pay
      /\ \A o \in Seats \ {s} : c.committed[o] = t.committed[o]
  BY <1>1, CommitPays
<1>3. /\ OutHasNothing(c) /\ nonFolded(c) = nonFolded(t)
      /\ Cardinality(contributors(c)) >= 2
  BY <1>1, CommitKeepsHand
<1>4. /\ OutHasNothing(u) /\ nonFolded(u) = nonFolded(c) /\ contributors(u) = contributors(c)
      /\ Chips(u) = Chips(c)
  BY <1>3, SamePotKeeps
<1>5. t.currentBet \in Nat /\ u.currentBet \in Nat
  BY <1>1 DEF Tables
<1>6. \A o \in Seats : u.committed[o] <= u.currentBet
  BY <1>1, <1>2, <1>5
<1>7. Played(u)
  BY <1>3, <1>4, <1>6 DEF Played, Sound
<1>8. Cardinality(nonFolded(t)) >= 1
  <2>1. nonFolded(t) \in SUBSET Seats
    BY DEF nonFolded
  <2>2. Cardinality(nonFolded(t)) \in Nat
    BY <2>1, SeatsFinite
  <2> QED
    BY <1>1, <2>2
<1> QED
  BY <1>2, <1>3, <1>4, <1>7, <1>8 DEF Goes

\* Marking who has acted after a move.
LEMMA MarkGoes ==
  ASSUME NEW t, NEW v, Goes(t, v), NEW s \in Seats, NEW u, u = acted(v, s) \/ u = reopen(v, s)
  PROVE  Goes(t, u)
BY MarkKeepsHand DEF Goes

\* ... a call, ...
LEMMA CallGoes ==
  ASSUME NEW t, NEW s, Turn(t, s), NEW u, u = call(t, s)
  PROVE  Goes(t, u)
<1> DEFINE pay == MinOf(toCall(t, s), t.stack[s])
           c == commit(t, s, pay)
<1>1. /\ t \in Tables /\ s \in Seats /\ t.status[s] = "active" /\ t.minRaise > 0
      /\ t.committed[s] <= t.currentBet
      /\ t.committed[s] \in Nat /\ t.currentBet \in Nat /\ t.stack[s] \in Nat
  BY DEF Turn, Played, Sound, Tables
<1>2. pay \in Nat /\ pay <= t.stack[s] /\ t.currentBet >= t.committed[s] + pay
  BY <1>1 DEF MinOf, toCall
<1>3. u = acted(c, s)
  BY DEF call
<1> HIDE DEF pay
<1>4. c \in Tables /\ c.minRaise = t.minRaise /\ c.currentBet = t.currentBet
  BY <1>1, <1>2, CommitPays
<1>5. SamePot(c, c)
  BY DEF SamePot
<1>6. c.minRaise > 0 /\ c.currentBet >= t.currentBet /\ c.currentBet >= t.committed[s] + pay
  BY <1>1, <1>2, <1>4
<1> HIDE DEF c
<1>7. Goes(t, c)
  BY <1>2, <1>4, <1>5, <1>6, PaymentGoes DEF c
<1> QED
  BY <1>1, <1>3, <1>7, MarkGoes

\* ... an accepted bet ...
LEMMA BetGoes ==
  ASSUME NEW t, NEW s, Turn(t, s), NEW target \in Nat, betOK(t, s, target),
         NEW u, u = bet(t, s, target)
  PROVE  Goes(t, u)
<1> DEFINE pay == target - t.committed[s]
           c == commit(t, s, pay)
           b == [c EXCEPT !.currentBet = target, !.minRaise = target, !.lastAggressor = s]
<1>1. /\ t \in Tables /\ s \in Seats /\ t.status[s] = "active"
      /\ t.committed[s] <= t.currentBet
      /\ t.committed[s] \in Nat /\ t.currentBet = 0 /\ t.stack[s] \in Nat
  BY DEF Turn, Played, Sound, Tables, betOK
<1>2. pay \in Nat /\ pay <= t.stack[s] /\ target >= t.committed[s] + pay /\ target > 0
  BY <1>1 DEF betOK
<1>3. u = acted(reopen(b, s), s)
  BY DEF bet
<1> HIDE DEF pay
<1>4. c \in Tables
  BY <1>1, <1>2, CommitPays
<1> HIDE DEF c
<1>5. /\ b \in Tables /\ SamePot(c, b) /\ b.stage = c.stage /\ b.committed = c.committed
      /\ b.minRaise = target /\ b.currentBet = target
  BY <1>1, <1>4 DEF SamePot, Tables
<1> HIDE DEF b
<1>6. b.minRaise > 0 /\ b.currentBet >= t.currentBet /\ b.currentBet >= t.committed[s] + pay
  BY <1>1, <1>2, <1>5
<1>7. Goes(t, b)
  BY <1>2, <1>5, <1>6, PaymentGoes DEF c
<1> QED
  BY <1>1, <1>3, <1>7, MarkGoes

\* ... and an accepted raise.
LEMMA RaiseGoes ==
  ASSUME NEW t, NEW s, Turn(t, s), NEW target \in Nat, raiseOK(t, s, target),
         NEW u, u = raise(t, s, target)
  PROVE  Goes(t, u)
<1> DEFINE pay == target - t.committed[s]
           more == target - t.currentBet
           c == commit(t, s, pay)
           paid == [c EXCEPT !.currentBet = target]
           b == [paid EXCEPT !.minRaise = more, !.lastAggressor = s]
<1>1. /\ t \in Tables /\ s \in Seats /\ t.status[s] = "active" /\ t.minRaise > 0
      /\ t.committed[s] <= t.currentBet /\ target > t.currentBet
      /\ t.committed[s] \in Nat /\ t.currentBet \in Nat /\ t.stack[s] \in Nat
  BY DEF Turn, Played, Sound, Tables, raiseOK
<1>2. /\ pay \in Nat /\ pay <= t.stack[s] /\ target >= t.committed[s] + pay
      /\ target >= t.currentBet /\ more \in Nat /\ more > 0
  BY <1>1 DEF raiseOK
<1>3. u = acted(reopen(b, s), s) \/ u = acted(paid, s)
  BY DEF raise
<1> HIDE DEF pay, more
<1>4. c \in Tables /\ c.minRaise = t.minRaise
  BY <1>1, <1>2, CommitPays
<1> HIDE DEF c
<1>5. /\ paid \in Tables /\ SamePot(c, paid) /\ paid.stage = c.stage /\ paid.committed = c.committed
      /\ paid.minRaise = c.minRaise /\ paid.currentBet = target
  BY <1>1, <1>4 DEF SamePot, Tables
<1> HIDE DEF paid
<1>6. /\ b \in Tables /\ SamePot(c, b) /\ b.stage = c.stage /\ b.committed = c.committed
      /\ b.minRaise = more /\ b.currentBet = target
  BY <1>1, <1>2, <1>5 DEF SamePot, Tables
<1> HIDE DEF b
<1>7. paid.minRaise > 0 /\ paid.currentBet >= t.currentBet /\ paid.currentBet >= t.committed[s] + pay
  BY <1>1, <1>2, <1>4, <1>5
<1>8. b.minRaise > 0 /\ b.currentBet >= t.currentBet /\ b.currentBet >= t.committed[s] + pay
  BY <1>1, <1>2, <1>6
<1>9. Goes(t, paid)
  BY <1>2, <1>5, <1>7, PaymentGoes DEF c
<1>10. Goes(t, b)
  BY <1>2, <1>6, <1>8, PaymentGoes DEF c
<1> QED
  BY <1>1, <1>3, <1>9, <1>10, MarkGoes

(***************************************************************************)
(* Dealing: the blinds are two different seats, and both have chips.       *)
(***************************************************************************)
\* The walk around the table comes back to its start last.
LEMMA FirstAfterIsOther ==
  ASSUME NEW S \in SUBSET Seats, NEW from \in S, Cardinality(S) >= 2
  PROVE  FirstAfter(from, S) \in S /\ FirstAfter(from, S) # from
<1>1. \E s \in S : s # from
  <2>1. IsFiniteSet(S) /\ Cardinality(S) \in Nat
    BY SeatsFinite
  <2>2. IsFiniteSet(S \ {from}) /\ Cardinality(S \ {from}) = Cardinality(S) - 1
    BY <2>1, FS_RemoveElement
  <2>3. Cardinality(S \ {from}) # 0
    BY <2>1, <2>2
  <2>4. S \ {from} # {}
    BY <2>2, <2>3, FS_EmptySet
  <2> QED
    BY <2>4
<1>2. PICK s \in S : s # from
  BY <1>1
<1>3. \A x \in S : x \in Nat /\ x < MaxSeats /\ MaxSeats \in Nat
  BY PokerAssumption
<1>4. Distance(from, s) < Distance(from, from)
  BY <1>2, <1>3 DEF Distance
<1>5. \A x \in S : Distance(from, x) \in Nat
  BY DistanceIsNat
<1> DEFINE first == FirstAfter(from, S)
<1>6. first \in S /\ \A x \in S : Distance(from, first) <= Distance(from, x)
  <2> DEFINE D == {Distance(from, x) : x \in S}
  <2>1. D \in SUBSET Nat /\ D # {}
    BY <1>2, <1>5
  <2>2. PICK d \in D : \A e \in D : d <= e
    BY <2>1, LeastNatural
  <2>3. \E x \in S : \A y \in S : Distance(from, x) <= Distance(from, y)
    BY <2>2
  <2> QED
    BY <2>3 DEF FirstAfter
<1> HIDE DEF first
<1>7. first # from
  BY <1>2, <1>4, <1>5, <1>6
<1> QED
  BY <1>6, <1>7 DEF first

\* The highest street commitment.
LEMMA MaxCommittedIs ==
  ASSUME NEW t \in Tables
  PROVE  maxCommitted(t) \in Nat /\ \A s \in Seats : t.committed[s] <= maxCommitted(t)
<1> DEFINE c == t.committed
           I == {c[s] : s \in Seats}
<1>1. c \in [Seats -> Nat]
  BY DEF Tables
<1>2. IsFiniteSet(I)
  <2>1. DOMAIN c = Seats
    BY <1>1
  <2> HIDE DEF c
  <2> QED
    BY <2>1, SeatsFinite, ImageIsFinite
<1>3. I # {} /\ \A x \in I : x \in Int
  <2>1. Seats # {}
    BY PokerAssumption, FS_EmptySet
  <2> QED
    BY <1>1, <2>1
<1>4. Max(I) \in I /\ \A y \in I : Max(I) >= y
  <2> HIDE DEF I
  <2> QED
    BY <1>2, <1>3, MaxIsGreatest
<1>5. \E m \in I : \A s \in Seats : c[s] <= m
  <2> DEFINE m == Max(I)
  <2>1. m \in I /\ \A y \in I : m >= y
    BY <1>4
  <2> HIDE DEF m
  <2>2. \A s \in Seats : c[s] <= m
    BY <1>1, <2>1
  <2> QED
    BY <2>1, <2>2
<1>6. maxCommitted(t) = CHOOSE m \in I : \A s \in Seats : c[s] <= m
  BY DEF maxCommitted
<1>7. maxCommitted(t) \in I /\ \A s \in Seats : c[s] <= maxCommitted(t)
  BY <1>5, <1>6
<1> HIDE DEF maxCommitted
<1> QED
  BY <1>1, <1>7

\* A blind is posted by a seat that has chips.
LEMMA PostBlindPays ==
  ASSUME NEW t \in Tables, NEW s \in Seats, t.status[s] = "active", t.stack[s] > 0,
         NEW amount \in Nat, amount > 0, NEW u, u = postBlind(t, s, amount)
  PROVE  /\ u \in Tables /\ Chips(u) = Chips(t)
         /\ u.minRaise = t.minRaise /\ u.stage = t.stage
         /\ u.totalCommitted[s] > 0
         /\ u.status[s] \in {"active", "allIn"}
         /\ \A o \in Seats \ {s} : /\ u.status[o] = t.status[o]
                                   /\ u.stack[o] = t.stack[o]
                                   /\ u.totalCommitted[o] = t.totalCommitted[o]
<1> DEFINE pay == MinOf(amount, t.stack[s])
<1>1. t.stack[s] \in Nat /\ t.totalCommitted[s] \in Nat
  BY DEF Tables
<1>2. pay \in Nat /\ pay <= t.stack[s] /\ pay > 0
  BY <1>1 DEF MinOf
<1>3. u = commit(t, s, pay)
  BY DEF postBlind
<1> HIDE DEF pay
<1>4. /\ u \in Tables /\ Chips(u) = Chips(t)
      /\ u.stage = t.stage /\ u.minRaise = t.minRaise
      /\ \A o \in Seats \ {s} : /\ u.totalCommitted[o] = t.totalCommitted[o]
                                /\ u.stack[o] = t.stack[o]
      /\ u.totalCommitted[s] = t.totalCommitted[s] + pay
      /\ \A o \in Seats \ {s} : u.status[o] = t.status[o]
      /\ u.status[s] \in {"active", "allIn"}
  BY <1>2, <1>3, CommitPays
<1>5. u.totalCommitted[s] > 0
  BY <1>1, <1>2, <1>4
<1> QED
  BY <1>4, <1>5

\* A deal posts blinds out of stacks.
LEMMA DealKeeps ==
  ASSUME NEW t, PaidOut(t), enoughPlayers(t), NEW u, u = dealHand(t)
  PROVE  Computed(u) /\ Chips(u) = Chips(t)
<1> DEFINE funded == {s \in Seats : t.stack[s] > 0}
           fresh == [t EXCEPT !.committed = [s \in Seats |-> 0],
                              !.totalCommitted = [s \in Seats |-> 0],
                              !.hasActed = [s \in Seats |-> FALSE],
                              !.status = [s \in Seats |-> IF t.stack[s] > 0 THEN "active"
                                                                            ELSE "sittingOut"],
                              !.stage = "PREFLOP",
                              !.minRaise = BigBlind]
           inHand == inHandSeats(fresh)
           button == IF fresh.button \in inHand THEN fresh.button ELSE FirstAfter(NoSeat, inHand)
           left   == FirstAfter(button, inHand)
           headsUp == Cardinality(inHand) = 2
           sb     == IF headsUp THEN button ELSE left
           bb     == IF headsUp THEN left ELSE FirstAfter(sb, inHand)
           first  == FirstAfter(bb, inHand)
           placed == [fresh EXCEPT !.button = button]
           small  == postBlind(placed, sb, SmallBlind)
           posted == postBlind(small, bb, BigBlind)
           open   == [posted EXCEPT !.currentBet = maxCommitted(posted), !.lastAggressor = bb]
           turn   == IF first \in canAct(open) THEN first ELSE nextActor(open, first)
           d      == [open EXCEPT !.currentTurn = turn]
<1>1. dealt(t) = d
  BY DEF dealt
<1>2. t \in Tables /\ \A s \in Seats : t.totalCommitted[s] = 0
  BY DEF PaidOut
<1>3. /\ fresh \in Tables /\ fresh.stack = t.stack /\ fresh.stage = "PREFLOP"
      /\ fresh.minRaise = BigBlind
      /\ fresh.totalCommitted = [s \in Seats |-> 0]
      /\ \A s \in Seats : fresh.status[s] = IF t.stack[s] > 0 THEN "active" ELSE "sittingOut"
  <2>1. [s \in Seats |-> IF t.stack[s] > 0 THEN "active" ELSE "sittingOut"] \in [Seats -> Statuses]
    BY DEF Statuses
  <2>2. [s \in Seats |-> 0] \in [Seats -> Nat] /\ [s \in Seats |-> FALSE] \in [Seats -> BOOLEAN]
    OBVIOUS
  <2>3. "PREFLOP" \in Stages /\ BigBlind \in Nat
    BY PokerAssumption DEF Stages, BettingStages
  <2> QED
    BY <1>2, <2>1, <2>2, <2>3 DEF Tables
<1>4. inHand = funded
  BY <1>3 DEF inHandSeats
<1>5. funded \in SUBSET Seats /\ Cardinality(funded) >= 2 /\ funded # {}
  <2>1. Cardinality(funded) >= 2
    BY DEF enoughPlayers
  <2>2. funded # {}
    BY <2>1, FS_EmptySet
  <2> QED
    BY <2>1, <2>2
<1> HIDE DEF inHand
<1>6. button \in funded
  BY <1>4, <1>5, FirstAfterIsIn
<1> HIDE DEF fresh, button
<1>7. left \in funded /\ left # button
  BY <1>4, <1>5, <1>6, FirstAfterIsOther
<1> HIDE DEF left
<1>8. sb \in funded /\ bb \in funded /\ sb # bb
  <2>1. CASE headsUp
    BY <1>6, <1>7, <2>1
  <2>2. CASE ~headsUp
    BY <1>4, <1>5, <1>7, <2>2, FirstAfterIsOther
  <2> QED
    BY <2>1, <2>2
<1> HIDE DEF sb, bb
<1>9. first \in funded
  BY <1>4, <1>5, <1>8, FirstAfterIsOther
<1> HIDE DEF first
<1>10. /\ placed \in Tables /\ placed.stack = t.stack /\ placed.stage = "PREFLOP"
       /\ placed.minRaise = BigBlind
       /\ placed.totalCommitted = fresh.totalCommitted /\ placed.status = fresh.status
  BY <1>3, <1>5, <1>6 DEF Tables
<1> HIDE DEF placed
<1>11. /\ PaidOut(placed) /\ Chips(placed) = Chips(t)
  <2>1. PaidOut(placed)
    BY <1>3, <1>10 DEF PaidOut
  <2>2. Chips(placed) = SumSeats(placed.stack)
    BY <2>1, EmptyPot
  <2>3. Chips(t) = SumSeats(t.stack)
    BY EmptyPot
  <2> QED
    BY <2>1, <2>2, <2>3, <1>10
<1>12. \A s \in Seats : s \in funded <=> placed.status[s] = "active" /\ placed.stack[s] > 0
  BY <1>3, <1>10
<1>13. /\ \A s \in Seats : placed.status[s] \in {"active", "sittingOut"}
       /\ \A s \in Seats : placed.totalCommitted[s] = 0
  BY <1>3, <1>10
<1> HIDE DEF funded
<1>14. /\ small \in Tables /\ Chips(small) = Chips(placed)
       /\ small.minRaise = placed.minRaise /\ small.stage = placed.stage
       /\ small.totalCommitted[sb] > 0 /\ small.status[sb] \in {"active", "allIn"}
       /\ \A o \in Seats \ {sb} : /\ small.status[o] = placed.status[o]
                                  /\ small.stack[o] = placed.stack[o]
                                  /\ small.totalCommitted[o] = placed.totalCommitted[o]
  <2>1. sb \in Seats /\ placed.status[sb] = "active" /\ placed.stack[sb] > 0
    BY <1>5, <1>8, <1>12
  <2>2. SmallBlind \in Nat /\ SmallBlind > 0
    BY PokerAssumption
  <2> QED
    BY <1>10, <2>1, <2>2, PostBlindPays
<1> HIDE DEF small
<1>15. /\ posted \in Tables /\ Chips(posted) = Chips(small)
       /\ posted.minRaise = small.minRaise /\ posted.stage = small.stage
       /\ posted.totalCommitted[bb] > 0 /\ posted.status[bb] \in {"active", "allIn"}
       /\ \A o \in Seats \ {bb} : /\ posted.status[o] = small.status[o]
                                  /\ posted.stack[o] = small.stack[o]
                                  /\ posted.totalCommitted[o] = small.totalCommitted[o]
  <2>1. bb \in Seats /\ small.status[bb] = "active" /\ small.stack[bb] > 0
    BY <1>5, <1>8, <1>12, <1>14
  <2>2. BigBlind \in Nat /\ BigBlind > 0
    BY PokerAssumption
  <2> QED
    BY <1>14, <2>1, <2>2, PostBlindPays
<1> HIDE DEF posted
<1>16. \A s \in Seats : posted.committed[s] <= maxCommitted(posted) /\ maxCommitted(posted) \in Nat
  BY <1>15, MaxCommittedIs
<1>17. bb \in Seats \cup {NoSeat} /\ maxCommitted(posted) \in Nat
  BY <1>5, <1>8, <1>15, MaxCommittedIs
<1>18. /\ open \in Tables /\ SamePot(posted, open) /\ open.stage = posted.stage
       /\ open.minRaise = posted.minRaise /\ open.currentBet = maxCommitted(posted)
       /\ open.committed = posted.committed
  BY <1>15, <1>17 DEF SamePot, Tables
<1> HIDE DEF open
<1>19. turn \in Seats \cup {NoSeat}
  BY <1>5, <1>9, NextActorOwes
<1> HIDE DEF turn
<1>20. /\ d \in Tables /\ SamePot(open, d) /\ d.stage = open.stage
       /\ d.minRaise = open.minRaise /\ d.currentBet = open.currentBet /\ d.committed = open.committed
  BY <1>18, <1>19 DEF SamePot, Tables
<1> HIDE DEF d
<1>21. u = d \/ u = runOut(d)
  BY <1>1 DEF dealHand
<1>22. /\ u \in Tables /\ SamePot(d, u) /\ u.stage \in BettingStages \cup {"SHOWDOWN"}
       /\ u.minRaise = d.minRaise /\ u.currentBet = d.currentBet /\ u.committed = d.committed
  <2>1. d.stage = "PREFLOP"
    BY <1>10, <1>14, <1>15, <1>18, <1>20
  <2>2. CASE u = d
    BY <1>20, <2>1, <2>2 DEF SamePot, BettingStages
  <2>3. CASE u = runOut(d)
    BY <1>20, <2>3 DEF SamePot, runOut, Tables, Stages
  <2> QED
    BY <1>21, <2>2, <2>3
<1>23. SamePot(posted, u)
  BY <1>18, <1>20, <1>22 DEF SamePot
<1>24. Sound(u)
  <2>1. u.minRaise = BigBlind
    BY <1>10, <1>14, <1>15, <1>18, <1>20, <1>22
  <2>2. u.currentBet = maxCommitted(posted) /\ u.committed = posted.committed
    BY <1>18, <1>20, <1>22
  <2> QED
    BY <1>16, <1>22, <2>1, <2>2, PokerAssumption DEF Sound
<1>25. /\ \A s \in Seats : posted.status[s] \in {"active", "allIn", "sittingOut"}
       /\ \A s \in Seats : posted.status[s] = "sittingOut" => posted.totalCommitted[s] = 0
       /\ \A s \in funded : posted.status[s] \in {"active", "allIn"}
  BY <1>5, <1>8, <1>12, <1>13, <1>14, <1>15
<1>26. OutHasNothing(posted)
  BY <1>25 DEF OutHasNothing
<1>27. Cardinality(nonFolded(posted)) >= 2
  <2>1. funded \in SUBSET nonFolded(posted) /\ nonFolded(posted) \in SUBSET Seats
    BY <1>5, <1>25 DEF nonFolded
  <2>2. Cardinality(funded) <= Cardinality(nonFolded(posted))
    BY <2>1, SeatsFinite, FS_Subset
  <2>3. Cardinality(funded) \in Nat /\ Cardinality(nonFolded(posted)) \in Nat
    BY <1>5, <2>1, SeatsFinite
  <2> QED
    BY <1>5, <2>2, <2>3
<1>28. Cardinality(contributors(posted)) >= 2
  <2>1. posted.totalCommitted[sb] > 0 /\ posted.totalCommitted[bb] > 0
    BY <1>5, <1>8, <1>14, <1>15
  <2>2. {sb, bb} \in SUBSET contributors(posted) /\ contributors(posted) \in SUBSET Seats
    BY <1>5, <1>8, <2>1 DEF contributors
  <2>3. Cardinality({sb, bb}) <= Cardinality(contributors(posted))
    BY <2>2, SeatsFinite, FS_Subset
  <2>4. Cardinality({sb, bb}) = 2
    <3>1. Cardinality({sb}) = 1 /\ IsFiniteSet({sb})
      BY FS_Singleton
    <3>2. Cardinality({sb} \cup {bb}) = Cardinality({sb}) + 1
      BY <1>8, <3>1, FS_AddElement
    <3>3. {sb} \cup {bb} = {sb, bb}
      OBVIOUS
    <3> QED
      BY <3>1, <3>2, <3>3
  <2>5. Cardinality(contributors(posted)) \in Nat
    BY <2>2, SeatsFinite
  <2> QED
    BY <2>3, <2>4, <2>5
<1>29. /\ OutHasNothing(u) /\ Cardinality(contributors(u)) >= 2 /\ Cardinality(nonFolded(u)) >= 2
       /\ Chips(u) = Chips(posted)
  BY <1>23, <1>26, <1>27, <1>28, SamePotKeeps
<1>30. Chips(u) = Chips(t)
  BY <1>11, <1>14, <1>15, <1>29
<1> QED
  BY <1>22, <1>24, <1>29, <1>30 DEF Computed, Played

-----------------------------------------------------------------------------
(***************************************************************************)
(* What is stored of a computed table: the same chips, unless a showdown   *)
(* left layers that no seat still in the hand had reached.                 *)
(***************************************************************************)
ShowdownOf(t, o) ==
  \E rank \in Rankings(t) :
    /\ o.settled = [table |-> t, rank |-> rank]
    /\ o.ts = runShowdown(t, rank)
    /\ Chips(o.ts) = Chips(t) - Stranded(returnUncalled(t))

\* What follows a move keeps all chips but those a showdown strands.
LEMMA OutcomeChips ==
  ASSUME NEW t, Computed(t), NEW o \in Outcomes(t)
  PROVE  /\ Stored(o.ts)
         /\ \/ Chips(o.ts) = Chips(t)
            \/ /\ Played(t) /\ Cardinality(nonFolded(t)) >= 2 /\ ShowdownOf(t, o)
               /\ Stranded(returnUncalled(t)) \in Nat
<1>1. CASE t.stage = "SHOWDOWN"
  <2>1. Played(t) /\ Cardinality(nonFolded(t)) >= 2
    BY <1>1 DEF Computed, BettingStages
  <2>2. PICK rank \in Rankings(t) : o.ts = runShowdown(t, rank) /\ o.settled = [table |-> t, rank |-> rank]
    BY <1>1 DEF Outcomes
  <2>3. /\ Stored(o.ts) /\ Chips(o.ts) = Chips(t) - Stranded(returnUncalled(t))
        /\ Stranded(returnUncalled(t)) \in Nat
    BY <2>1, <2>2, ShowdownPays
  <2> QED
    BY <2>1, <2>2, <2>3 DEF ShowdownOf
<1>2. CASE t.stage # "SHOWDOWN"
  BY <1>2 DEF Outcomes, Stored
<1> QED
  BY <1>1, <1>2

\* A step of the table: it computes a table from the stored one and stores an outcome.
LEMMA StepComputes ==
  ASSUME Stored(ts), TurnOK(ts), PlayerMove \/ NextHand
  PROVE  \E t : Computed(t) /\ Chips(t) = Chips(ts) /\ Store(t)
<1>1. CASE PlayerMove
  <2>1. PICK s \in Seats : \/ Fold(s) \/ Check(s) \/ Call(s)
                           \/ \E target \in Amounts : Bet(s, target) \/ Raise(s, target)
    BY <1>1 DEF PlayerMove
  <2>2. mayAct(ts, s)
    BY <2>1 DEF Fold, Check, Call, Bet, Raise
  <2>3. Turn(ts, s)
    BY <2>2 DEF Stored, Computed, mayAct, Turn, TurnOK, isActionable
  <2>4. \A target \in Amounts : target \in Nat
    <3>1. BuyIn * Cardinality(Seats) \in Nat
      BY PokerAssumption, SeatsFinite
    <3> QED
      BY <3>1 DEF Amounts
  <2>5. PICK u : Goes(ts, u) /\ Store(resolve(u, s))
    <3>1. CASE Fold(s)
      BY <2>3, <3>1, FoldGoes DEF Fold
    <3>2. CASE Check(s)
      BY <2>3, <3>2, CheckGoes DEF Check
    <3>3. CASE Call(s)
      BY <2>3, <3>3, CallGoes DEF Call
    <3>4. CASE \E target \in Amounts : Bet(s, target)
      BY <2>3, <2>4, <3>4, BetGoes DEF Bet
    <3>5. CASE \E target \in Amounts : Raise(s, target)
      BY <2>3, <2>4, <3>5, RaiseGoes DEF Raise
    <3> QED
      BY <2>1, <3>1, <3>2, <3>3, <3>4, <3>5
  <2>6. Computed(resolve(u, s)) /\ Chips(resolve(u, s)) = Chips(u)
    BY <2>3, <2>5, ResolveKeeps DEF Goes, Turn
  <2> QED
    BY <2>5, <2>6 DEF Goes
<1>2. CASE NextHand
  <2> DEFINE r == rotated(ts)
  <2>1. PaidOut(ts) /\ ts \in Tables /\ ts.stage = "HAND_OVER"
    BY <1>2 DEF NextHand, Stored, Computed, BettingStages, PaidOut
  <2>2. nextSeatWithChips(ts, ts.button) \in Seats
    <3>1. ts.button \in Seats
      BY <2>1 DEF Tables
    <3> QED
      BY <3>1, FirstAfterIsIn DEF nextSeatWithChips
  <2>3. r \in Tables /\ r.stack = ts.stack /\ r.totalCommitted = ts.totalCommitted
    <3> DEFINE b == nextSeatWithChips(ts, ts.button)
               n == ts.handNo + 1
    <3>1. r = [ts EXCEPT !.button = b, !.handNo = n]
      BY <2>1 DEF rotated, Tables
    <3>2. b \in Seats /\ n \in Nat
      BY <2>1, <2>2 DEF Tables
    <3> HIDE DEF b, n, r
    <3> QED
      BY <2>1, <3>1, <3>2 DEF Tables
  <2>4. PaidOut(r) /\ Chips(r) = Chips(ts)
    BY <2>1, <2>3 DEF PaidOut, Chips
  <2>5. enoughPlayers(r) /\ Store(dealHand(r))
    BY <1>2 DEF NextHand
  <2>6. Computed(dealHand(r)) /\ Chips(dealHand(r)) = Chips(r)
    BY <2>4, <2>5, DealKeeps
  <2> QED
    BY <2>4, <2>5, <2>6
<1> QED
  BY <1>1, <1>2

\* All the chips there are.
AllChips == BuyIn * Cardinality(Seats)

\* A new table has all the chips in its stacks.
LEMMA NewTableChips ==
  /\ PaidOut(newTable) /\ enoughPlayers(newTable)
  /\ Chips(newTable) = AllChips /\ AllChips \in Nat
<1>1. FirstAfter(NoSeat, Seats) \in Seats
  <2>1. Seats # {}
    BY PokerAssumption, FS_EmptySet
  <2> QED
    BY <2>1, FirstAfterIsIn
<1>2. newTable \in Tables
  <2>1. BuyIn \in Nat /\ BigBlind \in Nat
    BY PokerAssumption
  <2> QED
    BY <1>1, <2>1 DEF newTable, Tables, Statuses, Stages, BettingStages
<1>3. PaidOut(newTable)
  BY <1>2 DEF PaidOut, newTable
<1>4. enoughPlayers(newTable)
  <2>1. {s \in Seats : newTable.stack[s] > 0} = Seats
    BY PokerAssumption DEF newTable
  <2> QED
    BY <2>1, PokerAssumption DEF enoughPlayers
<1>5. Chips(newTable) = AllChips
  <2> DEFINE f == newTable.stack
  <2>1. f \in [Seats -> Nat] /\ (\A s \in Seats : f[s] = BuyIn) /\ BuyIn \in Int
    BY PokerAssumption DEF newTable
  <2> HIDE DEF f
  <2>2. SumSeats(f) = Sum(f, Seats)
    BY <2>1, SumSeatsIs
  <2>3. Sum(f, Seats) = BuyIn * Cardinality(Seats)
    BY <2>1, SeatsFinite, SumConstant
  <2> QED
    BY <1>3, <2>2, <2>3, EmptyPot DEF AllChips, f
<1>6. AllChips \in Nat
  BY <1>3, <1>5, EmptyPot
<1> QED
  BY <1>3, <1>4, <1>5, <1>6

(***************************************************************************)
(* The invariant behind the chips and the offered moves: a well-formed     *)
(* table, sound bets, a pot that only seats in the hand paid into and that *)
(* is empty between hands.                                                 *)
(***************************************************************************)
TableOK == TurnOK(ts) /\ Stored(ts)

\* A well-typed table has its fields.
LEMMA IsATable ==
  ASSUME NEW t \in Tables
  PROVE  IsTable(t)
BY DEF Tables, IsTable, Fields

\* What is stored or computed is a table with a number of chips.
LEMMA TableShape ==
  ASSUME NEW t, Stored(t) \/ Computed(t)
  PROVE  t \in Tables /\ IsTable(t) /\ Chips(t) \in Nat
<1>1. t \in Tables
  BY DEF Stored, Computed, Played, Sound
<1>2. t.stack \in [Seats -> Nat] /\ t.totalCommitted \in [Seats -> Nat]
  BY <1>1 DEF Tables
<1>3. SumSeats(t.stack) \in Nat /\ SumSeats(t.totalCommitted) \in Nat
  BY <1>2, SumSeatsIs
<1> QED
  BY <1>1, <1>3, IsATable DEF Chips

\* The deal of the first hand, and each later step.
LEMMA TableInit ==
  ASSUME InitState
  PROVE  TableOK /\ \E t : /\ Computed(t) /\ Chips(t) = AllChips
                           /\ \E o \in Outcomes(t) : ts = o.ts /\ settled = o.settled
<1>1. Computed(dealHand(newTable)) /\ Chips(dealHand(newTable)) = AllChips
  BY NewTableChips, DealKeeps
<1>2. PICK o \in Outcomes(dealHand(newTable)) : ts = o.ts /\ settled = o.settled
  BY DEF InitState
<1>3. Stored(ts)
  BY <1>1, <1>2, OutcomeChips
<1> QED
  BY <1>1, <1>2, <1>3, InitStateTurn DEF TableOK

\* Every step keeps the stored table in order.
LEMMA TableStep ==
  ASSUME TableOK, [Next]_vars
  PROVE  TableOK'
<1>1. IsTable(ts)
  BY TableShape DEF TableOK
<1>2. CASE PlayerMove \/ NextHand
  <2>1. TurnOK(ts')
    BY <1>1, <1>2, PlayerMoveTurn, NextHandTurn
  <2>2. PICK t : Computed(t) /\ Store(t)
    BY <1>2, StepComputes DEF TableOK
  <2>3. Stored(ts')
    BY <2>2, OutcomeChips DEF Store
  <2> QED
    BY <2>1, <2>3 DEF TableOK
<1>3. CASE UNCHANGED vars
  BY <1>3 DEF TableOK, vars
<1> QED
  BY <1>2, <1>3 DEF Next, Closed

\* So it always is.
LEMMA TableHolds == Spec => []TableOK
<1>1. InitState => TableOK
  BY TableInit
<1>2. TableOK /\ [Next]_vars => TableOK'
  BY TableStep
<1> QED
  BY <1>1, <1>2, PTL DEF Spec

-----------------------------------------------------------------------------
(***************************************************************************)
(* What a step does to the chips on the table.                             *)
(***************************************************************************)
\* No chip moved off the table, or a showdown of table t left its stranded layers.
ChipStep ==
  \/ Chips(ts') = Chips(ts)
  \/ \E t \in Tables : \E rank \in Rankings(t) :
       /\ settled' = [table |-> t, rank |-> rank]
       /\ Chips(t) = Chips(ts)
       /\ Chips(ts') = Chips(ts) - Stranded(returnUncalled(t))

\* Chips only ever leave the table, and only in a showdown.
LEMMA ChipStepHolds ==
  ASSUME TableOK, [Next]_vars
  PROVE  ChipStep /\ Chips(ts') <= Chips(ts) /\ Chips(ts) \in Nat /\ Chips(ts') \in Nat
<1>1. Chips(ts) \in Nat
  BY TableShape DEF TableOK
<1>2. CASE PlayerMove \/ NextHand
  <2>1. PICK t : Computed(t) /\ Chips(t) = Chips(ts) /\ Store(t)
    BY <1>2, StepComputes DEF TableOK
  <2>2. PICK o \in Outcomes(t) : ts' = o.ts /\ settled' = o.settled
    BY <2>1 DEF Store
  <2>3. t \in Tables /\ Chips(ts') \in Nat
    BY <2>1, <2>2, TableShape, OutcomeChips
  <2>4. CASE Chips(o.ts) = Chips(t)
    BY <1>1, <2>1, <2>2, <2>3, <2>4 DEF ChipStep
  <2>5. CASE ShowdownOf(t, o) /\ Stranded(returnUncalled(t)) \in Nat
    <3>1. PICK rank \in Rankings(t) : /\ o.settled = [table |-> t, rank |-> rank]
                                      /\ Chips(o.ts) = Chips(t) - Stranded(returnUncalled(t))
      BY <2>5 DEF ShowdownOf
    <3>2. ChipStep
      BY <2>1, <2>2, <2>3, <3>1 DEF ChipStep
    <3>3. Chips(ts') <= Chips(ts)
      BY <1>1, <2>1, <2>2, <2>5, <3>1
    <3> QED
      BY <1>1, <2>3, <3>2, <3>3
  <2> QED
    BY <2>1, <2>2, <2>4, <2>5, OutcomeChips
<1>3. CASE UNCHANGED vars
  BY <1>1, <1>3 DEF vars, ChipStep
<1> QED
  BY <1>2, <1>3 DEF Next, Closed

(***************************************************************************)
(* Chips are accounted for at every step, for any number of seats: what    *)
(* the stacks and the pot lose is what a showdown finds in layers that no  *)
(* seat still in the hand has reached (buildPots skips them), and nothing  *)
(* else ever changes the total.                                            *)
(***************************************************************************)
THEOREM ChipsAccounted == Spec => [][ChipStep]_vars
<1>1. TableOK /\ [Next]_vars => [ChipStep]_vars
  BY ChipStepHolds
<1> QED
  BY <1>1, TableHolds, PTL DEF Spec

(***************************************************************************)
(* No chip is ever made: the table never holds more than was bought in,    *)
(* for any number of seats.                                                *)
(***************************************************************************)
THEOREM NoChipIsMade == Spec => [](Chips(ts) <= AllChips)
<1>1. InitState => Chips(ts) <= AllChips
  <2> SUFFICES ASSUME InitState PROVE Chips(ts) <= AllChips
    OBVIOUS
  <2>1. PICK t : Computed(t) /\ Chips(t) = AllChips /\ \E o \in Outcomes(t) : ts = o.ts
    BY TableInit
  <2>2. \/ Chips(ts) = Chips(t)
        \/ Chips(ts) = Chips(t) - Stranded(returnUncalled(t)) /\ Stranded(returnUncalled(t)) \in Nat
    BY <2>1, OutcomeChips DEF ShowdownOf
  <2> QED
    BY <2>1, <2>2, NewTableChips
<1>2. TableOK /\ Chips(ts) <= AllChips /\ [Next]_vars => (Chips(ts) <= AllChips)'
  <2> SUFFICES ASSUME TableOK, Chips(ts) <= AllChips, [Next]_vars PROVE Chips(ts') <= AllChips
    OBVIOUS
  <2>1. Chips(ts') <= Chips(ts) /\ Chips(ts) \in Nat /\ Chips(ts') \in Nat
    BY ChipStepHolds
  <2> QED
    BY <2>1, NewTableChips
<1> QED
  BY <1>1, <1>2, TableHolds, PTL DEF Spec

\* With at most three seats every layer is reached by a seat still in the hand:
\* two seats reached it, and at most one of three has folded.
LEMMA NothingStranded ==
  ASSUME Cardinality(Seats) <= 3,
         NEW t, Played(t), Cardinality(nonFolded(t)) >= 2
  PROVE  Stranded(returnUncalled(t)) = 0
<1> DEFINE r == returnUncalled(t)
           R == {l \in levels(r) : eligible(r, l) = {}}
<1>1. t \in Tables /\ OutHasNothing(t) /\ Cardinality(contributors(t)) >= 2
  BY DEF Played, Sound
<1>2. r \in Tables /\ r.status = t.status /\ OutHasNothing(r) /\ Matched(r)
  BY <1>1, UncalledReturned
<1>3. nonFolded(r) = nonFolded(t)
  BY <1>2 DEF nonFolded
<1> HIDE DEF r
<1>4. ASSUME NEW l \in levels(r), eligible(r, l) = {} PROVE FALSE
  <2>1. PICK s \in contributors(r) : r.totalCommitted[s] = l
    BY <1>4 DEF levels
  <2>2. PICK q \in Seats \ {s} : r.totalCommitted[q] >= l
    BY <1>2, <2>1 DEF Matched
  <2>3. s \in Seats /\ q \in Seats /\ s # q /\ l \in Nat /\ l > 0
    BY <1>2, <2>1, LevelsAre
  <2>4. r.totalCommitted[q] \in Nat
    BY <1>2, <2>3, LevelsAre
  <2>5. s \in contributors(r) /\ q \in contributors(r)
    BY <2>1, <2>2, <2>3, <2>4 DEF contributors
  <2>6. r.status[s] = "folded" /\ r.status[q] = "folded"
    BY <1>4, <2>1, <2>2, <2>3, <2>5 DEF eligible
  <2>7. nonFolded(r) \in SUBSET ((Seats \ {s}) \ {q})
    BY <2>6 DEF nonFolded
  <2>8. Cardinality(Seats) \in Nat /\ IsFiniteSet(Seats)
    BY SeatsFinite
  <2>9. IsFiniteSet(Seats \ {s}) /\ Cardinality(Seats \ {s}) = Cardinality(Seats) - 1
    BY <2>3, <2>8, FS_RemoveElement
  <2>10. /\ IsFiniteSet((Seats \ {s}) \ {q})
         /\ Cardinality((Seats \ {s}) \ {q}) = Cardinality(Seats \ {s}) - 1
    BY <2>3, <2>9, FS_RemoveElement
  <2>11. Cardinality(nonFolded(r)) <= Cardinality((Seats \ {s}) \ {q})
    BY <2>7, <2>10, FS_Subset
  <2>12. Cardinality(nonFolded(r)) \in Nat
    BY <2>7, <2>10, FS_Subset, FS_CardinalityType
  <2> QED
    BY <1>3, <2>8, <2>9, <2>10, <2>11, <2>12
<1>5. R = {}
  BY <1>4
<1>6. Stranded(r) = 0
  <2> DEFINE a == [l \in levels(r) |-> levelAmount(r, l)]
  <2>1. {} \in SUBSET levels(r) /\ a = [l \in levels(r) |-> levelAmount(r, l)]
    OBVIOUS
  <2> HIDE DEF a
  <2>2. MapThenSumSet(LAMBDA l : levelAmount(r, l), {}) = Sum(a, {})
    BY <2>1, AmountsSum
  <2>3. Stranded(r) = MapThenSumSet(LAMBDA l : levelAmount(r, l), {})
    BY <1>5 DEF Stranded
  <2> QED
    BY <2>2, <2>3, SumOfNone
<1> QED
  BY <1>6 DEF r

\* With at most three seats no showdown strands any.
LEMMA OutcomeKeepsChips ==
  ASSUME Cardinality(Seats) <= 3, NEW t, Computed(t), NEW o \in Outcomes(t)
  PROVE  Chips(o.ts) = Chips(t)
<1>1. CASE Chips(o.ts) = Chips(t)
  BY <1>1
<1>2. CASE Played(t) /\ Cardinality(nonFolded(t)) >= 2 /\ ShowdownOf(t, o)
  <2>1. Stranded(returnUncalled(t)) = 0
    BY <1>2, NothingStranded
  <2>2. Chips(o.ts) = Chips(t) - 0 /\ Chips(t) \in Nat
    BY <1>2, <2>1, TableShape DEF ShowdownOf
  <2> QED
    BY <2>2
<1> QED
  BY <1>1, <1>2, OutcomeChips

(***************************************************************************)
(* At a table of two or three seats no chip is ever lost or made, whatever *)
(* the stacks and blinds and however many hands are played.  (From four    *)
(* seats on two folded seats can strand a layer: ChipsAccounted is what    *)
(* holds there.)                                                           *)
(***************************************************************************)
THEOREM ChipsConservedHolds ==
  ASSUME Cardinality(Seats) <= 3
  PROVE  Spec => []ChipsConserved
<1>1. InitState => Chips(ts) = AllChips
  <2> SUFFICES ASSUME InitState PROVE Chips(ts) = AllChips
    OBVIOUS
  <2>1. PICK t : Computed(t) /\ Chips(t) = AllChips /\ \E o \in Outcomes(t) : ts = o.ts
    BY TableInit
  <2> QED
    BY <2>1, OutcomeKeepsChips
<1>2. TableOK /\ Chips(ts) = AllChips /\ [Next]_vars => (Chips(ts) = AllChips)'
  <2> SUFFICES ASSUME TableOK, Chips(ts) = AllChips, [Next]_vars PROVE Chips(ts') = AllChips
    OBVIOUS
  <2>1. CASE PlayerMove \/ NextHand
    <3>1. PICK t : Computed(t) /\ Chips(t) = Chips(ts) /\ Store(t)
      BY <2>1, StepComputes DEF TableOK
    <3>2. PICK o \in Outcomes(t) : ts' = o.ts
      BY <3>1 DEF Store
    <3> QED
      BY <3>1, <3>2, OutcomeKeepsChips
  <2>2. CASE UNCHANGED vars
    BY <2>2 DEF vars
  <2> QED
    BY <2>1, <2>2 DEF Next, Closed
<1>3. Chips(ts) = AllChips => ChipsConserved
  BY DEF Chips, AllChips, ChipsConserved
<1> QED
  BY <1>1, <1>2, <1>3, TableHolds, PTL DEF Spec

(***************************************************************************)
(* What the view offers is what Apply accepts, on every table that is      *)
(* stored: the offered amounts are exactly the accepted ones, short stacks *)
(* and all-ins included.                                                   *)
(***************************************************************************)
THEOREM OfferedHolds == Spec => []OfferedIsAccepted
<1>1. TableOK => OfferedIsAccepted
  <2> SUFFICES ASSUME TableOK, ts.stage \in BettingStages,
                      NEW s, s = ts.currentTurn
               PROVE  LET l == legalActions(ts, s)
                      IN  /\ l.canCheck <=> checkOK(ts, s)
                          /\ l.canCall <=> ~checkOK(ts, s)
                          /\ \A target \in Amounts :
                               /\ betOK(ts, s, target) <=> l.canBet /\ target \in l.minBet..l.maxAmount
                               /\ raiseOK(ts, s, target) <=> l.canRaise /\ target \in l.minRaise..l.maxAmount
    BY DEF OfferedIsAccepted
  <2> DEFINE l == legalActions(ts, s)
             owed == toCall(ts, s)
             max == ts.committed[s] + ts.stack[s]
  <2>1. /\ s \in Seats /\ ts \in Tables /\ ts.stack[s] > 0 /\ ts.minRaise > 0
        /\ ts.committed[s] <= ts.currentBet
    BY DEF TableOK, TurnOK, Stored, Computed, Played, Sound, isActionable
  <2>2. /\ ts.stack[s] \in Nat /\ ts.committed[s] \in Nat /\ ts.currentBet \in Nat
        /\ ts.minRaise \in Nat /\ BigBlind \in Nat
    BY <2>1, PokerAssumption DEF Tables
  <2>3. \A target \in Amounts : target \in Nat /\ target > 0
    <3>1. BuyIn * Cardinality(Seats) \in Nat
      BY PokerAssumption, SeatsFinite
    <3> QED
      BY <3>1 DEF Amounts
  <2>4. /\ l.canCheck <=> owed <= 0
        /\ l.canCall <=> owed > 0
        /\ l.canBet <=> ts.currentBet = 0
        /\ l.canRaise <=> ts.currentBet # 0 /\ ts.stack[s] > owed
    BY Zenon DEF legalActions
  <2>5. /\ l.minBet = MinOf(BigBlind, max)
        /\ l.minRaise = MinOf(ts.currentBet + ts.minRaise, max)
        /\ l.maxAmount = max
    BY DEF legalActions
  <2>6. owed = ts.currentBet - ts.committed[s] /\ owed \in Int /\ max \in Nat
    BY <2>2 DEF toCall
  <2> HIDE DEF l
  <2>7. l.canCheck <=> checkOK(ts, s)
    BY <2>4 DEF checkOK
  <2>8. l.canCall <=> ~checkOK(ts, s)
    <3>1. owed > 0 <=> ~(owed <= 0)
      BY <2>6
    <3> QED
      BY <2>4, <3>1, Zenon DEF checkOK
  <2>9. ASSUME NEW target \in Amounts
        PROVE  betOK(ts, s, target) <=> l.canBet /\ target \in l.minBet..l.maxAmount
    <3>1. betOK(ts, s, target) <=> ts.currentBet = 0 /\ target \in MinOf(BigBlind, max)..max
      BY <2>1, <2>2, <2>3, <2>9 DEF betOK, MinOf
    <3> QED
      BY <2>4, <2>5, <3>1, Zenon
  <2>10. ASSUME NEW target \in Amounts
         PROVE  raiseOK(ts, s, target) <=> l.canRaise /\ target \in l.minRaise..l.maxAmount
    <3>1. raiseOK(ts, s, target) <=>
            /\ ts.currentBet # 0 /\ ts.stack[s] > owed
            /\ target \in MinOf(ts.currentBet + ts.minRaise, max)..max
      BY <2>1, <2>2, <2>3, <2>6, <2>10 DEF raiseOK, MinOf
    <3> QED
      BY <2>4, <2>5, <3>1, Zenon
  <2> QED
    BY <2>7, <2>8, <2>9, <2>10 DEF l
<1> QED
  BY <1>1, TableHolds, PTL DEF Spec

-----------------------------------------------------------------------------
(***************************************************************************)
(* When a street closes: what a move of seat s leaves alone at the others. *)
(***************************************************************************)
OthersKept(t, u, s) ==
  /\ u.currentBet >= t.currentBet
  /\ \A q \in Seats \ {s} : /\ u.status[q] = t.status[q]
                            /\ u.stack[q] = t.stack[q]
                            /\ u.committed[q] = t.committed[q]
                            /\ u.hasActed[q] => t.hasActed[q]

\* Putting chips in changes one seat.
LEMMA CommitOthers ==
  ASSUME NEW t \in Tables, NEW s \in Seats, NEW pay, NEW c, c = commit(t, s, pay)
  PROVE  /\ DOMAIN c = DOMAIN t /\ OthersKept(t, c, s) /\ c.hasActed = t.hasActed
         /\ c.currentBet = t.currentBet
<1>1. t.currentBet \in Nat
  BY DEF Tables
<1> QED
  BY <1>1 DEF commit, OthersKept, Tables

\* Marking seat s, and re-opening the betting after it.
LEMMA MarkOthers ==
  ASSUME NEW t \in Tables, NEW s \in Seats, NEW v \in Tables, OthersKept(t, v, s)
  PROVE  /\ acted(v, s) \in Tables /\ OthersKept(t, acted(v, s), s)
         /\ reopen(v, s) \in Tables /\ OthersKept(t, reopen(v, s), s)
<1>1. acted(v, s) \in Tables /\ OthersKept(t, acted(v, s), s)
  BY DEF acted, OthersKept, Tables
<1>2. reopen(v, s) \in Tables /\ OthersKept(t, reopen(v, s), s)
  <2> DEFINE h == [q \in Seats |-> v.hasActed[q] /\ ~(q # s /\ v.status[q] = "active")]
  <2>1. reopen(v, s) = [v EXCEPT !.hasActed = h]
    BY DEF reopen, Tables
  <2>2. h \in [Seats -> BOOLEAN] /\ \A q \in Seats : h[q] => v.hasActed[q]
    OBVIOUS
  <2> HIDE DEF h
  <2> QED
    BY <2>1, <2>2 DEF OthersKept, Tables
<1> QED
  BY <1>1, <1>2

\* A new bet that is no lower.
LEMMA BetOthers ==
  ASSUME NEW t, NEW s, NEW c, OthersKept(t, c, s), NEW b, b.currentBet >= t.currentBet,
         b.status = c.status, b.stack = c.stack, b.committed = c.committed, b.hasActed = c.hasActed
  PROVE  OthersKept(t, b, s)
BY DEF OthersKept

\* A fold or a check leaves the others as they are, ...
LEMMA FoldOthers ==
  ASSUME NEW t \in Tables, NEW s \in Seats
  PROVE  OthersKept(t, fold(t, s), s) /\ OthersKept(t, check(t, s), s)
<1> DEFINE f == [t EXCEPT !.status[s] = "folded"]
<1>1. t.currentBet \in Nat
  BY DEF Tables
<1>2. OthersKept(t, t, s)
  BY <1>1 DEF OthersKept
<1>3. f \in Tables /\ OthersKept(t, f, s)
  BY <1>1 DEF OthersKept, Tables, Statuses
<1> HIDE DEF f
<1> QED
  BY <1>2, <1>3, MarkOthers DEF fold, check, f

\* ... a call does, ...
LEMMA CallOthers ==
  ASSUME NEW t, NEW s, Turn(t, s)
  PROVE  OthersKept(t, call(t, s), s)
<1> DEFINE pay == MinOf(toCall(t, s), t.stack[s])
           c == commit(t, s, pay)
<1>1. /\ t \in Tables /\ s \in Seats /\ t.status[s] = "active"
      /\ t.committed[s] <= t.currentBet
      /\ t.committed[s] \in Nat /\ t.currentBet \in Nat /\ t.stack[s] \in Nat
  BY DEF Turn, Played, Sound, Tables
<1>2. pay \in Nat /\ pay <= t.stack[s]
  BY <1>1 DEF MinOf, toCall
<1> HIDE DEF pay
<1>3. c \in Tables /\ OthersKept(t, c, s)
  BY <1>1, <1>2, CommitPays, CommitOthers
<1> HIDE DEF c
<1> QED
  BY <1>1, <1>3, MarkOthers DEF call, c, pay

\* ... a bet ...
LEMMA BetOKOthers ==
  ASSUME NEW t, NEW s, Turn(t, s), NEW target \in Nat, betOK(t, s, target)
  PROVE  OthersKept(t, bet(t, s, target), s)
<1> DEFINE pay == target - t.committed[s]
           c == commit(t, s, pay)
           b == [c EXCEPT !.currentBet = target, !.minRaise = target, !.lastAggressor = s]
<1>1. /\ t \in Tables /\ s \in Seats /\ t.status[s] = "active"
      /\ t.committed[s] \in Nat /\ t.currentBet = 0 /\ t.stack[s] \in Nat
  BY DEF Turn, Played, Sound, Tables, betOK
<1>2. pay \in Nat /\ pay <= t.stack[s]
  BY <1>1 DEF betOK
<1> HIDE DEF pay
<1>3. c \in Tables /\ OthersKept(t, c, s)
  BY <1>1, <1>2, CommitPays, CommitOthers
<1> HIDE DEF c
<1>4. /\ b \in Tables /\ b.currentBet = target /\ b.status = c.status /\ b.stack = c.stack
      /\ b.committed = c.committed /\ b.hasActed = c.hasActed
  BY <1>1, <1>3 DEF Tables
<1> HIDE DEF b
<1>5. reopen(b, s) \in Tables /\ OthersKept(t, reopen(b, s), s)
  <2>1. b.currentBet >= t.currentBet
    BY <1>1, <1>4
  <2>2. OthersKept(t, b, s)
    BY <1>3, <1>4, <2>1, BetOthers
  <2> QED
    BY <1>1, <1>4, <2>2, MarkOthers
<1>6. bet(t, s, target) = acted(reopen(b, s), s)
  BY DEF bet, b, c, pay
<1> QED
  BY <1>1, <1>5, <1>6, MarkOthers

\* ... and a raise, which asks them to act again.
LEMMA RaiseOKOthers ==
  ASSUME NEW t, NEW s, Turn(t, s), NEW target \in Nat, raiseOK(t, s, target)
  PROVE  OthersKept(t, raise(t, s, target), s)
<1> DEFINE pay == target - t.committed[s]
           more == target - t.currentBet
           c == commit(t, s, pay)
           paid == [c EXCEPT !.currentBet = target]
           b == [paid EXCEPT !.minRaise = more, !.lastAggressor = s]
<1>1. /\ t \in Tables /\ s \in Seats /\ t.status[s] = "active"
      /\ t.committed[s] <= t.currentBet /\ target > t.currentBet
      /\ t.committed[s] \in Nat /\ t.currentBet \in Nat /\ t.stack[s] \in Nat
  BY DEF Turn, Played, Sound, Tables, raiseOK
<1>2. pay \in Nat /\ pay <= t.stack[s] /\ more \in Nat
  BY <1>1 DEF raiseOK
<1> HIDE DEF pay, more
<1>3. c \in Tables /\ OthersKept(t, c, s)
  BY <1>1, <1>2, CommitPays, CommitOthers
<1> HIDE DEF c
<1>4. paid \in Tables /\ OthersKept(t, paid, s) /\ paid.currentBet = target
  <2>1. /\ paid \in Tables /\ paid.currentBet = target /\ paid.status = c.status
        /\ paid.stack = c.stack /\ paid.committed = c.committed /\ paid.hasActed = c.hasActed
    BY <1>1, <1>3 DEF Tables
  <2> HIDE DEF paid
  <2>2. paid.currentBet >= t.currentBet
    BY <1>1, <2>1
  <2> QED
    BY <1>3, <2>1, <2>2, BetOthers
<1> HIDE DEF paid
<1>5. b \in Tables /\ OthersKept(t, b, s)
  <2>1. /\ b \in Tables /\ b.currentBet = target /\ b.status = paid.status
        /\ b.stack = paid.stack /\ b.committed = paid.committed /\ b.hasActed = paid.hasActed
    BY <1>1, <1>2, <1>4 DEF Tables
  <2> HIDE DEF b
  <2>2. b.currentBet >= t.currentBet
    BY <1>1, <2>1
  <2> QED
    BY <1>4, <2>1, <2>2, BetOthers
<1> HIDE DEF b
<1>6. reopen(b, s) \in Tables /\ OthersKept(t, reopen(b, s), s)
  BY <1>1, <1>5, MarkOthers
<1>7. raise(t, s, target) = acted(reopen(b, s), s) \/ raise(t, s, target) = acted(paid, s)
  BY DEF raise, b, paid, c, pay, more
<1> QED
  BY <1>1, <1>4, <1>6, <1>7, MarkOthers

\* The end of a hand leaves every seat's standing as it was.
LEMMA EndKeepsStatus ==
  ASSUME NEW t \in Tables
  PROVE  /\ nonFolded(endHandUncontested(t)) = nonFolded(t)
         /\ endHandUncontested(t).stage = "HAND_OVER"
BY DEF endHandUncontested, clearCommitments, nonFolded, Tables

\* When a street closes everyone else who can bet has answered the bet.
LEMMA StreetCloseStep ==
  ASSUME TableOK, Next, StreetCloses, NEW q \in canAct(ts) \ {ts.currentTurn}
  PROVE  ts.hasActed[q] /\ ts.committed[q] = ts.currentBet
<1>1. PlayerMove
  BY DEF Next, NextHand, Closed, StreetCloses, BettingStages, vars
<1>2. PICK s \in Seats : \/ Fold(s) \/ Check(s) \/ Call(s)
                         \/ \E target \in Amounts : Bet(s, target) \/ Raise(s, target)
  BY <1>1 DEF PlayerMove
<1>3. mayAct(ts, s)
  BY <1>2 DEF Fold, Check, Call, Bet, Raise
<1>4. Turn(ts, s) /\ s = ts.currentTurn /\ ts \in Tables
  BY <1>3 DEF TableOK, Stored, Computed, mayAct, Turn, TurnOK, isActionable, Played, Sound
<1>5. \A target \in Amounts : target \in Nat
  <2>1. BuyIn * Cardinality(Seats) \in Nat
    BY PokerAssumption, SeatsFinite
  <2> QED
    BY <2>1 DEF Amounts
<1>6. PICK u : Goes(ts, u) /\ OthersKept(ts, u, s) /\ Store(resolve(u, s))
  <2>1. CASE Fold(s)
    BY <1>4, <2>1, FoldGoes, FoldOthers DEF Fold
  <2>2. CASE Check(s)
    BY <1>4, <2>2, CheckGoes, FoldOthers DEF Check
  <2>3. CASE Call(s)
    BY <1>4, <2>3, CallGoes, CallOthers DEF Call
  <2>4. CASE \E target \in Amounts : Bet(s, target)
    BY <1>4, <1>5, <2>4, BetGoes, BetOKOthers DEF Bet
  <2>5. CASE \E target \in Amounts : Raise(s, target)
    BY <1>4, <1>5, <2>5, RaiseGoes, RaiseOKOthers DEF Raise
  <2> QED
    BY <1>2, <2>1, <2>2, <2>3, <2>4, <2>5
<1>7. /\ u \in Tables /\ u.stage = ts.stage /\ u.stage \in BettingStages /\ u.stage # "SHOWDOWN"
  BY <1>6 DEF Goes, Played, Sound, StreetCloses, BettingStages
<1>8. PICK o \in Outcomes(resolve(u, s)) : ts' = o.ts
  BY <1>6 DEF Store
<1>9. Cardinality(nonFolded(u)) # 1
  <2> SUFFICES ASSUME Cardinality(nonFolded(u)) = 1 PROVE FALSE
    OBVIOUS
  <2> DEFINE e == endHandUncontested(u)
  <2>1. resolve(u, s) = e
    BY DEF resolve
  <2>2. e.stage = "HAND_OVER" /\ nonFolded(e) = nonFolded(u)
    BY <1>7, EndKeepsStatus
  <2> HIDE DEF e
  <2>3. o.ts = e
    BY <1>8, <2>1, <2>2 DEF Outcomes
  <2> QED
    BY <1>8, <2>2, <2>3 DEF StreetCloses
<1>10. nextActor(u, s) = NoSeat
  <2> SUFFICES ASSUME nextActor(u, s) # NoSeat PROVE FALSE
    OBVIOUS
  <2> DEFINE n == nextActor(u, s)
             e == [u EXCEPT !.currentTurn = n]
  <2>1. resolve(u, s) = e
    BY <1>9 DEF resolve
  <2>2. e.stage = u.stage
    BY <1>7 DEF Tables
  <2> HIDE DEF e
  <2>3. o.ts = e
    BY <1>7, <1>8, <2>1, <2>2 DEF Outcomes
  <2> QED
    BY <1>7, <1>8, <2>2, <2>3 DEF StreetCloses
<1>11. /\ q \in Seats \ {s} /\ ts.status[q] = "active" /\ ts.stack[q] > 0
       /\ ts.committed[q] \in Nat /\ ts.currentBet \in Nat /\ ts.committed[q] <= ts.currentBet
  BY <1>4 DEF canAct, Turn, Played, Sound, Tables
<1>12. /\ u.status[q] = "active" /\ u.stack[q] > 0 /\ u.committed[q] = ts.committed[q]
       /\ u.hasActed[q] => ts.hasActed[q]
       /\ u.currentBet >= ts.currentBet /\ u.currentBet \in Nat
  BY <1>6, <1>7, <1>11 DEF OthersKept, Tables
<1>13. q \in inHandSeats(u)
  BY <1>11, <1>12 DEF inHandSeats
<1>14. ~isActionable(u, q)
  BY <1>10, <1>13, NextActorOwes
<1> QED
  BY <1>11, <1>12, <1>14 DEF isActionable

(***************************************************************************)
(* A street that leaves more than one seat in the hand closes only when    *)
(* every other seat that can bet has acted and has matched the bet: the    *)
(* big blind keeps its option and every raise is answered, for any number  *)
(* of seats, stacks and hands.                                             *)
(***************************************************************************)
THEOREM StreetClosesHolds == Spec => StreetClosesWhenAllActed
<1>1. TableOK /\ [Next]_vars =>
        [StreetCloses => \A s \in canAct(ts) \ {ts.currentTurn} :
                           ts.hasActed[s] /\ ts.committed[s] = ts.currentBet]_vars
  BY StreetCloseStep
<1> QED
  BY <1>1, TableHolds, PTL DEF Spec, StreetClosesWhenAllActed

-----------------------------------------------------------------------------
(***************************************************************************)
(* What a showdown pays, against the layers of chips.                      *)
(***************************************************************************)
LEMMA SumMonotone ==
  ASSUME NEW S, IsFiniteSet(S), NEW f, NEW g, \A x \in S : f[x] \in Int /\ g[x] \in Int /\ f[x] <= g[x]
  PROVE  Sum(f, S) <= Sum(g, S)
<1> DEFINE h == [x \in S |-> g[x] - f[x]]
<1>1. \A x \in S : h[x] \in Nat /\ g[x] = f[x] + h[x]
  OBVIOUS
<1>2. Summable(f, S) /\ Summable(h, S)
  BY <1>1 DEF Summable
<1> HIDE DEF h
<1>3. Sum(g, S) = Sum(f, S) + Sum(h, S)
  BY <1>1, <1>2, SumPlus
<1>4. Sum(h, S) \in Nat /\ Sum(f, S) \in Int
  BY <1>1, <1>2, SumType DEF Summable
<1> QED
  BY <1>3, <1>4

\* The best hands of the seats E.
bestHands(rank, E) == {w \in E : \A o \in E : rank[o] <= rank[w]}

\* A seat's share of a pot: all of it when it has the best hand alone, nothing
\* when it has none of the best.
LEMMA ShareOfPot ==
  ASSUME NEW E \in SUBSET Seats, E # {}, NEW rank, \A s \in E : rank[s] \in Int,
         NEW pot, pot.seats = E, pot.amount \in Nat, NEW s \in Seats
  PROVE  /\ potShare(pot, rank, s) \in Nat /\ potShare(pot, rank, s) <= pot.amount
         /\ bestHands(rank, E) = {s} => potShare(pot, rank, s) = pot.amount
         /\ s \notin bestHands(rank, E) => potShare(pot, rank, s) = 0
<1> DEFINE share == [q \in Seats |-> potShare(pot, rank, q)]
           W == bestHands(rank, E)
           n == Cardinality(W)
<1>1. Sum(share, Seats) = pot.amount /\ \A q \in Seats : share[q] \in Nat
  BY PotIsPaid
<1>2. share[s] <= Sum(share, Seats)
  <2> HIDE DEF share
  <2> QED
    BY <1>1, SeatsFinite, SumBounds
<1>3. potShare(pot, rank, s) = IF s \in W THEN pot.amount \div n + (IF Place(W, s) < pot.amount % n THEN 1 ELSE 0)
                                          ELSE 0
  BY DEF potShare, Place, bestHands
<1>4. ASSUME W = {s} PROVE potShare(pot, rank, s) = pot.amount
  <2>1. n = 1
    BY <1>4, FS_Singleton
  <2>2. Place(W, s) = 0
    <3>1. {w \in W : w < s} = {}
      BY <1>4, SeatsFinite
    <3> QED
      BY <3>1, FS_EmptySet DEF Place
  <2> HIDE DEF n, W
  <2>3. potShare(pot, rank, s) = pot.amount \div 1 + (IF 0 < pot.amount % 1 THEN 1 ELSE 0)
    BY <1>3, <1>4, <2>1, <2>2
  <2> QED
    BY <2>3
<1> QED
  BY <1>1, <1>2, <1>3, <1>4

\* The chips of each layer, as a function, to sum them.
chipsIn(t) == [c \in Layers |-> Cardinality(InLayer(t, c))]

\* The chips of some layers, as a sum.
LEMMA LayersSum ==
  ASSUME NEW t, NEW CS \in SUBSET Layers
  PROVE  ChipsOf(t, CS) = Sum(chipsIn(t), CS)
<1> DEFINE Q(it) == it = [T \in SUBSET CS |-> IF T = {} THEN 0
                                              ELSE Cardinality(InLayer(t, Pick(T))) + it[T \ {Pick(T)}]]
<1>1. ChipsOf(t, CS) = (CHOOSE it : Q(it))[CS]
  BY DEF ChipsOf, MapThenSumSet, MapThenFoldSet, Pick
<1>2. ASSUME NEW it PROVE Q(it) <=> Iterates(chipsIn(t), CS, it)
  <2>1. \A T \in SUBSET CS : T # {} => chipsIn(t)[Pick(T)] = Cardinality(InLayer(t, Pick(T)))
    BY DEF Pick, chipsIn
  <2> QED
    BY <2>1 DEF Iterates
<1>3. (CHOOSE it : Q(it)) = (CHOOSE it : Iterates(chipsIn(t), CS, it))
  BY <1>2
<1> QED
  BY <1>1, <1>3, SumIterates

\* A layer holds one chip of everyone who contributed that much.
LEMMA LayersAre ==
  ASSUME NEW t
  PROVE  /\ IsFiniteSet(Layers) /\ \A c \in Layers : c \in Nat /\ c > 0
         /\ \A c \in Layers : chipsIn(t)[c] = Cardinality(InLayer(t, c)) /\ chipsIn(t)[c] \in Nat
         /\ \A CS \in SUBSET Layers : Summable(chipsIn(t), CS)
<1>1. AllChips \in Nat /\ Layers = 1..AllChips
  BY NewTableChips DEF AllChips, Layers
<1>2. IsFiniteSet(Layers) /\ \A c \in Layers : c \in Nat /\ c > 0
  BY <1>1, FS_Interval
<1>3. \A c \in Layers : chipsIn(t)[c] = Cardinality(InLayer(t, c)) /\ chipsIn(t)[c] \in Nat
  <2> TAKE c \in Layers
  <2>1. Cardinality(InLayer(t, c)) \in Nat
    BY SeatsFinite, FS_Subset, FS_CardinalityType DEF InLayer
  <2> QED
    BY <2>1 DEF chipsIn
<1>4. \A CS \in SUBSET Layers : Summable(chipsIn(t), CS)
  BY <1>2, <1>3, FS_Subset DEF Summable
<1> QED
  BY <1>2, <1>3, <1>4

\* The level a layer belongs to: the first one that reaches it.
levelOf(t, c) ==
  IF \E l \in levels(t) : c <= l
  THEN CHOOSE l \in levels(t) : c <= l /\ \A k \in levels(t) : c <= k => l <= k
  ELSE 0

\* The level a layer belongs to.
LEMMA LevelOfIs ==
  ASSUME NEW t \in Tables, NEW c \in Nat, c > 0, NEW l \in levels(t)
  PROVE  /\ levelOf(t, c) = l <=> c <= l /\ Below(levels(t), l) < c
         /\ c <= l => levelOf(t, c) \in levels(t)
<1> DEFINE L == levels(t)
           b == Below(L, l)
<1>1. IsFiniteSet(L) /\ \A k \in L : k \in Nat /\ k > 0
  BY LevelsAre
<1>2. b \in {0} \cup L /\ b < l /\ \A k \in L : k < l => k <= b
  BY <1>1, BelowIsNext
<1>3. ASSUME \E k \in L : c <= k
      PROVE  levelOf(t, c) \in L /\ c <= levelOf(t, c) /\ \A k \in L : c <= k => levelOf(t, c) <= k
  <2> DEFINE T == {k \in L : c <= k}
  <2>1. T \in SUBSET Nat /\ T # {}
    BY <1>1, <1>3
  <2>2. \E x \in T : \A y \in T : x <= y
    <3> HIDE DEF T
    <3> QED
      BY <2>1, LeastNatural
  <2>3. \E x \in L : c <= x /\ \A k \in L : c <= k => x <= k
    BY <2>2
  <2> QED
    BY <1>3, <2>3 DEF levelOf
<1>4. c <= l => levelOf(t, c) \in L
  BY <1>3
<1>5. ASSUME levelOf(t, c) = l PROVE c <= l /\ b < c
  <2>1. \E k \in L : c <= k
    BY <1>1, <1>5 DEF levelOf
  <2>2. c <= l /\ \A k \in L : c <= k => l <= k
    BY <1>3, <1>5, <2>1
  <2>3. CASE b = 0
    BY <2>2, <2>3
  <2>4. CASE b \in L
    BY <1>1, <1>2, <2>2, <2>4
  <2> QED
    BY <1>2, <2>2, <2>3, <2>4
<1>6. ASSUME c <= l, b < c PROVE levelOf(t, c) = l
  <2>1. levelOf(t, c) \in L /\ c <= levelOf(t, c) /\ \A k \in L : c <= k => levelOf(t, c) <= k
    BY <1>3, <1>6
  <2>2. \A k \in L : c <= k => ~(k < l)
    BY <1>1, <1>2, <1>6
  <2> QED
    BY <1>1, <1>6, <2>1, <2>2
<1> QED
  BY <1>4, <1>5, <1>6

\* Nobody has paid more than there is.
Bounded(t) == \A s \in Seats : t.totalCommitted[s] <= AllChips

\* The layers of a level hold its amount.
LEMMA LevelLayers ==
  ASSUME NEW t \in Tables, Bounded(t), NEW l \in levels(t)
  PROVE  Sum(chipsIn(t), {c \in Layers : levelOf(t, c) = l}) = levelAmount(t, l)
<1> DEFINE L == levels(t)
           b == Below(L, l)
           R == {s \in contributors(t) : t.totalCommitted[s] >= l}
           B == {c \in Layers : levelOf(t, c) = l}
<1>1. /\ IsFiniteSet(L) /\ \A k \in L : k \in Nat /\ k > 0
      /\ \A s \in Seats : t.totalCommitted[s] \in Nat
      /\ \A s \in contributors(t) : t.totalCommitted[s] \in L
      /\ IsFiniteSet(contributors(t))
  BY LevelsAre
<1>2. b \in {0} \cup L /\ b < l /\ \A k \in L : k < l => k <= b
  BY <1>1, BelowIsNext
<1>3. AllChips \in Nat /\ Layers = 1..AllChips
  BY NewTableChips DEF AllChips, Layers
<1>4. l <= AllChips
  <2>1. PICK s \in contributors(t) : l = t.totalCommitted[s]
    BY DEF levels
  <2> QED
    BY <2>1 DEF Bounded, contributors
<1>5. B = (b + 1)..l
  <2>1. \A c \in Layers : levelOf(t, c) = l <=> c <= l /\ b < c
    BY <1>3, LevelOfIs
  <2>2. b \in Nat
    BY <1>1, <1>2
  <2>3. l \in Nat /\ AllChips \in Nat
    BY <1>1, <1>3
  <2> HIDE DEF b, L
  <2>4. \A c \in (b + 1)..l : c \in Layers /\ c <= l /\ b < c
    BY <1>3, <1>4, <2>2, <2>3
  <2>5. \A c \in Layers : c <= l /\ b < c => c \in (b + 1)..l
    BY <1>3, <2>2, <2>3
  <2> QED
    BY <2>1, <2>4, <2>5
<1>6. IsFiniteSet(B) /\ Cardinality(B) = l - b
  <2>1. b + 1 \in Int /\ l \in Int /\ ~(b + 1 > l) /\ b \in Nat
    BY <1>1, <1>2
  <2> HIDE DEF b, B, L
  <2>2. IsFiniteSet((b + 1)..l) /\ Cardinality((b + 1)..l) = l - (b + 1) + 1
    BY <2>1, FS_Interval
  <2> QED
    BY <1>5, <2>1, <2>2
<1>7. Cardinality(R) \in Nat
  BY <1>1, FS_Subset, FS_CardinalityType
<1>8. \A c \in B : chipsIn(t)[c] = Cardinality(R)
  <2> TAKE c \in B
  <2>1. c \in Layers /\ c \in Nat /\ c > 0 /\ c <= l /\ b < c
    BY <1>1, <1>2, <1>3, <1>5
  <2>2. \A s \in Seats : t.totalCommitted[s] >= c <=> s \in contributors(t) /\ t.totalCommitted[s] >= l
    <3> TAKE s \in Seats
    <3>1. ASSUME t.totalCommitted[s] >= c PROVE s \in contributors(t) /\ t.totalCommitted[s] >= l
      <4>1. s \in contributors(t)
        BY <1>1, <2>1, <3>1 DEF contributors
      <4>2. ~(t.totalCommitted[s] < l)
        BY <1>1, <1>2, <2>1, <3>1, <4>1
      <4> QED
        BY <1>1, <4>1, <4>2
    <3> QED
      BY <1>1, <2>1, <3>1
  <2>3. InLayer(t, c) = R
    BY <2>2 DEF InLayer, contributors
  <2> QED
    BY <2>1, <2>3 DEF chipsIn
<1>9. levelAmount(t, l) = (l - b) * Cardinality(R)
  BY DEF levelAmount, Below
<1>10. l - b \in Nat
  BY <1>1, <1>2
<1> HIDE DEF B, b, R, L
<1>11. Sum(chipsIn(t), B) = Cardinality(R) * (l - b)
  <2>1. Sum(chipsIn(t), B) = Cardinality(R) * Cardinality(B)
    BY <1>6, <1>7, <1>8, SumConstant
  <2> QED
    BY <1>6, <2>1
<1> QED
  BY <1>7, <1>9, <1>10, <1>11 DEF B

\* A layer is won by seats that are eligible for its level.
LEMMA LayerSeats ==
  ASSUME NEW t \in Tables, OutHasNothing(t), NEW c \in Nat, c > 0
  PROVE  /\ InLayer(t, c) \cap nonFolded(t) = eligible(t, c)
         /\ levelOf(t, c) \in levels(t) => eligible(t, c) = eligible(t, levelOf(t, c))
         /\ levelOf(t, c) \notin levels(t) => eligible(t, c) = {}
<1> DEFINE L == levels(t)
           l == levelOf(t, c)
<1>1. /\ IsFiniteSet(L) /\ \A k \in L : k \in Nat /\ k > 0
      /\ \A s \in Seats : t.totalCommitted[s] \in Nat
      /\ \A s \in contributors(t) : t.totalCommitted[s] \in L /\ s \in Seats
  BY LevelsAre
<1>2. InLayer(t, c) \cap nonFolded(t) = eligible(t, c)
  <2>1. \A s \in Seats : t.status[s] \in Statuses
    BY DEF Tables
  <2>2. ASSUME NEW s \in Seats
        PROVE  s \in InLayer(t, c) \cap nonFolded(t) <=> s \in eligible(t, c)
    BY <1>1, <2>1 DEF OutHasNothing, InLayer, nonFolded, eligible, contributors, Statuses
  <2> QED
    BY <2>2 DEF InLayer, eligible, contributors
<1>3. ASSUME l \in L PROVE eligible(t, c) = eligible(t, l)
  <2>1. c <= l /\ Below(L, l) < c
    BY <1>3, LevelOfIs
  <2>2. Below(L, l) \in {0} \cup L /\ \A k \in L : k < l => k <= Below(L, l)
    BY <1>1, <1>3, BelowIsNext
  <2>3. ASSUME NEW s \in contributors(t)
        PROVE  t.totalCommitted[s] >= c <=> t.totalCommitted[s] >= l
    <3> DEFINE b == Below(L, l)
               v == t.totalCommitted[s]
    <3>1. v \in L /\ v \in Nat /\ (v < l => v <= b) /\ b < c /\ c <= l /\ b \in Nat /\ l \in Nat
      BY <1>1, <1>3, <2>1, <2>2
    <3> HIDE DEF b, v, l
    <3>2. v >= c <=> v >= l
      BY <3>1
    <3> QED
      BY <3>2 DEF v
  <2> HIDE DEF l
  <2> QED
    BY <2>3 DEF eligible
<1>4. ASSUME l \notin L PROVE eligible(t, c) = {}
  <2>1. ASSUME NEW s \in contributors(t), t.totalCommitted[s] >= c PROVE FALSE
    <3>1. t.totalCommitted[s] \in L
      BY <1>1
    <3> QED
      BY <1>4, <2>1, <3>1, LevelOfIs
  <2> QED
    BY <2>1 DEF eligible
<1> QED
  BY <1>2, <1>3, <1>4

\* A table whose pots are about to be paid out.
Payable(t, rank) ==
  /\ t \in Tables /\ OutHasNothing(t) /\ Bounded(t) /\ Matched(t)
  /\ \A s \in nonFolded(t) : rank[s] \in Int

\* The layers of a pot hold its amount.
LEMMA PotLayers ==
  ASSUME NEW t, NEW rank, Payable(t, rank), NEW E \in potSeats(t)
  PROVE  Sum(chipsIn(t), {c \in Layers : eligible(t, c) = E}) = potOf(t, E).amount
<1> DEFINE a == [l \in levels(t) |-> levelAmount(t, l)]
           G == {l \in levels(t) : eligible(t, l) = E}
           f == chipsIn(t)
           group == [c \in Layers |-> levelOf(t, c)]
           sums == [k \in G |-> Sum(f, {c \in Layers : group[c] = k})]
<1>1. t \in Tables /\ OutHasNothing(t) /\ Bounded(t) /\ \A s \in nonFolded(t) : rank[s] \in Int
  BY DEF Payable
<1>2. /\ IsFiniteSet(levels(t)) /\ \A l \in levels(t) : a[l] \in Nat
      /\ E # {} /\ potOf(t, E).amount = Sum(a, {l \in levels(t) : eligible(t, l) = E})
  BY <1>1, PotsOf, SMTT(30)
<1>3. IsFiniteSet(G) /\ Summable(a, G)
  <2>1. IsFiniteSet(G)
    BY <1>2, FS_Subset
  <2>2. \A l \in G : a[l] \in Int
    BY <1>2
  <2> HIDE DEF a, G
  <2> QED
    BY <2>1, <2>2 DEF Summable
<1>4. Summable(f, Layers) /\ \A c \in Layers : c \in Nat /\ c > 0
  BY LayersAre
<1>5. \A l \in G : a[l] = sums[l]
  <2> TAKE l \in G
  <2>1. {c \in Layers : group[c] = l} = {c \in Layers : levelOf(t, c) = l}
    OBVIOUS
  <2>2. Sum(f, {c \in Layers : levelOf(t, c) = l}) = levelAmount(t, l)
    BY <1>1, LevelLayers
  <2>3. a[l] = levelAmount(t, l) /\ sums[l] = Sum(f, {c \in Layers : group[c] = l})
    OBVIOUS
  <2> QED
    BY <2>1, <2>2, <2>3
<1>6. {c \in Layers : group[c] \in G} = {c \in Layers : eligible(t, c) = E}
  <2> SUFFICES ASSUME NEW c \in Layers PROVE levelOf(t, c) \in G <=> eligible(t, c) = E
    OBVIOUS
  <2>1. /\ levelOf(t, c) \in levels(t) => eligible(t, c) = eligible(t, levelOf(t, c))
        /\ levelOf(t, c) \notin levels(t) => eligible(t, c) = {}
    BY <1>1, <1>4, LayerSeats
  <2> QED
    BY <1>2, <2>1
<1> HIDE DEF a, G, f, group
<1>7. Sum(sums, G) = Sum(f, {c \in Layers : group[c] \in G})
  BY <1>3, <1>4, SumGrouped
<1> HIDE DEF sums
<1>8. Sum(a, G) = Sum(sums, G)
  BY <1>3, <1>5, SumCongruence
<1> QED
  BY <1>2, <1>6, <1>7, <1>8 DEF G, f

\* When every contribution is reached by another, the best hands of a layer are
\* the best hands of the seats eligible for it.
LEMMA BestIs ==
  ASSUME NEW t \in Tables, OutHasNothing(t), Matched(t), NEW rank, NEW c \in Nat, c > 0
  PROVE  BestOf(t, rank, c) = bestHands(rank, eligible(t, c))
<1>1. InLayer(t, c) \cap nonFolded(t) = eligible(t, c)
  BY LayerSeats
<1>2. Cardinality(InLayer(t, c)) # 1
  <2> SUFFICES ASSUME Cardinality(InLayer(t, c)) = 1 PROVE FALSE
    OBVIOUS
  <2>1. IsFiniteSet(InLayer(t, c))
    BY SeatsFinite, FS_Subset DEF InLayer
  <2>2. PICK s : InLayer(t, c) = {s}
    BY <2>1, FS_Singleton
  <2>3. s \in Seats /\ t.totalCommitted[s] >= c
    BY <2>2 DEF InLayer
  <2>4. \A q \in Seats : t.totalCommitted[q] \in Nat
    BY LevelsAre
  <2>5. PICK q \in Seats \ {s} : t.totalCommitted[q] >= t.totalCommitted[s]
    BY <2>3, <2>4 DEF Matched, contributors
  <2>6. q \in InLayer(t, c)
    BY <2>3, <2>4, <2>5 DEF InLayer
  <2> QED
    BY <2>2, <2>5, <2>6
<1> QED
  BY <1>1, <1>2 DEF BestOf, bestHands

\* The layers whose winners are one of the sets M.
WonBy(t, rank, M) == {c \in Layers : BestOf(t, rank, c) \in M}

\* The layers won by one of the sets M are the pots won by one of them.
LEMMA LayersOfPots ==
  ASSUME NEW t, NEW rank, Payable(t, rank), NEW M, {} \notin M,
         NEW f, \A E \in potSeats(t) : f[E] = potOf(t, E).amount
  PROVE  ChipsOf(t, WonBy(t, rank, M))
           = Sum(f, {E \in potSeats(t) : bestHands(rank, E) \in M})
<1> DEFINE G == {E \in potSeats(t) : bestHands(rank, E) \in M}
           h == chipsIn(t)
           group == [c \in Layers |-> eligible(t, c)]
           sums == [k \in G |-> Sum(h, {c \in Layers : group[c] = k})]
<1>1. /\ t \in Tables /\ OutHasNothing(t) /\ Matched(t)
      /\ \A s \in nonFolded(t) : rank[s] \in Int
  BY DEF Payable
<1>2. /\ IsFiniteSet(potSeats(t))
      /\ \A E \in potSeats(t) : E # {} /\ f[E] \in Nat
  <2> DEFINE a == [l \in levels(t) |-> levelAmount(t, l)]
  <2>1. /\ IsFiniteSet(potSeats(t))
        /\ \A E \in potSeats(t) : E # {} /\ potOf(t, E).amount \in Nat
    BY <1>1, PotsOf
  <2> QED
    BY <2>1
<1>3. IsFiniteSet(G) /\ Summable(f, G)
  <2>1. IsFiniteSet(G)
    BY <1>2, FS_Subset
  <2>2. \A E \in G : f[E] \in Int
    BY <1>2
  <2> HIDE DEF G
  <2> QED
    BY <2>1, <2>2 DEF Summable
<1>4. Summable(h, Layers) /\ \A c \in Layers : c \in Nat /\ c > 0
  BY LayersAre
<1>5. \A E \in G : f[E] = sums[E]
  <2> TAKE E \in G
  <2>1. {c \in Layers : group[c] = E} = {c \in Layers : eligible(t, c) = E}
    OBVIOUS
  <2>2. Sum(h, {c \in Layers : eligible(t, c) = E}) = potOf(t, E).amount
    BY PotLayers
  <2>3. f[E] = potOf(t, E).amount /\ sums[E] = Sum(h, {c \in Layers : group[c] = E})
    OBVIOUS
  <2> QED
    BY <2>1, <2>2, <2>3
<1>6. {c \in Layers : group[c] \in G} = {c \in Layers : BestOf(t, rank, c) \in M}
  <2> SUFFICES ASSUME NEW c \in Layers PROVE eligible(t, c) \in G <=> BestOf(t, rank, c) \in M
    OBVIOUS
  <2>1. BestOf(t, rank, c) = bestHands(rank, eligible(t, c))
    BY <1>1, <1>4, BestIs
  <2>2. eligible(t, c) # {} => eligible(t, c) \in potSeats(t)
    <3>1. /\ levelOf(t, c) \in levels(t) => eligible(t, c) = eligible(t, levelOf(t, c))
          /\ levelOf(t, c) \notin levels(t) => eligible(t, c) = {}
      BY <1>1, <1>4, LayerSeats
    <3> QED
      BY <3>1 DEF potSeats
  <2>3. eligible(t, c) = {} => bestHands(rank, eligible(t, c)) = {}
    BY DEF bestHands
  <2> QED
    BY <2>1, <2>2, <2>3
<1>7. ChipsOf(t, {c \in Layers : group[c] \in G}) = Sum(h, {c \in Layers : group[c] \in G})
  <2>1. {c \in Layers : group[c] \in G} \in SUBSET Layers
    OBVIOUS
  <2> HIDE DEF group, G
  <2> QED
    BY <2>1, LayersSum
<1> HIDE DEF G, h, group
<1>8. Sum(sums, G) = Sum(h, {c \in Layers : group[c] \in G})
  BY <1>3, <1>4, SumGrouped
<1> HIDE DEF sums
<1>9. Sum(f, G) = Sum(sums, G)
  BY <1>3, <1>5, SumCongruence
<1> QED
  BY <1>6, <1>7, <1>8, <1>9 DEF G, WonBy

\* A seat is paid the layers it wins alone at least, and those it wins or ties at most.
LEMMA PayoutsAreFair ==
  ASSUME NEW t, NEW rank, Payable(t, rank), NEW s \in Seats
  PROVE  /\ ChipsOf(t, {c \in Layers : BestOf(t, rank, c) = {s}}) <= payouts(t, rank)[s]
         /\ payouts(t, rank)[s] <= ChipsOf(t, {c \in Layers : s \in BestOf(t, rank, c)})
         /\ payouts(t, rank)[s] \in Nat
<1> DEFINE P == potSeats(t)
           f == [E \in P |-> potOf(t, E).amount]
           share == [E \in P |-> potShare(potOf(t, E), rank, s)]
           alone == {E \in P : bestHands(rank, E) \in {{s}}}
           some  == {E \in P : bestHands(rank, E) \in {W \in SUBSET Seats : s \in W}}
           least == [E \in P |-> IF E \in alone THEN f[E] ELSE 0]
           most  == [E \in P |-> IF E \in some THEN f[E] ELSE 0]
<1>1. /\ t \in Tables /\ OutHasNothing(t) /\ Matched(t)
      /\ \A q \in nonFolded(t) : rank[q] \in Int
  BY DEF Payable
<1>2. /\ IsFiniteSet(P)
      /\ \A E \in P : /\ E # {} /\ E \in SUBSET Seats /\ \A q \in E : rank[q] \in Int
                      /\ potOf(t, E).seats = E /\ potOf(t, E).amount \in Nat
      /\ payouts(t, rank)[s] = Sum([E \in P |-> potShare(potOf(t, E), rank, s)], P)
  <2> DEFINE a == [l \in levels(t) |-> levelAmount(t, l)]
  <2> HIDE DEF P, f, share, alone, some, least, most
  <2>0. a = [l \in levels(t) |-> levelAmount(t, l)]
    OBVIOUS
  <2> HIDE DEF a
  <2>1. /\ IsFiniteSet(potSeats(t))
        /\ \A E \in potSeats(t) :
              /\ E # {} /\ E \in SUBSET Seats /\ \A q \in E : rank[q] \in Int
              /\ potOf(t, E).seats = E
              /\ potOf(t, E).amount = Sum(a, {l \in levels(t) : eligible(t, l) = E})
              /\ potOf(t, E).amount \in Nat
    BY <1>1, <2>0, PotsOf
  <2>2. payouts(t, rank)[s] = Sum([E \in potSeats(t) |-> potShare(potOf(t, E), rank, s)], potSeats(t))
    BY <1>1, <2>0, PotsOf
  <2> QED
    BY <2>1, <2>2 DEF P
<1>3. ASSUME NEW E \in P
      PROVE  share[E] \in Nat /\ f[E] \in Nat /\ least[E] <= share[E] /\ share[E] <= most[E]
             /\ least[E] \in Nat /\ most[E] \in Nat
  <2> DEFINE pot == potOf(t, E)
             W == bestHands(rank, E)
  <2>1. /\ pot.seats = E /\ pot.amount \in Nat /\ E # {} /\ E \in SUBSET Seats
        /\ \A q \in E : rank[q] \in Int
    BY <1>2
  <2>2. share[E] = potShare(pot, rank, s) /\ f[E] = pot.amount
        /\ least[E] = (IF W = {s} THEN pot.amount ELSE 0)
        /\ most[E] = (IF s \in W THEN pot.amount ELSE 0)
    <3>1. W \in SUBSET Seats
      BY <2>1 DEF bestHands
    <3> QED
      BY <3>1
  <2> HIDE DEF pot
  <2>3. /\ potShare(pot, rank, s) \in Nat /\ potShare(pot, rank, s) <= pot.amount
        /\ W = {s} => potShare(pot, rank, s) = pot.amount
        /\ s \notin W => potShare(pot, rank, s) = 0
    BY <2>1, ShareOfPot
  <2> HIDE DEF W, share, f, least, most
  <2> QED
    BY <2>1, <2>2, <2>3
<1>4. /\ \A E \in P : f[E] = potOf(t, E).amount
      /\ \A E \in P : least[E] = IF E \in alone THEN f[E] ELSE 0
      /\ \A E \in P : most[E] = IF E \in some THEN f[E] ELSE 0
      /\ alone \in SUBSET P /\ some \in SUBSET P
  OBVIOUS
<1>5. Summable(f, P)
  <2>1. \A E \in P : f[E] \in Int
    BY <1>3
  <2> HIDE DEF f
  <2> QED
    BY <1>2, <2>1 DEF Summable
<1>6. /\ ChipsOf(t, {c \in Layers : BestOf(t, rank, c) = {s}}) = Sum(f, alone)
      /\ ChipsOf(t, {c \in Layers : s \in BestOf(t, rank, c)}) = Sum(f, some)
  <2>1. {c \in Layers : BestOf(t, rank, c) = {s}} = WonBy(t, rank, {{s}})
    BY DEF WonBy
  <2>2. {c \in Layers : s \in BestOf(t, rank, c)} = WonBy(t, rank, {W \in SUBSET Seats : s \in W})
    <3>1. \A c : BestOf(t, rank, c) \in SUBSET Seats
      BY DEF BestOf, InLayer
    <3> QED
      BY <3>1 DEF WonBy
  <2> HIDE DEF f
  <2>3. ASSUME NEW M, {} \notin M
        PROVE  ChipsOf(t, WonBy(t, rank, M))
                 = Sum(f, {E \in potSeats(t) : bestHands(rank, E) \in M})
    BY <1>4, <2>3, LayersOfPots
  <2>4. {} \notin {{s}} /\ {} \notin {W \in SUBSET Seats : s \in W}
    OBVIOUS
  <2> QED
    BY <2>1, <2>2, <2>3, <2>4
<1>7. payouts(t, rank)[s] = Sum(share, P)
  BY <1>2
<1> HIDE DEF P, f, share, alone, some, least, most
<1>8. Sum(f, alone) = Sum(least, P) /\ Sum(f, some) = Sum(most, P)
  BY <1>4, <1>5, SumRestricted
<1>9. \A E \in P : /\ share[E] \in Int /\ least[E] \in Int /\ most[E] \in Int
                   /\ least[E] <= share[E] /\ share[E] <= most[E]
  BY <1>3
<1>10. Sum(least, P) <= Sum(share, P) /\ Sum(share, P) <= Sum(most, P)
  BY <1>2, <1>9, SumMonotone
<1>11. Sum(share, P) \in Nat
  BY <1>2, <1>3, SumType
<1> QED
  BY <1>6, <1>7, <1>8, <1>10, <1>11

\* Of the seats alone and of nobody, M has s only.
HasOnly(M, s) == {s} \in M /\ {} \notin M /\ \A q \in Seats \ {s} : {q} \notin M

\* What is returned to a seat are the layers that are its alone; the other
\* layers are as they were.
LEMMA LayersReturned ==
  ASSUME NEW t \in Tables, NEW u \in Tables, u.status = t.status, Returned(t, u), Bounded(t),
         NEW rank, NEW s \in Seats, NEW M, HasOnly(M, s)
  PROVE  ChipsOf(t, WonBy(t, rank, M))
           = (t.totalCommitted[s] - u.totalCommitted[s]) + ChipsOf(u, WonBy(u, rank, M))
<1> DEFINE D == {c \in Layers : u.totalCommitted[s] < c /\ c <= t.totalCommitted[s]}
           T == {c \in Layers : BestOf(t, rank, c) \in M}
           U == {c \in Layers : BestOf(u, rank, c) \in M}
           back == t.totalCommitted[s] - u.totalCommitted[s]
           f == chipsIn(t)
           g == chipsIn(u)
<1>1. /\ AllChips \in Nat /\ Layers = 1..AllChips
      /\ \A q \in Seats : t.totalCommitted[q] \in Nat /\ u.totalCommitted[q] \in Nat
  BY NewTableChips, LevelsAre DEF AllChips, Layers
<1>2. nonFolded(u) = nonFolded(t)
  BY DEF nonFolded
<1>3. ASSUME NEW c \in Layers, NEW q \in Seats,
             u.totalCommitted[q] < c, c <= t.totalCommitted[q]
      PROVE  /\ InLayer(t, c) = {q} /\ InLayer(u, c) = {}
             /\ BestOf(t, rank, c) = {q} /\ BestOf(u, rank, c) = {}
  <2>0. c \in Nat
    BY <1>1
  <2>1. \A o \in Seats \ {q} : t.totalCommitted[o] < c /\ u.totalCommitted[o] < c
    <3> TAKE o \in Seats \ {q}
    <3>1. t.totalCommitted[o] <= u.totalCommitted[q] /\ u.totalCommitted[o] <= t.totalCommitted[o]
      BY <1>1, <1>3, <2>0 DEF Returned
    <3> QED
      BY <1>1, <1>3, <2>0, <3>1
  <2>2. InLayer(t, c) = {q}
    BY <1>1, <1>3, <2>0, <2>1 DEF InLayer
  <2>3. InLayer(u, c) = {}
    BY <1>1, <1>3, <2>0, <2>1 DEF InLayer
  <2>4. Cardinality({q}) = 1 /\ Cardinality({}) = 0
    BY FS_Singleton, FS_EmptySet
  <2> QED
    BY <2>2, <2>3, <2>4 DEF BestOf
<1>4. ASSUME NEW c \in Layers,
             \A q \in Seats : ~(u.totalCommitted[q] < c /\ c <= t.totalCommitted[q])
      PROVE  InLayer(t, c) = InLayer(u, c) /\ BestOf(t, rank, c) = BestOf(u, rank, c)
  <2>1. \A q \in Seats : t.totalCommitted[q] >= c <=> u.totalCommitted[q] >= c
    BY <1>1, <1>4 DEF Returned
  <2>2. InLayer(t, c) = InLayer(u, c)
    BY <2>1 DEF InLayer
  <2> QED
    BY <1>2, <2>2 DEF BestOf
<1>5. T = D \cup U /\ D \cap U = {} /\ \A c \in U : f[c] = g[c]
  <2>1. ASSUME NEW c \in Layers
        PROVE  /\ c \in T <=> c \in D \/ c \in U
               /\ ~(c \in D /\ c \in U)
               /\ c \in U => f[c] = g[c]
    <3>1. CASE \E q \in Seats : u.totalCommitted[q] < c /\ c <= t.totalCommitted[q]
      <4>1. PICK q \in Seats : u.totalCommitted[q] < c /\ c <= t.totalCommitted[q]
        BY <3>1
      <4>2. InLayer(t, c) = {q} /\ BestOf(t, rank, c) = {q} /\ BestOf(u, rank, c) = {}
        BY <1>3, <4>1
      <4>3. c \in D <=> q = s
        <5>1. c \in D => InLayer(t, c) = {s}
          BY <1>3
        <5> QED
          BY <4>1, <4>2, <5>1
      <4> QED
        BY <4>2, <4>3 DEF HasOnly
    <3>2. CASE \A q \in Seats : ~(u.totalCommitted[q] < c /\ c <= t.totalCommitted[q])
      BY <1>4, <3>2 DEF chipsIn
    <3> QED
      BY <3>1, <3>2
  <2> HIDE DEF f, g
  <2> QED
    BY <2>1
<1>6. Sum(f, D) = back
  <2>1. t.totalCommitted[s] <= AllChips /\ u.totalCommitted[s] <= t.totalCommitted[s]
    BY DEF Bounded, Returned
  <2> DEFINE low == u.totalCommitted[s]
             high == t.totalCommitted[s]
  <2>2. low \in Nat /\ high \in Nat /\ low <= high /\ high <= AllChips
    BY <1>1, <2>1
  <2>3. D = (low + 1)..high
    <3>1. D = {c \in Layers : low < c /\ c <= high}
      OBVIOUS
    <3> HIDE DEF D, low, high
    <3>2. \A c \in (low + 1)..high : c \in Layers /\ low < c /\ c <= high
      BY <1>1, <2>2
    <3>3. \A c \in Layers : low < c /\ c <= high => c \in (low + 1)..high
      BY <1>1, <2>2
    <3> QED
      BY <3>1, <3>2, <3>3
  <2>4. IsFiniteSet(D) /\ Cardinality(D) = back
    <3>1. back = high - low
      OBVIOUS
    <3> HIDE DEF D, low, high, back
    <3>2. low + 1 \in Int /\ high \in Int
      BY <2>2
    <3>3. IsFiniteSet((low + 1)..high)
          /\ Cardinality((low + 1)..high) = IF low + 1 > high THEN 0 ELSE high - (low + 1) + 1
      BY <3>2, FS_Interval
    <3> QED
      BY <2>2, <2>3, <3>1, <3>3
  <2>5. \A c \in D : f[c] = 1
    <3> TAKE c \in D
    <3>1. InLayer(t, c) = {s}
      BY <1>3
    <3> QED
      BY <3>1, FS_Singleton DEF chipsIn
  <2>6. back \in Nat
    BY <2>2
  <2> HIDE DEF f, D, back
  <2>7. Sum(f, D) = 1 * Cardinality(D)
    BY <2>4, <2>5, SumConstant
  <2> QED
    BY <2>4, <2>6, <2>7
<1>7. /\ D \in SUBSET Layers /\ T \in SUBSET Layers /\ U \in SUBSET Layers
      /\ Summable(f, T) /\ Summable(g, U) /\ Summable(f, U)
  BY LayersAre
<1>8. ChipsOf(t, T) = Sum(f, T) /\ ChipsOf(u, U) = Sum(g, U)
  <2> HIDE DEF T, U
  <2> QED
    BY <1>7, LayersSum
<1> HIDE DEF f, g, D, T, U, back
<1>9. Sum(f, T) = Sum(f, D) + Sum(f, U)
  <2>1. D \in SUBSET T /\ U \in SUBSET T
    BY <1>5
  <2>2. D \cap U = {} /\ D \cup U = T /\ Summable(f, T)
    BY <1>5, <1>7
  <2> QED
    BY <2>1, <2>2, SumTogether
<1>10. Sum(f, U) = Sum(g, U)
  BY <1>5, <1>7, SumCongruence
<1> QED
  BY <1>6, <1>8, <1>9, <1>10 DEF T, U, back, WonBy

\* What a showdown changes of a stack lies between the layers the seat wins
\* alone and the layers it wins or ties.
LEMMA ShowdownPaysFairly ==
  ASSUME NEW t, Played(t), Chips(t) <= AllChips, NEW rank \in Rankings(t), NEW s \in Seats
  PROVE  /\ runShowdown(t, rank).stack[s] - t.stack[s] >= ChipsOf(t, {c \in Layers : BestOf(t, rank, c) = {s}})
         /\ runShowdown(t, rank).stack[s] - t.stack[s] <= ChipsOf(t, {c \in Layers : s \in BestOf(t, rank, c)})
<1> DEFINE u == returnUncalled(t)
           p == payouts(u, rank)[s]
           got == runShowdown(t, rank).stack[s] - t.stack[s]
           back == t.totalCommitted[s] - u.totalCommitted[s]
           least(v) == ChipsOf(v, {c \in Layers : BestOf(v, rank, c) = {s}})
           most(v)  == ChipsOf(v, {c \in Layers : s \in BestOf(v, rank, c)})
           With == {W \in SUBSET Seats : s \in W}
<1>1. t \in Tables /\ OutHasNothing(t) /\ Cardinality(contributors(t)) >= 2
  BY DEF Played, Sound
<1>2. u \in Tables /\ u.status = t.status /\ OutHasNothing(u) /\ Matched(u) /\ Returned(t, u)
  BY <1>1, UncalledReturned
<1>3. Bounded(t) /\ AllChips \in Nat
  <2>1. /\ t.totalCommitted \in [Seats -> Nat] /\ t.stack \in [Seats -> Nat]
        /\ \A q \in Seats : t.totalCommitted[q] \in Nat
    BY <1>1 DEF Tables
  <2>2. SumSeats(t.totalCommitted) = Sum(t.totalCommitted, Seats) /\ SumSeats(t.totalCommitted) \in Nat
        /\ SumSeats(t.stack) \in Nat /\ AllChips \in Nat
    BY <2>1, SumSeatsIs, NewTableChips
  <2>3. \A q \in Seats : t.totalCommitted[q] <= Sum(t.totalCommitted, Seats)
    BY <2>1, SeatsFinite, SumBounds
  <2> QED
    BY <2>1, <2>2, <2>3 DEF Bounded, Chips
<1>4. \A q \in nonFolded(t) : rank[q] \in Int
  <2>1. \A q \in nonFolded(t) : rank[q] \in Strengths
    BY DEF Rankings
  <2>2. \A x \in Strengths : x \in Int
    BY HandAssumption
  <2> QED
    BY <2>1, <2>2, Zenon
<1>5. /\ \A q \in Seats : t.totalCommitted[q] \in Nat /\ t.stack[q] \in Nat
      /\ \A q \in Seats : u.totalCommitted[q] \in Nat /\ u.stack[q] \in Nat
  <2> HIDE DEF u
  <2> QED
    BY <1>1, <1>2, LevelsAre
<1>6. Payable(u, rank)
  <2> HIDE DEF u
  <2>1. nonFolded(u) = nonFolded(t)
    BY <1>2 DEF nonFolded
  <2>2. Bounded(u)
    BY <1>2, <1>3, <1>5 DEF Bounded, Returned
  <2> QED
    BY <1>2, <1>4, <2>1, <2>2 DEF Payable
<1>7. p \in Nat /\ least(u) <= p /\ p <= most(u)
  <2> HIDE DEF u
  <2> QED
    BY <1>6, PayoutsAreFair
<1>8. got = back + p
  <2>1. runShowdown(t, rank).stack[s] = u.stack[s] + p
    BY ShowdownPays
  <2>2. u.stack[s] - t.stack[s] = back
    BY <1>2 DEF Returned
  <2>3. t.stack[s] \in Nat /\ u.stack[s] \in Nat
    BY <1>5
  <2> HIDE DEF u, p, back
  <2> QED
    BY <1>7, <2>1, <2>2, <2>3
<1>9. \A v, c : BestOf(v, rank, c) \in SUBSET Seats
  BY DEF BestOf, InLayer
<1>10. \A v : /\ {c \in Layers : BestOf(v, rank, c) = {s}} = WonBy(v, rank, {{s}})
              /\ {c \in Layers : s \in BestOf(v, rank, c)} = WonBy(v, rank, With)
  BY <1>9 DEF WonBy
<1>11. ASSUME NEW M, HasOnly(M, s)
       PROVE  ChipsOf(t, WonBy(t, rank, M)) = back + ChipsOf(u, WonBy(u, rank, M))
  <2>1. t \in Tables /\ u \in Tables /\ u.status = t.status /\ Returned(t, u) /\ Bounded(t)
    BY <1>1, <1>2, <1>3
  <2> HIDE DEF u
  <2> QED
    BY <1>11, <2>1, LayersReturned
<1>12. least(t) = back + least(u)
  <2>1. HasOnly({{s}}, s)
    BY DEF HasOnly
  <2>2. ChipsOf(t, WonBy(t, rank, {{s}})) = back + ChipsOf(u, WonBy(u, rank, {{s}}))
    BY <1>11, <2>1
  <2> QED
    BY <1>10, <2>2
<1>13. most(t) = back + most(u)
  <2>1. HasOnly(With, s)
    BY DEF HasOnly
  <2> HIDE DEF With
  <2>2. ChipsOf(t, WonBy(t, rank, With)) = back + ChipsOf(u, WonBy(u, rank, With))
    BY <1>11, <2>1
  <2> QED
    BY <1>10, <2>2
<1>14. least(u) \in Int /\ most(u) \in Int /\ back \in Int
  <2>1. \A CS \in SUBSET Layers : ChipsOf(u, CS) \in Int
    <3> HIDE DEF u
    <3> TAKE CS \in SUBSET Layers
    <3>1. ChipsOf(u, CS) = Sum(chipsIn(u), CS) /\ Summable(chipsIn(u), CS)
      BY LayersAre, LayersSum
    <3> QED
      BY <3>1, SumType DEF Summable
  <2>2. back \in Int
    BY <1>5
  <2> QED
    BY <2>1, <2>2
<1>15. got >= least(t) /\ got <= most(t)
  <2> HIDE DEF got, back, p, least, most, u
  <2> QED
    BY <1>7, <1>8, <1>12, <1>13, <1>14
<1> QED
  BY <1>15

\* The history of a showdown is the one that made the stored table.
Settles(table, shown) ==
  shown # NoShowdown =>
    \E t : \E rank \in Rankings(t) :
      /\ shown = [table |-> t, rank |-> rank]
      /\ Played(t) /\ Chips(t) <= AllChips
      /\ table = runShowdown(t, rank)

\* A recorded showdown is the one the stored table comes from.
LEMMA OutcomeSettles ==
  ASSUME NEW t, Computed(t), Chips(t) <= AllChips, NEW o \in Outcomes(t)
  PROVE  Settles(o.ts, o.settled)
<1>1. CASE t.stage = "SHOWDOWN"
  <2>1. Played(t)
    BY <1>1 DEF Computed, BettingStages
  <2>2. PICK rank \in Rankings(t) : o.ts = runShowdown(t, rank) /\ o.settled = [table |-> t, rank |-> rank]
    BY <1>1 DEF Outcomes
  <2> QED
    BY <2>1, <2>2 DEF Settles
<1>2. CASE t.stage # "SHOWDOWN"
  BY <1>2 DEF Outcomes, Settles
<1> QED
  BY <1>1, <1>2

(***************************************************************************)
(* A showdown pays every seat at least the layers of chips it wins alone   *)
(* and at most the layers it wins or ties, for any number of seats, stacks *)
(* and all-ins: the pots built level by level, the uncalled bet returned   *)
(* and the odd chips handed out by place come to what the chips one by one *)
(* would give.                                                             *)
(***************************************************************************)
THEOREM ShowdownHolds == Spec => []ShowdownIsFair
<1>1. InitState => Settles(ts, settled)
  <2> SUFFICES ASSUME InitState PROVE Settles(ts, settled)
    OBVIOUS
  <2>1. PICK t : /\ Computed(t) /\ Chips(t) = AllChips
                 /\ \E o \in Outcomes(t) : ts = o.ts /\ settled = o.settled
    BY TableInit
  <2>2. Chips(t) <= AllChips
    BY <2>1, NewTableChips
  <2> QED
    BY <2>1, <2>2, OutcomeSettles
<1>2. TableOK /\ Chips(ts) <= AllChips /\ Settles(ts, settled) /\ [Next]_vars => Settles(ts, settled)'
  <2> SUFFICES ASSUME TableOK, Chips(ts) <= AllChips, Settles(ts, settled), [Next]_vars
               PROVE  Settles(ts', settled')
    BY DEF Settles
  <2>1. CASE PlayerMove \/ NextHand
    <3>1. PICK t : Computed(t) /\ Chips(t) = Chips(ts) /\ Store(t)
      BY <2>1, StepComputes DEF TableOK
    <3> QED
      BY <3>1, OutcomeSettles DEF Store
  <2>2. CASE UNCHANGED vars
    BY <2>2 DEF vars
  <2> QED
    BY <2>1, <2>2 DEF Next, Closed
<1>3. Settles(ts, settled) => ShowdownIsFair
  <2> SUFFICES ASSUME Settles(ts, settled), settled # NoShowdown PROVE ShowdownIsFair
    BY DEF ShowdownIsFair
  <2>1. PICK t : \E rank \in Rankings(t) :
                   /\ settled = [table |-> t, rank |-> rank]
                   /\ Played(t) /\ Chips(t) <= AllChips
                   /\ ts = runShowdown(t, rank)
    BY DEF Settles
  <2>2. PICK rank \in Rankings(t) : /\ settled = [table |-> t, rank |-> rank]
                                    /\ Played(t) /\ Chips(t) <= AllChips
                                    /\ ts = runShowdown(t, rank)
    BY <2>1
  <2>3. settled.table = t /\ settled.rank = rank
    BY <2>2
  <2> DEFINE best == [c \in Layers |-> BestOf(t, rank, c)]
  <2>4. ASSUME NEW s \in Seats
        PROVE  /\ ts.stack[s] - t.stack[s] >= ChipsOf(t, {c \in Layers : best[c] = {s}})
               /\ ts.stack[s] - t.stack[s] <= ChipsOf(t, {c \in Layers : s \in best[c]})
    <3>1. /\ {c \in Layers : best[c] = {s}} = {c \in Layers : BestOf(t, rank, c) = {s}}
          /\ {c \in Layers : s \in best[c]} = {c \in Layers : s \in BestOf(t, rank, c)}
      OBVIOUS
    <3> HIDE DEF best
    <3>2. /\ ts.stack[s] - t.stack[s] >= ChipsOf(t, {c \in Layers : BestOf(t, rank, c) = {s}})
          /\ ts.stack[s] - t.stack[s] <= ChipsOf(t, {c \in Layers : s \in BestOf(t, rank, c)})
      BY <2>2, ShowdownPaysFairly
    <3> QED
      BY <3>1, <3>2
  <2> QED
    BY <2>3, <2>4 DEF ShowdownIsFair
<1>4. Spec => []Settles(ts, settled)
  BY <1>1, <1>2, TableHolds, NoChipIsMade, PTL DEF Spec
<1> QED
  BY <1>3, <1>4, PTL

-----------------------------------------------------------------------------
(***************************************************************************)
(* The session.                                                            *)
(***************************************************************************)
\* Types of what the session adds to the table.
SessionShape ==
  /\ IsTable(ts)
  /\ handNo \in Hands
  /\ history \in [Hands -> Nat]
  /\ lobbyStatus \in {"in_progress", "finished"}
  /\ toSchedule \in Nat /\ timers \in Nat /\ toFinish \in Nat
  /\ faults \in Nat

(***************************************************************************)
(* The inductive invariant.  None of the four properties is inductive      *)
(* alone: that an action finds no trigger outstanding (OneTrigger) rests   *)
(* on the stage it requires, that it archives its hand for the first time  *)
(* (ArchivedOnce) on the stage too, and that a newly dealt hand has no     *)
(* history row on the agreement of the two hand numbers.                   *)
(***************************************************************************)
SessionInv ==
  /\ SessionShape
  /\ HandNoAgrees
  /\ ArchivedOnce
  /\ OneTrigger
  /\ PlayedHandHasSuccessor

\* The invariant of the session holds at the start ...
LEMMA SessionInvInit == SessionInit => SessionInv
<1> SUFFICES ASSUME SessionInit PROVE SessionInv
  OBVIOUS
<1>1. IsTable(ts) /\ ts.handNo = 1
  BY InitStateTurn DEF SessionInit
<1>2. SessionShape
  BY <1>1, HandAssumption DEF SessionInit, SessionShape, InitialHandNo, Hands
<1> QED
  BY <1>1, <1>2 DEF SessionInit, SessionInv, SessionShape, HandNoAgrees, ArchivedOnce, OneTrigger,
                    PlayedHandHasSuccessor, InitialHandNo, Hands

\* An action ends its hand at most once, and finds no trigger outstanding.
LEMMA ApplyStep ==
  ASSUME SessionInv, Apply
  PROVE  SessionInv'
<1>1. /\ ts.stage # "HAND_OVER"
      /\ IsTable(ts') /\ ts'.handNo = ts.handNo
  BY PlayerMoveTurn DEF Apply, SessionInv, SessionShape
<1>2. toSchedule = 0 /\ timers = 0 /\ toFinish = 0
  BY <1>1 DEF SessionInv, SessionShape, OneTrigger
<1>3. handNo \in Hands /\ history \in [Hands -> Nat] /\ history[handNo] = 0
  BY <1>1 DEF SessionInv, SessionShape, ArchivedOnce, Hands
<1>4. CASE ts'.stage = "HAND_OVER"
  <2>1. /\ history' = [history EXCEPT ![handNo] = history[handNo] + 1]
        /\ toSchedule' = toSchedule + 1
        /\ UNCHANGED <<handNo, lobbyStatus, timers, toFinish, faults>>
    BY <1>4 DEF Apply, Archive
  <2>2. SessionShape' /\ HandNoAgrees'
    BY <1>1, <2>1, <1>3 DEF SessionInv, SessionShape, HandNoAgrees
  <2>3. ArchivedOnce'
    BY <1>3, <1>4, <2>1 DEF SessionInv, ArchivedOnce, Hands
  <2>4. OneTrigger' /\ PlayedHandHasSuccessor'
    BY <1>2, <1>4, <2>1 DEF OneTrigger, PlayedHandHasSuccessor
  <2> QED
    BY <2>2, <2>3, <2>4 DEF SessionInv
<1>5. CASE ts'.stage # "HAND_OVER"
  <2>1. UNCHANGED <<history, toSchedule, handNo, lobbyStatus, timers, toFinish, faults>>
    BY <1>5 DEF Apply, Archive
  <2> QED
    BY <1>1, <1>2, <1>3, <1>5, <2>1 DEF SessionInv, SessionShape, HandNoAgrees, ArchivedOnce,
       OneTrigger, PlayedHandHasSuccessor, Hands
<1> QED
  BY <1>4, <1>5

\* The timer deals a hand no history row exists for, or hands over to finishGame.
LEMMA TimerStep ==
  ASSUME SessionInv, TimerFires
  PROVE  SessionInv'
<1>1. ts.stage = "HAND_OVER" /\ toSchedule = 0 /\ timers = 1 /\ toFinish = 0
  BY DEF TimerFires, SessionInv, SessionShape, OneTrigger
<1>2. timers' = 0 /\ UNCHANGED <<history, lobbyStatus, toSchedule, faults>>
  BY <1>1 DEF TimerFires
<1>3. CASE DealNext /\ UNCHANGED toFinish
  <2>1. IsTable(ts') /\ ts'.handNo = ts.handNo + 1 /\ ts.handNo < MaxHands
    BY <1>3, NextHandTurn DEF DealNext, NextHand, SessionInv, SessionShape
  <2>2. handNo \in Hands /\ handNo' = handNo + 1 /\ handNo' \in Hands /\ handNo' = ts'.handNo
    BY <1>3, <2>1, HandAssumption DEF DealNext, SessionInv, SessionShape, HandNoAgrees, Hands
  <2>3. SessionShape' /\ HandNoAgrees' /\ OneTrigger'
    BY <1>1, <1>2, <1>3, <2>1, <2>2 DEF SessionInv, SessionShape, HandNoAgrees, OneTrigger
  <2>4. ArchivedOnce' /\ history'[handNo'] # 1
    BY <1>2, <2>2 DEF SessionInv, SessionShape, ArchivedOnce, Hands
  <2> QED
    BY <2>3, <2>4 DEF SessionInv, PlayedHandHasSuccessor
<1>4. CASE toFinish' = toFinish + 1 /\ UNCHANGED <<ts, settled, handNo>>
  BY <1>1, <1>2, <1>4 DEF SessionInv, SessionShape, IsTable, HandNoAgrees, ArchivedOnce, OneTrigger,
     PlayedHandHasSuccessor
<1> QED
  BY <1>1, <1>3, <1>4 DEF TimerFires

\* The steps that only pass a trigger on, or lose it to a fault.
LEMMA TriggerStep ==
  ASSUME SessionInv,
         ScheduleNextHand \/ FinishGame \/ NextHandFails \/ FinishFails \/ Crash
         \/ UNCHANGED sessionVars
  PROVE  SessionInv'
<1> USE DEF SessionInv, SessionShape, IsTable, HandNoAgrees, ArchivedOnce, OneTrigger,
            PlayedHandHasSuccessor
<1>1. CASE ScheduleNextHand
  BY <1>1 DEF ScheduleNextHand
<1>2. CASE FinishGame
  BY <1>2 DEF FinishGame
<1>3. CASE NextHandFails
  BY <1>3 DEF NextHandFails
<1>4. CASE FinishFails
  BY <1>4 DEF FinishFails
<1>5. CASE Crash
  BY <1>5 DEF Crash
<1>6. CASE UNCHANGED sessionVars
  BY <1>6 DEF sessionVars
<1> QED
  BY <1>1, <1>2, <1>3, <1>4, <1>5, <1>6

\* ... and always.
LEMMA SessionInvHolds == SessionSpec => []SessionInv
<1>1. SessionInv /\ [SessionNext]_sessionVars => SessionInv'
  BY ApplyStep, TimerStep, TriggerStep DEF SessionNext
<1> QED
  BY <1>1, SessionInvInit, PTL DEF SessionSpec

(***************************************************************************)
(* The hand_no column always is the hand number inside the stored table.   *)
(***************************************************************************)
THEOREM HandNoHolds == SessionSpec => []HandNoAgrees
BY SessionInvHolds, PTL DEF SessionInv

(***************************************************************************)
(* No hand is archived twice, and none while it is still played.           *)
(***************************************************************************)
THEOREM ArchivedOnceHolds == SessionSpec => []ArchivedOnce
BY SessionInvHolds, PTL DEF SessionInv

(***************************************************************************)
(* At most one next-hand trigger is outstanding, whatever fails.           *)
(***************************************************************************)
THEOREM OneTriggerHolds == SessionSpec => []OneTrigger
BY SessionInvHolds, PTL DEF SessionInv

(***************************************************************************)
(* Without faults, a hand ended by a move always has its successor on the  *)
(* way or the table finished.                                              *)
(***************************************************************************)
THEOREM SuccessorHolds == SessionSpec => []PlayedHandHasSuccessor
BY SessionInvHolds, PTL DEF SessionInv

=============================================================================
