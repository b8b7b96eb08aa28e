----------------------------- MODULE LobbyProofs -----------------------------
(***************************************************************************)
(* Proofs about the lobby service, for any number of users, lobbies,       *)
(* seats and concurrent requests.                                          *)
(***************************************************************************)
EXTENDS MCLobby, BasicFacts, TLAPS

\* There is a seat 0: Create's seat exists.
LEMMA SeatZero == 0 \in SeatIndexes /\ SeatIndexes \subseteq AskedIndexes
BY LobbyAssumption DEF SeatIndexes, AskedIndexes

\* The successor host is a seated user.
LEMMA FirstUserSeated ==
  ASSUME NEW seats \in [SeatIndexes -> Users \cup {Nobody}], Taken(seats) # {}
  PROVE  FirstUser(seats) \in Users /\ FirstUser(seats) \in Seated(seats)
<1>1. Taken(seats) \in SUBSET Nat
  BY LobbyAssumption DEF Taken, SeatIndexes
<1>2. \E i \in Taken(seats) : \A j \in Taken(seats) : i <= j
  BY <1>1, LeastNatural
<1> DEFINE i == CHOOSE i \in Taken(seats) : \A j \in Taken(seats) : i <= j
<1>3. i \in Taken(seats)
  BY <1>2
<1> QED
  BY <1>3 DEF FirstUser, Taken, Seated

RequestTable == [Procs -> Requests \cup {Idle}]

\* A request that is not idle is a full record.
LEMMA Running ==
  ASSUME TypeOK, NEW p \in Procs, NEW pc, At(p, pc), pc # "idle"
  PROVE  req[p] \in Requests
BY DEF TypeOK, At, Idle

\* Changing fields of a request within their types.
LEMMA PcStep ==
  ASSUME NEW r \in Requests, NEW pc \in PCs
  PROVE  [r EXCEPT !.pc = pc] \in Requests
BY DEF Requests

\* A request that has read the row is a request, ...
LEMMA RowStep ==
  ASSUME NEW r \in Requests, NEW pc \in PCs, NEW st \in Statuses, NEW hs \in Users \cup {Nobody}
  PROVE  [r EXCEPT !.st = st, !.hs = hs, !.pc = pc] \in Requests
BY DEF Requests

\* ... one that has read the seats, ...
LEMMA SeatsStep ==
  ASSUME NEW r \in Requests, NEW pc \in PCs, NEW st \in Statuses, NEW hs \in Users \cup {Nobody},
         NEW players \in SUBSET Users
  PROVE  [r EXCEPT !.pc = pc, !.st = st, !.hs = hs, !.players = players] \in Requests
BY DEF Requests

\* ... and one that has chosen a host.
LEMMA HostStep ==
  ASSUME NEW r \in Requests, NEW pc \in PCs, NEW hs \in Users \cup {Nobody}
  PROVE  [r EXCEPT !.hs = hs, !.pc = pc] \in Requests
BY DEF Requests

\* A request is replaced, ends, or goes on to its next statement.
LEMMA ReplaceStep ==
  ASSUME req \in RequestTable, NEW p \in Procs, NEW r \in Requests \cup {Idle}
  PROVE  [req EXCEPT ![p] = r] \in RequestTable
BY DEF RequestTable

\* A request that returns leaves the table of requests in order, ...
LEMMA ReturnStep ==
  ASSUME req \in RequestTable, NEW p \in Procs, Return(p)
  PROVE  req' \in RequestTable
BY ReplaceStep DEF Return

\* ... and so does one that goes on to its next statement.
LEMMA GotoStep ==
  ASSUME req \in RequestTable, NEW p \in Procs, req[p] \in Requests, NEW pc \in PCs, Goto(p, pc)
  PROVE  req' \in RequestTable
<1>1. [req[p] EXCEPT !.pc = pc] \in Requests
  BY PcStep
<1> QED
  BY <1>1, ReplaceStep DEF Goto

-----------------------------------------------------------------------------
(***************************************************************************)
(* TypeOK is inductive: whatever the requests in flight, every statement   *)
(* leaves well-formed rows and requests.                                   *)
(***************************************************************************)
THEOREM TypeCorrect == Spec => []TypeOK
<1>1. Init => TypeOK
  BY LobbyAssumption DEF Init, TypeOK, Statuses, EmptySeats, NoGame, Idle
<1>2. TypeOK /\ [Next]_vars => TypeOK'
  <2> SUFFICES ASSUME TypeOK, [Next]_vars PROVE TypeOK'
    OBVIOUS
  <2>0. req \in RequestTable
    BY DEF TypeOK, RequestTable
  <2>1. ASSUME NEW u \in Users, NEW l \in Lobbies, Create(u, l) PROVE TypeOK'
    BY <2>1, SeatZero DEF Create, TypeOK, Statuses
  <2>2. ASSUME NEW p \in Procs, NEW op \in Ops, NEW u \in Users, NEW l \in Lobbies,
               NEW i \in AskedIndexes, Begin(p, op, u, l, i)
        PROVE  TypeOK'
    <3>1. req' \in RequestTable
      BY <2>0, <2>2, ReplaceStep DEF Begin, Requests, PCs, Statuses
    <3> QED
      BY <2>2, <3>1 DEF Begin, TypeOK, RequestTable
  <2>3. ASSUME NEW p \in Procs, Statement(p) PROVE TypeOK'
    <3>1. CASE GetRow(p)
      <4>1. req[p] \in Requests
        BY <3>1, Running DEF GetRow
      <4>2. status[req[p].lobby] \in Statuses /\ host[req[p].lobby] \in Users \cup {Nobody}
        BY <4>1 DEF Requests, TypeOK
      <4>3. req' \in RequestTable
        <5> DEFINE next == [req[p] EXCEPT !.st = status[req[p].lobby],
                                          !.hs = host[req[p].lobby],
                                          !.pc = "seats"]
        <5>1. next \in Requests
          BY <4>1, <4>2, RowStep DEF PCs
        <5>2. req' = [req EXCEPT ![p] = next]
          BY <3>1 DEF GetRow
        <5> HIDE DEF next
        <5> QED
          BY <2>0, <5>1, <5>2, ReplaceStep
      <4> QED
        BY <3>1, <4>3 DEF GetRow, TypeOK, RequestTable
    <3>2. CASE GetSeats(p)
      <4> DEFINE r    == req[p]
                 next == AfterGet(r, seat[r.lobby])
                 hs   == IF r.op = "leave" THEN r.hs ELSE Nobody
                 pl   == IF r.op = "start" THEN Seated(seat[r.lobby]) ELSE {}
      <4>1. r \in Requests
        BY <3>2, Running DEF GetSeats
      <4>2. next \in PCs
        BY <4>1 DEF AfterGet, LeaveFrom, Requests, Ops, PCs
      <4>3. hs \in Users \cup {Nobody} /\ pl \in SUBSET Users
        BY <4>1 DEF Requests, TypeOK, Seated
      <4>4. [r EXCEPT !.pc = next, !.st = "none", !.hs = hs, !.players = pl] \in Requests
        BY <4>1, <4>2, <4>3, SeatsStep DEF Statuses
      <4>5. req' \in RequestTable
        <5>1. CASE next = "idle"
          BY <2>0, <3>2, <5>1, ReturnStep DEF GetSeats
        <5>2. CASE next # "idle"
          <6> DEFINE s == [r EXCEPT !.pc = next, !.st = "none", !.hs = hs, !.players = pl]
          <6>1. req' = [req EXCEPT ![p] = s]
            BY <3>2, <5>2 DEF GetSeats
          <6>2. s \in Requests
            BY <4>4
          <6> HIDE DEF s
          <6> QED
            BY <2>0, <6>1, <6>2, ReplaceStep
        <5> QED
          BY <5>1, <5>2
      <4> QED
        BY <3>2, <4>5 DEF GetSeats, TypeOK, RequestTable
    <3>3. CASE ClaimSeat(p)
      <4>1. req[p] \in Requests
        BY <3>3, Running DEF ClaimSeat
      <4>2. req' \in RequestTable
        BY <2>0, <3>3, ReturnStep DEF ClaimSeat
      <4>3. seat' \in [Lobbies -> [SeatIndexes -> Users \cup {Nobody}]]
        BY <3>3, <4>1 DEF ClaimSeat, TypeOK, Requests
      <4> QED
        BY <3>3, <4>2, <4>3 DEF ClaimSeat, TypeOK, RequestTable
    <3>4. CASE CommitStart(p)
      <4>1. req[p] \in Requests
        BY <3>4, Running DEF CommitStart
      <4>2. req' \in RequestTable
        BY <2>0, <3>4, ReturnStep DEF CommitStart
      <4>3. status' \in [Lobbies -> Statuses]
        BY <3>4, <4>1 DEF CommitStart, TypeOK, Requests, Statuses
      <4>4. game' \in [Lobbies -> [started : BOOLEAN, players : SUBSET Users, over : BOOLEAN]]
        <5> DEFINE G == [started : BOOLEAN, players : SUBSET Users, over : BOOLEAN]
                   g == [started |-> TRUE, players |-> req[p].players, over |-> FALSE]
        <5>1. g \in G /\ game \in [Lobbies -> G]
          BY <4>1 DEF Requests, TypeOK
        <5>2. game' = game \/ game' = [game EXCEPT ![req[p].lobby] = g]
          BY <3>4 DEF CommitStart
        <5> HIDE DEF g, G
        <5>3. game' \in [Lobbies -> G]
          BY <5>1, <5>2
        <5> QED
          BY <5>3 DEF G
      <4> QED
        BY <3>4, <4>2, <4>3, <4>4 DEF CommitStart, TypeOK, RequestTable
    <3>5. CASE Resign(p)
      <4>1. req[p] \in Requests
        BY <3>5, Running DEF Resign
      <4>2. req' \in RequestTable
        BY <2>0, <3>5, <4>1, GotoStep DEF Resign, PCs
      <4>3. game' \in [Lobbies -> [started : BOOLEAN, players : SUBSET Users, over : BOOLEAN]]
        <5> DEFINE G == [started : BOOLEAN, players : SUBSET Users, over : BOOLEAN]
                   l == req[p].lobby
        <5>1. l \in Lobbies /\ game \in [Lobbies -> G]
          BY <4>1 DEF Requests, TypeOK
        <5>2. CASE UNCHANGED game
          BY <5>1, <5>2
        <5>3. ASSUME NEW over \in BOOLEAN,
                     game' = [game EXCEPT ![l] = [@ EXCEPT !.players = game[l].players \ {req[p].user},
                                                           !.over = over]]
              PROVE  game' \in [Lobbies -> G]
          BY <5>1, <5>3
        <5> QED
          BY <3>5, <5>2, <5>3 DEF Resign
      <4> QED
        BY <3>5, <4>2, <4>3 DEF Resign, TypeOK, RequestTable
    <3>6. CASE GameOver(p)
      <4>1. req[p] \in Requests
        BY <3>6, Running DEF GameOver
      <4>2. req' \in RequestTable
        BY <2>0, <3>6, <4>1, GotoStep DEF GameOver, PCs
      <4> QED
        BY <3>6, <4>1, <4>2 DEF GameOver, TypeOK, RequestTable, Requests, Statuses
    <3>7. CASE LeaveSeat(p)
      <4>1. req[p] \in Requests
        BY <3>7, Running DEF LeaveSeat
      <4>2. req' \in RequestTable
        BY <2>0, <3>7, <4>1, GotoStep, ReturnStep DEF LeaveSeat, PCs
      <4>3. seat' \in [Lobbies -> [SeatIndexes -> Users \cup {Nobody}]]
        BY <3>7, <4>1 DEF LeaveSeat, TypeOK, Requests
      <4> QED
        BY <3>7, <4>2, <4>3 DEF LeaveSeat, TypeOK, RequestTable
    <3>8. CASE CountRemaining(p)
      <4>1. req[p] \in Requests
        BY <3>8, Running DEF CountRemaining
      <4>2. \/ Goto(p, "empty") \/ Goto(p, "fresh") \/ Return(p)
        BY <3>8 DEF CountRemaining
      <4>3. req' \in RequestTable
        BY <2>0, <4>1, <4>2, GotoStep, ReturnStep DEF PCs
      <4> QED
        BY <3>8, <4>3 DEF CountRemaining, TypeOK, RequestTable
    <3>9. CASE FinishEmpty(p)
      <4>1. req[p] \in Requests
        BY <3>9, Running DEF FinishEmpty
      <4>2. req' \in RequestTable
        BY <2>0, <3>9, ReturnStep DEF FinishEmpty
      <4> QED
        BY <3>9, <4>1, <4>2 DEF FinishEmpty, TypeOK, RequestTable, Requests, Statuses
    <3>10. CASE GetFresh(p)
      <4> DEFINE r == req[p]
                 u == FirstUser(seat[r.lobby])
      <4>1. r \in Requests
        BY <3>10, Running DEF GetFresh
      <4>2. CASE Taken(seat[r.lobby]) = {}
        <5>1. req' \in RequestTable
          BY <2>0, <3>10, <4>2, ReturnStep DEF GetFresh
        <5> QED
          BY <3>10, <5>1 DEF GetFresh, TypeOK, RequestTable
      <4>3. CASE Taken(seat[r.lobby]) # {}
        <5>1. u \in Users \cup {Nobody}
          BY <4>1, <4>3, FirstUserSeated DEF TypeOK, Requests
        <5>2. [r EXCEPT !.hs = u, !.pc = "setHost"] \in Requests
          BY <4>1, <5>1, HostStep DEF PCs
        <5>3. req' \in RequestTable
          <6> DEFINE s == [r EXCEPT !.hs = u, !.pc = "setHost"]
          <6>1. req' = [req EXCEPT ![p] = s]
            BY <3>10, <4>3 DEF GetFresh
          <6>2. s \in Requests
            BY <5>2
          <6> HIDE DEF s
          <6> QED
            BY <2>0, <6>1, <6>2, ReplaceStep
        <5> QED
          BY <3>10, <5>3 DEF GetFresh, TypeOK, RequestTable
      <4> QED
        BY <4>2, <4>3
    <3>11. CASE SetHost(p)
      <4>1. req[p] \in Requests
        BY <3>11, Running DEF SetHost
      <4>2. req' \in RequestTable
        BY <2>0, <3>11, ReturnStep DEF SetHost
      <4> QED
        BY <3>11, <4>1, <4>2 DEF SetHost, TypeOK, RequestTable, Requests
    <3> QED
      BY <2>3, <3>1, <3>2, <3>3, <3>4, <3>5, <3>6, <3>7, <3>8, <3>9, <3>10, <3>11 DEF Statement
  <2>4. ASSUME NEW l \in Lobbies, GameEnds(l) \/ Finish(l) \/ FinishFails(l) PROVE TypeOK'
    <3>1. CASE GameEnds(l)
      BY <3>1 DEF GameEnds, TypeOK
    <3>2. CASE Finish(l)
      BY <3>2 DEF Finish, TypeOK, Statuses
    <3>3. CASE FinishFails(l)
      BY <3>3, LobbyAssumption DEF FinishFails, TypeOK
    <3> QED
      BY <2>4, <3>1, <3>2, <3>3
  <2>5. ASSUME NEW p \in Procs, Cancelled(p) PROVE TypeOK'
    <3>1. req' \in RequestTable
      BY <2>0, <2>5, ReturnStep DEF Cancelled
    <3> QED
      BY <2>5, <3>1, LobbyAssumption DEF Cancelled, TypeOK, RequestTable
  <2>6. CASE UNCHANGED vars
    BY <2>6 DEF vars, TypeOK
  <2> QED
    BY <2>1, <2>2, <2>3, <2>4, <2>5, <2>6 DEF Next
<1> QED
  BY <1>1, <1>2, PTL DEF Spec

-----------------------------------------------------------------------------
\* The steps that write game_seats, and the steps that write a status or a state row.
LEMMA SeatWriters ==
  [Next]_vars => \/ UNCHANGED seat
                 \/ \E u \in Users, l \in Lobbies : Create(u, l)
                 \/ \E p \in Procs : ClaimSeat(p) \/ LeaveSeat(p)
BY DEF Next, vars, Begin, Statement, GetRow, GetSeats, CommitStart, Resign, GameOver,
       CountRemaining, FinishEmpty, GetFresh, SetHost, GameEnds, Finish, FinishFails, Cancelled

\* The steps that write a lobby row or a game row.
LEMMA RowWriters ==
  [Next]_vars => \/ UNCHANGED <<status, game>>
                 \/ \E u \in Users, l \in Lobbies : Create(u, l)
                 \/ \E p \in Procs : CommitStart(p) \/ Resign(p) \/ GameOver(p) \/ FinishEmpty(p)
                 \/ \E l \in Lobbies : GameEnds(l) \/ Finish(l)
BY DEF Next, vars, Begin, Statement, GetRow, GetSeats, ClaimSeat, LeaveSeat,
       CountRemaining, GetFresh, SetHost, FinishFails, Cancelled

\* A resignation takes the user out of the running game and starts nothing.
LEMMA ResignKeepsStarted ==
  ASSUME TypeOK, NEW p \in Procs, Resign(p)
  PROVE  \A l \in Lobbies : /\ game'[l].started = game[l].started
                            /\ game'[l].players \subseteq game[l].players
<1> DEFINE G == [started : BOOLEAN, players : SUBSET Users, over : BOOLEAN]
           k == req[p].lobby
           left == game[k].players \ {req[p].user}
<1>1. game \in [Lobbies -> G] /\ k \in Lobbies
  BY Running DEF TypeOK, Resign, Requests
<1>2. \/ UNCHANGED game
      \/ \E over \in BOOLEAN :
           game' = [game EXCEPT ![k] = [@ EXCEPT !.players = left, !.over = over]]
  BY DEF Resign
<1>3. CASE UNCHANGED game
  BY <1>3
<1>4. ASSUME NEW over \in BOOLEAN,
             game' = [game EXCEPT ![k] = [@ EXCEPT !.players = left, !.over = over]]
      PROVE  \A l \in Lobbies : /\ game'[l].started = game[l].started
                                /\ game'[l].players \subseteq game[l].players
  <2> DEFINE g == [game[k] EXCEPT !.players = left, !.over = over]
  <2>1. g.started = game[k].started /\ g.players = left
    BY <1>1
  <2>2. game' = [game EXCEPT ![k] = g]
    BY <1>4
  <2> HIDE DEF g
  <2>3. game'[k] = g /\ \A l \in Lobbies : l # k => game'[l] = game[l]
    BY <1>1, <2>2
  <2> QED
    BY <2>1, <2>3
<1> QED
  BY <1>2, <1>3, <1>4

(***************************************************************************)
(* One seat per user on the whole platform, whatever requests race: a join *)
(* decides on a snapshot but the claim is checked against the table.       *)
(***************************************************************************)
THEOREM OneSeatHolds == Spec => []OneSeatPerUser
<1>1. Init => OneSeatPerUser
  BY DEF Init, OneSeatPerUser, EmptySeats
<1>2. TypeOK /\ OneSeatPerUser /\ [Next]_vars => OneSeatPerUser'
  <2> SUFFICES ASSUME TypeOK, OneSeatPerUser, [Next]_vars PROVE OneSeatPerUser'
    OBVIOUS
  <2>0. seat \in [Lobbies -> [SeatIndexes -> Users \cup {Nobody}]]
    BY DEF TypeOK
  <2>1. CASE UNCHANGED seat
    BY <2>1 DEF OneSeatPerUser
  \* A new active seat goes to a user who has none.
  <2>2. ASSUME NEW l \in Lobbies, NEW i \in AskedIndexes, NEW u \in Users, ~HasSeat(u),
               seat' = [seat EXCEPT ![l][i] = u]
        PROVE  OneSeatPerUser'
    <3>1. \A k \in Lobbies, j \in SeatIndexes : seat[k][j] # u
      BY <2>0, <2>2, LobbyAssumption DEF HasSeat, Seated
    <3>2. \A k \in Lobbies, j \in SeatIndexes :
            seat'[k][j] = IF k = l /\ j = i THEN u ELSE seat[k][j]
      BY <2>0, <2>2
    <3> QED
      BY <3>1, <3>2 DEF OneSeatPerUser
  <2>3. ASSUME NEW u \in Users, NEW l \in Lobbies, Create(u, l) PROVE OneSeatPerUser'
    BY <2>2, <2>3, SeatZero DEF Create
  <2>4. ASSUME NEW p \in Procs, ClaimSeat(p) PROVE OneSeatPerUser'
    <3>1. req[p] \in Requests
      BY <2>4, Running DEF ClaimSeat
    <3>2. /\ req[p].lobby \in Lobbies
          /\ req[p].user \in Users
          /\ req[p].index \in AskedIndexes
      BY <3>1 DEF Requests
    <3> QED
      BY <2>1, <2>2, <2>4, <3>2 DEF ClaimSeat
  <2>5. ASSUME NEW p \in Procs, LeaveSeat(p) PROVE OneSeatPerUser'
    <3>1. req[p] \in Requests
      BY <2>5, Running DEF LeaveSeat
    <3>2. \A k \in Lobbies, j \in SeatIndexes : seat'[k][j] = seat[k][j] \/ seat'[k][j] = Nobody
      BY <2>0, <2>5, <3>1 DEF LeaveSeat, Requests
    <3> QED
      BY <3>2 DEF OneSeatPerUser
  <2> QED
    BY <2>1, <2>3, <2>4, <2>5, SeatWriters
<1> QED
  BY <1>1, <1>2, TypeCorrect, PTL DEF Spec

(***************************************************************************)
(* The lobby row and the state row agree, although Leave, Finish and Start *)
(* update the status without looking at it.                                *)
(***************************************************************************)
THEOREM StateRowHolds == Spec => []StateRowAgrees
<1>1. Init => StateRowAgrees
  BY DEF Init, StateRowAgrees, NoGame
<1>2. TypeOK /\ StateRowAgrees /\ [Next]_vars => StateRowAgrees'
  <2> SUFFICES ASSUME TypeOK, StateRowAgrees, [Next]_vars PROVE StateRowAgrees'
    OBVIOUS
  <2>0. /\ status \in [Lobbies -> Statuses]
        /\ game \in [Lobbies -> [started : BOOLEAN, players : SUBSET Users, over : BOOLEAN]]
    BY DEF TypeOK
  <2>1. CASE UNCHANGED <<status, game>>
    BY <2>1 DEF StateRowAgrees
  <2>2. ASSUME NEW u \in Users, NEW l \in Lobbies, Create(u, l) PROVE StateRowAgrees'
    BY <2>0, <2>2 DEF Create, StateRowAgrees
  <2>3. ASSUME NEW p \in Procs, CommitStart(p) PROVE StateRowAgrees'
    <3> DEFINE l == req[p].lobby
               g == [started |-> TRUE, players |-> req[p].players, over |-> FALSE]
    <3>1. CASE game[l].started
      BY <2>3, <3>1 DEF CommitStart, StateRowAgrees
    <3>2. CASE ~game[l].started
      <4>1. status' = [status EXCEPT ![l] = "in_progress"] /\ game' = [game EXCEPT ![l] = g]
        BY <2>3, <3>2 DEF CommitStart
      <4>2. g.started
        OBVIOUS
      <4> HIDE DEF g
      <4> QED
        BY <2>0, <4>1, <4>2 DEF StateRowAgrees
    <3> QED
      BY <3>1, <3>2
  \* A status set to finished claims nothing, and started is left as it is.
  <2>4. ASSUME \A l \in Lobbies : /\ status'[l] \in {status[l], "finished"}
                                  /\ game'[l].started = game[l].started
        PROVE  StateRowAgrees'
    BY <2>4 DEF StateRowAgrees
  <2>5. ASSUME NEW p \in Procs, Resign(p) PROVE StateRowAgrees'
    <3>1. \A l \in Lobbies : game'[l].started = game[l].started
      BY <2>5, ResignKeepsStarted
    <3> QED
      BY <2>4, <2>5, <3>1 DEF Resign
  <2>6. ASSUME NEW p \in Procs, GameOver(p) \/ FinishEmpty(p) PROVE StateRowAgrees'
    BY <2>0, <2>4, <2>6 DEF GameOver, FinishEmpty
  <2>7. ASSUME NEW l \in Lobbies, GameEnds(l) \/ Finish(l) PROVE StateRowAgrees'
    BY <2>0, <2>4, <2>7 DEF GameEnds, Finish
  <2> QED
    BY <2>1, <2>2, <2>3, <2>5, <2>6, <2>7, RowWriters
<1> QED
  BY <1>1, <1>2, TypeCorrect, PTL DEF Spec

(***************************************************************************)
(* A game is started once, however many Start requests race.               *)
(***************************************************************************)
THEOREM StartedOnceHolds == Spec => StartedOnce
<1> DEFINE Kept == \A l \in Lobbies : game[l].started =>
                     game'[l].started /\ game'[l].players \subseteq game[l].players
<1>1. TypeOK /\ [Next]_vars => [Kept]_vars
  <2> SUFFICES ASSUME TypeOK, [Next]_vars PROVE Kept
    OBVIOUS
  <2>0. game \in [Lobbies -> [started : BOOLEAN, players : SUBSET Users, over : BOOLEAN]]
    BY DEF TypeOK
  <2>1. CASE UNCHANGED game
    BY <2>1
  <2>2. ASSUME NEW p \in Procs, CommitStart(p) PROVE Kept
    <3> DEFINE g == [started |-> TRUE, players |-> req[p].players, over |-> FALSE]
    <3>1. \/ game' = game
          \/ ~game[req[p].lobby].started /\ game' = [game EXCEPT ![req[p].lobby] = g]
      BY <2>2 DEF CommitStart
    <3> HIDE DEF g
    <3> QED
      BY <2>0, <3>1
  <2>3. ASSUME NEW p \in Procs, Resign(p) PROVE Kept
    BY <2>3, ResignKeepsStarted
  <2>4. ASSUME NEW l \in Lobbies, GameEnds(l) PROVE Kept
    BY <2>0, <2>4 DEF GameEnds
  <2> QED
    BY <2>1, <2>2, <2>3, <2>4, RowWriters DEF Create, GameOver, FinishEmpty, Finish
<1> QED
  BY <1>1, TypeCorrect, PTL DEF Spec, StartedOnce

-----------------------------------------------------------------------------
(***************************************************************************)
(* Requests in turn.  While no two requests have overlapped and none was   *)
(* cut short, what a request has read is still true when it writes, and a  *)
(* promise is broken only by the request that is about to mend it.         *)
(***************************************************************************)
InTurn == ~overlapped /\ faults = 0

\* A game that is being played.
Playing(l) == game[l].started /\ ~game[l].over

\* What a lone request knows, at each of its statements.
Knows(r) ==
  /\ r.pc # "idle" /\ status[r.lobby] # "none"
  /\ r.pc = "seats" => /\ r.st \in {"waiting", "in_progress", "finished"}
                       /\ r.st = "waiting" => status[r.lobby] = "waiting"
                       /\ r.st = "finished" => status[r.lobby] = "finished"
  /\ r.pc \in {"seats", "resign", "gameOver", "leaveSeat", "count"} => r.hs = host[r.lobby]
  /\ r.pc = "claim" => status[r.lobby] = "waiting"
  /\ r.pc = "commit" => /\ status[r.lobby] = "waiting" /\ Taken(seat[r.lobby]) # {}
                        /\ r.players = Seated(seat[r.lobby])
  /\ r.pc = "gameOver" => game[r.lobby].over
  /\ r.pc = "leaveSeat" => ~(Playing(r.lobby) /\ r.user \in game[r.lobby].players)
  /\ r.pc = "empty" => Taken(seat[r.lobby]) = {}
  /\ r.pc = "setHost" => r.hs \in Seated(seat[r.lobby])

\* A request is about to finish an emptied lobby, or to name another host.
Emptying(r) == r.pc \in {"count", "empty"}
Replacing(r) == r.pc \in {"fresh", "setHost"} \/ (r.pc = "count" /\ r.hs = r.user)

EmptyOK(l) == Taken(seat[l]) = {} => status[l] \in {"none", "finished"}
HostOK(l)  == status[l] = "waiting" /\ Taken(seat[l]) # {} => host[l] \in Seated(seat[l])
GameOK(l)  == /\ Playing(l) => game[l].players \subseteq Seated(seat[l])
              /\ l \in finishing => game[l].started /\ game[l].over
              /\ status[l] = "finished" /\ Playing(l) => game[l].players = {}

On(p, l) == req[p] # Idle /\ req[p].lobby = l

Lone == \A p, q \in Procs : p # q => req[p] = Idle \/ req[q] = Idle
Known == \A p \in Procs : req[p] # Idle => Knows(req[p])
Kept == \A l \in Lobbies :
  /\ EmptyOK(l) \/ \E p \in Procs : On(p, l) /\ Emptying(req[p])
  /\ HostOK(l) \/ \E p \in Procs : On(p, l) /\ Replacing(req[p])
  /\ GameOK(l)

Base == TypeOK /\ StateRowAgrees /\ Lone /\ Known /\ Kept

\* A lobby the step does not touch.
Same(l) == /\ status'[l] = status[l] /\ host'[l] = host[l]
           /\ seat'[l] = seat[l] /\ game'[l] = game[l]

\* Somebody is seated exactly when a seat is taken.
LEMMA SeatedTaken ==
  ASSUME NEW seats
  PROVE  Taken(seats) = {} <=> Seated(seats) = {}
BY DEF Taken, Seated

\* A lobby that stays the same keeps its promises.
LEMMA SameKeeps ==
  ASSUME NEW l, Same(l), l \in finishing' => l \in finishing
  PROVE  /\ EmptyOK(l) => EmptyOK(l)'
         /\ HostOK(l) => HostOK(l)'
         /\ GameOK(l) => GameOK(l)'
BY DEF Same, EmptyOK, HostOK, GameOK, Playing

\* The request under way, and the lobbies it is not about.
LEMMA Alone ==
  ASSUME Base, NEW p \in Procs, req[p] # Idle
  PROVE  /\ req[p] \in Requests /\ req[p].lobby \in Lobbies /\ Knows(req[p])
         /\ \A q \in Procs \ {p} : req[q] = Idle
         /\ \A l \in Lobbies : GameOK(l)
         /\ \A l \in Lobbies : l # req[p].lobby \/ ~Emptying(req[p]) => EmptyOK(l)
         /\ \A l \in Lobbies : l # req[p].lobby \/ ~Replacing(req[p]) => HostOK(l)
<1>1. req[p] \in Requests /\ req[p].lobby \in Lobbies
  BY DEF Base, TypeOK, Requests
<1>2. \A q \in Procs \ {p} : req[q] = Idle
  BY DEF Base, Lone
<1> QED
  BY <1>1, <1>2 DEF Base, Known, Kept, On

\* A step of the lone request: nothing but its own lobby is touched.
LEMMA LoneStep ==
  ASSUME Base, NEW p \in Procs, req[p] # Idle, NEW k, k = req[p].lobby,
         NEW r, req' = [req EXCEPT ![p] = r],
         r # Idle => r.lobby = k,
         r # Idle => Knows(r)',
         \A l \in Lobbies \ {k} : Same(l), finishing' = finishing,
         EmptyOK(k)' \/ (r # Idle /\ Emptying(r)),
         HostOK(k)' \/ (r # Idle /\ Replacing(r)),
         GameOK(k)'
  PROVE  Known' /\ Kept'
<1>1. req'[p] = r /\ \A q \in Procs \ {p} : req'[q] = Idle
  BY Alone DEF Base, TypeOK
<1>2. Known'
  <2>1. ASSUME NEW q \in Procs, req'[q] # Idle PROVE Knows(req[q])'
    <3>1. q = p /\ r # Idle /\ req'[q] = r
      BY <1>1, <2>1
    <3> QED
      BY <3>1 DEF Knows, Playing
  <2> QED
    BY <2>1 DEF Known
<1>3. ASSUME NEW l \in Lobbies, l # k
      PROVE  EmptyOK(l)' /\ HostOK(l)' /\ GameOK(l)'
  BY <1>3, Alone, SameKeeps
<1>4. r # Idle /\ Emptying(r) => \E q \in Procs : (On(q, k) /\ Emptying(req[q]))'
  <2> SUFFICES ASSUME r # Idle, Emptying(r)
               PROVE  On(p, k)' /\ Emptying(req[p])'
    OBVIOUS
  <2> QED
    BY <1>1 DEF On, Emptying
<1>5. r # Idle /\ Replacing(r) => \E q \in Procs : (On(q, k) /\ Replacing(req[q]))'
  <2> SUFFICES ASSUME r # Idle, Replacing(r)
               PROVE  On(p, k)' /\ Replacing(req[p])'
    OBVIOUS
  <2> QED
    BY <1>1 DEF On, Replacing
<1>6. Kept'
  <2>1. ASSUME NEW l \in Lobbies
        PROVE  /\ EmptyOK(l)' \/ \E q \in Procs : (On(q, l) /\ Emptying(req[q]))'
               /\ HostOK(l)' \/ \E q \in Procs : (On(q, l) /\ Replacing(req[q]))'
               /\ GameOK(l)'
    BY <1>3, <1>4, <1>5
  <2> QED
    BY <2>1 DEF Kept
<1> QED
  BY <1>2, <1>6

\* Alone, a request that reads the row keeps the promises, ...
LEMMA RowInTurn ==
  ASSUME Base, NEW p \in Procs, GetRow(p)
  PROVE  Known' /\ Kept'
<1>1. PICK k : k = req[p].lobby
  OBVIOUS
<1>2. PICK r : r = [req[p] EXCEPT !.st = status[k], !.hs = host[k], !.pc = "seats"]
  OBVIOUS
<1>3. req[p] # Idle /\ ~Emptying(req[p]) /\ ~Replacing(req[p])
  BY DEF GetRow, At, Idle, Emptying, Replacing
<1>4. /\ req[p] \in Requests /\ k \in Lobbies /\ Knows(req[p])
      /\ EmptyOK(k) /\ HostOK(k) /\ GameOK(k)
  BY <1>1, <1>3, Alone
<1>5. UNCHANGED <<status, host, seat, game, finishing>> /\ req' = [req EXCEPT ![p] = r]
  BY <1>1, <1>2 DEF GetRow
<1>6. r.pc = "seats" /\ r.st = status[k] /\ r.hs = host[k] /\ r.lobby = k
  BY <1>1, <1>2, <1>4 DEF Requests
<1>7. status[k] \in Statuses \ {"none"}
  BY <1>1, <1>4 DEF Base, TypeOK, Knows
<1>8. Knows(r)'
  BY <1>5, <1>6, <1>7 DEF Knows, Statuses
<1>9. EmptyOK(k)' /\ HostOK(k)' /\ GameOK(k)' /\ \A l \in Lobbies : Same(l)
  BY <1>4, <1>5 DEF EmptyOK, HostOK, GameOK, Playing, Same
<1> QED
  BY <1>1, <1>3, <1>5, <1>6, <1>8, <1>9, LoneStep

\* ... one that reads the seats and checks what it was asked, ...
LEMMA SeatsInTurn ==
  ASSUME Base, Resigns, NEW p \in Procs, GetSeats(p)
  PROVE  Known' /\ Kept'
<1>1. PICK k : k = req[p].lobby
  OBVIOUS
<1>2. PICK next : next = AfterGet(req[p], seat[k])
  OBVIOUS
<1>3. req[p] # Idle /\ ~Emptying(req[p]) /\ ~Replacing(req[p]) /\ req[p].pc = "seats"
  BY DEF GetSeats, At, Idle, Emptying, Replacing
<1>4. /\ req[p] \in Requests /\ k \in Lobbies /\ Knows(req[p])
      /\ EmptyOK(k) /\ HostOK(k) /\ GameOK(k)
  BY <1>1, <1>3, Alone
<1>5. UNCHANGED <<status, host, seat, game, finishing>>
  BY DEF GetSeats
<1>6. EmptyOK(k)' /\ HostOK(k)' /\ GameOK(k)' /\ \A l \in Lobbies : Same(l)
  BY <1>4, <1>5 DEF EmptyOK, HostOK, GameOK, Playing, Same
<1>7. CASE next = "idle"
  <2>1. req' = [req EXCEPT ![p] = Idle]
    BY <1>1, <1>2, <1>7 DEF GetSeats, Return
  <2> QED
    BY <1>1, <1>3, <1>5, <1>6, <2>1, LoneStep
<1>8. CASE next # "idle"
  <2>1. PICK r : r = [req[p] EXCEPT !.pc = next, !.st = "none",
                                    !.hs = IF req[p].op = "leave" THEN req[p].hs ELSE Nobody,
                                    !.players = IF req[p].op = "start" THEN Seated(seat[k]) ELSE {}]
    OBVIOUS
  <2>2. req' = [req EXCEPT ![p] = r]
    BY <1>1, <1>2, <1>8, <2>1 DEF GetSeats
  <2>3. /\ r.pc = next /\ r.lobby = k /\ r.user = req[p].user
        /\ req[p].op = "leave" => r.hs = req[p].hs
        /\ req[p].op = "start" => r.players = Seated(seat[k])
    BY <1>1, <1>4, <2>1 DEF Requests
  <2>4. /\ status[k] # "none" /\ req[p].hs = host[k]
        /\ req[p].st \in {"waiting", "in_progress", "finished"}
        /\ req[p].st = "waiting" => status[k] = "waiting"
        /\ req[p].st = "finished" => status[k] = "finished"
    BY <1>1, <1>3, <1>4 DEF Knows
  <2>5. ASSUME req[p].op = "join" PROVE Knows(r)'
    <3>1. next = "claim" /\ req[p].st = "waiting"
      BY <1>2, <1>8, <2>5 DEF AfterGet, JoinAllowed
    <3> QED
      BY <1>5, <2>3, <2>4, <3>1 DEF Knows
  <2>6. ASSUME req[p].op = "start" PROVE Knows(r)'
    <3>1. next = "commit" /\ req[p].st = "waiting" /\ Cardinality(Taken(seat[k])) >= MinSeats
      BY <1>2, <1>8, <2>6 DEF AfterGet, StartAllowed
    <3>2. Taken(seat[k]) # {}
      BY <3>1, FS_EmptySet, LobbyAssumption
    <3> QED
      BY <1>5, <2>3, <2>4, <2>6, <3>1, <3>2 DEF Knows
  <2>7. ASSUME req[p].op = "leave" PROVE Knows(r)'
    <3>1. \/ next = "resign"
          \/ next = "leaveSeat" /\ req[p].st # "in_progress"
      BY <1>2, <2>7 DEF AfterGet, LeaveFrom
    <3>2. next = "leaveSeat" => ~(Playing(k) /\ r.user \in game[k].players)
      <4>1. CASE status[k] = "waiting"
        BY <1>4, <4>1 DEF Base, StateRowAgrees, Playing
      <4>2. CASE status[k] = "finished"
        BY <1>4, <4>2 DEF GameOK
      <4> QED
        BY <2>4, <3>1, <4>1, <4>2
    <3> QED
      BY <1>5, <2>3, <2>4, <2>7, <3>1, <3>2 DEF Knows, Playing
  <2>8. req[p].op \in {"join", "start", "leave"}
    BY <1>4 DEF Requests, Ops
  <2>9. Knows(r)'
    BY <2>5, <2>6, <2>7, <2>8
  <2> QED
    BY <1>1, <1>3, <1>5, <1>6, <2>2, <2>3, <2>9, LoneStep
<1> QED
  BY <1>7, <1>8

\* ... one that claims a seat, ...
LEMMA ClaimInTurn ==
  ASSUME Base, NEW p \in Procs, ClaimSeat(p)
  PROVE  Known' /\ Kept'
<1>1. PICK k : k = req[p].lobby
  OBVIOUS
<1>3. req[p] # Idle /\ ~Emptying(req[p]) /\ ~Replacing(req[p]) /\ req[p].pc = "claim"
  BY DEF ClaimSeat, At, Idle, Emptying, Replacing
<1>4. /\ req[p] \in Requests /\ k \in Lobbies /\ Knows(req[p])
      /\ EmptyOK(k) /\ HostOK(k) /\ GameOK(k)
  BY <1>1, <1>3, Alone
<1>5. UNCHANGED <<status, host, game, finishing>> /\ req' = [req EXCEPT ![p] = Idle]
  BY DEF ClaimSeat, Return
<1>6. /\ \A l \in Lobbies \ {k} : seat'[l] = seat[l]
      /\ \A i \in SeatIndexes : seat[k][i] # Nobody => seat'[k][i] = seat[k][i]
  BY <1>1, <1>4 DEF ClaimSeat, Base, TypeOK
<1>7. /\ Seated(seat[k]) \subseteq Seated(seat'[k])
      /\ Taken(seat[k]) \subseteq Taken(seat'[k])
  BY <1>6 DEF Seated, Taken
<1>8. status[k] = "waiting" /\ ~game[k].started
  BY <1>1, <1>3, <1>4 DEF Knows, Base, StateRowAgrees
<1>9. Taken(seat[k]) # {} /\ host[k] \in Seated(seat[k]) /\ k \notin finishing
  BY <1>4, <1>8 DEF EmptyOK, HostOK, GameOK
<1>10. EmptyOK(k)' /\ HostOK(k)' /\ GameOK(k)'
  BY <1>5, <1>7, <1>8, <1>9 DEF EmptyOK, HostOK, GameOK, Playing
<1>11. \A l \in Lobbies \ {k} : Same(l)
  BY <1>5, <1>6 DEF Same
<1> QED
  BY <1>1, <1>3, <1>5, <1>10, <1>11, LoneStep

\* ... one that starts the game, ...
LEMMA CommitInTurn ==
  ASSUME Base, NEW p \in Procs, CommitStart(p)
  PROVE  Known' /\ Kept'
<1>1. PICK k : k = req[p].lobby
  OBVIOUS
<1>2. PICK g : g = [started |-> TRUE, players |-> req[p].players, over |-> FALSE]
  OBVIOUS
<1>3. req[p] # Idle /\ ~Emptying(req[p]) /\ ~Replacing(req[p]) /\ req[p].pc = "commit"
  BY DEF CommitStart, At, Idle, Emptying, Replacing
<1>4. /\ req[p] \in Requests /\ k \in Lobbies /\ Knows(req[p]) /\ GameOK(k)
  BY <1>1, <1>3, Alone
<1>5. /\ status[k] = "waiting" /\ ~game[k].started /\ Taken(seat[k]) # {}
      /\ req[p].players = Seated(seat[k])
  BY <1>1, <1>3, <1>4 DEF Knows, Base, StateRowAgrees
<1>6. /\ UNCHANGED <<host, seat, finishing>> /\ req' = [req EXCEPT ![p] = Idle]
      /\ status' = [status EXCEPT ![k] = "in_progress"] /\ game' = [game EXCEPT ![k] = g]
  BY <1>1, <1>2, <1>5 DEF CommitStart, Return
<1>7. /\ status'[k] = "in_progress" /\ game'[k] = g /\ k \notin finishing
      /\ \A l \in Lobbies \ {k} : status'[l] = status[l] /\ game'[l] = game[l]
  BY <1>4, <1>5, <1>6 DEF Base, TypeOK, GameOK
<1>8. g.players = Seated(seat[k])
  BY <1>2, <1>5
<1>9. EmptyOK(k)' /\ HostOK(k)' /\ GameOK(k)'
  BY <1>5, <1>6, <1>7, <1>8 DEF EmptyOK, HostOK, GameOK, Playing
<1>10. \A l \in Lobbies \ {k} : Same(l)
  BY <1>6, <1>7 DEF Same
<1> QED
  BY <1>1, <1>3, <1>6, <1>9, <1>10, LoneStep

\* ... one that resigns for a leaving player, ...
LEMMA ResignInTurn ==
  ASSUME Base, NEW p \in Procs, Resign(p)
  PROVE  Known' /\ Kept'
<1>1. PICK k : k = req[p].lobby
  OBVIOUS
<1>2. PICK u : u = req[p].user
  OBVIOUS
<1>3. req[p] # Idle /\ ~Emptying(req[p]) /\ ~Replacing(req[p]) /\ req[p].pc = "resign"
  <2>1. At(p, "resign")
    BY DEF Resign
  <2> QED
    BY <2>1 DEF At, Idle, Emptying, Replacing
<1>4. /\ req[p] \in Requests /\ k \in Lobbies /\ Knows(req[p])
      /\ EmptyOK(k) /\ HostOK(k) /\ GameOK(k)
  BY <1>1, <1>3, Alone
<1>5. UNCHANGED <<status, host, seat, finishing>>
  BY DEF Resign
<1>6. \E pc \in {"gameOver", "leaveSeat"} :
        /\ req' = [req EXCEPT ![p].pc = pc]
        /\ \A l \in Lobbies \ {k} : game'[l] = game[l]
        /\ game'[k].started = game[k].started
        /\ game[k].over => game'[k].over
        /\ game'[k].players \subseteq game[k].players
        /\ pc = "gameOver" => game'[k].over
        /\ u \notin game'[k].players \/ game'[k].over
  <2>1. CASE game[k].over /\ Goto(p, "gameOver") /\ UNCHANGED game
    BY <2>1 DEF Goto
  <2>2. CASE u \notin game[k].players /\ Goto(p, "leaveSeat") /\ UNCHANGED game
    BY <2>2 DEF Goto
  <2>3. CASE \E over \in BOOLEAN :
               /\ Goto(p, IF over THEN "gameOver" ELSE "leaveSeat")
               /\ ~game[k].over
               /\ game' = [game EXCEPT ![k] = [@ EXCEPT !.players = game[k].players \ {u},
                                                        !.over = over]]
    <3>1. PICK over \in BOOLEAN :
               /\ Goto(p, IF over THEN "gameOver" ELSE "leaveSeat")
               /\ ~game[k].over
               /\ game' = [game EXCEPT ![k] = [@ EXCEPT !.players = game[k].players \ {u},
                                                        !.over = over]]
      BY <2>3
    <3>2. /\ game'[k].started = game[k].started /\ game'[k].over = over
          /\ game'[k].players = game[k].players \ {u}
          /\ \A l \in Lobbies \ {k} : game'[l] = game[l]
      BY <1>4, <3>1 DEF Base, TypeOK
    <3> QED
      BY <3>1, <3>2 DEF Goto
  <2> QED
    BY <1>1, <1>2, <2>1, <2>2, <2>3 DEF Resign
<1>7. PICK pc \in {"gameOver", "leaveSeat"} :
        /\ req' = [req EXCEPT ![p].pc = pc]
        /\ \A l \in Lobbies \ {k} : game'[l] = game[l]
        /\ game'[k].started = game[k].started
        /\ game[k].over => game'[k].over
        /\ game'[k].players \subseteq game[k].players
        /\ pc = "gameOver" => game'[k].over
        /\ u \notin game'[k].players \/ game'[k].over
  BY <1>6
<1>8. PICK r : r = [req[p] EXCEPT !.pc = pc]
  OBVIOUS
<1>9. r.pc = pc /\ r.lobby = k /\ r.user = u /\ r.hs = req[p].hs /\ r # Idle
  BY <1>1, <1>2, <1>4, <1>7, <1>8 DEF Requests, Idle
<1>10. req[p].hs = host[k] /\ status[k] # "none"
  BY <1>1, <1>3, <1>4 DEF Knows
<1>11. req' = [req EXCEPT ![p] = r]
  BY <1>7, <1>8
<1>12. Knows(r)'
  BY <1>5, <1>7, <1>9, <1>10 DEF Knows, Playing
<1>13. EmptyOK(k)' /\ HostOK(k)' /\ GameOK(k)'
  BY <1>4, <1>5, <1>7 DEF EmptyOK, HostOK, GameOK, Playing
<1>14. \A l \in Lobbies \ {k} : Same(l)
  BY <1>5, <1>7 DEF Same
<1> QED
  BY <1>1, <1>3, <1>5, <1>9, <1>11, <1>12, <1>13, <1>14, LoneStep

\* ... one that finishes a game this ended, ...
LEMMA GameOverInTurn ==
  ASSUME Base, NEW p \in Procs, GameOver(p)
  PROVE  Known' /\ Kept'
<1>1. PICK k : k = req[p].lobby
  OBVIOUS
<1>2. PICK r : r = [req[p] EXCEPT !.pc = "leaveSeat"]
  OBVIOUS
<1>3. req[p] # Idle /\ ~Emptying(req[p]) /\ ~Replacing(req[p]) /\ req[p].pc = "gameOver"
  BY DEF GameOver, At, Idle, Emptying, Replacing
<1>4. req[p] \in Requests /\ k \in Lobbies /\ Knows(req[p]) /\ GameOK(k)
  BY <1>1, <1>3, Alone
<1>5. /\ UNCHANGED <<host, seat, game, finishing>> /\ req' = [req EXCEPT ![p] = r]
      /\ status'[k] = "finished" /\ \A l \in Lobbies \ {k} : status'[l] = status[l]
  BY <1>1, <1>2, <1>4 DEF GameOver, Goto, Base, TypeOK
<1>6. r.pc = "leaveSeat" /\ r.lobby = k /\ r.user = req[p].user /\ r.hs = req[p].hs
  BY <1>1, <1>2, <1>4 DEF Requests
<1>7. req[p].hs = host[k] /\ game[k].over
  BY <1>1, <1>3, <1>4 DEF Knows
<1>8. Knows(r)'
  BY <1>5, <1>6, <1>7 DEF Knows, Playing
<1>9. EmptyOK(k)' /\ HostOK(k)' /\ GameOK(k)'
  BY <1>4, <1>5, <1>7 DEF EmptyOK, HostOK, GameOK, Playing
<1>10. \A l \in Lobbies \ {k} : Same(l)
  BY <1>5 DEF Same
<1> QED
  BY <1>1, <1>3, <1>5, <1>6, <1>8, <1>9, <1>10, LoneStep

\* ... one that frees the seat, ...
LEMMA LeaveInTurn ==
  ASSUME Base, NEW p \in Procs, LeaveSeat(p)
  PROVE  Known' /\ Kept'
<1>1. PICK k : k = req[p].lobby
  OBVIOUS
<1>2. PICK u : u = req[p].user
  OBVIOUS
<1>3. req[p] # Idle /\ ~Emptying(req[p]) /\ ~Replacing(req[p]) /\ req[p].pc = "leaveSeat"
  <2>1. At(p, "leaveSeat")
    BY DEF LeaveSeat
  <2> QED
    BY <2>1 DEF At, Idle, Emptying, Replacing
<1>4. /\ req[p] \in Requests /\ k \in Lobbies /\ Knows(req[p]) /\ u \in Users
      /\ EmptyOK(k) /\ HostOK(k) /\ GameOK(k)
  BY <1>1, <1>2, <1>3, Alone DEF Requests
<1>5. UNCHANGED <<status, host, game, finishing>>
  BY DEF LeaveSeat
<1>6. PICK mine : mine = {i \in SeatIndexes : seat[k][i] = u}
  OBVIOUS
<1>7. CASE mine = {}
  <2>1. req' = [req EXCEPT ![p] = Idle] /\ UNCHANGED seat
    BY <1>1, <1>2, <1>6, <1>7 DEF LeaveSeat, Return
  <2>2. EmptyOK(k)' /\ HostOK(k)' /\ GameOK(k)' /\ \A l \in Lobbies : Same(l)
    BY <1>4, <1>5, <2>1 DEF EmptyOK, HostOK, GameOK, Playing, Same
  <2> QED
    BY <1>1, <1>3, <1>5, <2>1, <2>2, LoneStep
<1>8. CASE mine # {}
  <2>1. PICK r : r = [req[p] EXCEPT !.pc = "count"]
    OBVIOUS
  <2>2. /\ req' = [req EXCEPT ![p] = r]
        /\ seat' = [seat EXCEPT ![k] = [i \in SeatIndexes |-> IF i \in mine THEN Nobody ELSE @[i]]]
    BY <1>1, <1>2, <1>6, <1>8, <2>1 DEF LeaveSeat, Goto
  <2>3. /\ \A l \in Lobbies \ {k} : seat'[l] = seat[l]
        /\ \A i \in SeatIndexes : seat'[k][i] = IF i \in mine THEN Nobody ELSE seat[k][i]
    BY <1>4, <2>2 DEF Base, TypeOK
  <2>4. Seated(seat'[k]) = Seated(seat[k]) \ {u}
    BY <1>4, <1>6, <2>3, LobbyAssumption DEF Seated
  <2>5. r.pc = "count" /\ r.lobby = k /\ r.user = u /\ r.hs = req[p].hs
    BY <1>1, <1>2, <1>4, <2>1 DEF Requests
  <2>6. /\ req[p].hs = host[k] /\ status[k] # "none"
        /\ ~(Playing(k) /\ u \in game[k].players)
    BY <1>1, <1>2, <1>3, <1>4 DEF Knows
  <2>7. Knows(r)'
    BY <1>5, <2>5, <2>6 DEF Knows
  <2>8. Emptying(r) /\ (u = host[k] => Replacing(r))
    BY <2>5, <2>6 DEF Emptying, Replacing
  <2>9. u # host[k] => HostOK(k)'
    <3>1. Taken(seat[k]) = {} => Taken(seat'[k]) = {}
      BY <2>4, SeatedTaken
    <3> QED
      BY <1>4, <1>5, <2>4, <3>1 DEF HostOK
  <2>10. GameOK(k)'
    BY <1>4, <1>5, <2>4, <2>6 DEF GameOK, Playing
  <2>11. \A l \in Lobbies \ {k} : Same(l)
    BY <1>5, <2>3 DEF Same
  <2>12. r # Idle
    BY <2>5 DEF Idle
  <2> QED
    BY <1>1, <1>3, <1>5, <2>2, <2>5, <2>7, <2>8, <2>9, <2>10, <2>11, <2>12, LoneStep
<1> QED
  BY <1>7, <1>8

\* ... one that counts who is left, ...
LEMMA CountInTurn ==
  ASSUME Base, NEW p \in Procs, CountRemaining(p)
  PROVE  Known' /\ Kept'
<1>1. PICK k : k = req[p].lobby
  OBVIOUS
<1>2. PICK empty : empty = (Taken(seat[k]) = {})
  OBVIOUS
<1>3. req[p] # Idle /\ req[p].pc = "count"
  <2>1. At(p, "count")
    BY DEF CountRemaining
  <2> QED
    BY <2>1 DEF At, Idle
<1>4. /\ req[p] \in Requests /\ k \in Lobbies /\ Knows(req[p]) /\ GameOK(k)
      /\ req[p].hs # req[p].user => HostOK(k)
  BY <1>1, <1>3, Alone DEF Replacing
<1>5. UNCHANGED <<status, host, seat, game, finishing>>
  BY DEF CountRemaining
<1>6. GameOK(k)' /\ (HostOK(k) => HostOK(k)') /\ (~empty => EmptyOK(k)')
      /\ (empty => HostOK(k)') /\ \A l \in Lobbies : Same(l)
  BY <1>2, <1>4, <1>5 DEF EmptyOK, HostOK, GameOK, Playing, Same
<1>7. status[k] # "none"
  BY <1>1, <1>4 DEF Knows
<1>8. ASSUME NEW pc \in {"empty", "fresh"}, Goto(p, pc), pc = "empty" <=> empty
      PROVE  Known' /\ Kept'
  <2>1. PICK r : r = [req[p] EXCEPT !.pc = pc]
    OBVIOUS
  <2>2. req' = [req EXCEPT ![p] = r] /\ r.pc = pc /\ r.lobby = k
    BY <1>1, <1>4, <1>8, <2>1 DEF Goto, Requests
  <2>3. Knows(r)'
    BY <1>2, <1>5, <1>7, <1>8, <2>2 DEF Knows
  <2>4. (empty => Emptying(r)) /\ (~empty => Replacing(r)) /\ r # Idle
    BY <1>8, <2>2 DEF Emptying, Replacing, Idle
  <2> QED
    BY <1>1, <1>3, <1>5, <1>6, <2>2, <2>3, <2>4, LoneStep
<1>9. CASE empty
  <2>1. Goto(p, "empty")
    BY <1>1, <1>2, <1>9 DEF CountRemaining
  <2> QED
    BY <1>8, <1>9, <2>1
<1>10. CASE ~empty /\ req[p].hs = req[p].user
  <2>1. Goto(p, "fresh")
    BY <1>1, <1>2, <1>10 DEF CountRemaining
  <2> QED
    BY <1>8, <1>10, <2>1
<1>11. CASE ~empty /\ req[p].hs # req[p].user
  <2>1. req' = [req EXCEPT ![p] = Idle]
    BY <1>1, <1>2, <1>11 DEF CountRemaining, Return
  <2> QED
    BY <1>1, <1>3, <1>4, <1>5, <1>6, <1>11, <2>1, LoneStep
<1> QED
  BY <1>2, <1>9, <1>10, <1>11

\* ... one that finishes an empty lobby, ...
LEMMA FinishEmptyInTurn ==
  ASSUME Base, NEW p \in Procs, FinishEmpty(p)
  PROVE  Known' /\ Kept'
<1>1. PICK k : k = req[p].lobby
  OBVIOUS
<1>3. req[p] # Idle /\ req[p].pc = "empty" /\ ~Replacing(req[p])
  BY DEF FinishEmpty, At, Idle, Replacing
<1>4. req[p] \in Requests /\ k \in Lobbies /\ Knows(req[p]) /\ HostOK(k) /\ GameOK(k)
  BY <1>1, <1>3, Alone
<1>5. /\ UNCHANGED <<host, seat, game, finishing>> /\ req' = [req EXCEPT ![p] = Idle]
      /\ status'[k] = "finished" /\ \A l \in Lobbies \ {k} : status'[l] = status[l]
  BY <1>1, <1>4 DEF FinishEmpty, Return, Base, TypeOK
<1>6. Seated(seat[k]) = {}
  BY <1>1, <1>3, <1>4, SeatedTaken DEF Knows
<1>7. EmptyOK(k)' /\ HostOK(k)' /\ GameOK(k)'
  BY <1>4, <1>5, <1>6 DEF EmptyOK, HostOK, GameOK, Playing
<1>8. \A l \in Lobbies \ {k} : Same(l)
  BY <1>5 DEF Same
<1> QED
  BY <1>1, <1>3, <1>5, <1>7, <1>8, LoneStep

\* ... one that reads the lobby again ...
LEMMA FreshInTurn ==
  ASSUME Base, NEW p \in Procs, GetFresh(p)
  PROVE  Known' /\ Kept'
<1>1. PICK k : k = req[p].lobby
  OBVIOUS
<1>3. req[p] # Idle /\ req[p].pc = "fresh" /\ ~Emptying(req[p])
  <2>1. At(p, "fresh")
    BY DEF GetFresh
  <2> QED
    BY <2>1 DEF At, Idle, Emptying
<1>4. req[p] \in Requests /\ k \in Lobbies /\ Knows(req[p]) /\ EmptyOK(k) /\ GameOK(k)
  BY <1>1, <1>3, Alone
<1>5. UNCHANGED <<status, host, seat, game, finishing>>
  BY DEF GetFresh
<1>6. EmptyOK(k)' /\ GameOK(k)' /\ \A l \in Lobbies : Same(l)
  BY <1>4, <1>5 DEF EmptyOK, GameOK, Playing, Same
<1>7. CASE Taken(seat[k]) = {}
  <2>1. req' = [req EXCEPT ![p] = Idle]
    BY <1>1, <1>7 DEF GetFresh, Return
  <2>2. HostOK(k)'
    BY <1>5, <1>7 DEF HostOK
  <2> QED
    BY <1>1, <1>3, <1>5, <1>6, <2>1, <2>2, LoneStep
<1>8. CASE Taken(seat[k]) # {}
  <2>1. PICK r : r = [req[p] EXCEPT !.hs = FirstUser(seat[k]), !.pc = "setHost"]
    OBVIOUS
  <2>2. req' = [req EXCEPT ![p] = r]
    BY <1>1, <1>8, <2>1 DEF GetFresh
  <2>3. r.pc = "setHost" /\ r.lobby = k /\ r.hs = FirstUser(seat[k])
    BY <1>1, <1>4, <2>1 DEF Requests
  <2>4. FirstUser(seat[k]) \in Seated(seat[k])
    BY <1>4, <1>8, FirstUserSeated DEF Base, TypeOK
  <2>5. Knows(r)'
    BY <1>1, <1>4, <1>5, <2>3, <2>4 DEF Knows
  <2>6. Replacing(r) /\ r # Idle
    BY <2>3 DEF Replacing, Idle
  <2> QED
    BY <1>1, <1>3, <1>5, <1>6, <2>2, <2>3, <2>5, <2>6, LoneStep
<1> QED
  BY <1>7, <1>8

\* ... and one that names the next host.
LEMMA SetHostInTurn ==
  ASSUME Base, NEW p \in Procs, SetHost(p)
  PROVE  Known' /\ Kept'
<1>1. PICK k : k = req[p].lobby
  OBVIOUS
<1>3. req[p] # Idle /\ req[p].pc = "setHost" /\ ~Emptying(req[p])
  BY DEF SetHost, At, Idle, Emptying
<1>4. req[p] \in Requests /\ k \in Lobbies /\ Knows(req[p]) /\ EmptyOK(k) /\ GameOK(k)
  BY <1>1, <1>3, Alone
<1>5. /\ UNCHANGED <<status, seat, game, finishing>> /\ req' = [req EXCEPT ![p] = Idle]
      /\ host'[k] = req[p].hs /\ \A l \in Lobbies \ {k} : host'[l] = host[l]
  BY <1>1, <1>4 DEF SetHost, Return, Base, TypeOK
<1>6. req[p].hs \in Seated(seat[k])
  BY <1>1, <1>3, <1>4 DEF Knows
<1>7. EmptyOK(k)' /\ HostOK(k)' /\ GameOK(k)'
  BY <1>4, <1>5, <1>6 DEF EmptyOK, HostOK, GameOK, Playing
<1>8. \A l \in Lobbies \ {k} : Same(l)
  BY <1>5 DEF Same
<1> QED
  BY <1>1, <1>3, <1>5, <1>7, <1>8, LoneStep

\* A request that begins alone relies on nothing yet.
LEMMA BeginInTurn ==
  ASSUME Base, Lone', NEW p \in Procs, NEW op \in Ops, NEW u \in Users, NEW k \in Lobbies,
         NEW i \in AskedIndexes, Begin(p, op, u, k, i)
  PROVE  Known' /\ Kept'
<1>1. PICK r : r = [pc |-> "row", op |-> op, user |-> u, lobby |-> k, index |-> i,
                    st |-> "none", hs |-> Nobody, players |-> {}]
  OBVIOUS
<1>2. /\ UNCHANGED <<status, host, seat, game, finishing>> /\ req' = [req EXCEPT ![p] = r]
      /\ status[k] # "none" /\ req[p].pc = "idle"
  BY <1>1 DEF Begin, At
<1>3. r.pc = "row" /\ r.lobby = k /\ r # Idle
  BY <1>1 DEF Idle
<1>4. req'[p] = r /\ \A q \in Procs \ {p} : req'[q] = req[q]
  BY <1>2 DEF Base, TypeOK
<1>5. \A q \in Procs : req[q] = Idle
  <2>1. req[p] = Idle
    BY <1>2 DEF Base, Known, Knows
  <2>2. \A q \in Procs \ {p} : req'[q] = Idle
    BY <1>3, <1>4 DEF Lone
  <2> QED
    BY <1>4, <2>1, <2>2
<1>6. ASSUME NEW l \in Lobbies PROVE EmptyOK(l)' /\ HostOK(l)' /\ GameOK(l)'
  <2>1. EmptyOK(l) /\ HostOK(l) /\ GameOK(l)
    BY <1>5 DEF Base, Kept, On
  <2> QED
    BY <1>2, <2>1 DEF EmptyOK, HostOK, GameOK, Playing
<1>7. Kept'
  BY <1>6 DEF Kept
<1>8. ASSUME NEW q \in Procs, req'[q] # Idle PROVE Knows(req[q])'
  <2>1. req'[q] = r
    BY <1>4, <1>5, <1>8
  <2> QED
    BY <1>2, <1>3, <2>1 DEF Knows
<1> QED
  BY <1>7, <1>8 DEF Known

\* A step that is not of a request.
LEMMA OtherStep ==
  ASSUME Base, UNCHANGED req,
         \A q \in Procs : req[q] # Idle => Knows(req[q])',
         \A l \in Lobbies : (EmptyOK(l) => EmptyOK(l)') /\ (HostOK(l) => HostOK(l)') /\ GameOK(l)'
  PROVE  Known' /\ Kept'
<1>1. Known'
  BY DEF Known
<1>2. ASSUME NEW l \in Lobbies
      PROVE  /\ EmptyOK(l)' \/ \E p \in Procs : (On(p, l) /\ Emptying(req[p]))'
             /\ HostOK(l)' \/ \E p \in Procs : (On(p, l) /\ Replacing(req[p]))'
             /\ GameOK(l)'
  BY DEF Base, Kept, On, Emptying, Replacing
<1> QED
  BY <1>1, <1>2 DEF Kept

\* A lobby just created has its host seated.
LEMMA CreateInTurn ==
  ASSUME Base, NEW u \in Users, NEW k \in Lobbies, Create(u, k)
  PROVE  Known' /\ Kept'
<1>1. /\ UNCHANGED <<game, finishing, req>> /\ status[k] = "none"
      /\ status'[k] = "waiting" /\ \A l \in Lobbies \ {k} : status'[l] = status[l]
      /\ host'[k] = u /\ \A l \in Lobbies \ {k} : host'[l] = host[l]
      /\ seat'[k][0] = u /\ \A l \in Lobbies \ {k} : seat'[l] = seat[l]
  BY SeatZero DEF Create, Base, TypeOK
<1>2. ~game[k].started /\ k \notin finishing
  BY <1>1 DEF Base, StateRowAgrees, Kept, GameOK
<1>3. u \in Seated(seat'[k])
  BY <1>1, SeatZero, LobbyAssumption DEF Seated
<1>4. ASSUME NEW q \in Procs, req[q] # Idle PROVE Knows(req[q])'
  <2>1. Knows(req[q]) /\ req[q].lobby \in Lobbies \ {k}
    BY <1>1, <1>4 DEF Base, Known, Knows, TypeOK, Requests
  <2> QED
    BY <1>1, <2>1 DEF Knows, Playing
<1>5. EmptyOK(k)' /\ HostOK(k)' /\ GameOK(k)'
  BY <1>1, <1>2, <1>3, SeatedTaken DEF EmptyOK, HostOK, GameOK, Playing
<1>6. \A l \in Lobbies \ {k} : Same(l)
  BY <1>1 DEF Same
<1>7. \A l \in Lobbies : GameOK(l)
  BY DEF Base, Kept
<1> QED
  BY <1>1, <1>4, <1>5, <1>6, <1>7, SameKeeps, OtherStep

\* The end of a game, finished or not, keeps the promises.
LEMMA EndInTurn ==
  ASSUME Base, NEW k \in Lobbies, GameEnds(k) \/ Finish(k) \/ FinishFails(k)
  PROVE  Known' /\ Kept'
<1>1. /\ UNCHANGED <<host, seat, req>> /\ finishing' \subseteq finishing \cup {k}
      /\ game[k].started /\ game'[k].started
      /\ game[k].players = game'[k].players
      /\ game'[k].over
      /\ \A l \in Lobbies \ {k} : game'[l] = game[l] /\ status'[l] = status[l]
      /\ status'[k] \in {status[k], "finished"}
  <2>1. CASE GameEnds(k)
    BY <2>1 DEF GameEnds, Base, TypeOK
  <2>2. CASE Finish(k)
    BY <2>2 DEF Finish, Base, TypeOK, Kept, GameOK
  <2>3. CASE FinishFails(k)
    BY <2>3 DEF FinishFails, Base, TypeOK, Kept, GameOK
  <2> QED
    BY <2>1, <2>2, <2>3
<1>2. status[k] \notin {"none", "waiting"}
  BY <1>1 DEF Base, StateRowAgrees
<1>3. \A l \in Lobbies : GameOK(l)
  BY DEF Base, Kept
<1>4. ASSUME NEW q \in Procs, req[q] # Idle PROVE Knows(req[q])'
  <2>1. Knows(req[q]) /\ req[q].lobby \in Lobbies
    BY <1>4 DEF Base, Known, TypeOK, Requests
  <2>2. CASE req[q].lobby = k
    BY <1>1, <1>2, <2>1, <2>2 DEF Knows, Playing
  <2>3. CASE req[q].lobby # k
    BY <1>1, <2>1, <2>3 DEF Knows, Playing
  <2> QED
    BY <2>2, <2>3
<1>5. (EmptyOK(k) => EmptyOK(k)') /\ (HostOK(k) => HostOK(k)') /\ GameOK(k)'
  BY <1>1, <1>2, <1>3 DEF EmptyOK, HostOK, GameOK, Playing
<1>6. \A l \in Lobbies \ {k} : Same(l) /\ (l \in finishing' => l \in finishing)
  BY <1>1 DEF Same
<1> QED
  BY <1>1, <1>3, <1>4, <1>5, <1>6, SameKeeps, OtherStep

TurnInv == InTurn => Lone /\ Known /\ Kept

\* A step that leaves the requests in turn found them in turn.
LEMMA WasInTurn ==
  ASSUME TypeOK, MCNext, InTurn'
  PROVE  InTurn /\ Next /\ Lone' /\ \A p \in Procs : ~Cancelled(p)
<1>1. Next /\ Lone' /\ ~overlapped
  BY DEF MCNext, InTurn, Lone
<1>2. ASSUME NEW p \in Procs, Cancelled(p) PROVE FALSE
  <2>1. faults \in Nat /\ faults' = faults + 1 /\ faults' = 0
    BY <1>2, LobbyAssumption DEF Cancelled, TypeOK, InTurn
  <2> QED
    BY <2>1
<1>3. faults' = faults
  BY <1>1, <1>2 DEF Next, Create, Begin, Statement, GetRow, GetSeats, ClaimSeat, CommitStart, Resign,
       GameOver, LeaveSeat, CountRemaining, FinishEmpty, GetFresh, SetHost, GameEnds, Finish, FinishFails
<1> QED
  BY <1>1, <1>2, <1>3 DEF InTurn

\* Every step keeps the promises as long as requests come in turn.
LEMMA TurnStep ==
  ASSUME Resigns, TypeOK, StateRowAgrees, TurnInv, MCNext
  PROVE  TurnInv'
<1> SUFFICES ASSUME InTurn'
             PROVE  Lone' /\ Known' /\ Kept'
  BY DEF TurnInv
<1>1. InTurn /\ Next /\ Lone' /\ \A p \in Procs : ~Cancelled(p)
  BY WasInTurn
<1>2. Base
  BY <1>1 DEF TurnInv, Base
<1>3. ASSUME NEW p \in Procs, Statement(p) PROVE Known' /\ Kept'
  BY <1>2, <1>3, RowInTurn, SeatsInTurn, ClaimInTurn, CommitInTurn, ResignInTurn, GameOverInTurn,
     LeaveInTurn, CountInTurn, FinishEmptyInTurn, FreshInTurn, SetHostInTurn DEF Statement
<1> QED
  BY <1>1, <1>2, <1>3, BeginInTurn, CreateInTurn, EndInTurn DEF Next

\* Nobody is seated once the lobby has begun.
LEMMA SeatedStep ==
  ASSUME Base, Next
  PROVE  SeatedWhileWaiting
<1>1. CASE UNCHANGED seat
  BY <1>1 DEF SeatedWhileWaiting
<1>2. ASSUME NEW u \in Users, NEW l \in Lobbies, Create(u, l) PROVE SeatedWhileWaiting
  <2>1. status[l] = "none" /\ \A k \in Lobbies \ {l} : seat'[k] = seat[k]
    BY <1>2 DEF Create, Base, TypeOK
  <2> QED
    BY <2>1 DEF SeatedWhileWaiting
<1>3. ASSUME NEW p \in Procs, ClaimSeat(p) PROVE SeatedWhileWaiting
  <2>1. req[p] # Idle /\ req[p].pc = "claim"
    BY <1>3 DEF ClaimSeat, At, Idle
  <2>2. req[p].lobby \in Lobbies /\ status[req[p].lobby] = "waiting"
    BY <2>1, Alone DEF Knows
  <2>3. \A k \in Lobbies \ {req[p].lobby} : seat'[k] = seat[k]
    BY <1>3 DEF ClaimSeat, Base, TypeOK
  <2> QED
    BY <2>2, <2>3 DEF SeatedWhileWaiting
<1>4. ASSUME NEW p \in Procs, LeaveSeat(p) PROVE SeatedWhileWaiting
  <2>1. req[p] \in Requests
    BY <1>4, Running DEF LeaveSeat, Base
  <2>2. \A k \in Lobbies, j \in SeatIndexes : seat'[k][j] = seat[k][j] \/ seat'[k][j] = Nobody
    BY <1>4, <2>1 DEF LeaveSeat, Requests, Base, TypeOK
  <2> QED
    BY <2>2 DEF SeatedWhileWaiting, Seated
<1> QED
  BY <1>1, <1>2, <1>3, <1>4, SeatWriters

(***************************************************************************)
(* In a game that is told of resignations, every promise of Join and Leave *)
(* is kept for as long as requests come one at a time and run to their     *)
(* end, for any number of users, lobbies and seats, whatever games end and *)
(* whatever Finish calls fail in between.                                  *)
(***************************************************************************)
THEOREM PromisesHold ==
  ASSUME Resigns
  PROVE  MCSpec => PromisesKeptInTurn
<1>1. MCInit => Init /\ TurnInv
  BY SeatZero DEF MCInit, Init, TurnInv, Lone, Known, Kept, EmptyOK, HostOK, GameOK, Playing, NoGame,
       On, Taken, EmptySeats
<1>2. [MCNext]_<<vars, overlapped>> => [Next]_vars
  BY DEF MCNext
<1>3. TypeOK /\ StateRowAgrees /\ TurnInv /\ [MCNext]_<<vars, overlapped>> => TurnInv'
  <2>1. TurnInv /\ UNCHANGED <<vars, overlapped>> => TurnInv'
    BY DEF vars, TurnInv, InTurn, Lone, Known, Kept, Knows, EmptyOK, HostOK, GameOK, Playing, On,
           Emptying, Replacing
  <2> QED
    BY <2>1, TurnStep
<1>4. TypeOK /\ StateRowAgrees /\ TurnInv /\ TurnInv' /\ [MCNext]_<<vars, overlapped>> =>
        [~overlapped' /\ faults' = 0 =>
           EmptyIsFinished' /\ HostIsSeated' /\ PlayersAreSeated' /\ SeatedWhileWaiting]_vars
  <2> SUFFICES ASSUME TypeOK, StateRowAgrees, TurnInv, TurnInv', MCNext, InTurn'
               PROVE  EmptyIsFinished' /\ HostIsSeated' /\ PlayersAreSeated' /\ SeatedWhileWaiting
    BY DEF InTurn, vars
  <2>1. Kept'
    BY DEF TurnInv
  <2>2. EmptyIsFinished' /\ HostIsSeated' /\ PlayersAreSeated'
    BY <2>1 DEF Kept, EmptyOK, HostOK, GameOK, Playing, On, Emptying, Replacing, Quiet, At, Idle,
                EmptyIsFinished, HostIsSeated, PlayersAreSeated
  <2>3. SeatedWhileWaiting
    BY WasInTurn, SeatedStep DEF Base, TurnInv
  <2> QED
    BY <2>2, <2>3
<1> QED
  BY <1>1, <1>2, <1>3, <1>4, TypeCorrect, StateRowHolds, PTL DEF MCSpec, Spec, PromisesKeptInTurn
=============================================================================
