-------------------------------- MODULE Lobby --------------------------------
(***************************************************************************)
(* The lobby service: creating, joining, leaving and starting tables.      *)
(*                                                                         *)
(* Every request runs in a goroutine of its own and is a sequence of       *)
(* database statements.  Each statement (or explicit transaction) is one   *)
(* atomic step; between two of them any other request may run, so what a   *)
(* request decides on is its snapshot, and what it writes to is the        *)
(* current row.  The tables game_lobbies, game_seats and the game's state  *)
(* row are the shared state; a request's snapshot is its own.              *)
(***************************************************************************)
EXTENDS Integers, FiniteSets

CONSTANTS
  Users,      \* user ids
  Lobbies,    \* lobby ids that can be created
  Procs,      \* requests that may be in flight at the same time
  MaxSeats,   \* max_seats of every lobby
  MinSeats,   \* players the engine needs to start
  Resigns,    \* whether the game registers a ResignHandler (poker does not)
  MaxFaults,  \* bound on requests cut short
  Nobody      \* no user

ASSUME LobbyAssumption ==
  /\ Nobody \notin Users
  /\ MinSeats \in Nat \ {0}
  /\ MaxSeats \in Nat
  /\ MinSeats <= MaxSeats
  /\ Resigns \in BOOLEAN
  /\ MaxFaults \in Nat

VARIABLES
  status,   \* game_lobbies.status, "none" before the row is inserted
  host,     \* game_lobbies.host_id
  seat,     \* the active rows of game_seats: who holds each seat
  game,     \* the game's state row: who still plays, and whether it is over
  finishing,\* lobbies whose game ended in an action that has not called Finish yet
  req,      \* the requests in flight
  faults    \* requests cut short so far

vars == <<status, host, seat, game, finishing, req, faults>>

SeatIndexes == 0..(MaxSeats - 1)
\* What a join may ask for: one index beyond the table stands for the bad ones.
AskedIndexes == 0..MaxSeats
Statuses    == {"none", "waiting", "in_progress", "finished"}

NoGame == [started |-> FALSE, players |-> {}, over |-> FALSE]

EmptySeats == [i \in SeatIndexes |-> Nobody]

\* The users on a set of seats, and the seat index the code finds first.
Seated(seats)   == {seats[i] : i \in SeatIndexes} \ {Nobody}
Taken(seats)    == {i \in SeatIndexes : seats[i] # Nobody}
FirstUser(seats) == seats[CHOOSE i \in Taken(seats) : \A j \in Taken(seats) : i <= j]

\* The platform-wide unique index: a user's active seat anywhere.
HasSeat(u) == \E l \in Lobbies : u \in Seated(seat[l])

-----------------------------------------------------------------------------
(***************************************************************************)
(* Requests.  pc is the next statement.  Of its snapshot a request keeps   *)
(* what it still uses: st and hs are the status and host it read, players  *)
(* the users a start will deal in.                                         *)
(***************************************************************************)
Ops == {"join", "leave", "start"}
PCs == {"idle", "row", "seats", "claim", "commit", "resign", "gameOver",
        "leaveSeat", "count", "empty", "fresh", "setHost"}

Requests == [ pc : PCs, op : Ops, user : Users, lobby : Lobbies, index : AskedIndexes,
              st : Statuses, hs : Users \cup {Nobody}, players : SUBSET Users ]

\* A finished request keeps nothing.
Idle == [pc |-> "idle"]

Goto(p, pc) == req' = [req EXCEPT ![p].pc = pc]
Return(p)   == req' = [req EXCEPT ![p] = Idle]

At(p, pc) == req[p].pc = pc

Init ==
  /\ status = [l \in Lobbies |-> "none"]
  /\ host = [l \in Lobbies |-> Nobody]
  /\ seat = [l \in Lobbies |-> EmptySeats]
  /\ game = [l \in Lobbies |-> NoGame]
  /\ finishing = {}
  /\ req = [p \in Procs |-> Idle]
  /\ faults = 0

\* Create: the lobby row and the host's seat 0 in one transaction, refused when
\* the host already has a seat.
Create(u, l) ==
  /\ status[l] = "none"
  /\ ~HasSeat(u)
  /\ status' = [status EXCEPT ![l] = "waiting"]
  /\ host' = [host EXCEPT ![l] = u]
  /\ seat' = [seat EXCEPT ![l][0] = u]
  /\ UNCHANGED <<game, finishing, req, faults>>

\* A join, leave or start arrives for an existing lobby.
Begin(p, op, u, l, i) ==
  /\ At(p, "idle")
  /\ status[l] # "none"
  /\ op # "join" => i = 0
  /\ req' = [req EXCEPT ![p] = [pc |-> "row", op |-> op, user |-> u, lobby |-> l, index |-> i,
                                st |-> "none", hs |-> Nobody, players |-> {}]]
  /\ UNCHANGED <<status, host, seat, game, finishing, faults>>

(***************************************************************************)
(* Repository.Get is two queries: the lobby row, then its active seats.    *)
(***************************************************************************)
GetRow(p) ==
  /\ At(p, "row")
  /\ req' = [req EXCEPT ![p] = [@ EXCEPT !.st = status[req[p].lobby],
                                         !.hs = host[req[p].lobby],
                                         !.pc = "seats"]]
  /\ UNCHANGED <<status, host, seat, game, finishing, faults>>

\* What the request does next is decided on the snapshot alone.
JoinAllowed(r, seats) ==
  /\ r.st = "waiting"
  /\ r.index \in SeatIndexes
  /\ Cardinality(Taken(seats)) < MaxSeats

StartAllowed(r, seats) ==
  /\ r.hs = r.user
  /\ r.st = "waiting"
  /\ Cardinality(Taken(seats)) >= MinSeats

\* Mutant: a leave does not tell the game.
LeaveFrom_Silent(r) == "leaveSeat"

\* Leave: a running game with a ResignHandler is told first.
LeaveFrom(r) == IF r.st = "in_progress" /\ Resigns THEN "resign" ELSE "leaveSeat"

AfterGet(r, seats) ==
  CASE r.op = "join"  -> IF JoinAllowed(r, seats) THEN "claim" ELSE "idle"
    [] r.op = "start" -> IF StartAllowed(r, seats) THEN "commit" ELSE "idle"
    [] r.op = "leave" -> LeaveFrom(r)

GetSeats(p) ==
  /\ At(p, "seats")
  /\ LET r    == req[p]
         next == AfterGet(r, seat[r.lobby])
     IN  IF next = "idle"
         THEN Return(p)
         ELSE req' = [req EXCEPT ![p] =
                [@ EXCEPT !.pc = next,
                          !.st = "none",
                          !.hs = IF r.op = "leave" THEN r.hs ELSE Nobody,
                          !.players = IF r.op = "start" THEN Seated(seat[r.lobby]) ELSE {}]]
  /\ UNCHANGED <<status, host, seat, game, finishing, faults>>

\* Mutant: only the physical seat is checked.
ClaimSeat_NoUserIndex(p) ==
  /\ At(p, "claim")
  /\ LET r == req[p]
     IN  IF seat[r.lobby][r.index] # Nobody
         THEN UNCHANGED seat
         ELSE seat' = [seat EXCEPT ![r.lobby][r.index] = r.user]
  /\ Return(p)
  /\ UNCHANGED <<status, host, game, finishing, faults>>

\* Join: ClaimSeat inserts the row unless a unique index refuses it.
ClaimSeat(p) ==
  /\ At(p, "claim")
  /\ LET r == req[p]
     IN  IF HasSeat(r.user) \/ seat[r.lobby][r.index] # Nobody
         THEN UNCHANGED seat
         ELSE seat' = [seat EXCEPT ![r.lobby][r.index] = r.user]
  /\ Return(p)
  /\ UNCHANGED <<status, host, game, finishing, faults>>

\* Mutants: the status is not flipped with the state row; the row is upserted.
CommitStart_NoStatus(p) ==
  /\ At(p, "commit")
  /\ LET l == req[p].lobby
     IN  IF game[l].started
         THEN UNCHANGED game
         ELSE game' = [game EXCEPT ![l] =
                         [started |-> TRUE, players |-> req[p].players, over |-> FALSE]]
  /\ Return(p)
  /\ UNCHANGED <<status, host, seat, finishing, faults>>

CommitStart_Upsert(p) ==
  /\ At(p, "commit")
  /\ status' = [status EXCEPT ![req[p].lobby] = "in_progress"]
  /\ game' = [game EXCEPT ![req[p].lobby] =
                 [started |-> TRUE, players |-> req[p].players, over |-> FALSE]]
  /\ Return(p)
  /\ UNCHANGED <<host, seat, finishing, faults>>

\* Start: the status and the state row in one transaction.  The status update
\* has no condition; the insert fails when the lobby already has a state row.
CommitStart(p) ==
  /\ At(p, "commit")
  /\ LET r == req[p]
     IN  IF game[r.lobby].started
         THEN UNCHANGED <<status, game>>
         ELSE /\ status' = [status EXCEPT ![r.lobby] = "in_progress"]
              /\ game' = [game EXCEPT ![r.lobby] =
                            [started |-> TRUE, players |-> r.players, over |-> FALSE]]
  /\ Return(p)
  /\ UNCHANGED <<host, seat, finishing, faults>>

(***************************************************************************)
(* Leave.  The ResignHandler runs in its own transaction: a game already   *)
(* over is reported as over and a user who does not play (any more) is     *)
(* ignored.  A game left with fewer than two players is over; the rules of *)
(* a game (its teams, its last round) may end it sooner.                   *)
(***************************************************************************)
Resign(p) ==
  /\ At(p, "resign")
  /\ LET r    == req[p]
         g    == game[r.lobby]
         left == g.players \ {r.user}
     IN  \/ /\ g.over
            /\ Goto(p, "gameOver")
            /\ UNCHANGED game
         \/ /\ ~g.over /\ r.user \notin g.players
            /\ Goto(p, "leaveSeat")
            /\ UNCHANGED game
         \/ /\ ~g.over /\ r.user \in g.players
            /\ \E over \in BOOLEAN :
                 /\ Cardinality(left) < 2 => over
                 /\ Goto(p, IF over THEN "gameOver" ELSE "leaveSeat")
                 /\ game' = [game EXCEPT ![r.lobby] = [@ EXCEPT !.players = left, !.over = over]]
  /\ UNCHANGED <<status, host, seat, finishing, faults>>

\* Mutant: the request ends with the game.
GameOver_Returns(p) ==
  /\ At(p, "gameOver")
  /\ status' = [status EXCEPT ![req[p].lobby] = "finished"]
  /\ Return(p)
  /\ UNCHANGED <<host, seat, game, finishing, faults>>

\* The lobby of a game that is over is finished before the seat is left.
GameOver(p) ==
  /\ At(p, "gameOver")
  /\ status' = [status EXCEPT ![req[p].lobby] = "finished"]
  /\ Goto(p, "leaveSeat")
  /\ UNCHANGED <<host, seat, game, finishing, faults>>

LeaveSeat(p) ==
  /\ At(p, "leaveSeat")
  /\ LET r    == req[p]
         mine == {i \in SeatIndexes : seat[r.lobby][i] = r.user}
     IN  IF mine = {}
         THEN /\ Return(p)
              /\ UNCHANGED seat
         ELSE /\ Goto(p, "count")
              /\ seat' = [seat EXCEPT ![r.lobby] =
                            [i \in SeatIndexes |-> IF i \in mine THEN Nobody ELSE @[i]]]
  /\ UNCHANGED <<status, host, game, finishing, faults>>

\* LeaveSeat counts in a second statement; the host comparison uses the snapshot.
CountRemaining(p) ==
  /\ At(p, "count")
  /\ LET r == req[p]
     IN  CASE Taken(seat[r.lobby]) = {}                  -> Goto(p, "empty")
           [] Taken(seat[r.lobby]) # {} /\ r.hs = r.user -> Goto(p, "fresh")
           [] OTHER                                      -> Return(p)
  /\ UNCHANGED <<status, host, seat, game, finishing, faults>>

FinishEmpty(p) ==
  /\ At(p, "empty")
  /\ status' = [status EXCEPT ![req[p].lobby] = "finished"]
  /\ Return(p)
  /\ UNCHANGED <<host, seat, game, finishing, faults>>

\* Get again; the seats come ordered by index and the first becomes the host.
GetFresh(p) ==
  /\ At(p, "fresh")
  /\ LET r == req[p]
     IN  IF Taken(seat[r.lobby]) = {}
         THEN Return(p)
         ELSE req' = [req EXCEPT ![p] = [@ EXCEPT !.hs = FirstUser(seat[r.lobby]),
                                                   !.pc = "setHost"]]
  /\ UNCHANGED <<status, host, seat, game, finishing, faults>>

SetHost(p) ==
  /\ At(p, "setHost")
  /\ host' = [host EXCEPT ![req[p].lobby] = req[p].hs]
  /\ Return(p)
  /\ UNCHANGED <<status, seat, game, finishing, faults>>

(***************************************************************************)
(* The game ends by play: the action's transaction stores it, and the      *)
(* realtime handler calls Finish afterwards.                               *)
(***************************************************************************)
GameEnds(l) ==
  /\ game[l].started /\ ~game[l].over
  /\ game' = [game EXCEPT ![l].over = TRUE]
  /\ finishing' = finishing \cup {l}
  /\ UNCHANGED <<status, host, seat, req, faults>>

Finish(l) ==
  /\ l \in finishing
  /\ status' = [status EXCEPT ![l] = "finished"]
  /\ finishing' = finishing \ {l}
  /\ UNCHANGED <<host, seat, game, req, faults>>

\* Faults: a Finish that fails is only logged; a request whose context is
\* cancelled between two statements keeps what it has already written.
FinishFails(l) ==
  /\ l \in finishing
  /\ finishing' = finishing \ {l}
  /\ UNCHANGED <<status, host, seat, game, req, faults>>

Cancelled(p) ==
  /\ ~At(p, "idle") /\ faults < MaxFaults
  /\ Return(p)
  /\ faults' = faults + 1
  /\ UNCHANGED <<status, host, seat, game, finishing>>

Statement(p) ==
  \/ GetRow(p)
  \/ GetSeats(p)
  \/ ClaimSeat(p)
  \/ CommitStart(p)
  \/ Resign(p)
  \/ GameOver(p)
  \/ LeaveSeat(p)
  \/ CountRemaining(p)
  \/ FinishEmpty(p)
  \/ GetFresh(p)
  \/ SetHost(p)

Next ==
  \/ \E u \in Users, l \in Lobbies : Create(u, l)
  \/ \E p \in Procs, op \in Ops, u \in Users, l \in Lobbies, i \in AskedIndexes :
       Begin(p, op, u, l, i)
  \/ \E p \in Procs : Statement(p)
  \/ \E l \in Lobbies : GameEnds(l) \/ Finish(l) \/ FinishFails(l)
  \/ \E p \in Procs : Cancelled(p)

Spec == Init /\ [][Next]_vars

\* A request that is running goes on to its next statement.
Fairness == \A p \in Procs : WF_vars(Statement(p))

-----------------------------------------------------------------------------
(***************************************************************************)
(* The rows and the requests in flight are well formed.                    *)
(***************************************************************************)
TypeOK ==
  /\ status \in [Lobbies -> Statuses]
  /\ host \in [Lobbies -> Users \cup {Nobody}]
  /\ seat \in [Lobbies -> [SeatIndexes -> Users \cup {Nobody}]]
  /\ game \in [Lobbies -> [started : BOOLEAN, players : SUBSET Users, over : BOOLEAN]]
  /\ finishing \subseteq Lobbies
  /\ req \in [Procs -> Requests \cup {Idle}]
  /\ faults \in 0..MaxFaults

(***************************************************************************)
(* A user holds at most one seat on the whole platform, whatever requests  *)
(* race (the rule of the migration's unique index).                        *)
(***************************************************************************)
OneSeatPerUser ==
  \A l1, l2 \in Lobbies, i1, i2 \in SeatIndexes :
    seat[l1][i1] = seat[l2][i2] /\ seat[l1][i1] # Nobody => l1 = l2 /\ i1 = i2

(***************************************************************************)
(* The lobby row and the game's state row agree: a lobby in progress has a *)
(* state row and a waiting one has none, although status updates are       *)
(* unconditional and Start decides on a snapshot.                          *)
(***************************************************************************)
StateRowAgrees ==
  \A l \in Lobbies :
    /\ status[l] = "in_progress" => game[l].started
    /\ status[l] \in {"none", "waiting"} => ~game[l].started

(***************************************************************************)
(* A game is started once: however many Start requests race, no later one  *)
(* replaces the state row, and nobody is ever added to a running game.     *)
(***************************************************************************)
StartedOnce ==
  [][\A l \in Lobbies : game[l].started =>
       game'[l].started /\ game'[l].players \subseteq game[l].players]_vars

\* No request, and no Finish call, is under way on lobby l.
Quiet(l) == l \notin finishing /\ \A p \in Procs : At(p, "idle") \/ req[p].lobby # l

(***************************************************************************)
(* Leave: "If the lobby empties it is finished".                           *)
(***************************************************************************)
EmptyIsFinished ==
  \A l \in Lobbies : Quiet(l) /\ status[l] # "none" /\ Taken(seat[l]) = {} => status[l] = "finished"

(***************************************************************************)
(* Leave: "if the host leaves while others remain, the earliest remaining  *)
(* seat becomes host": a waiting lobby with players has its host among     *)
(* them (only the host can start it).                                      *)
(***************************************************************************)
HostIsSeated ==
  \A l \in Lobbies : Quiet(l) /\ status[l] = "waiting" /\ Taken(seat[l]) # {} =>
    host[l] \in Seated(seat[l])

(***************************************************************************)
(* Leave: the game is told of a resignation "before the seat is marked     *)
(* left": a running game waits for nobody who has left the table.          *)
(***************************************************************************)
PlayersAreSeated ==
  \A l \in Lobbies : Quiet(l) /\ game[l].started /\ ~game[l].over =>
    game[l].players \subseteq Seated(seat[l])

(***************************************************************************)
(* Join: "seats a user in a waiting lobby": no seat is taken in a lobby    *)
(* that has started or finished.                                           *)
(***************************************************************************)
SeatedWhileWaiting ==
  \A l \in Lobbies : Seated(seat'[l]) \subseteq Seated(seat[l]) \/ status[l] \in {"none", "waiting"}

(***************************************************************************)
(* A leave frees the seat (unless a request was cut short), whatever the   *)
(* game answers and whether or not Finish worked: a game already over or a *)
(* user it no longer knows must not lock the player out of every lobby.    *)
(***************************************************************************)
LeaveFreesSeat ==
  \A u \in Users, l \in Lobbies :
    (\E p \in Procs : At(p, "row") /\ req[p].op = "leave" /\ req[p].user = u /\ req[p].lobby = l)
      ~> (u \notin Seated(seat[l]) \/ faults > 0)

=============================================================================
