------------------------------- MODULE Realtime -------------------------------
(***************************************************************************)
(* The realtime gateway of one lobby: the hub's room, the clients'         *)
(* connections and bounded send buffers, and the goroutines that change    *)
(* the lobby or the game and then broadcast what happened and where things *)
(* ended up.  A client's handler goroutine does one thing at a time; the   *)
(* timer deals the next hand of a hand-based game.  Broadcasts of two      *)
(* goroutines interleave message by message: nothing serialises them.      *)
(*                                                                         *)
(* The contents of lobby and game are reduced to what is new: a snapshot   *)
(* that a goroutine holds is fresh in the parts that did not change since  *)
(* it was read, and a client misses the parts of which it was not sent the *)
(* latest.  That is finite however often lobby and game change.  A change  *)
(* made over REST is no part of it: the gateway hears nothing of it.       *)
(*                                                                         *)
(* What a request reads and its first change are one step here; the module *)
(* Lobby takes them apart.  Its later changes are steps of their own, and  *)
(* after any of them it may fail: nobody is told of what it has changed.   *)
(***************************************************************************)
EXTENDS Naturals, Sequences, FiniteSets

CONSTANTS Clients,
          sendBuffer,     \* messages a client's buffer holds
          MaxBusy         \* bound: goroutines at work when another begins

ASSUME RealtimeAssumption ==
    sendBuffer \in Nat \ {0} /\ MaxBusy \in Nat \ {0} /\ "timer" \notin Clients

VARIABLES handBased,  \* whether the game service is a HandBasedGameService
          status,     \* of the lobby: "waiting", "in_progress" or "finished"
          game,       \* of the engine: "none", "playing" or "over"
          armed,      \* whether the next hand is scheduled
          conn,       \* for every client "out", "open" or "closed"
          room,       \* the clients registered
          queued,     \* how many messages a client's buffer holds
          missing,    \* history: the parts a client was not sent the latest of
          todo,       \* for every goroutine what it still has to do
          at,         \* where it is in the broadcast it is making
          failed      \* history: a load or a view failed, or a request that had changed
                      \* something did, and no broadcast began since

connection == <<conn, room, queued>>
gatewayVars == <<handBased, status, game, armed, connection, missing, todo, at, failed>>

Actors == Clients \cup {"timer"}
Parts  == {"lobby", "game"}
Resting == [pc |-> "idle", fresh |-> {}, hasGame |-> FALSE, left |-> {}, to |-> "timer"]

GatewayInit == /\ handBased \in BOOLEAN
               /\ status = "waiting" /\ game = "none"
               /\ armed = FALSE
               /\ conn = [c \in Clients |-> "out"] /\ room = {}
               /\ queued = [c \in Clients |-> 0]
               /\ missing = [c \in Clients |-> {}]
               /\ todo = [a \in Actors |-> <<>>] /\ at = [a \in Actors |-> Resting]
               /\ failed = FALSE

busy(a) == todo[a] # <<>>
begins == Cardinality({a \in Actors : busy(a)}) < MaxBusy

(* A change of some parts: every snapshot of them is old, every client     *)
(* connected has yet to hear of it.                                        *)
outdates(parts) == [a \in Actors |-> [at[a] EXCEPT !.fresh = @ \ parts]]
changed(parts) ==
    /\ missing' = [c \in Clients |-> IF conn[c] = "open" THEN missing[c] \cup parts ELSE {}]
    /\ at' = outdates(parts)

-----------------------------------------------------------------------------
(* Connections. *)

(* serveWS registers the client before it broadcasts the state for it. *)
joined_Late(c) == room
joined(c) == room \cup {c}

Connect(c) ==
    /\ conn[c] = "out" /\ todo[c] = <<>> /\ begins
    /\ conn' = [conn EXCEPT ![c] = "open"]
    /\ room' = joined(c)
    /\ missing' = [missing EXCEPT ![c] = IF game = "none" THEN {"lobby"} ELSE Parts]
    /\ todo' = [todo EXCEPT ![c] = <<"state">>]
    /\ UNCHANGED <<handBased, status, game, armed, queued, at, failed>>

(* The write pump takes a message out of the buffer whenever the network   *)
(* lets it.  A dead peer, a missed pong or a failed write closes.          *)
Deliver(c) ==
    /\ queued[c] > 0
    /\ queued' = [queued EXCEPT ![c] = @ - 1]
    /\ UNCHANGED <<handBased, status, game, armed, conn, room, missing, todo, at, failed>>

closed(c) == /\ conn' = [conn EXCEPT ![c] = "closed"]
             /\ queued' = [queued EXCEPT ![c] = 0]
             /\ missing' = [missing EXCEPT ![c] = {}]

Drop(c) ==
    /\ conn[c] = "open"
    /\ closed(c)
    /\ UNCHANGED <<handBased, status, game, armed, room, todo, at, failed>>

(* The read pump of a closed connection returns once the handler is done   *)
(* with its message: the client leaves the room and the others are told.   *)
left(c) == room \ {c}

Hangup(c) ==
    /\ conn[c] = "closed" /\ todo[c] = <<>> /\ begins
    /\ conn' = [conn EXCEPT ![c] = "out"]
    /\ room' = left(c)
    /\ todo' = [todo EXCEPT ![c] = <<"state">>]
    /\ UNCHANGED <<handBased, status, game, armed, queued, missing, at, failed>>

(* sendJSON: queued; or, if the buffer is full, dropped and the connection *)
(* closed.  Nothing reaches a closed connection, and nothing blocks.       *)
queues(c, nowMissing) ==
    /\ conn[c] = "open" /\ queued[c] < sendBuffer
    /\ queued' = [queued EXCEPT ![c] = @ + 1]
    /\ missing' = [missing EXCEPT ![c] = nowMissing]
    /\ UNCHANGED conn

ignored(c) == conn[c] # "open" /\ UNCHANGED <<conn, queued, missing>>

sendJSON_Blocks(c, nowMissing) == queues(c, nowMissing) \/ ignored(c)
sendJSON(c, nowMissing) ==
    \/ queues(c, nowMissing)
    \/ conn[c] = "open" /\ queued[c] = sendBuffer /\ closed(c)
    \/ ignored(c)

-----------------------------------------------------------------------------
(* onMessage: a message of an open connection whose handler is idle. *)

ready(c) == conn[c] = "open" /\ todo[c] = <<>> /\ begins

(* What a request that has changed something does next; or what it still   *)
(* had to ask or to commit fails, or the answer is lost, and the error is  *)
(* for the sender alone.                                                   *)
goesOn(a, what) == todo' = [todo EXCEPT ![a] = what] /\ UNCHANGED failed
gaveUp(a)       == todo' = [todo EXCEPT ![a] = <<"error">>] /\ failed' = TRUE
changedThen(a, parts, what) == changed(parts) /\ (goesOn(a, what) \/ gaveUp(a))

(* An action the session applied: its events come first, then the state;   *)
(* the end of a hand then schedules the next, the end of a game, which the *)
(* engine announced itself, finishes the lobby.                            *)
whenOver(ends) == CASE ~ends -> <<>>
                    [] ends /\ handBased -> <<"schedule">>
                    [] ends /\ ~handBased -> <<"announced">>

Act(c, ends) ==
    /\ ready(c)
    /\ game = "playing"
    /\ game' = IF ends THEN "over" ELSE game
    /\ changedThen(c, {"game"}, <<"event", "state">> \o whenOver(ends))
    /\ UNCHANGED <<handBased, status, armed, connection>>

Join(c) ==
    /\ ready(c)
    /\ status = "waiting"
    /\ changedThen(c, {"lobby"}, <<"state">>)
    /\ UNCHANGED <<handBased, status, game, armed, connection>>

Start(c) ==
    /\ ready(c)
    /\ status = "waiting"
    /\ status' = "in_progress" /\ game' = "playing"
    /\ changedThen(c, Parts, <<"state">>)
    /\ UNCHANGED <<handBased, armed, connection>>

(* Leaving.  A game that registers a ResignHandler, and a hand-based one   *)
(* does not, is told first, and its events are thrown away: the player     *)
(* resigns, ...                                                            *)
Resign(a) ==
    /\ status = "in_progress" /\ ~handBased /\ game = "playing"
    /\ \E ends \in BOOLEAN :
         /\ game' = IF ends THEN "over" ELSE game
         /\ changedThen(a, {"game"}, IF ends THEN <<"close", "seat", "state">> ELSE <<"seat", "state">>)
    /\ UNCHANGED status

(* ... or the game is over (ErrGameOver), and the lobby is finished, too.  *)
CatchUp(a) ==
    /\ status = "in_progress" /\ ~handBased /\ game = "over"
    /\ status' = "finished"
    /\ changedThen(a, {"lobby"}, <<"seat", "state">>)
    /\ UNCHANGED game

(* The seat is left; an empty lobby is finished, another host replaced.    *)
LeaveSeat(a) ==
    /\ \E next \in {<<"state">>, <<"close", "state">>, <<"host", "state">>} :
         changedThen(a, {"lobby"}, next)
    /\ UNCHANGED <<status, game>>

(* A game that does not know the player (ErrNotSeated), or knows that the  *)
(* player has resigned (ErrIllegalAction), is no obstacle.                 *)
Leave(c) ==
    /\ ready(c)
    /\ Resign(c) \/ CatchUp(c) \/ LeaveSeat(c)
    /\ UNCHANGED <<handBased, armed, connection>>

(* What fails before anything has changed is answered to the sender alone. *)
Refuse(c) ==
    /\ ready(c)
    /\ sendJSON(c, missing[c])
    /\ UNCHANGED <<handBased, status, game, armed, room, todo, at, failed>>

(* The timer of scheduleNextHand deals, or finds that nobody can play on,  *)
(* or fails, perhaps when the hand is dealt, and leaves it at that.        *)
NextHand ==
    /\ armed /\ todo["timer"] = <<>> /\ begins
    /\ armed' = FALSE
    /\ \/ /\ game' = "playing"
          /\ changed({"game"})
          /\ goesOn("timer", <<"event", "state">>) \/ (failed' = TRUE /\ UNCHANGED todo)
       \/ /\ goesOn("timer", <<"finish">>)
          /\ UNCHANGED <<game, missing, at>>
       \/ UNCHANGED <<game, missing, at, todo, failed>>
    /\ UNCHANGED <<handBased, status, connection>>

-----------------------------------------------------------------------------
(* What a goroutine has to do, one step at a time. *)

doing(a, what) == busy(a) /\ Head(todo[a]) = what
endBroadcast(a) == todo' = [todo EXCEPT ![a] = Tail(@)] /\ at' = [at EXCEPT ![a] = Resting]

Schedule(a) ==
    /\ doing(a, "schedule")
    /\ armed' = TRUE
    /\ todo' = [todo EXCEPT ![a] = <<>>]
    /\ UNCHANGED <<handBased, status, game, connection, missing, at, failed>>

(* The rest of a leave.  One of its statements may fail.                   *)
CloseLobby(a) ==
    /\ doing(a, "close")
    /\ status' = "finished"
    /\ changedThen(a, {"lobby"}, Tail(todo[a]))
    /\ UNCHANGED game

SetHost(a) ==
    /\ doing(a, "host")
    /\ changedThen(a, {"lobby"}, <<"state">>)
    /\ UNCHANGED <<status, game>>

GiveUp(a) ==
    /\ doing(a, "close") \/ doing(a, "seat") \/ doing(a, "host")
    /\ gaveUp(a)
    /\ UNCHANGED <<status, game, missing, at>>

GoOnLeaving(a) ==
    /\ CloseLobby(a) \/ (doing(a, "seat") /\ LeaveSeat(a)) \/ SetHost(a) \/ GiveUp(a)
    /\ UNCHANGED <<handBased, armed, connection>>

AnswerError(c) ==
    /\ doing(c, "error")
    /\ sendJSON(c, missing[c])
    /\ todo' = [todo EXCEPT ![c] = <<>>]
    /\ UNCHANGED <<handBased, status, game, armed, room, at, failed>>

(* finishGame: the lobby is finished, unless that fails; game_over unless  *)
(* the engine announced it; the final state.                               *)
FinishGame(a) ==
    /\ doing(a, "finish") \/ doing(a, "announced")
    /\ \/ status' = "finished" /\ changed({"lobby"})
       \/ UNCHANGED <<status, missing, at>>
    /\ todo' = [todo EXCEPT ![a] = IF Head(@) = "finish" THEN <<"event", "state">> ELSE <<"state">>]
    /\ UNCHANGED <<handBased, game, armed, connection, failed>>

(* broadcastState loads the lobby first, and gives up if it cannot. *)
LoadLobby(a) ==
    /\ doing(a, "state") /\ at[a].pc = "idle"
    /\ \/ /\ at' = [at EXCEPT ![a] = [Resting EXCEPT !.pc = "loaded", !.fresh = {"lobby"},
                                                     !.hasGame = (status # "waiting")]]
          /\ failed' = FALSE
          /\ UNCHANGED todo
       \/ endBroadcast(a) /\ failed' = TRUE
    /\ UNCHANGED <<handBased, status, game, armed, connection, missing>>

(* Broadcast copies the room, then sends to one client after the other. *)
CopyRoom(a) ==
    /\ \/ doing(a, "state") /\ at[a].pc = "loaded"
       \/ doing(a, "event") /\ at[a].pc = "idle"
    /\ IF room = {} THEN endBroadcast(a)
       ELSE at' = [at EXCEPT ![a].pc = "fan", ![a].left = room] /\ UNCHANGED todo
    /\ UNCHANGED <<handBased, status, game, armed, connection, missing, failed>>

(* A client's view is read when its turn comes, if the lobby loaded has a  *)
(* game, and left out if that fails; a lobby that was finished before the  *)
(* start has none to show.                                                 *)
BuildView(a, c) ==
    /\ doing(a, "state") /\ at[a].pc = "fan" /\ c \in at[a].left
    /\ at[a].hasGame /\ game # "none"
    /\ at' = [at EXCEPT ![a].pc = "built", ![a].to = c, ![a].fresh = @ \cup {"game"}]
    /\ UNCHANGED <<handBased, status, game, armed, connection, missing, todo, failed>>

sentTo(a, c) ==
    IF at[a].left = {c} THEN endBroadcast(a)
    ELSE /\ at' = [at EXCEPT ![a].pc = "fan", ![a].left = @ \ {c}, ![a].to = "timer",
                             ![a].fresh = @ \ {"game"}]
         /\ UNCHANGED todo

SendState(a, c) ==
    /\ doing(a, "state")
    /\ \/ at[a].pc = "built" /\ c = at[a].to /\ UNCHANGED failed
       \/ at[a].pc = "fan" /\ c \in at[a].left /\ failed' = (failed \/ (at[a].hasGame /\ game # "none"))
    /\ sendJSON(c, missing[c] \ at[a].fresh)
    /\ sentTo(a, c)
    /\ UNCHANGED <<handBased, status, game, armed, room>>

(* An event is worth a state that came after it. *)
SendEvent(a, c) ==
    /\ doing(a, "event") /\ at[a].pc = "fan" /\ c \in at[a].left
    /\ sendJSON(c, missing[c] \cup {"game"})
    /\ sentTo(a, c)
    /\ UNCHANGED <<handBased, status, game, armed, room, failed>>

Broadcasts(a) ==
    \/ LoadLobby(a) \/ CopyRoom(a)
    \/ \E c \in Clients : BuildView(a, c) \/ SendState(a, c) \/ SendEvent(a, c)

Work(a) == \/ (doing(a, "state") \/ doing(a, "event")) /\ Broadcasts(a)
           \/ busy(a) /\ (GoOnLeaving(a) \/ Schedule(a) \/ FinishGame(a))
           \/ a \in Clients /\ AnswerError(a)

-----------------------------------------------------------------------------
GatewayNext == \/ \E c \in Clients : \/ Connect(c) \/ Deliver(c) \/ Drop(c) \/ Hangup(c)
                                     \/ Join(c) \/ Start(c) \/ Leave(c) \/ Refuse(c)
                                     \/ \E ends \in BOOLEAN : Act(c, ends)
               \/ NextHand
               \/ \E a \in Actors : Work(a)

(* Goroutines are scheduled and every database call has a deadline, so a   *)
(* goroutine with something to do goes on.  Nothing is assumed of the      *)
(* network: messages may stay in a buffer for ever.                        *)
Fairness == \A a \in Actors : WF_gatewayVars(Work(a))

GatewaySpec == GatewayInit /\ [][GatewayNext]_gatewayVars /\ Fairness

-----------------------------------------------------------------------------
(* When nothing is left to do, and a broadcast was begun since the last    *)
(* load or view that failed and since the last request that failed after   *)
(* it had changed something, every client still connected has been sent    *)
(* the latest lobby and game, the game after every event: however joins,   *)
(* leaves, actions, next hands and their broadcasts interleave, nobody is  *)
(* missed, and one broadcast makes up for what a failure left out.         *)
QuietMeansCurrent ==
    (~failed /\ \A a \in Actors : ~busy(a)) =>
        \A c \in Clients : conn[c] = "open" => missing[c] = {}

(* A client that does not read its messages holds up nobody: a goroutine   *)
(* finishes whatever it has begun to broadcast, again and again.           *)
HubNeverBlocks == \A a \in Actors : []<>~busy(a)

=============================================================================
