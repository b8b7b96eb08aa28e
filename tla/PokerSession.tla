---------------------------- MODULE PokerSession ----------------------------
(***************************************************************************)
(* The poker session and the realtime handler around the engine: how a     *)
(* stored hand is archived, how the next one is scheduled and dealt, and   *)
(* how the table is finished.                                              *)
(*                                                                         *)
(* The row of poker.game_states (table and hand_no) and hand_history live  *)
(* in Postgres; the work between two transactions (an onMessage call that  *)
(* has committed the last action of a hand, the AfterFunc timer, a         *)
(* finishGame call) lives in the server's memory and dies with it.         *)
(***************************************************************************)
EXTENDS PokerHand

CONSTANT MaxFaults   \* bound on crashes and failed database calls

ASSUME FaultAssumption == MaxFaults \in Nat

VARIABLES
  handNo,      \* game_states.hand_no, kept beside the serialized table
  history,     \* how many hand_history rows each hand has
  lobbyStatus, \* the lobby's status
  toSchedule,  \* onMessage calls that ended a hand and have not scheduled yet
  timers,      \* armed AfterFunc timers of scheduleNextHand
  toFinish,    \* NextHand calls that reported finished, before finishGame
  faults       \* crashes and failures so far

sessionVars == <<ts, settled, handNo, history, lobbyStatus, toSchedule, timers, toFinish, faults>>

Hands == 1..MaxHands

\* InitGameState stores the first hand as hand 1.
InitialHandNo == 1

\* lobby.Start: InitState is stored in the transaction in which the lobby goes in progress.
SessionInit ==
  /\ InitState
  /\ handNo = InitialHandNo
  /\ history = [h \in Hands |-> 0]
  /\ lobbyStatus = "in_progress"
  /\ toSchedule = 0 /\ timers = 0 /\ toFinish = 0
  /\ faults = 0

\* Mutant: every action leaves a history row.
Archive_Always(over) == history' = [history EXCEPT ![handNo] = @ + 1]

\* InsertHistory, in the transaction of the action that ended the hand.
Archive(over) == history' = IF over THEN [history EXCEPT ![handNo] = @ + 1] ELSE history

(***************************************************************************)
(* Session.Apply: one transaction locks the row, applies the move, writes  *)
(* the table back under the hand_no it read and archives a finished hand.  *)
(* onMessage goes on to schedule the next hand only if Apply said over.    *)
(***************************************************************************)
Apply ==
  /\ PlayerMove
  /\ LET over == ts'.stage = "HAND_OVER"
     IN  /\ Archive(over)
         /\ toSchedule' = IF over THEN toSchedule + 1 ELSE toSchedule
  /\ UNCHANGED <<handNo, lobbyStatus, timers, toFinish, faults>>

\* Mutant: the call schedules twice.
ScheduleNextHand_Twice ==
  /\ toSchedule > 0
  /\ timers' = timers + 1
  /\ UNCHANGED <<ts, settled, handNo, history, lobbyStatus, toSchedule, toFinish, faults>>

\* scheduleNextHand, reached after the broadcasts.
ScheduleNextHand ==
  /\ toSchedule > 0
  /\ toSchedule' = toSchedule - 1
  /\ timers' = timers + 1
  /\ UNCHANGED <<ts, settled, handNo, history, lobbyStatus, toFinish, faults>>

\* The engine deals the next hand and the row is written under its number.
DealNext == NextHand /\ handNo' = handNo + 1

(***************************************************************************)
(* The timer fires and Session.NextHand runs: nothing to do unless the     *)
(* hand is over; finished when the table cannot field two players; else a  *)
(* new hand is dealt and stored under the next hand_no.                    *)
(***************************************************************************)
TimerFires ==
  /\ timers > 0
  /\ timers' = timers - 1
  /\ IF ts.stage # "HAND_OVER"
     THEN UNCHANGED <<ts, settled, handNo, toFinish>>
     ELSE \/ /\ DealNext
             /\ UNCHANGED toFinish
          \/ /\ ~enoughPlayers(rotated(ts))
             /\ toFinish' = toFinish + 1
             /\ UNCHANGED <<ts, settled, handNo>>
  /\ UNCHANGED <<history, lobbyStatus, toSchedule, faults>>

\* Mutant: the lobby is not marked finished.
FinishGame_Forgets ==
  /\ toFinish > 0
  /\ toFinish' = toFinish - 1
  /\ UNCHANGED <<ts, settled, handNo, history, lobbyStatus, toSchedule, timers, faults>>

FinishGame ==
  /\ toFinish > 0
  /\ toFinish' = toFinish - 1
  /\ lobbyStatus' = "finished"
  /\ UNCHANGED <<ts, settled, handNo, history, toSchedule, timers, faults>>

(***************************************************************************)
(* Faults.  A failed NextHand or Finish is logged and not retried; a crash *)
(* loses what was in memory, and nothing re-arms it after the restart.     *)
(***************************************************************************)
NextHandFails ==
  /\ timers > 0 /\ faults < MaxFaults
  /\ timers' = timers - 1
  /\ faults' = faults + 1
  /\ UNCHANGED <<ts, settled, handNo, history, lobbyStatus, toSchedule, toFinish>>

FinishFails ==
  /\ toFinish > 0 /\ faults < MaxFaults
  /\ toFinish' = toFinish - 1
  /\ faults' = faults + 1
  /\ UNCHANGED <<ts, settled, handNo, history, lobbyStatus, toSchedule, timers>>

Crash ==
  /\ faults < MaxFaults
  /\ toSchedule' = 0 /\ timers' = 0 /\ toFinish' = 0
  /\ faults' = faults + 1
  /\ UNCHANGED <<ts, settled, handNo, history, lobbyStatus>>

SessionNext ==
  \/ Apply
  \/ ScheduleNextHand
  \/ TimerFires
  \/ FinishGame
  \/ NextHandFails
  \/ FinishFails
  \/ Crash

SessionSpec == SessionInit /\ [][SessionNext]_sessionVars

(***************************************************************************)
(* Fairness of the server: a handler that is running goes on, and an armed *)
(* timer fires (weak fairness of TimerFires with its enabling condition    *)
(* written out; the bound on hands is the only thing that disables it).    *)
(* Players are not assumed to act.                                         *)
(***************************************************************************)
TimerCanFire ==
  timers > 0 /\ ~(ts.stage = "HAND_OVER" /\ handNo = MaxHands /\ enoughPlayers(rotated(ts)))

ServerRuns ==
  /\ WF_sessionVars(ScheduleNextHand)
  /\ WF_sessionVars(FinishGame)
  /\ []<>~TimerCanFire \/ []<><<TimerFires>>_sessionVars

FairSessionSpec == SessionSpec /\ ServerRuns

-----------------------------------------------------------------------------
(***************************************************************************)
(* The hand number is stored twice, in the serialized table and in the     *)
(* column the archive is keyed by; Apply and NextHand keep them equal.     *)
(***************************************************************************)
HandNoAgrees == handNo = ts.handNo

(***************************************************************************)
(* A hand is archived at most once, and only when it is over: hand_history *)
(* has no unique key, so nothing but the order of the transactions         *)
(* prevents a second row or a row for a hand still being played.           *)
(***************************************************************************)
ArchivedOnce ==
  \A h \in Hands :
    /\ history[h] <= 1
    /\ history[h] = 1 => h < handNo \/ (h = handNo /\ ts.stage = "HAND_OVER")

(***************************************************************************)
(* At most one next-hand trigger is outstanding, and while it is the hand  *)
(* stays over: no timer ever fires into a hand that is being played.       *)
(***************************************************************************)
OneTrigger ==
  /\ toSchedule + timers + toFinish <= 1
  /\ toSchedule + timers + toFinish = 1 => ts.stage = "HAND_OVER"

(***************************************************************************)
(* Unless a fault intervened, a hand that a player's move ended always has *)
(* its successor on the way (or the table finished): the trigger is never  *)
(* dropped between the transaction, the timer and the deal.                *)
(***************************************************************************)
PlayedHandHasSuccessor ==
  ts.stage = "HAND_OVER" /\ history[handNo] = 1 /\ faults = 0 =>
    toSchedule + timers + toFinish = 1 \/ lobbyStatus = "finished"

(***************************************************************************)
(* A hand that a player's move ended is followed by another hand, or the   *)
(* table is finished, unless a fault intervened.                           *)
(***************************************************************************)
PlayedHandIsFollowed ==
  \A h \in Hands \ {MaxHands} :
    (handNo = h /\ history[h] = 1) ~> (handNo > h \/ lobbyStatus = "finished" \/ faults > 0)

=============================================================================
