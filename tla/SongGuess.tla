------------------------------ MODULE SongGuess ------------------------------
(***************************************************************************)
(* The Song Guess game: two teams with a captain each, a judge who is on   *)
(* no team, and a host.  The active captain draws a song, opens its blocks *)
(* one at a time or guesses; the other captain may steal, or gets a last   *)
(* chance; the judge rules.  Anyone may leave at any time, and when the    *)
(* judge does the game is parked until the host appoints another.          *)
(*                                                                         *)
(* An action is one Engine.Apply, which Session.Apply runs in a            *)
(* transaction holding the game's row lock.  gs is the stored GameState.   *)
(* Titles, guess texts and events are left out; sequence numbers only key  *)
(* the action log.                                                         *)
(***************************************************************************)
EXTENDS Integers, Sequences, FiniteSetsExt

CONSTANTS
  Seats,     \* the seats the game was started with
  Blocks,    \* Blocks[i]: number of blocks of the line of song i
  Language   \* Language[i]: its language; a cell is a language and a number of blocks

ASSUME SongGuessAssumption ==
  /\ Seats \subseteq Nat
  /\ IsFiniteSet(Seats)
  /\ Cardinality(Seats) >= 3
  /\ Blocks \in Seq(Nat \ {0})
  /\ Len(Blocks) > 0
  /\ DOMAIN Language = DOMAIN Blocks

VARIABLES
  gs,         \* the GameState
  sawAnswer   \* history: seats shown the answer of the song in play

vars == <<gs, sawAnswer>>

Songs   == DOMAIN Blocks
Cells   == {<<Language[i], Blocks[i]>> : i \in Songs}
CellOf(i) == <<Language[i], Blocks[i]>>
Indices   == UNION {1..Blocks[i] : i \in Songs}

PlayTeams == {"A", "B"}
Teams     == PlayTeams \cup {"NONE"}
Phases    == {"ROSTER", "ROUND_SELECT", "SONG_PLAY", "PENDING_JUDGEMENT", "SONG_RESULT",
              "JUDGE_VACANT", "FINISHED"}
Waits     == {"ACTIVE", "STEAL", "LAST_CHANCE"}
Kinds     == {"ACTIVE_GUESS", "STEAL", "LAST_CHANCE"}

minSeats  == 3
nobody    == -1    \* a nil participant, and HostSeat when nobody is left
NoSong    == [id |-> 0, revealed |-> {}, stealAllowed |-> FALSE, awaiting |-> "NONE", window |-> 0]
NoPending == [kind |-> "NONE", team |-> "NONE", seat |-> nobody, potential |-> 0,
              resume |-> "NONE", owed |-> 0]

-----------------------------------------------------------------------------
(***************************************************************************)
(* Lookups.  Participants are kept sorted by seat, so the first match of a *)
(* search is the lowest seat.                                              *)
(***************************************************************************)
Lowest(S) == IF S = {} THEN nobody ELSE CHOOSE s \in S : \A t \in S : s <= t

captainOf(g, t)  == Lowest({s \in g.captain : g.team[s] = t})
judgeOf(g)       == Lowest(g.judge)
opponentOf(t)    == CASE t = "A" -> "B" [] t = "B" -> "A" [] OTHER -> "NONE"
effectivePhase(g) == IF g.phase = "JUDGE_VACANT" THEN g.resumePhase ELSE g.phase
activeMembers(g, t) == {s \in g.active : g.team[s] = t}

potentialOf(song) == Blocks[song.id] - Cardinality(song.revealed)
closedBlocks(song) == (1..Blocks[song.id]) \ song.revealed

promoteCaptain(g, t) ==
  IF activeMembers(g, t) = {} THEN g
  ELSE [g EXCEPT !.captain = @ \cup {Lowest(activeMembers(g, t))}]

-----------------------------------------------------------------------------
(***************************************************************************)
(* InitState: even seats on team A, odd ones on B, the lowest of each its  *)
(* captain; then the occupant of seat 0, if there is one, becomes the      *)
(* judge and the next of its team the captain.                             *)
(***************************************************************************)
applyHostJudgeDefault(g) ==
  IF g.hostSeat \notin Seats THEN g
  ELSE LET t  == g.team[g.hostSeat]
           g1 == [g EXCEPT !.judge = {g.hostSeat}, !.team[g.hostSeat] = "NONE",
                           !.captain = @ \ {g.hostSeat}]
       IN  IF captainOf(g1, t) = nobody THEN promoteCaptain(g1, t) ELSE g1

defaultTeam == [s \in Seats |-> IF s % 2 = 0 THEN "A" ELSE "B"]

InitState ==
  applyHostJudgeDefault(
    [phase |-> "ROSTER", resumePhase |-> "NONE", hostSeat |-> 0, activeTeam |-> "A", roundNo |-> 0,
     team |-> defaultTeam,
     captain |-> {Lowest({s \in Seats : defaultTeam[s] = t}) : t \in PlayTeams} \cap Seats,
     judge |-> {}, active |-> Seats,
     score |-> [t \in PlayTeams |-> 0],
     unplayed |-> Songs, song |-> NoSong, pending |-> NoPending,
     history |-> <<>>, results |-> <<>>])

Init == gs = InitState /\ sawAnswer = {}

-----------------------------------------------------------------------------
(***************************************************************************)
(* The end of a song and of the game.                                      *)
(***************************************************************************)
finishSong(g, awarded, points, skipped) ==
  [g EXCEPT !.history = Append(@, [song |-> g.song.id, revealed |-> Cardinality(g.song.revealed),
                                   active |-> g.activeTeam, awarded |-> awarded,
                                   points |-> points, skipped |-> skipped]),
            !.score = [t \in PlayTeams |-> g.score[t] + (IF t = awarded THEN points ELSE 0)],
            !.phase = "SONG_RESULT",
            !.pending = NoPending]

\* buildResults and teamRanks: one entry per participant, unranked when on no team.
rankOf(g, t) == IF g.score[t] >= g.score[opponentOf(t)] THEN 1 ELSE 2

buildResults(g) ==
  [s \in Seats |->
    [team |-> g.team[s], judge |-> s \in g.judge,
     total |-> IF g.team[s] \in PlayTeams THEN g.score[g.team[s]] ELSE 0,
     rank  |-> IF g.team[s] \in PlayTeams THEN rankOf(g, g.team[s]) ELSE 0]]

\* Mutant: a song parked behind a vacancy is not recorded.
finalize_LiteralPhase(g) ==
  LET g1 == IF g.phase \in {"SONG_PLAY", "PENDING_JUDGEMENT"}
            THEN finishSong(g, "NONE", 0, TRUE) ELSE g
  IN  [g1 EXCEPT !.phase = "FINISHED", !.resumePhase = "NONE", !.results = buildResults(g1)]

\* A song still in flight is recorded first.
finalize(g) ==
  LET g1 == IF effectivePhase(g) \in {"SONG_PLAY", "PENDING_JUDGEMENT"}
            THEN finishSong(g, "NONE", 0, TRUE) ELSE g
  IN  [g1 EXCEPT !.phase = "FINISHED", !.resumePhase = "NONE", !.results = buildResults(g1)]

terminalCondition(g) ==
  \/ \E t \in PlayTeams : activeMembers(g, t) = {}
  \/ Cardinality(g.active) < minSeats

finalizeIfTerminal(g) == IF terminalCondition(g) THEN finalize(g) ELSE g

-----------------------------------------------------------------------------
(***************************************************************************)
(* What a viewer is shown of the song in play: isSongFinished makes the    *)
(* answer public, until then only an active judge gets it.                 *)
(***************************************************************************)
songInPlay(g) == effectivePhase(g) \in {"SONG_PLAY", "PENDING_JUDGEMENT"}

\* Mutant: the literal phase decides, so that a vacancy shows the answer to everybody.
answerShownTo_Literal(g, s) ==
  g.song # NoSong /\ (g.phase \notin {"SONG_PLAY", "PENDING_JUDGEMENT"} \/ s \in g.judge \cap g.active)

answerShownTo(g, s) ==
  g.song # NoSong /\ (effectivePhase(g) \in {"SONG_RESULT", "FINISHED"} \/ s \in g.judge \cap g.active)

\* One step of the game: the state is stored, and everybody is sent a view of it.
Store(g) ==
  /\ gs' = g
  /\ sawAnswer' = IF songInPlay(g)
                  THEN {s \in Seats : answerShownTo(g, s)} \cup
                       (IF g.song.id = gs.song.id THEN sawAnswer ELSE {})
                  ELSE {}

-----------------------------------------------------------------------------
(***************************************************************************)
(* The host's actions on the roster, before the game begins.               *)
(***************************************************************************)
isHost(s) == s = gs.hostSeat

\* rosterHostGuard.
hostInRoster(s) == isHost(s) /\ gs.phase = "ROSTER"

mayAssignTeam(s, target, team) ==
  hostInRoster(s) /\ target \in gs.active /\ (team = "NONE" \/ target \notin gs.judge)

AssignTeam(s, target, team) ==
  /\ mayAssignTeam(s, target, team)
  /\ Store([gs EXCEPT !.team[target] = team,
                      !.captain = IF team # gs.team[target] THEN @ \ {target} ELSE @])

AssignCaptain(s, target) ==
  /\ hostInRoster(s)
  /\ target \in gs.active
  /\ gs.team[target] # "NONE"
  /\ Store([gs EXCEPT !.captain = (@ \ {captainOf(gs, gs.team[target])}) \cup {target}])

\* reassignJudge: the target leaves its team, which gets another captain if it was theirs.
\* Mutant: the team of the new judge is left without a captain.
reassignJudge_NoPromotion(g, target) ==
  [g EXCEPT !.judge = (@ \ {judgeOf(g)}) \cup {target},
            !.team[target] = "NONE", !.captain = @ \ {target}]

reassignJudge(g, target) ==
  LET t  == g.team[target]
      g1 == [g EXCEPT !.judge = (@ \ {judgeOf(g)}) \cup {target},
                      !.team[target] = "NONE", !.captain = @ \ {target}]
  IN  IF t # "NONE" /\ captainOf(g1, t) = nobody THEN promoteCaptain(g1, t) ELSE g1

\* The host appoints a judge before the game, or when the seat is vacant.
mayAssignJudge(s, target, phase) == isHost(s) /\ gs.phase = phase /\ target \in gs.active

AssignJudgeInRoster(s, target) ==
  /\ mayAssignJudge(s, target, "ROSTER")
  /\ Store(reassignJudge(gs, target))

\* The parked phase is restored before the end of the game is considered.
AssignJudgeInVacant(s, target) ==
  /\ mayAssignJudge(s, target, "JUDGE_VACANT")
  /\ Store(finalizeIfTerminal(
             [reassignJudge(gs, target) EXCEPT !.phase = gs.resumePhase, !.resumePhase = "NONE"]))

\* Names are not part of the abstract state.
SetTeamName(s) ==
  /\ hostInRoster(s)
  /\ Store(gs)

\* validateRosterForBeginGame, hasUnplayedSong.
validRoster(g) ==
  /\ judgeOf(g) # nobody
  /\ g.team[judgeOf(g)] = "NONE"
  /\ \A t \in PlayTeams :
       /\ activeMembers(g, t) # {}
       /\ Cardinality(activeMembers(g, t) \cap g.captain) = 1

BeginGame(s, startingTeam) ==
  /\ hostInRoster(s)
  /\ validRoster(gs)
  /\ gs.unplayed # {}
  /\ Store([gs EXCEPT !.phase = "ROUND_SELECT", !.activeTeam = startingTeam, !.roundNo = 1])

-----------------------------------------------------------------------------
(***************************************************************************)
(* A round.                                                                *)
(***************************************************************************)
isActiveCaptain(s)   == captainOf(gs, gs.activeTeam) = s
isOpponentCaptain(s) == captainOf(gs, opponentOf(gs.activeTeam)) = s

unplayedIn(cell) == {i \in gs.unplayed : CellOf(i) = cell}

maySelectCell(s, cell) ==
  gs.phase = "ROUND_SELECT" /\ isActiveCaptain(s) /\ unplayedIn(cell) # {}

\* The shuffler may draw any unplayed song of the cell.
SelectCell(s, cell) ==
  /\ maySelectCell(s, cell)
  /\ \E i \in unplayedIn(cell) :
       Store([gs EXCEPT !.unplayed = @ \ {i},
                        !.song = [id |-> i, revealed |-> {}, stealAllowed |-> TRUE,
                                  awaiting |-> "ACTIVE", window |-> 0],
                        !.phase = "SONG_PLAY"])

nextTeam(g) == opponentOf(g.activeTeam)

mayCallNextRound(s) == gs.phase = "SONG_RESULT" /\ (isOpponentCaptain(s) \/ isHost(s))

NextRound(s) ==
  /\ mayCallNextRound(s)
  /\ LET g == [gs EXCEPT !.activeTeam = nextTeam(gs), !.song = NoSong]
     IN  Store(IF gs.unplayed = {} THEN finalize(g)
               ELSE [g EXCEPT !.roundNo = @ + 1, !.phase = "ROUND_SELECT"])

-----------------------------------------------------------------------------
(***************************************************************************)
(* A song: opening blocks, guessing, stealing.                             *)
(***************************************************************************)
playing(wait) == gs.phase = "SONG_PLAY" /\ gs.song.awaiting = wait

\* The active captain decides in ACTIVE, the other one in STEAL and LAST_CHANCE.
decides(s, wait) ==
  playing(wait) /\ (IF wait = "ACTIVE" THEN isActiveCaptain(s) ELSE isOpponentCaptain(s))

\* revealAt: the song ends when its last block is opened.
revealAt(g, index) ==
  LET g1 == [g EXCEPT !.song.revealed = g.song.revealed \cup {index}]
  IN  IF potentialOf(g1.song) = 0 THEN finishSong(g1, "NONE", 0, FALSE)
      ELSE [g1 EXCEPT !.song.awaiting = "ACTIVE"]

\* The first block of a song is opened at once; for every later one the
\* opponents get a chance to steal first.
OpenBlock(s, index) ==
  /\ decides(s, "ACTIVE")
  /\ index \in closedBlocks(gs.song)
  /\ Store(IF gs.song.stealAllowed /\ gs.song.revealed # {}
           THEN [gs EXCEPT !.song.awaiting = "STEAL", !.song.window = index]
           ELSE revealAt(gs, index))

\* A claim is put before the judge.
Claim(kind, team, s, owed) ==
  Store([gs EXCEPT !.pending = [kind |-> kind, team |-> team, seat |-> s,
                                potential |-> potentialOf(gs.song),
                                resume |-> gs.song.awaiting, owed |-> owed],
                   !.phase = "PENDING_JUDGEMENT"])

GuessFromActive(s) ==
  /\ decides(s, "ACTIVE")
  /\ Claim("ACTIVE_GUESS", gs.activeTeam, s, 0)

GuessFromLastChance(s) ==
  /\ decides(s, "LAST_CHANCE")
  /\ Claim("LAST_CHANCE", opponentOf(gs.activeTeam), s, 0)

Steal(s) ==
  /\ decides(s, "STEAL")
  /\ gs.song.stealAllowed
  /\ Claim("STEAL", opponentOf(gs.activeTeam), s, gs.song.window)

declined(g) == g.song.window

PassFromSteal(s) ==
  /\ decides(s, "STEAL")
  /\ Store(revealAt(gs, declined(gs)))

PassFromLastChance(s) ==
  /\ decides(s, "LAST_CHANCE")
  /\ Store(finishSong(gs, "NONE", 0, FALSE))

maySkip(s) == isHost(s) /\ gs.phase \in {"SONG_PLAY", "PENDING_JUDGEMENT"}

SkipSong(s) ==
  /\ maySkip(s)
  /\ Store(finishSong(gs, "NONE", 0, TRUE))

-----------------------------------------------------------------------------
(***************************************************************************)
(* The judge's verdict.                                                    *)
(***************************************************************************)
judgedIncorrect(g) ==
  LET back == [g EXCEPT !.phase = "SONG_PLAY", !.pending = NoPending]
  IN  CASE g.pending.kind = "ACTIVE_GUESS" -> [back EXCEPT !.song.awaiting = "LAST_CHANCE"]
        [] g.pending.kind = "STEAL"        -> revealAt([back EXCEPT !.song.stealAllowed = FALSE],
                                                       g.pending.owed)
        [] g.pending.kind = "LAST_CHANCE"  -> finishSong(g, "NONE", 0, FALSE)

mayJudge(s) == gs.phase = "PENDING_JUDGEMENT" /\ s \in gs.judge

JudgeResult(s, correct) ==
  /\ mayJudge(s)
  /\ Store(IF correct THEN finishSong(gs, gs.pending.team, gs.pending.potential, FALSE)
           ELSE judgedIncorrect(gs))

Void(s) ==
  /\ mayJudge(s)
  /\ Store([gs EXCEPT !.phase = "SONG_PLAY", !.song.awaiting = gs.pending.resume,
                      !.pending = NoPending])

-----------------------------------------------------------------------------
(***************************************************************************)
(* Leaving, in any phase but the last.                                     *)
(***************************************************************************)
\* Mutant: the host seat is not handed on.
handOver_Not(g, s) == g

handOver(g, s) ==
  IF s = g.hostSeat THEN [g EXCEPT !.hostSeat = Lowest(g.active)] ELSE g

mayResign(s) == gs.phase # "FINISHED" /\ s \in gs.active

Resign(s) ==
  /\ mayResign(s)
  /\ LET left     == [gs EXCEPT !.active = @ \ {s}, !.captain = @ \ {s}, !.judge = @ \ {s}]
         promoted == IF s \in gs.captain THEN promoteCaptain(left, gs.team[s]) ELSE left
         parked   == IF s \in gs.judge
                     THEN [promoted EXCEPT !.resumePhase = gs.phase, !.phase = "JUDGE_VACANT"]
                     ELSE promoted
     IN  Store(finalizeIfTerminal(handOver(parked, s)))

-----------------------------------------------------------------------------
Guess(s) == GuessFromActive(s) \/ GuessFromLastChance(s)
Pass(s)  == PassFromSteal(s) \/ PassFromLastChance(s)

AssignJudge(s, target) == AssignJudgeInRoster(s, target) \/ AssignJudgeInVacant(s, target)

Next == \E s \in Seats :
  \/ \E target \in Seats, team \in Teams : AssignTeam(s, target, team)
  \/ \E target \in Seats : AssignCaptain(s, target) \/ AssignJudge(s, target)
  \/ SetTeamName(s)
  \/ \E team \in PlayTeams : BeginGame(s, team)
  \/ \E cell \in Cells : SelectCell(s, cell)
  \/ NextRound(s)
  \/ \E index \in Indices : OpenBlock(s, index)
  \/ Guess(s)
  \/ Steal(s)
  \/ Pass(s)
  \/ SkipSong(s)
  \/ \E correct \in BOOLEAN : JudgeResult(s, correct)
  \/ Void(s)
  \/ Resign(s)

Spec == Init /\ [][Next]_vars

-----------------------------------------------------------------------------
(***************************************************************************)
(* legalActions: the actions a viewer is offered.                          *)
(***************************************************************************)
only(condition, names) == IF condition THEN names ELSE {}

\* Mutant: pass is offered with every decision of the song.
songPlayActions_PassAlways(g, s) ==
  CASE g.song.awaiting = "ACTIVE"      -> only(captainOf(g, g.activeTeam) = s, {"guess", "open_block", "pass"})
    [] g.song.awaiting = "STEAL"       -> only(captainOf(g, opponentOf(g.activeTeam)) = s, {"steal", "pass"})
    [] g.song.awaiting = "LAST_CHANCE" -> only(captainOf(g, opponentOf(g.activeTeam)) = s, {"guess", "pass"})

songPlayActions(g, s) ==
  CASE g.song.awaiting = "ACTIVE" ->
         only(captainOf(g, g.activeTeam) = s, {"guess"} \cup only(closedBlocks(g.song) # {}, {"open_block"}))
    [] g.song.awaiting = "STEAL" ->
         only(captainOf(g, opponentOf(g.activeTeam)) = s, {"steal", "pass"})
    [] g.song.awaiting = "LAST_CHANCE" ->
         only(captainOf(g, opponentOf(g.activeTeam)) = s, {"guess", "pass"})

rosterActions == {"assign_team", "assign_captain", "assign_judge", "set_team_name", "begin_game"}

phaseActions(g, s) ==
  CASE g.phase = "ROSTER" -> only(s = g.hostSeat, rosterActions)
    [] g.phase = "ROUND_SELECT" -> only(captainOf(g, g.activeTeam) = s, {"select_cell"})
    [] g.phase = "SONG_PLAY" -> songPlayActions(g, s) \cup only(s = g.hostSeat, {"skip_song"})
    [] g.phase = "PENDING_JUDGEMENT" ->
         only(s \in g.judge, {"judge_result", "void"}) \cup only(s = g.hostSeat, {"skip_song"})
    [] g.phase = "SONG_RESULT" ->
         only(captainOf(g, opponentOf(g.activeTeam)) = s \/ s = g.hostSeat, {"next_round"})
    [] g.phase = "JUDGE_VACANT" -> only(s = g.hostSeat, {"assign_judge"})
    [] g.phase = "FINISHED" -> {}

legalActions(g, s) ==
  only(s \in g.active, phaseActions(g, s) \cup only(g.phase # "FINISHED", {"resign"}))

\* Those Engine.Apply accepts from s, with some payload: the handlers' guards.
accepted(s) ==
  only(\E target \in Seats, team \in Teams : mayAssignTeam(s, target, team), {"assign_team"})
  \cup only(\E target \in Seats, phase \in {"ROSTER", "JUDGE_VACANT"} :
               mayAssignJudge(s, target, phase), {"assign_judge"})
  \cup only(hostInRoster(s), {"set_team_name"})
  \cup only(\E cell \in Cells : maySelectCell(s, cell), {"select_cell"})
  \cup only(mayCallNextRound(s), {"next_round"})
  \cup only(decides(s, "ACTIVE") /\ closedBlocks(gs.song) # {}, {"open_block"})
  \cup only(decides(s, "ACTIVE") \/ decides(s, "LAST_CHANCE"), {"guess"})
  \cup only(decides(s, "STEAL") /\ gs.song.stealAllowed, {"steal"})
  \cup only(decides(s, "STEAL") \/ decides(s, "LAST_CHANCE"), {"pass"})
  \cup only(maySkip(s), {"skip_song"})
  \cup only(mayJudge(s), {"judge_result", "void"})
  \cup only(mayResign(s), {"resign"})

-----------------------------------------------------------------------------
begun(g) == effectivePhase(g) \notin {"ROSTER", "FINISHED"}

(***************************************************************************)
(* The stored state is well formed.                                        *)
(***************************************************************************)
Outcomes == [song : Songs, revealed : Nat, active : PlayTeams, awarded : Teams, points : Nat,
             skipped : BOOLEAN]

SongStates == [id : Songs, revealed : SUBSET Nat, stealAllowed : BOOLEAN, awaiting : Waits, window : Nat]

Pendings == [kind : Kinds, team : PlayTeams, seat : Seats, potential : Nat, resume : Waits, owed : Nat]

TypeOK ==
  /\ gs.phase \in Phases
  /\ gs.resumePhase \in (Phases \ {"JUDGE_VACANT", "FINISHED"}) \cup {"NONE"}
  /\ gs.hostSeat \in Seats \cup {0, nobody}
  /\ gs.activeTeam \in PlayTeams
  /\ gs.roundNo \in Nat
  /\ gs.team \in [Seats -> Teams]
  /\ gs.captain \subseteq Seats
  /\ gs.judge \subseteq Seats
  /\ gs.active \subseteq Seats
  /\ gs.score \in [PlayTeams -> Nat]
  /\ gs.unplayed \subseteq Songs
  /\ gs.song \in SongStates \cup {NoSong}
  /\ gs.pending \in Pendings \cup {NoPending}
  /\ gs.history \in Seq(Outcomes)
  /\ sawAnswer \subseteq Seats

(***************************************************************************)
(* No song is lost or played twice: every song is in its cell, in flight,  *)
(* or in the history once, also when the game ends around a song in flight *)
(* (invariant law 1).                                                      *)
(***************************************************************************)
playedSongs(g) == {g.history[i].song : i \in DOMAIN g.history}

SongsConserved ==
  LET flying == IF songInPlay(gs) THEN {gs.song.id} ELSE {}
  IN  /\ Songs = gs.unplayed \cup playedSongs(gs) \cup flying
      /\ Cardinality(Songs) = Cardinality(gs.unplayed) + Len(gs.history) + Cardinality(flying)

(***************************************************************************)
(* A team's score is what the history awards it, an award is worth the     *)
(* blocks that were closed at the end of the song, and the results rank    *)
(* the teams by it (laws 3 and 4).                                         *)
(***************************************************************************)
ScoreIsHistory ==
  /\ \A t \in PlayTeams :
       gs.score[t] = MapThenSumSet(LAMBDA i : IF gs.history[i].awarded = t THEN gs.history[i].points ELSE 0,
                                   DOMAIN gs.history)
  /\ \A i \in DOMAIN gs.history :
       LET h == gs.history[i] IN
       h.points = IF h.awarded = "NONE" THEN 0 ELSE Blocks[h.song] - h.revealed
  /\ gs.phase = "FINISHED" =>
       \A s, t \in Seats :
         gs.team[s] = "A" /\ gs.team[t] = "B" =>
           (gs.results[s].rank <= gs.results[t].rank <=> gs.score["A"] >= gs.score["B"])

(***************************************************************************)
(* Rounds are counted and the teams take turns, through skipped songs,     *)
(* vacancies and departures (law 12).                                      *)
(***************************************************************************)
RoundsAlternate ==
  /\ begun(gs) => gs.roundNo = Len(gs.history) + (IF effectivePhase(gs) = "SONG_RESULT" THEN 0 ELSE 1)
  /\ \A i \in 1..(Len(gs.history) - 1) : gs.history[i + 1].active = opponentOf(gs.history[i].active)
  /\ begun(gs) /\ gs.history # <<>> =>
       gs.activeTeam = (IF effectivePhase(gs) = "SONG_RESULT"
                        THEN gs.history[Len(gs.history)].active
                        ELSE opponentOf(gs.history[Len(gs.history)].active))

(***************************************************************************)
(* The history is the exact account of the game, however it was played,    *)
(* skipped, voided or broken off: of its songs, its scores and its rounds. *)
(***************************************************************************)
HistoryIsExact == SongsConserved /\ ScoreIsHistory /\ RoundsAlternate

(***************************************************************************)
(* Once begun, and until it is over, the game has what its rules need of   *)
(* people, whoever leaves: a host who is still there, two teams each with  *)
(* one captain of their own, and, unless the seat is vacant, one judge who *)
(* is on no team (laws 5 and 6).  None of them has left.                   *)
(***************************************************************************)
RosterIsPlayable ==
  begun(gs) =>
    /\ gs.hostSeat \in gs.active
    /\ \A t \in PlayTeams :
         /\ Cardinality({s \in gs.captain : gs.team[s] = t}) = 1
         /\ captainOf(gs, t) \in gs.active
    /\ Cardinality(gs.judge) = (IF gs.phase = "JUDGE_VACANT" THEN 0 ELSE 1)
    /\ \A s \in gs.judge : s \in gs.active /\ gs.team[s] = "NONE"

(***************************************************************************)
(* A claim waits exactly while the (possibly parked) phase is that of a    *)
(* judgement, and what it recorded still fits the song: the points it is   *)
(* worth, the sub-state a void goes back to, and a block owed to the other *)
(* team that is still closed (laws 8 and 9).                               *)
(***************************************************************************)
PendingFitsSong ==
  /\ gs.pending # NoPending <=> effectivePhase(gs) = "PENDING_JUDGEMENT"
  /\ songInPlay(gs) => potentialOf(gs.song) > 0
  /\ gs.pending # NoPending =>
       /\ gs.pending.potential = potentialOf(gs.song)
       /\ gs.pending.resume = gs.song.awaiting
       /\ gs.pending.team = IF gs.pending.kind = "ACTIVE_GUESS" THEN gs.activeTeam
                            ELSE opponentOf(gs.activeTeam)
       /\ gs.pending.kind = "STEAL" => gs.song.stealAllowed /\ gs.pending.owed \in closedBlocks(gs.song)

(***************************************************************************)
(* The stored state can be played on: its parts fit each other and the     *)
(* people who are still there.                                             *)
(***************************************************************************)
WellFormed == TypeOK /\ RosterIsPlayable /\ PendingFitsSong

(***************************************************************************)
(* legalActions "must agree with those handlers exactly": what a viewer is *)
(* offered is what Apply accepts from that seat.  begin_game and           *)
(* assign_captain are offered to the host whatever the roster.             *)
(***************************************************************************)
LegalAgreesWithApply ==
  \A s \in Seats : legalActions(gs, s) \ {"begin_game", "assign_captain"} = accepted(s)

(***************************************************************************)
(* Nobody who can still guess has been shown the answer of the song in     *)
(* play: not through a vacancy, nor by having been the judge before.       *)
(***************************************************************************)
AnswerStaysSecret ==
  songInPlay(gs) => \A s \in sawAnswer \cap gs.active : gs.team[s] = "NONE"

(***************************************************************************)
(* No silent player but the host and a choosing captain can hold the game  *)
(* up: one of the two has a move that moves it on in every phase until the *)
(* end, whoever has left.                                                  *)
(***************************************************************************)
WayOut ==
  gs.phase # "FINISHED" => \E s \in gs.active :
    legalActions(gs, s) \cap {"skip_song", "next_round", "assign_judge", "select_cell"} # {}

=============================================================================
