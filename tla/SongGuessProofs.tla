--------------------------- MODULE SongGuessProofs ---------------------------
(***************************************************************************)
(* Proofs about SongGuess, for any number of seats and any pack: what the  *)
(* stored state promises after every action, whoever leaves and whenever   *)
(* the judge's seat is vacant.                                             *)
(*                                                                         *)
(* The inductive invariant speaks of a state g, not of gs, so that what a  *)
(* helper of the engine (finishSong, reassignJudge, ...) does to a state   *)
(* is a lemma, used by every action that calls it.                         *)
(***************************************************************************)
EXTENDS SongGuess, BasicFacts

ResultStates == {<<>>} \cup
  [Seats -> [team : Teams, judge : BOOLEAN, total : Nat, rank : 0..2]]

GameStates ==
  [phase       : Phases,
   resumePhase : (Phases \ {"JUDGE_VACANT", "FINISHED"}) \cup {"NONE"},
   hostSeat    : Seats \cup {0, nobody},
   activeTeam  : PlayTeams,
   roundNo     : Nat,
   team        : [Seats -> Teams],
   captain     : SUBSET Seats,
   judge       : SUBSET Seats,
   active      : SUBSET Seats,
   score       : [PlayTeams -> Nat],
   unplayed    : SUBSET Songs,
   song        : SongStates \cup {NoSong},
   pending     : Pendings \cup {NoPending},
   history     : Seq(Outcomes),
   results     : ResultStates]

\* Nobody who left holds an office, no team has two captains, the judge is one
\* and on no team.  This holds in every phase, also while the roster is made.
OfficesOK(g) ==
  /\ g.captain \subseteq g.active
  /\ \A s \in g.captain : g.team[s] \in PlayTeams
  /\ \A s, t \in g.captain : g.team[s] = g.team[t] => s = t
  /\ g.judge \subseteq g.active
  /\ \A s \in g.judge : g.team[s] = "NONE"
  /\ \A s, t \in g.judge : s = t

\* A game is parked exactly while the seat of the judge is vacant.
ParkedOK(g) ==
  /\ g.phase = "JUDGE_VACANT" <=> g.resumePhase # "NONE"
  /\ g.phase = "JUDGE_VACANT" => g.judge = {}

\* The host is still there, unless the game was set up without a seat 0: then
\* nobody is the host and the roster stays as it is.
HostOK(g) ==
  \/ g.hostSeat \in g.active
  \/ g.phase = "FINISHED"
  \/ 0 \notin Seats /\ g.hostSeat = 0 /\ effectivePhase(g) = "ROSTER"

\* Once begun, no team is without a captain and no game in play without a judge.
StaffedOK(g) ==
  begun(g) =>
    /\ \A t \in PlayTeams : \E s \in g.captain : g.team[s] = t
    /\ g.phase # "JUDGE_VACANT" => g.judge # {}

PeopleOK(g) == OfficesOK(g) /\ ParkedOK(g) /\ HostOK(g) /\ StaffedOK(g)

\* A song in flight has closed blocks; a window to steal is one of them and was
\* only opened because stealing is allowed.
Drawn(g) == g.song \in SongStates /\ g.song.revealed \subseteq 1..Blocks[g.song.id]

SongOK(g) ==
  songInPlay(g) =>
    /\ Drawn(g)
    /\ closedBlocks(g.song) # {}
    /\ g.song.awaiting = "STEAL" => g.song.stealAllowed /\ g.song.window \in closedBlocks(g.song)

PendingOK(g) ==
  /\ g.pending # NoPending <=> effectivePhase(g) = "PENDING_JUDGEMENT"
  /\ g.pending # NoPending =>
       /\ g.pending.potential = potentialOf(g.song)
       /\ g.pending.resume = g.song.awaiting
       /\ g.pending.team = IF g.pending.kind = "ACTIVE_GUESS" THEN g.activeTeam
                           ELSE opponentOf(g.activeTeam)
       /\ g.pending.kind = "STEAL" => g.song.stealAllowed /\ g.pending.owed \in closedBlocks(g.song)

\* There is something to select when a cell is to be selected.
TableOK(g) ==
  /\ SongOK(g)
  /\ PendingOK(g)
  /\ effectivePhase(g) = "ROUND_SELECT" => g.unplayed # {}

Flying(g) == IF songInPlay(g) THEN {g.song.id} ELSE {}

SongsOK(g) ==
  /\ Songs = g.unplayed \cup playedSongs(g) \cup Flying(g)
  /\ Cardinality(Songs) = Cardinality(g.unplayed) + Len(g.history) + Cardinality(Flying(g))

\* What the history gives team t, song by song.
Awards(h, t) == [i \in DOMAIN h |-> IF h[i].awarded = t THEN h[i].points ELSE 0]

ScoreOK(g) ==
  /\ \A t \in PlayTeams : g.score[t] = Sum(Awards(g.history, t), DOMAIN g.history)
  /\ \A i \in DOMAIN g.history :
       LET h == g.history[i] IN
       h.points = IF h.awarded = "NONE" THEN 0 ELSE Blocks[h.song] - h.revealed
  /\ g.phase = "FINISHED" => g.results = buildResults(g)

AlternateOK(g) ==
  \A i \in 1..(Len(g.history) - 1) : g.history[i + 1].active = opponentOf(g.history[i].active)

CountOK(g) ==
  /\ begun(g) => g.roundNo = Len(g.history) + (IF effectivePhase(g) = "SONG_RESULT" THEN 0 ELSE 1)
  /\ begun(g) /\ g.history # <<>> =>
       g.activeTeam = (IF effectivePhase(g) = "SONG_RESULT"
                       THEN g.history[Len(g.history)].active
                       ELSE opponentOf(g.history[Len(g.history)].active))
  /\ effectivePhase(g) = "ROSTER" => g.history = <<>>

HistoryOK(g) == SongsOK(g) /\ ScoreOK(g) /\ AlternateOK(g) /\ CountOK(g)

\* Whoever was shown the answer of the song in play is on no team since.
SecretOK(g, saw) ==
  /\ saw \subseteq Seats
  /\ IF songInPlay(g) THEN \A s \in saw \cap g.active : g.team[s] = "NONE" ELSE saw = {}

StateOK(g) == g \in GameStates /\ PeopleOK(g) /\ TableOK(g) /\ HistoryOK(g)

Inv == StateOK(gs) /\ SecretOK(gs, sawAnswer)

-----------------------------------------------------------------------------
(***************************************************************************)
(* The data: songs, seats, and the lowest seat of a set.                   *)
(***************************************************************************)
LEMMA SongFacts ==
  /\ Songs = 1..Len(Blocks) /\ Len(Blocks) \in Nat /\ IsFiniteSet(Songs)
  /\ Songs \subseteq Nat \ {0}
  /\ \A i \in Songs : Blocks[i] \in Nat \ {0}
<1>1. Songs = 1..Len(Blocks) /\ Len(Blocks) \in Nat
  BY SongGuessAssumption DEF Songs
<1>2. \A i \in Songs : Blocks[i] \in Nat \ {0}
  BY SongGuessAssumption DEF Songs
<1>3. 1 \in Int /\ Len(Blocks) \in Int
  BY <1>1
<1>4. IsFiniteSet(1..Len(Blocks))
  BY <1>3, FS_Interval
<1> QED
  BY <1>1, <1>2, <1>4

\* The lowest of some seats is one of them, and nobody when there are none.
LEMMA LowestIs ==
  ASSUME NEW T \in SUBSET Seats
  PROVE  /\ T = {} => Lowest(T) = nobody
         /\ T # {} => Lowest(T) \in T
         /\ Lowest(T) = nobody => T = {}
         /\ Lowest(T) \in Seats \cup {nobody}
<1>1. T \in SUBSET Nat /\ nobody \notin T
  BY SongGuessAssumption DEF nobody
<1>2. T # {} => \E s \in T : \A t \in T : s <= t
  BY <1>1, LeastNatural
<1> QED
  BY <1>1, <1>2 DEF Lowest

\* The lowest of one seat is that seat.
LEMMA LowestOfOne ==
  ASSUME NEW s \in Seats
  PROVE  Lowest({s}) = s
BY LowestIs

\* The blocks of a song that can be opened are as many as it is worth.
LEMMA PotentialIs ==
  ASSUME NEW song \in SongStates, song.revealed \subseteq 1..Blocks[song.id]
  PROVE  /\ song.id \in Songs
         /\ Cardinality(song.revealed) \in Nat
         /\ potentialOf(song) = Cardinality(closedBlocks(song))
         /\ potentialOf(song) \in Nat
         /\ potentialOf(song) = 0 <=> closedBlocks(song) = {}
         /\ closedBlocks(song) \subseteq Nat
<1> DEFINE R == song.revealed
           B == 1..Blocks[song.id]
<1>1. song.id \in Songs
  BY DEF SongStates
<1>2. Blocks[song.id] \in Nat
  BY <1>1, SongFacts
<1>3. IsFiniteSet(B) /\ Cardinality(B) = Blocks[song.id]
  <2>1. 1 \in Int /\ Blocks[song.id] \in Int
    BY <1>2
  <2>2. /\ IsFiniteSet(B)
        /\ Cardinality(B) = IF 1 > Blocks[song.id] THEN 0 ELSE Blocks[song.id] - 1 + 1
    BY <2>1, FS_Interval
  <2> QED
    BY <2>2, <1>2
<1>4. IsFiniteSet(R) /\ Cardinality(R) \in Nat
  BY <1>3, FS_Subset, FS_CardinalityType
<1>5. B \cap R = R
  OBVIOUS
<1>6. IsFiniteSet(B \ R) /\ Cardinality(B \ R) = Cardinality(B) - Cardinality(R)
  <2>1. IsFiniteSet(B \ R) /\ Cardinality(B \ R) = Cardinality(B) - Cardinality(B \cap R)
    BY <1>3, FS_Difference
  <2> QED
    BY <2>1, <1>5
<1>7. Cardinality(B \ R) \in Nat /\ (Cardinality(B \ R) = 0 <=> B \ R = {})
  BY <1>6, FS_CardinalityType, FS_EmptySet
<1> QED
  BY <1>1, <1>2, <1>3, <1>4, <1>6, <1>7 DEF potentialOf, closedBlocks

-----------------------------------------------------------------------------
(***************************************************************************)
(* finishSong.                                                             *)
(***************************************************************************)
SamePeople(f, g) ==
  /\ f.hostSeat = g.hostSeat /\ f.team = g.team /\ f.captain = g.captain
  /\ f.judge = g.judge /\ f.active = g.active

SameAccount(f, g) ==
  /\ f.activeTeam = g.activeTeam /\ f.roundNo = g.roundNo /\ f.history = g.history
  /\ f.score = g.score /\ f.results = g.results

SameTable(f, g) == f.unplayed = g.unplayed /\ f.song = g.song /\ f.pending = g.pending

\* Whatever may be awarded: nothing, or what the closed blocks are worth.
Award(g, awarded, points) ==
  /\ awarded \in Teams
  /\ points = IF awarded = "NONE" THEN 0 ELSE potentialOf(g.song)

outcomeOf(g, awarded, points, skipped) ==
  [song |-> g.song.id, revealed |-> Cardinality(g.song.revealed), active |-> g.activeTeam,
   awarded |-> awarded, points |-> points, skipped |-> skipped]

Finished(f, g, awarded, points, skipped) ==
  /\ f.phase = "SONG_RESULT" /\ f.resumePhase = g.resumePhase
  /\ f.pending = NoPending /\ f.song = g.song /\ f.unplayed = g.unplayed
  /\ f.history = Append(g.history, outcomeOf(g, awarded, points, skipped))
  /\ f.score = [t \in PlayTeams |-> g.score[t] + (IF t = awarded THEN points ELSE 0)]
  /\ f.activeTeam = g.activeTeam /\ f.roundNo = g.roundNo /\ f.results = g.results

\* What finishing a song changes, field by field.
LEMMA FinishSongIs ==
  ASSUME NEW g \in GameStates, Drawn(g), songInPlay(g), NEW awarded, NEW points,
         NEW skipped \in BOOLEAN, Award(g, awarded, points), NEW f,
         f = finishSong(g, awarded, points, skipped)
  PROVE  /\ f \in GameStates
         /\ outcomeOf(g, awarded, points, skipped) \in Outcomes
         /\ Finished(f, g, awarded, points, skipped)
         /\ SamePeople(f, g)
<1> DEFINE o == outcomeOf(g, awarded, points, skipped)
<1>1. /\ g.song \in SongStates /\ g.song.id \in Songs
      /\ Cardinality(g.song.revealed) \in Nat /\ potentialOf(g.song) \in Nat
  BY PotentialIs DEF Drawn
<1>2. points \in Nat /\ awarded \in Teams
  BY <1>1 DEF Award
<1>3. g.activeTeam \in PlayTeams /\ g.score \in [PlayTeams -> Nat] /\ g.history \in Seq(Outcomes)
  BY DEF GameStates
<1>4. o \in Outcomes
  BY <1>1, <1>2, <1>3 DEF outcomeOf, Outcomes
<1>5. f = [g EXCEPT !.history = Append(@, o),
                    !.score = [t \in PlayTeams |-> g.score[t] + (IF t = awarded THEN points ELSE 0)],
                    !.phase = "SONG_RESULT", !.pending = NoPending]
  BY DEF finishSong, outcomeOf
<1>6. Append(g.history, o) \in Seq(Outcomes)
  BY <1>3, <1>4
<1>7. [t \in PlayTeams |-> g.score[t] + (IF t = awarded THEN points ELSE 0)] \in [PlayTeams -> Nat]
  BY <1>2, <1>3
<1> HIDE DEF o
<1>8. f \in GameStates
  BY <1>5, <1>6, <1>7, ZenonT(40) DEF GameStates, Phases
<1>9. /\ f.phase = "SONG_RESULT" /\ f.resumePhase = g.resumePhase
      /\ f.pending = NoPending /\ f.song = g.song /\ f.unplayed = g.unplayed
      /\ f.history = Append(g.history, o)
      /\ f.score = [t \in PlayTeams |-> g.score[t] + (IF t = awarded THEN points ELSE 0)]
      /\ f.activeTeam = g.activeTeam /\ f.roundNo = g.roundNo /\ f.results = g.results
  BY <1>5 DEF GameStates
<1>10. SamePeople(f, g)
  BY <1>5 DEF GameStates, SamePeople
<1> QED
  BY <1>4, <1>8, <1>9, <1>10 DEF o, Finished

\* One more entry of the history adds its award to the sum.
LEMMA AwardsAppend ==
  ASSUME NEW h \in Seq(Outcomes), NEW o \in Outcomes, NEW t \in PlayTeams
  PROVE  Sum(Awards(Append(h, o), t), DOMAIN Append(h, o))
         = Sum(Awards(h, t), DOMAIN h) + (IF o.awarded = t THEN o.points ELSE 0)
<1> DEFINE n == Len(h) + 1
           a == Awards(h, t)
           b == Awards(Append(h, o), t)
<1>1. /\ Len(h) \in Nat /\ DOMAIN h = 1..Len(h)
      /\ DOMAIN Append(h, o) = 1..n /\ n \in 1..n /\ (1..n) \ {n} = 1..Len(h)
      /\ Append(h, o)[n] = o /\ \A i \in 1..Len(h) : Append(h, o)[i] = h[i]
  OBVIOUS
<1>2. \A i \in 1..Len(h) : h[i] \in Outcomes
  BY <1>1
<1>3. \A q \in Outcomes : q.points \in Nat
  BY DEF Outcomes
<1>4. \A i \in 1..n : b[i] = IF Append(h, o)[i].awarded = t THEN Append(h, o)[i].points ELSE 0
  BY <1>1 DEF Awards
<1>5. \A i \in 1..Len(h) : a[i] = IF h[i].awarded = t THEN h[i].points ELSE 0
  BY <1>1 DEF Awards
<1>6. b[n] = (IF o.awarded = t THEN o.points ELSE 0) /\ b[n] \in Int
  BY <1>1, <1>3, <1>4
<1>7. \A i \in 1..Len(h) : b[i] = a[i] /\ a[i] \in Int /\ i \in 1..n
  BY <1>1, <1>2, <1>3, <1>4, <1>5
<1>8. IsFiniteSet(1..n)
  <2>1. 1 \in Int /\ n \in Int
    BY <1>1
  <2> QED
    BY <2>1, FS_Interval
<1> HIDE DEF a, b, n
<1>9. Summable(b, 1..n)
  <2>1. \A i \in 1..n : i = n \/ i \in 1..Len(h)
    BY <1>1
  <2> QED
    BY <2>1, <1>6, <1>7, <1>8 DEF Summable
<1>10. Sum(b, 1..n) = Sum(b, 1..Len(h)) + b[n] /\ Summable(b, 1..Len(h))
  BY <1>1, <1>9, SumSplit
<1>11. Sum(b, 1..Len(h)) = Sum(a, 1..Len(h))
  BY <1>7, <1>10, SumCongruence
<1> QED
  BY <1>1, <1>6, <1>10, <1>11 DEF a, b, n

\* It leaves the table and the history in order, with no song in play.
LEMMA FinishSongKeeps ==
  ASSUME NEW g \in GameStates, Drawn(g), HistoryOK(g), songInPlay(g), NEW awarded, NEW points,
         NEW skipped \in BOOLEAN, Award(g, awarded, points), NEW f,
         f = finishSong(g, awarded, points, skipped)
  PROVE  TableOK(f) /\ HistoryOK(f) /\ ~songInPlay(f)
<1> DEFINE o == outcomeOf(g, awarded, points, skipped)
<1>1. f \in GameStates /\ o \in Outcomes /\ Finished(f, g, awarded, points, skipped)
  BY FinishSongIs
<1>2. /\ f \in GameStates
      /\ f.phase = "SONG_RESULT" /\ f.resumePhase = g.resumePhase
      /\ f.pending = NoPending /\ f.song = g.song /\ f.unplayed = g.unplayed
      /\ o \in Outcomes
      /\ f.history = Append(g.history, o)
      /\ f.score = [t \in PlayTeams |-> g.score[t] + (IF t = awarded THEN points ELSE 0)]
      /\ f.activeTeam = g.activeTeam /\ f.roundNo = g.roundNo /\ f.results = g.results
  BY <1>1 DEF Finished
<1>3. /\ o.song = g.song.id /\ o.active = g.activeTeam /\ o.awarded = awarded
      /\ o.points = points /\ o.revealed = Cardinality(g.song.revealed)
  BY DEF outcomeOf
<1>4. g.history \in Seq(Outcomes) /\ g.activeTeam \in PlayTeams /\ g.score \in [PlayTeams -> Nat]
  BY DEF GameStates
<1> HIDE DEF o
<1>5. /\ Len(g.history) \in Nat /\ Len(f.history) = Len(g.history) + 1
      /\ DOMAIN g.history = 1..Len(g.history) /\ DOMAIN f.history = 1..(Len(g.history) + 1)
      /\ f.history[Len(g.history) + 1] = o
      /\ \A i \in 1..Len(g.history) : f.history[i] = g.history[i]
  BY <1>2, <1>4
<1>6. /\ effectivePhase(f) = "SONG_RESULT" /\ ~songInPlay(f)
      /\ effectivePhase(g) \in {"SONG_PLAY", "PENDING_JUDGEMENT"}
      /\ begun(f) /\ begun(g)
  BY <1>2 DEF effectivePhase, songInPlay, begun
<1>7. TableOK(f)
  BY <1>2, <1>6 DEF TableOK, SongOK, PendingOK
<1>8. SongsOK(f)
  <2>1. Flying(f) = {} /\ Flying(g) = {g.song.id}
    BY <1>6 DEF Flying, songInPlay
  <2>2. playedSongs(f) = playedSongs(g) \cup {g.song.id}
    <3> DEFINE n == Len(g.history)
    <3>1. \A i \in 1..(n + 1) : i = n + 1 \/ i \in 1..n
      BY <1>5
    <3>2. n + 1 \in 1..(n + 1) /\ \A i \in 1..n : i \in 1..(n + 1)
      BY <1>5
    <3>3. \A x \in playedSongs(f) : x \in playedSongs(g) \cup {g.song.id}
      BY <3>1, <1>3, <1>5 DEF playedSongs
    <3>4. \A x \in playedSongs(g) : x \in playedSongs(f)
      BY <3>2, <1>5 DEF playedSongs
    <3>5. g.song.id \in playedSongs(f)
      BY <3>2, <1>3, <1>5 DEF playedSongs
    <3> QED
      BY <3>3, <3>4, <3>5
  <2>3. Cardinality(Flying(f)) = 0 /\ Cardinality(Flying(g)) = 1
    BY <2>1, FS_Singleton, FS_EmptySet
  <2>4. Cardinality(g.unplayed) \in Nat
    <3>1. g.unplayed \subseteq Songs
      BY DEF GameStates
    <3> QED
      BY <3>1, SongFacts, FS_Subset, FS_CardinalityType
  <2>5. Songs = f.unplayed \cup playedSongs(f) \cup Flying(f)
    BY <1>2, <2>1, <2>2 DEF HistoryOK, SongsOK
  <2>6. Cardinality(Songs) = Cardinality(f.unplayed) + Len(f.history) + Cardinality(Flying(f))
    BY <1>2, <1>5, <2>3, <2>4 DEF HistoryOK, SongsOK
  <2> QED
    BY <2>5, <2>6 DEF SongsOK
<1>9. ScoreOK(f)
  <2>1. ASSUME NEW t \in PlayTeams
        PROVE  f.score[t] = Sum(Awards(f.history, t), DOMAIN f.history)
    <3>1. Sum(Awards(f.history, t), DOMAIN f.history)
          = Sum(Awards(g.history, t), DOMAIN g.history) + (IF o.awarded = t THEN o.points ELSE 0)
      BY <1>2, <1>4, AwardsAppend
    <3>2. g.score[t] = Sum(Awards(g.history, t), DOMAIN g.history)
      BY DEF HistoryOK, ScoreOK
    <3>3. f.score[t] = g.score[t] + (IF t = awarded THEN points ELSE 0)
      BY <1>2
    <3> QED
      BY <3>1, <3>2, <3>3, <1>3
  <2>2. ASSUME NEW i \in DOMAIN f.history
        PROVE  f.history[i].points = IF f.history[i].awarded = "NONE" THEN 0
                                     ELSE Blocks[f.history[i].song] - f.history[i].revealed
    <3>1. CASE i = Len(g.history) + 1
      BY <3>1, <1>3, <1>5 DEF Award, potentialOf
    <3>2. CASE i \in DOMAIN g.history
      BY <3>2, <1>5 DEF HistoryOK, ScoreOK
    <3> QED
      BY <3>1, <3>2, <1>5
  <2> QED
    BY <1>2, <2>1, <2>2 DEF ScoreOK
<1>10. AlternateOK(f) /\ CountOK(f)
  <2>1. f.roundNo = Len(f.history)
    BY <1>2, <1>5, <1>6 DEF HistoryOK, CountOK
  <2>2. f.activeTeam = f.history[Len(f.history)].active
    BY <1>2, <1>3, <1>5
  <2>3. ASSUME NEW i \in 1..(Len(f.history) - 1)
        PROVE  f.history[i + 1].active = opponentOf(f.history[i].active)
    <3>1. CASE i = Len(g.history)
      <4>1. g.history # <<>> /\ i \in 1..Len(g.history)
        BY <3>1, <2>3, <1>5
      <4>2. g.activeTeam = opponentOf(g.history[Len(g.history)].active)
        BY <4>1, <1>6 DEF HistoryOK, CountOK
      <4>3. f.history[i + 1] = o /\ f.history[i] = g.history[i]
        BY <4>1, <3>1, <1>5
      <4> QED
        BY <4>2, <4>3, <3>1, <1>3
    <3>2. CASE i # Len(g.history)
      <4>1. i \in 1..(Len(g.history) - 1) /\ i \in 1..Len(g.history) /\ i + 1 \in 1..Len(g.history)
        BY <3>2, <2>3, <1>5
      <4>2. g.history[i + 1].active = opponentOf(g.history[i].active)
        BY <4>1 DEF HistoryOK, AlternateOK
      <4> QED
        BY <4>1, <4>2, <1>5
    <3> QED
      BY <3>1, <3>2
  <2> QED
    BY <1>5, <1>6, <2>1, <2>2, <2>3 DEF AlternateOK, CountOK
<1> QED
  BY <1>6, <1>7, <1>8, <1>9, <1>10 DEF HistoryOK

-----------------------------------------------------------------------------
(***************************************************************************)
(* finalize: the end of the game, around a song in flight or not.          *)
(***************************************************************************)
LEMMA ResultsType ==
  ASSUME NEW g \in GameStates
  PROVE  buildResults(g) \in ResultStates
<1>1. g.team \in [Seats -> Teams] /\ g.score \in [PlayTeams -> Nat]
  BY DEF GameStates
<1>2. \A s \in Seats : g.team[s] \in PlayTeams => g.score[g.team[s]] \in Nat
  BY <1>1
<1>3. \A t \in PlayTeams : rankOf(g, t) \in 0..2
  BY DEF rankOf
<1>4. buildResults(g) \in [Seats -> [team : Teams, judge : BOOLEAN, total : Nat, rank : 0..2]]
  BY <1>1, <1>2, <1>3 DEF buildResults
<1> QED
  BY <1>4 DEF ResultStates

\* What finalize asks of a state: people may have left and, with no song in
\* flight, the turn may have passed on already.
Sound(g) ==
  /\ g \in GameStates /\ OfficesOK(g) /\ TableOK(g)
  /\ SongsOK(g) /\ ScoreOK(g) /\ AlternateOK(g)
  /\ songInPlay(g) => CountOK(g)

\* A game broken off is finished and keeps its people.
LEMMA FinalizeIs ==
  ASSUME NEW g, Sound(g), NEW f, f = finalize(g)
  PROVE  StateOK(f) /\ f.phase = "FINISHED" /\ SamePeople(f, g)
<1> DEFINE flies == effectivePhase(g) \in {"SONG_PLAY", "PENDING_JUDGEMENT"}
<1>1. PICK g1 : g1 = IF flies THEN finishSong(g, "NONE", 0, TRUE) ELSE g
  OBVIOUS
<1>2. /\ g1 \in GameStates /\ TableOK(g1) /\ SongsOK(g1) /\ ScoreOK(g1) /\ AlternateOK(g1)
      /\ ~songInPlay(g1) /\ SamePeople(g1, g)
  <2>1. CASE flies
    <3>1. Award(g, "NONE", 0)
      BY DEF Award, Teams
    <3>2. songInPlay(g) /\ Drawn(g)
      BY <2>1 DEF songInPlay, Sound, TableOK, SongOK
    <3>3. g1 = finishSong(g, "NONE", 0, TRUE)
      BY <1>1, <2>1
    <3>4. g1 \in GameStates /\ SamePeople(g1, g)
      BY <3>1, <3>2, <3>3, FinishSongIs DEF Sound
    <3>5. g \in GameStates /\ HistoryOK(g)
      BY <3>2 DEF Sound, HistoryOK
    <3>6. TableOK(g1) /\ HistoryOK(g1) /\ ~songInPlay(g1)
      BY <3>1, <3>2, <3>3, <3>5, FinishSongKeeps
    <3> QED
      BY <3>4, <3>6 DEF HistoryOK
  <2>2. CASE ~flies
    BY <2>2, <1>1 DEF Sound, SamePeople, songInPlay
  <2> QED
    BY <2>1, <2>2
<1>3. f = [g1 EXCEPT !.phase = "FINISHED", !.resumePhase = "NONE", !.results = buildResults(g1)]
  BY <1>1 DEF finalize
<1>4. buildResults(g1) \in ResultStates
  BY <1>2, ResultsType
<1>5. f \in GameStates
  BY <1>2, <1>3, <1>4 DEF GameStates, Phases
<1>6. /\ f.phase = "FINISHED" /\ f.resumePhase = "NONE" /\ f.results = buildResults(g1)
      /\ SamePeople(f, g1) /\ SameTable(f, g1)
      /\ f.history = g1.history /\ f.score = g1.score /\ f.roundNo = g1.roundNo
      /\ f.activeTeam = g1.activeTeam
  BY <1>2, <1>3 DEF GameStates, SamePeople, SameTable
<1>7. effectivePhase(f) = "FINISHED" /\ ~songInPlay(f) /\ ~begun(f)
  BY <1>6 DEF effectivePhase, songInPlay, begun
<1>8. SamePeople(f, g)
  BY <1>2, <1>6 DEF SamePeople
<1>9. PeopleOK(f)
  <2>1. OfficesOK(f)
    BY <1>8 DEF Sound, OfficesOK, SamePeople
  <2> QED
    BY <2>1, <1>6, <1>7 DEF PeopleOK, ParkedOK, HostOK, StaffedOK
<1>10. TableOK(f)
  <2>1. g1.pending = NoPending
    BY <1>2 DEF TableOK, PendingOK, songInPlay
  <2> QED
    BY <2>1, <1>6, <1>7 DEF TableOK, SongOK, PendingOK, SameTable
<1>11. HistoryOK(f)
  <2>1. SongsOK(f)
    BY <1>2, <1>6, <1>7 DEF SongsOK, Flying, playedSongs, SameTable
  <2>2. buildResults(f) = buildResults(g1)
    BY <1>6 DEF buildResults, rankOf, SamePeople
  <2>3. ScoreOK(f)
    BY <2>2, <1>2, <1>6 DEF ScoreOK
  <2>4. AlternateOK(f) /\ CountOK(f)
    BY <1>2, <1>6, <1>7 DEF AlternateOK, CountOK
  <2> QED
    BY <2>1, <2>3, <2>4 DEF HistoryOK
<1> QED
  BY <1>5, <1>6, <1>8, <1>9, <1>10, <1>11 DEF StateOK

-----------------------------------------------------------------------------
(***************************************************************************)
(* What a step that keeps a part of the state keeps of the invariant.      *)
(***************************************************************************)
\* The history and the song in play stay as they are, also across a vacancy.
LEMMA Unmoved ==
  ASSUME NEW f \in GameStates, NEW g \in GameStates, SameAccount(f, g), SameTable(f, g),
         effectivePhase(f) = effectivePhase(g), f.phase # "FINISHED",
         TableOK(g), HistoryOK(g)
  PROVE  TableOK(f) /\ HistoryOK(f)
<1>1. songInPlay(f) <=> songInPlay(g)
  BY DEF songInPlay
<1>2. begun(f) <=> begun(g)
  BY DEF begun
<1>3. TableOK(f)
  BY <1>1 DEF TableOK, SongOK, PendingOK, Drawn, SameAccount, SameTable
<1>4. SongsOK(f)
  BY <1>1 DEF HistoryOK, SongsOK, Flying, playedSongs, SameAccount, SameTable
<1>5. ScoreOK(f)
  BY DEF HistoryOK, ScoreOK, SameAccount
<1>6. AlternateOK(f) /\ CountOK(f)
  BY <1>2 DEF HistoryOK, AlternateOK, CountOK, SameAccount
<1> QED
  BY <1>3, <1>4, <1>5, <1>6 DEF HistoryOK

\* The phases of a round, and those with a song to play or to draw.
PlayPhases  == {"ROUND_SELECT", "SONG_PLAY", "PENDING_JUDGEMENT", "SONG_RESULT"}
RoundPhases == {"ROUND_SELECT", "SONG_PLAY", "PENDING_JUDGEMENT"}

\* In a phase of play nothing is parked.
LEMMA PlayPhaseIs ==
  ASSUME NEW g \in GameStates, ParkedOK(g), g.phase \in PlayPhases
  PROVE  /\ effectivePhase(g) = g.phase /\ begun(g) /\ g.resumePhase = "NONE"
         /\ songInPlay(g) <=> g.phase \in {"SONG_PLAY", "PENDING_JUDGEMENT"}
BY DEF ParkedOK, PlayPhases, effectivePhase, begun, songInPlay

\* The people stay as they are from one phase of a round to another.
LEMMA PeopleStay ==
  ASSUME NEW f \in GameStates, NEW g \in GameStates, SamePeople(f, g), PeopleOK(g),
         g.phase \in PlayPhases, f.phase \in PlayPhases, f.resumePhase = g.resumePhase
  PROVE  PeopleOK(f) /\ ParkedOK(f)
<1>1. g.phase # "JUDGE_VACANT" /\ f.phase # "JUDGE_VACANT"
  BY DEF PlayPhases
<1>2. ParkedOK(f)
  BY <1>1 DEF PeopleOK, ParkedOK
<1>3. effectivePhase(g) = g.phase /\ begun(g) /\ begun(f)
  BY <1>2, PlayPhaseIs DEF PeopleOK
<1>4. OfficesOK(f)
  BY DEF PeopleOK, OfficesOK, SamePeople
<1>5. HostOK(f)
  BY <1>3 DEF PeopleOK, HostOK, SamePeople, PlayPhases
<1>6. StaffedOK(f)
  BY <1>1, <1>3 DEF PeopleOK, StaffedOK, SamePeople
<1> QED
  BY <1>2, <1>4, <1>5, <1>6 DEF PeopleOK

\* The account stays as it is within a round, if no song comes or goes.
LEMMA AccountStays ==
  ASSUME NEW f \in GameStates, NEW g \in GameStates, SameAccount(f, g), HistoryOK(g),
         effectivePhase(f) \in RoundPhases, effectivePhase(g) \in RoundPhases,
         f.phase # "FINISHED", SongsOK(f)
  PROVE  HistoryOK(f)
<1>1. begun(f) /\ begun(g)
  BY DEF begun, RoundPhases
<1>2. effectivePhase(f) # "SONG_RESULT" /\ effectivePhase(g) # "SONG_RESULT"
      /\ effectivePhase(f) # "ROSTER"
  BY DEF RoundPhases
<1>3. ScoreOK(f)
  BY DEF HistoryOK, ScoreOK, SameAccount
<1>4. AlternateOK(f) /\ CountOK(f)
  BY <1>1, <1>2 DEF HistoryOK, AlternateOK, CountOK, SameAccount
<1> QED
  BY <1>3, <1>4 DEF HistoryOK

-----------------------------------------------------------------------------
(***************************************************************************)
(* The course of a song.                                                   *)
(***************************************************************************)
\* A state in which a song is on the table, whatever its sub-state.
OnTable(g) ==
  /\ g \in GameStates /\ PeopleOK(g) /\ HistoryOK(g) /\ Drawn(g)
  /\ g.phase \in {"SONG_PLAY", "PENDING_JUDGEMENT"}

\* With a song on the table, the phase is one of play.
LEMMA OnTableIs ==
  ASSUME NEW g, OnTable(g)
  PROVE  /\ g.phase \in PlayPhases /\ g.resumePhase = "NONE"
         /\ effectivePhase(g) = g.phase /\ songInPlay(g)
<1>1. g.phase \in PlayPhases
  BY DEF OnTable, PlayPhases
<1>2. g \in GameStates /\ ParkedOK(g)
  BY DEF OnTable, PeopleOK
<1> QED
  BY <1>1, <1>2, PlayPhaseIs DEF OnTable

\* Finishing the song on the table gives a state that may be stored.
LEMMA FinishSongOK ==
  ASSUME NEW g, OnTable(g), NEW awarded, NEW points,
         NEW skipped \in BOOLEAN, Award(g, awarded, points), NEW f,
         f = finishSong(g, awarded, points, skipped)
  PROVE  StateOK(f) /\ SamePeople(f, g) /\ ~songInPlay(f)
<1>1. g.phase \in PlayPhases /\ songInPlay(g)
  BY OnTableIs
<1>2. g \in GameStates /\ PeopleOK(g) /\ HistoryOK(g) /\ Drawn(g)
  BY DEF OnTable
<1>3. f \in GameStates /\ f.phase = "SONG_RESULT" /\ f.resumePhase = g.resumePhase /\ SamePeople(f, g)
  <2>1. f \in GameStates /\ Finished(f, g, awarded, points, skipped) /\ SamePeople(f, g)
    BY <1>1, <1>2, FinishSongIs
  <2> QED
    BY <2>1 DEF Finished
<1>4. TableOK(f) /\ HistoryOK(f) /\ ~songInPlay(f)
  BY <1>1, <1>2, FinishSongKeeps
<1>5. f.phase \in PlayPhases
  BY <1>3 DEF PlayPhases
<1>6. PeopleOK(f)
  BY <1>1, <1>2, <1>3, <1>5, PeopleStay
<1> QED
  BY <1>3, <1>4, <1>6 DEF StateOK

\* The block that is opened was closed: the song goes on or, with its last
\* block, ends without an award.
LEMMA RevealAtOK ==
  ASSUME NEW g, OnTable(g), g.phase = "SONG_PLAY", g.pending = NoPending,
         NEW index \in closedBlocks(g.song), NEW f, f = revealAt(g, index)
  PROVE  StateOK(f) /\ SamePeople(f, g)
<1>1. PICK g1 : g1 = [g EXCEPT !.song.revealed = g.song.revealed \cup {index}]
  OBVIOUS
<1>2. g \in GameStates /\ PeopleOK(g) /\ HistoryOK(g) /\ Drawn(g)
  BY DEF OnTable
<1>3. g.song \in SongStates /\ g.song.revealed \cup {index} \subseteq 1..Blocks[g.song.id]
  BY <1>2 DEF Drawn, closedBlocks
<1>4. closedBlocks(g.song) \subseteq Nat
  BY <1>2, PotentialIs DEF Drawn
<1>5. PICK song : song = [g.song EXCEPT !.revealed = g.song.revealed \cup {index}]
  OBVIOUS
<1>6. song \in SongStates /\ song.id = g.song.id /\ song.revealed = g.song.revealed \cup {index}
  BY <1>3, <1>4, <1>5 DEF SongStates
<1>7. g1 = [g EXCEPT !.song = song]
  BY <1>1, <1>5
<1>8. /\ g1 \in GameStates /\ g1.song = song /\ g1.phase = "SONG_PLAY" /\ g1.resumePhase = g.resumePhase
      /\ g1.pending = NoPending /\ SamePeople(g1, g) /\ SameAccount(g1, g)
      /\ g1.unplayed = g.unplayed
  BY <1>2, <1>6, <1>7 DEF GameStates, SamePeople, SameAccount
<1>9. Drawn(g1)
  BY <1>3, <1>6, <1>8 DEF Drawn
<1>10. /\ g.phase \in PlayPhases /\ g.resumePhase = "NONE"
       /\ effectivePhase(g) = "SONG_PLAY" /\ songInPlay(g)
  BY OnTableIs
<1>11. effectivePhase(g1) = "SONG_PLAY" /\ songInPlay(g1) /\ g1.phase \in PlayPhases
  BY <1>8 DEF effectivePhase, songInPlay, PlayPhases
<1>12. PeopleOK(g1)
  BY <1>2, <1>8, <1>10, <1>11, PeopleStay
<1>13. SongsOK(g1)
  BY <1>2, <1>6, <1>8, <1>10, <1>11 DEF HistoryOK, SongsOK, Flying, playedSongs, SameAccount
<1>14. HistoryOK(g1)
  BY <1>2, <1>8, <1>10, <1>11, <1>13, AccountStays DEF RoundPhases
<1>15. OnTable(g1)
  BY <1>8, <1>9, <1>12, <1>14 DEF OnTable
<1>16. CASE potentialOf(g1.song) = 0
  <2>1. Award(g1, "NONE", 0)
    BY DEF Award, Teams
  <2>2. f = finishSong(g1, "NONE", 0, FALSE)
    BY <1>1, <1>16 DEF revealAt
  <2>3. StateOK(f) /\ SamePeople(f, g1)
    BY <1>15, <2>1, <2>2, FinishSongOK
  <2> QED
    BY <2>3, <1>8 DEF SamePeople
<1>17. CASE potentialOf(g1.song) # 0
  <2>1. f = [g1 EXCEPT !.song.awaiting = "ACTIVE"]
    BY <1>1, <1>17 DEF revealAt
  <2>2. PICK played : played = [song EXCEPT !.awaiting = "ACTIVE"]
    OBVIOUS
  <2>3. /\ played \in SongStates /\ played.id = song.id /\ played.revealed = song.revealed
        /\ played.awaiting = "ACTIVE"
    BY <1>6, <2>2 DEF SongStates, Waits
  <2>4. f = [g1 EXCEPT !.song = played]
    BY <1>8, <2>1, <2>2
  <2>5. /\ f \in GameStates /\ f.song = played /\ f.phase = "SONG_PLAY" /\ f.resumePhase = g1.resumePhase
        /\ f.pending = NoPending /\ SamePeople(f, g1) /\ SameAccount(f, g1)
        /\ f.unplayed = g1.unplayed
    BY <1>8, <2>3, <2>4 DEF GameStates, SamePeople, SameAccount
  <2>6. effectivePhase(f) = "SONG_PLAY" /\ songInPlay(f) /\ f.phase \in PlayPhases
    BY <2>5 DEF effectivePhase, songInPlay, PlayPhases
  <2>7. PeopleOK(f)
    BY <1>8, <1>11, <1>12, <2>5, <2>6, PeopleStay
  <2>8. Drawn(f) /\ closedBlocks(f.song) # {}
    <3>1. closedBlocks(song) # {}
      BY <1>8, <1>9, <1>17, PotentialIs DEF Drawn
    <3> QED
      BY <3>1, <1>8, <1>9, <2>3, <2>5 DEF Drawn, closedBlocks
  <2>9. TableOK(f)
    BY <2>3, <2>5, <2>6, <2>8 DEF TableOK, SongOK, PendingOK
  <2>10. SongsOK(f)
    <3>1. Flying(f) = Flying(g1)
      BY <1>8, <1>11, <2>3, <2>5, <2>6 DEF Flying
    <3>2. f.history = g1.history /\ f.unplayed = g1.unplayed
      BY <2>5 DEF SameAccount
    <3> QED
      BY <3>1, <3>2, <1>13 DEF SongsOK, playedSongs
  <2>11. HistoryOK(f)
    BY <1>8, <1>11, <1>14, <2>5, <2>6, <2>10, AccountStays DEF RoundPhases
  <2> QED
    BY <1>8, <2>5, <2>7, <2>9, <2>11 DEF StateOK, SamePeople
<1> QED
  BY <1>16, <1>17

-----------------------------------------------------------------------------
(***************************************************************************)
(* The actions of a round.  Each stores a state that is in order, in which *)
(* nobody has come onto a team while a song is in play.                    *)
(***************************************************************************)
Departs(f) ==
  songInPlay(f) =>
    f.active \subseteq gs.active /\ \A s \in Seats : f.team[s] \in {gs.team[s], "NONE"}

Stores == \E f : Store(f) /\ StateOK(f) /\ Departs(f)

\* Where the people stay the same nobody new sees the answer.
LEMMA PeopleDoNotCome ==
  ASSUME NEW f, SamePeople(f, gs)
  PROVE  Departs(f)
BY DEF Departs, SamePeople

\* Of a state in order, in parts.
LEMMA InOrder ==
  ASSUME NEW g, StateOK(g)
  PROVE  /\ g \in GameStates /\ PeopleOK(g) /\ TableOK(g) /\ HistoryOK(g)
         /\ ParkedOK(g) /\ OfficesOK(g) /\ Sound(g)
         /\ songInPlay(g) => Drawn(g) /\ closedBlocks(g.song) # {}
         /\ effectivePhase(g) # "PENDING_JUDGEMENT" => g.pending = NoPending
         /\ g.phase \in PlayPhases => effectivePhase(g) = g.phase /\ g.resumePhase = "NONE"
         /\ g.phase \in {"SONG_PLAY", "PENDING_JUDGEMENT"} => OnTable(g) /\ songInPlay(g)
<1>1. /\ g \in GameStates /\ PeopleOK(g) /\ TableOK(g) /\ HistoryOK(g)
      /\ ParkedOK(g) /\ OfficesOK(g)
  BY DEF StateOK, PeopleOK
<1>2. Sound(g)
  BY <1>1 DEF Sound, HistoryOK
<1>3. songInPlay(g) => Drawn(g) /\ closedBlocks(g.song) # {}
  BY <1>1 DEF TableOK, SongOK
<1>4. effectivePhase(g) # "PENDING_JUDGEMENT" => g.pending = NoPending
  BY <1>1 DEF TableOK, PendingOK
<1>5. g.phase \in PlayPhases => effectivePhase(g) = g.phase /\ g.resumePhase = "NONE"
  BY <1>1, PlayPhaseIs
<1>6. g.phase \in {"SONG_PLAY", "PENDING_JUDGEMENT"} => g.phase \in PlayPhases
  BY DEF PlayPhases
<1>7. g.phase \in {"SONG_PLAY", "PENDING_JUDGEMENT"} => songInPlay(g)
  BY <1>5, <1>6 DEF songInPlay
<1> QED
  BY <1>1, <1>2, <1>3, <1>4, <1>5, <1>7 DEF OnTable

\* Choosing a cell stores a sound state.
LEMMA SelectCellStores ==
  ASSUME StateOK(gs), NEW s \in Seats, NEW cell, SelectCell(s, cell)
  PROVE  Stores
<1>1. PICK g : g = gs
  OBVIOUS
<1>2. /\ g \in GameStates /\ PeopleOK(g) /\ TableOK(g) /\ HistoryOK(g) /\ ParkedOK(g)
  BY <1>1, InOrder
<1>3. g.phase = "ROUND_SELECT"
  BY <1>1 DEF SelectCell, maySelectCell
<1>4. effectivePhase(g) = "ROUND_SELECT" /\ g.resumePhase = "NONE" /\ g.phase \in PlayPhases
  BY <1>2, <1>3, PlayPhaseIs DEF PlayPhases
<1>5. PICK i \in unplayedIn(cell) :
        Store([gs EXCEPT !.unplayed = @ \ {i},
                         !.song = [id |-> i, revealed |-> {}, stealAllowed |-> TRUE,
                                   awaiting |-> "ACTIVE", window |-> 0],
                         !.phase = "SONG_PLAY"])
  BY DEF SelectCell
<1>6. PICK song : song = [id |-> i, revealed |-> {}, stealAllowed |-> TRUE,
                          awaiting |-> "ACTIVE", window |-> 0]
  OBVIOUS
<1>7. PICK f : f = [g EXCEPT !.unplayed = @ \ {i}, !.song = song, !.phase = "SONG_PLAY"]
  OBVIOUS
<1>8. Store(f)
  BY <1>1, <1>5, <1>6, <1>7
<1>9. i \in g.unplayed /\ g.unplayed \subseteq Songs /\ i \in Songs
  BY <1>1, <1>2 DEF unplayedIn, GameStates
<1>10. song \in SongStates
  BY <1>6, <1>9 DEF SongStates, Waits
<1>11. /\ f \in GameStates /\ f.phase = "SONG_PLAY" /\ f.resumePhase = g.resumePhase
       /\ f.song = song /\ f.pending = g.pending /\ f.unplayed = g.unplayed \ {i}
       /\ SamePeople(f, g) /\ SameAccount(f, g)
  BY <1>2, <1>7, <1>10 DEF GameStates, Phases, SamePeople, SameAccount
<1>12. f.phase \in PlayPhases /\ effectivePhase(f) = "SONG_PLAY" /\ songInPlay(f)
  BY <1>11 DEF PlayPhases, effectivePhase, songInPlay
<1>13. PeopleOK(f)
  BY <1>2, <1>4, <1>11, <1>12, PeopleStay
<1>14. TableOK(f)
  <2>1. Blocks[i] \in Nat \ {0}
    BY <1>9, SongFacts
  <2>2. 1 \in closedBlocks(song)
    BY <2>1, <1>6 DEF closedBlocks
  <2>3. g.pending = NoPending
    BY <1>2, <1>4 DEF TableOK, PendingOK
  <2>4. song.revealed = {} /\ song.awaiting = "ACTIVE"
    BY <1>6
  <2>5. Drawn(f) /\ closedBlocks(f.song) # {}
    BY <2>2, <2>4, <1>10, <1>11 DEF Drawn
  <2>6. SongOK(f)
    BY <2>4, <2>5, <1>11 DEF SongOK
  <2>7. PendingOK(f)
    BY <2>3, <1>11, <1>12 DEF PendingOK
  <2> QED
    BY <2>6, <2>7, <1>12 DEF TableOK
<1>15. SongsOK(f)
  <2>1. ~songInPlay(g)
    BY <1>4 DEF songInPlay
  <2>2. Flying(g) = {} /\ Flying(f) = {i}
    BY <2>1, <1>6, <1>11, <1>12 DEF Flying
  <2>3. Cardinality(Flying(g)) = 0 /\ Cardinality(Flying(f)) = 1
    BY <2>2, FS_EmptySet, FS_Singleton
  <2>4. IsFiniteSet(g.unplayed)
    BY <1>9, SongFacts, FS_Subset
  <2>5. Cardinality(g.unplayed \ {i}) = Cardinality(g.unplayed) - 1 /\ Cardinality(g.unplayed) \in Nat
    BY <1>9, <2>4, FS_RemoveElement, FS_CardinalityType
  <2>6. f.history = g.history /\ Len(g.history) \in Nat
    BY <1>2, <1>11 DEF SameAccount, GameStates
  <2>7. Songs = g.unplayed \cup playedSongs(g) \cup Flying(g)
        /\ Cardinality(Songs) = Cardinality(g.unplayed) + Len(g.history) + Cardinality(Flying(g))
    BY <1>2 DEF HistoryOK, SongsOK
  <2>8. playedSongs(f) = playedSongs(g)
    BY <2>6 DEF playedSongs
  <2>9. Songs = f.unplayed \cup playedSongs(f) \cup Flying(f)
    BY <2>2, <2>7, <2>8, <1>9, <1>11
  <2>10. Cardinality(Songs) = Cardinality(f.unplayed) + Len(f.history) + Cardinality(Flying(f))
    BY <2>3, <2>5, <2>6, <2>7, <1>11
  <2> QED
    BY <2>9, <2>10 DEF SongsOK
<1>16. HistoryOK(f)
  BY <1>2, <1>4, <1>11, <1>12, <1>15, AccountStays DEF RoundPhases
<1>17. StateOK(f)
  BY <1>11, <1>13, <1>14, <1>16 DEF StateOK
<1>18. Departs(f)
  BY <1>1, <1>11, PeopleDoNotCome
<1> QED
  BY <1>8, <1>17, <1>18 DEF Stores

\* The turn goes to the other team, or the game ends.
LEMMA NextRoundStores ==
  ASSUME StateOK(gs), NEW s \in Seats, NextRound(s)
  PROVE  Stores
<1>1. PICK g : g = gs
  OBVIOUS
<1>2. g \in GameStates /\ PeopleOK(g) /\ TableOK(g) /\ HistoryOK(g) /\ ParkedOK(g)
  BY <1>1, InOrder
<1>3. g.phase = "SONG_RESULT"
  BY <1>1 DEF NextRound, mayCallNextRound
<1>4. /\ effectivePhase(g) = "SONG_RESULT" /\ g.resumePhase = "NONE" /\ g.phase \in PlayPhases
      /\ begun(g) /\ ~songInPlay(g)
  BY <1>2, <1>3, PlayPhaseIs DEF PlayPhases
<1>5. PICK h : h = [g EXCEPT !.activeTeam = nextTeam(g), !.song = NoSong]
  OBVIOUS
<1>6. g.activeTeam \in PlayTeams /\ nextTeam(g) \in PlayTeams /\ nextTeam(g) = opponentOf(g.activeTeam)
  BY <1>2 DEF GameStates, nextTeam, opponentOf, PlayTeams
<1>7. /\ h \in GameStates /\ h.phase = "SONG_RESULT" /\ h.resumePhase = "NONE"
      /\ h.song = NoSong /\ h.pending = g.pending /\ h.unplayed = g.unplayed
      /\ h.history = g.history /\ h.score = g.score /\ h.roundNo = g.roundNo
      /\ h.activeTeam = opponentOf(g.activeTeam) /\ h.results = g.results
      /\ SamePeople(h, g)
  BY <1>2, <1>3, <1>4, <1>5, <1>6 DEF GameStates, SamePeople
<1>8. effectivePhase(h) = "SONG_RESULT" /\ ~songInPlay(h)
  BY <1>7 DEF effectivePhase, songInPlay
<1>9. g.pending = NoPending
  BY <1>2, <1>4 DEF TableOK, PendingOK
<1>10. SongsOK(h) /\ ScoreOK(h) /\ AlternateOK(h)
  BY <1>2, <1>4, <1>7, <1>8 DEF HistoryOK, SongsOK, ScoreOK, AlternateOK, Flying, playedSongs
<1>11. CASE g.unplayed = {}
  <2>1. PICK f : f = finalize(h)
    OBVIOUS
  <2>2. Store(f)
    BY <1>1, <1>5, <1>11, <2>1 DEF NextRound
  <2>3. OfficesOK(h)
    BY <1>2, <1>7 DEF PeopleOK, OfficesOK, SamePeople
  <2>4. TableOK(h)
    BY <1>7, <1>8, <1>9 DEF TableOK, SongOK, PendingOK
  <2>5. Sound(h)
    BY <1>7, <1>8, <1>10, <2>3, <2>4 DEF Sound
  <2>6. StateOK(f) /\ SamePeople(f, h)
    BY <2>1, <2>5, FinalizeIs
  <2>7. Departs(f)
    BY <1>1, <1>7, <2>6, PeopleDoNotCome DEF SamePeople
  <2> QED
    BY <2>2, <2>6, <2>7 DEF Stores
<1>12. CASE g.unplayed # {}
  <2>1. PICK f : f = [h EXCEPT !.roundNo = @ + 1, !.phase = "ROUND_SELECT"]
    OBVIOUS
  <2>2. Store(f)
    BY <1>1, <1>5, <1>12, <2>1 DEF NextRound
  <2>3. h.roundNo + 1 \in Nat
    BY <1>7 DEF GameStates
  <2>4. /\ f \in GameStates /\ f.phase = "ROUND_SELECT" /\ f.resumePhase = "NONE"
        /\ f.roundNo = g.roundNo + 1 /\ SameTable(f, h) /\ SamePeople(f, h)
        /\ f.history = g.history /\ f.score = g.score /\ f.activeTeam = opponentOf(g.activeTeam)
    BY <1>7, <2>1, <2>3 DEF GameStates, Phases, SameTable, SamePeople
  <2>5. /\ f.phase \in PlayPhases /\ effectivePhase(f) = "ROUND_SELECT" /\ ~songInPlay(f)
        /\ begun(f)
    BY <2>4 DEF PlayPhases, effectivePhase, songInPlay, begun
  <2>6. SamePeople(f, g)
    BY <1>7, <2>4 DEF SamePeople
  <2>7. PeopleOK(f)
    BY <1>2, <1>4, <2>4, <2>5, <2>6, PeopleStay
  <2>8. TableOK(f)
    BY <1>7, <1>9, <1>12, <2>4, <2>5 DEF TableOK, SongOK, PendingOK, SameTable
  <2>9. SongsOK(f) /\ ScoreOK(f) /\ AlternateOK(f)
    BY <1>2, <1>4, <1>7, <2>4, <2>5
    DEF HistoryOK, SongsOK, ScoreOK, AlternateOK, Flying, playedSongs, SameTable
  <2>10. CountOK(f)
    <3>1. g.roundNo = Len(g.history) /\ Len(g.history) \in Nat
      BY <1>2, <1>4 DEF HistoryOK, CountOK, GameStates
    <3>2. g.history # <<>> => g.activeTeam = g.history[Len(g.history)].active
      BY <1>2, <1>4 DEF HistoryOK, CountOK
    <3> QED
      BY <3>1, <3>2, <2>4, <2>5 DEF CountOK
  <2>11. StateOK(f)
    BY <2>4, <2>7, <2>8, <2>9, <2>10 DEF StateOK, HistoryOK
  <2>12. Departs(f)
    BY <1>1, <2>6, PeopleDoNotCome
  <2> QED
    BY <2>2, <2>11, <2>12 DEF Stores
<1> QED
  BY <1>11, <1>12

\* A step within a song leaves people and account as they are.
LEMMA SongMoves ==
  ASSUME NEW g, OnTable(g), NEW f \in GameStates, SamePeople(f, g), SameAccount(f, g),
         f.unplayed = g.unplayed, f.song.id = g.song.id, f.resumePhase = g.resumePhase,
         f.phase \in {"SONG_PLAY", "PENDING_JUDGEMENT"}
  PROVE  PeopleOK(f) /\ HistoryOK(f) /\ effectivePhase(f) = f.phase /\ songInPlay(f)
<1>1. g \in GameStates /\ PeopleOK(g) /\ HistoryOK(g)
  BY DEF OnTable
<1>2. /\ g.phase \in PlayPhases /\ g.resumePhase = "NONE"
      /\ effectivePhase(g) = g.phase /\ songInPlay(g)
  BY OnTableIs
<1>3. f.phase \in PlayPhases
  BY DEF PlayPhases
<1>4. PeopleOK(f) /\ ParkedOK(f)
  BY <1>1, <1>2, <1>3, PeopleStay
<1>5. effectivePhase(f) = f.phase /\ songInPlay(f)
  BY <1>3, <1>4, PlayPhaseIs
<1>6. SongsOK(f)
  BY <1>1, <1>2, <1>5 DEF HistoryOK, SongsOK, Flying, playedSongs, SameAccount
<1>7. f.phase # "FINISHED" /\ f.phase \in RoundPhases /\ g.phase \in RoundPhases
  BY DEF RoundPhases, OnTable
<1>8. HistoryOK(f)
  BY <1>1, <1>2, <1>5, <1>6, <1>7, AccountStays
<1> QED
  BY <1>4, <1>5, <1>8

\* Opening a block stores a sound state.
LEMMA OpenBlockStores ==
  ASSUME StateOK(gs), NEW s \in Seats, NEW index, OpenBlock(s, index)
  PROVE  Stores
<1>1. PICK g : g = gs
  OBVIOUS
<1>2. g.phase = "SONG_PLAY" /\ g.song.awaiting = "ACTIVE" /\ index \in closedBlocks(g.song)
  BY <1>1 DEF OpenBlock, decides, playing
<1>3. OnTable(g) /\ g \in GameStates /\ Drawn(g) /\ closedBlocks(g.song) # {}
      /\ g.resumePhase = "NONE" /\ g.pending = NoPending
  <2>1. g.phase \in PlayPhases
    BY <1>2 DEF PlayPhases
  <2>2. OnTable(g) /\ g \in GameStates /\ songInPlay(g) /\ effectivePhase(g) = "SONG_PLAY" /\ g.resumePhase = "NONE"
    BY <1>1, <1>2, <2>1, InOrder
  <2> QED
    BY <1>1, <2>2, InOrder
<1>4. CASE g.song.stealAllowed /\ g.song.revealed # {}
  <2>1. PICK song : song = [g.song EXCEPT !.awaiting = "STEAL", !.window = index]
    OBVIOUS
  <2>2. PICK f : f = [g EXCEPT !.song = song]
    OBVIOUS
  <2>3. [g EXCEPT !.song.awaiting = "STEAL", !.song.window = index] = f
    BY <1>3, <2>1, <2>2 DEF GameStates
  <2>4. Store(f)
    BY <1>1, <1>4, <2>3 DEF OpenBlock
  <2>5. index \in Nat /\ g.song \in SongStates
    BY <1>2, <1>3, PotentialIs DEF Drawn
  <2>6. /\ song \in SongStates /\ song.id = g.song.id /\ song.revealed = g.song.revealed
        /\ song.stealAllowed = g.song.stealAllowed /\ song.awaiting = "STEAL" /\ song.window = index
    BY <2>1, <2>5 DEF SongStates, Waits
  <2>7. /\ f \in GameStates /\ f.song = song /\ f.phase = "SONG_PLAY" /\ f.resumePhase = g.resumePhase
        /\ f.pending = NoPending /\ SamePeople(f, g) /\ SameAccount(f, g)
        /\ f.unplayed = g.unplayed
    BY <1>2, <1>3, <2>2, <2>6 DEF GameStates, SamePeople, SameAccount
  <2>8. PeopleOK(f) /\ HistoryOK(f) /\ effectivePhase(f) = "SONG_PLAY"
    BY <1>3, <2>6, <2>7, SongMoves
  <2>9. Drawn(f) /\ closedBlocks(f.song) = closedBlocks(g.song)
    BY <1>3, <2>6, <2>7 DEF Drawn, closedBlocks
  <2>10. SongOK(f)
    BY <1>2, <1>3, <1>4, <2>6, <2>7, <2>9 DEF SongOK
  <2>11. PendingOK(f)
    BY <2>7, <2>8 DEF PendingOK
  <2>12. StateOK(f)
    BY <2>7, <2>8, <2>10, <2>11 DEF StateOK, TableOK
  <2> QED
    BY <1>1, <2>4, <2>7, <2>12, PeopleDoNotCome DEF Stores
<1>5. CASE ~(g.song.stealAllowed /\ g.song.revealed # {})
  <2>1. PICK f : f = revealAt(g, index)
    OBVIOUS
  <2>2. Store(f)
    BY <1>1, <1>5, <2>1 DEF OpenBlock
  <2>3. StateOK(f) /\ SamePeople(f, g)
    BY <1>2, <1>3, <2>1, RevealAtOK
  <2> QED
    BY <1>1, <2>2, <2>3, PeopleDoNotCome DEF Stores
<1> QED
  BY <1>4, <1>5

\* A claim records what it will be worth and where a void goes back to.
LEMMA ClaimStores ==
  ASSUME StateOK(gs), NEW s \in Seats, gs.phase = "SONG_PLAY",
         NEW kind \in Kinds, NEW team, NEW owed \in Nat,
         team = IF kind = "ACTIVE_GUESS" THEN gs.activeTeam ELSE opponentOf(gs.activeTeam),
         kind = "STEAL" => gs.song.stealAllowed /\ owed \in closedBlocks(gs.song),
         Claim(kind, team, s, owed)
  PROVE  Stores
<1>1. PICK g : g = gs
  OBVIOUS
<1>2. /\ g \in GameStates /\ g.phase = "SONG_PLAY" /\ OnTable(g) /\ songInPlay(g)
      /\ Drawn(g) /\ SongOK(g) /\ g.resumePhase = "NONE"
  <2>1. g.phase \in PlayPhases
    BY <1>1 DEF PlayPhases
  <2> QED
    BY <1>1, <2>1, InOrder DEF TableOK
<1>3. PICK p : p = [kind |-> kind, team |-> team, seat |-> s, potential |-> potentialOf(g.song),
                    resume |-> g.song.awaiting, owed |-> owed]
  OBVIOUS
<1>4. PICK f : f = [g EXCEPT !.pending = p, !.phase = "PENDING_JUDGEMENT"]
  OBVIOUS
<1>5. Store(f)
  BY <1>1, <1>3, <1>4 DEF Claim
<1>6. p \in Pendings /\ p # NoPending
  <2>1. potentialOf(g.song) \in Nat /\ g.song.awaiting \in Waits
    BY <1>2, PotentialIs DEF Drawn, SongStates
  <2>2. team \in PlayTeams
    BY <1>1, <1>2 DEF GameStates, opponentOf, PlayTeams
  <2>3. p \in Pendings
    BY <1>3, <2>1, <2>2 DEF Pendings
  <2>4. p.kind \in Kinds /\ NoPending.kind = "NONE"
    BY <1>3 DEF NoPending
  <2> QED
    BY <2>3, <2>4 DEF Kinds
<1>7. /\ f \in GameStates /\ f.song = g.song /\ f.phase = "PENDING_JUDGEMENT" /\ f.resumePhase = g.resumePhase
      /\ f.pending = p /\ SamePeople(f, g) /\ SameAccount(f, g) /\ f.unplayed = g.unplayed
  BY <1>2, <1>4, <1>6 DEF GameStates, Phases, SamePeople, SameAccount
<1>8. PeopleOK(f) /\ HistoryOK(f) /\ effectivePhase(f) = "PENDING_JUDGEMENT"
  BY <1>2, <1>7, SongMoves
<1>9. SongOK(f)
  BY <1>2, <1>7 DEF SongOK, Drawn
<1>10. PendingOK(f)
  <2>1. /\ p.potential = potentialOf(g.song) /\ p.resume = g.song.awaiting /\ p.kind = kind
        /\ p.team = team /\ p.owed = owed
    BY <1>3
  <2>2. f.activeTeam = g.activeTeam
    BY <1>7 DEF SameAccount
  <2> QED
    BY <1>1, <1>6, <1>7, <1>8, <2>1, <2>2 DEF PendingOK
<1>11. StateOK(f)
  BY <1>7, <1>8, <1>9, <1>10 DEF StateOK, TableOK
<1> QED
  BY <1>1, <1>5, <1>7, <1>11, PeopleDoNotCome DEF Stores

\* A guess stores a sound state.
LEMMA GuessStores ==
  ASSUME StateOK(gs), NEW s \in Seats, Guess(s)
  PROVE  Stores
<1>1. CASE GuessFromActive(s)
  <2>1. gs.phase = "SONG_PLAY" /\ Claim("ACTIVE_GUESS", gs.activeTeam, s, 0)
    BY <1>1 DEF GuessFromActive, decides, playing
  <2> QED
    BY <2>1, ClaimStores DEF Kinds
<1>2. CASE GuessFromLastChance(s)
  <2>1. gs.phase = "SONG_PLAY" /\ Claim("LAST_CHANCE", opponentOf(gs.activeTeam), s, 0)
    BY <1>2 DEF GuessFromLastChance, decides, playing
  <2> QED
    BY <2>1, ClaimStores DEF Kinds
<1> QED
  BY <1>1, <1>2 DEF Guess

\* A steal stores a sound state.
LEMMA StealStores ==
  ASSUME StateOK(gs), NEW s \in Seats, Steal(s)
  PROVE  Stores
<1>1. /\ gs.phase = "SONG_PLAY" /\ gs.song.awaiting = "STEAL" /\ gs.song.stealAllowed
      /\ Claim("STEAL", opponentOf(gs.activeTeam), s, gs.song.window)
  BY DEF Steal, decides, playing
<1>2. SongOK(gs) /\ songInPlay(gs) /\ Drawn(gs)
  BY <1>1, InOrder DEF TableOK
<1>3. gs.song.window \in closedBlocks(gs.song)
  BY <1>1, <1>2 DEF SongOK
<1>4. gs.song.window \in Nat
  BY <1>2, <1>3, PotentialIs DEF Drawn
<1> QED
  BY <1>1, <1>3, <1>4, ClaimStores DEF Kinds

\* A pass stores a sound state.
LEMMA PassStores ==
  ASSUME StateOK(gs), NEW s \in Seats, Pass(s)
  PROVE  Stores
<1>1. PICK g : g = gs
  OBVIOUS
<1>2. g.phase = "SONG_PLAY"
  BY <1>1 DEF Pass, PassFromSteal, PassFromLastChance, decides, playing
<1>3. OnTable(g) /\ SongOK(g) /\ songInPlay(g) /\ g.pending = NoPending
  <2>1. g.phase \in PlayPhases
    BY <1>2 DEF PlayPhases
  <2>2. effectivePhase(g) = "SONG_PLAY"
    BY <1>1, <1>2, <2>1, InOrder
  <2> QED
    BY <1>1, <1>2, <2>2, InOrder DEF TableOK
<1>4. CASE PassFromSteal(s)
  <2>1. PICK f : f = revealAt(g, declined(g))
    OBVIOUS
  <2>2. Store(f) /\ g.song.awaiting = "STEAL"
    BY <1>1, <1>4, <2>1 DEF PassFromSteal, decides, playing
  <2>3. declined(g) \in closedBlocks(g.song)
    BY <1>3, <2>2 DEF SongOK, declined
  <2>4. StateOK(f) /\ SamePeople(f, g)
    BY <1>2, <1>3, <2>1, <2>3, RevealAtOK
  <2> QED
    BY <1>1, <2>2, <2>4, PeopleDoNotCome DEF Stores
<1>5. CASE PassFromLastChance(s)
  <2>1. PICK f : f = finishSong(g, "NONE", 0, FALSE)
    OBVIOUS
  <2>2. Store(f)
    BY <1>1, <1>5, <2>1 DEF PassFromLastChance
  <2>3. Award(g, "NONE", 0)
    BY DEF Award, Teams
  <2>4. StateOK(f) /\ SamePeople(f, g)
    BY <1>3, <2>1, <2>3, FinishSongOK
  <2> QED
    BY <1>1, <2>2, <2>4, PeopleDoNotCome DEF Stores
<1> QED
  BY <1>4, <1>5 DEF Pass

\* Skipping a song stores a sound state.
LEMMA SkipSongStores ==
  ASSUME StateOK(gs), NEW s \in Seats, SkipSong(s)
  PROVE  Stores
<1>1. PICK g : g = gs
  OBVIOUS
<1>2. OnTable(g)
  BY <1>1, InOrder DEF SkipSong, maySkip
<1>3. PICK f : f = finishSong(g, "NONE", 0, TRUE)
  OBVIOUS
<1>4. Store(f)
  BY <1>1, <1>3 DEF SkipSong
<1>5. Award(g, "NONE", 0)
  BY DEF Award, Teams
<1>6. StateOK(f) /\ SamePeople(f, g)
  BY <1>2, <1>3, <1>5, FinishSongOK
<1> QED
  BY <1>1, <1>4, <1>6, PeopleDoNotCome DEF Stores

\* A claim that is pending belongs to the song on the table.
LEMMA ClaimIs ==
  ASSUME NEW g, StateOK(g), g.phase = "PENDING_JUDGEMENT"
  PROVE  /\ OnTable(g) /\ SongOK(g) /\ songInPlay(g) /\ Drawn(g) /\ g \in GameStates
         /\ g.resumePhase = "NONE"
         /\ g.pending \in Pendings
         /\ g.pending.potential = potentialOf(g.song)
         /\ g.pending.resume = g.song.awaiting
         /\ g.pending.kind = "STEAL" => g.song.stealAllowed /\ g.pending.owed \in closedBlocks(g.song)
<1>1. g.phase \in PlayPhases
  BY DEF PlayPhases
<1>2. /\ OnTable(g) /\ songInPlay(g) /\ Drawn(g) /\ g \in GameStates /\ TableOK(g)
      /\ effectivePhase(g) = "PENDING_JUDGEMENT" /\ g.resumePhase = "NONE"
  BY <1>1, InOrder
<1>3. g.pending # NoPending
  BY <1>2 DEF TableOK, PendingOK
<1>4. g.pending \in Pendings
  BY <1>2, <1>3 DEF GameStates
<1> QED
  BY <1>2, <1>3, <1>4 DEF TableOK, PendingOK

\* Back to the song, in some sub-state that is not a window to steal unless it
\* was one before.
LEMMA BackToSong ==
  ASSUME NEW g, StateOK(g), g.phase = "PENDING_JUDGEMENT", NEW wait \in Waits,
         wait = "STEAL" => g.song.awaiting = "STEAL", NEW f,
         f = [g EXCEPT !.phase = "SONG_PLAY", !.pending = NoPending, !.song.awaiting = wait]
  PROVE  StateOK(f) /\ SamePeople(f, g)
<1>1. /\ OnTable(g) /\ SongOK(g) /\ songInPlay(g) /\ Drawn(g) /\ g \in GameStates
      /\ closedBlocks(g.song) # {}
  BY ClaimIs DEF SongOK
<1>2. PICK song : song = [g.song EXCEPT !.awaiting = wait]
  OBVIOUS
<1>3. f = [g EXCEPT !.phase = "SONG_PLAY", !.pending = NoPending, !.song = song]
  BY <1>1, <1>2 DEF GameStates
<1>4. /\ song \in SongStates /\ song.id = g.song.id /\ song.revealed = g.song.revealed
      /\ song.stealAllowed = g.song.stealAllowed /\ song.awaiting = wait /\ song.window = g.song.window
  BY <1>1, <1>2 DEF Drawn, SongStates
<1>5. /\ f \in GameStates /\ f.song = song /\ f.phase = "SONG_PLAY" /\ f.resumePhase = g.resumePhase
      /\ f.pending = NoPending /\ SamePeople(f, g) /\ SameAccount(f, g)
      /\ f.unplayed = g.unplayed
  BY <1>1, <1>3, <1>4 DEF GameStates, Phases, SamePeople, SameAccount
<1>6. PeopleOK(f) /\ HistoryOK(f) /\ effectivePhase(f) = "SONG_PLAY"
  BY <1>1, <1>4, <1>5, SongMoves
<1>7. Drawn(f) /\ closedBlocks(f.song) = closedBlocks(g.song)
  BY <1>1, <1>4, <1>5 DEF Drawn, closedBlocks
<1>8. SongOK(f)
  BY <1>1, <1>4, <1>5, <1>7 DEF SongOK
<1>9. PendingOK(f)
  BY <1>5, <1>6 DEF PendingOK
<1> QED
  BY <1>5, <1>6, <1>8, <1>9 DEF StateOK, TableOK

\* A wrong answer, with the steals that follow from it, gives a sound state.
LEMMA JudgedIncorrectOK ==
  ASSUME NEW g, StateOK(g), g.phase = "PENDING_JUDGEMENT", NEW f, f = judgedIncorrect(g)
  PROVE  StateOK(f) /\ SamePeople(f, g)
<1>1. /\ OnTable(g) /\ SongOK(g) /\ songInPlay(g) /\ Drawn(g) /\ g \in GameStates
      /\ g.pending \in Pendings /\ g.resumePhase = "NONE"
      /\ g.pending.kind = "STEAL" => g.song.stealAllowed /\ g.pending.owed \in closedBlocks(g.song)
  BY ClaimIs
<1>2. PICK back : back = [g EXCEPT !.phase = "SONG_PLAY", !.pending = NoPending]
  OBVIOUS
<1>3. f = CASE g.pending.kind = "ACTIVE_GUESS" -> [back EXCEPT !.song.awaiting = "LAST_CHANCE"]
            [] g.pending.kind = "STEAL"        -> revealAt([back EXCEPT !.song.stealAllowed = FALSE],
                                                           g.pending.owed)
            [] g.pending.kind = "LAST_CHANCE"  -> finishSong(g, "NONE", 0, FALSE)
  BY <1>2 DEF judgedIncorrect
<1>4. CASE g.pending.kind = "ACTIVE_GUESS"
  <2>1. f = [back EXCEPT !.song.awaiting = "LAST_CHANCE"]
    BY <1>3, <1>4
  <2>2. f = [g EXCEPT !.phase = "SONG_PLAY", !.pending = NoPending, !.song.awaiting = "LAST_CHANCE"]
    BY <1>2, <2>1
  <2> QED
    BY <2>2, BackToSong DEF Waits
<1>5. CASE g.pending.kind = "STEAL"
  <2>1. PICK song : song = [g.song EXCEPT !.stealAllowed = FALSE]
    OBVIOUS
  <2>2. PICK h : h = [back EXCEPT !.song = song]
    OBVIOUS
  <2>3. h = [back EXCEPT !.song.stealAllowed = FALSE]
    BY <1>1, <1>2, <2>1, <2>2 DEF GameStates
  <2>4. f = revealAt(h, g.pending.owed)
    BY <1>3, <1>5, <2>3
  <2>5. song \in SongStates /\ song.id = g.song.id /\ song.revealed = g.song.revealed
    BY <1>1, <2>1 DEF Drawn, SongStates
  <2>6. /\ h \in GameStates /\ h.song = song /\ h.phase = "SONG_PLAY" /\ h.resumePhase = g.resumePhase
        /\ h.pending = NoPending /\ SamePeople(h, g) /\ SameAccount(h, g)
        /\ h.unplayed = g.unplayed
    BY <1>1, <1>2, <2>2, <2>5 DEF GameStates, Phases, SamePeople, SameAccount
  <2>7. PeopleOK(h) /\ HistoryOK(h)
    BY <1>1, <2>5, <2>6, SongMoves
  <2>8. Drawn(h) /\ closedBlocks(h.song) = closedBlocks(g.song)
    BY <1>1, <2>5, <2>6 DEF Drawn, closedBlocks
  <2>9. OnTable(h) /\ g.pending.owed \in closedBlocks(h.song)
    BY <1>1, <1>5, <2>6, <2>7, <2>8 DEF OnTable
  <2>10. StateOK(f) /\ SamePeople(f, h)
    BY <2>4, <2>6, <2>9, RevealAtOK
  <2> QED
    BY <2>6, <2>10 DEF SamePeople
<1>6. CASE g.pending.kind = "LAST_CHANCE"
  <2>1. f = finishSong(g, "NONE", 0, FALSE)
    BY <1>3, <1>6
  <2>2. Award(g, "NONE", 0)
    BY DEF Award, Teams
  <2> QED
    BY <1>1, <2>1, <2>2, FinishSongOK
<1>7. g.pending.kind \in Kinds
  BY <1>1 DEF Pendings
<1> QED
  BY <1>4, <1>5, <1>6, <1>7 DEF Kinds

\* A judgement stores a sound state.
LEMMA JudgeResultStores ==
  ASSUME StateOK(gs), NEW s \in Seats, NEW correct \in BOOLEAN, JudgeResult(s, correct)
  PROVE  Stores
<1>1. PICK g : g = gs
  OBVIOUS
<1>2. StateOK(g) /\ g.phase = "PENDING_JUDGEMENT"
  BY <1>1 DEF JudgeResult, mayJudge
<1>3. PICK f : f = IF correct THEN finishSong(g, g.pending.team, g.pending.potential, FALSE)
                   ELSE judgedIncorrect(g)
  OBVIOUS
<1>4. Store(f)
  BY <1>1, <1>3 DEF JudgeResult
<1>5. StateOK(f) /\ SamePeople(f, g)
  <2>1. CASE correct
    <3>1. /\ OnTable(g) /\ g.pending \in Pendings
          /\ g.pending.potential = potentialOf(g.song)
      BY <1>2, ClaimIs
    <3>2. g.pending.team \in PlayTeams
      BY <3>1 DEF Pendings
    <3>3. Award(g, g.pending.team, g.pending.potential)
      BY <3>1, <3>2 DEF Award, Teams, PlayTeams
    <3> QED
      BY <1>3, <2>1, <3>1, <3>3, FinishSongOK
  <2>2. CASE ~correct
    BY <1>2, <1>3, <2>2, JudgedIncorrectOK
  <2> QED
    BY <2>1, <2>2
<1> QED
  BY <1>1, <1>4, <1>5, PeopleDoNotCome DEF Stores

\* Voiding a guess stores a sound state.
LEMMA VoidStores ==
  ASSUME StateOK(gs), NEW s \in Seats, Void(s)
  PROVE  Stores
<1>1. PICK g : g = gs
  OBVIOUS
<1>2. StateOK(g) /\ g.phase = "PENDING_JUDGEMENT"
  BY <1>1 DEF Void, mayJudge
<1>3. g.pending.resume = g.song.awaiting /\ g.song \in SongStates /\ g \in GameStates
  BY <1>2, ClaimIs DEF Drawn
<1>4. g.pending.resume \in Waits
  BY <1>3 DEF SongStates
<1>5. PICK f : f = [g EXCEPT !.phase = "SONG_PLAY", !.pending = NoPending,
                             !.song.awaiting = g.pending.resume]
  OBVIOUS
<1>6. f = [g EXCEPT !.phase = "SONG_PLAY", !.song.awaiting = g.pending.resume, !.pending = NoPending]
  BY <1>3, <1>5 DEF GameStates
<1>7. Store(f)
  BY <1>1, <1>6 DEF Void
<1>8. StateOK(f) /\ SamePeople(f, g)
  BY <1>2, <1>3, <1>4, <1>5, BackToSong
<1> QED
  BY <1>1, <1>7, <1>8, PeopleDoNotCome DEF Stores

-----------------------------------------------------------------------------
(***************************************************************************)
(* The roster: teams, captains and the judge.                              *)
(***************************************************************************)
\* All but the people's offices stays as it is.
SamePlay(f, g) ==
  /\ SameAccount(f, g) /\ SameTable(f, g) /\ f.active = g.active /\ f.hostSeat = g.hostSeat

\* The lowest active member becomes the captain of a team that has none.
LEMMA PromoteIs ==
  ASSUME NEW g \in GameStates, OfficesOK(g), NEW t \in PlayTeams,
         \A s \in g.captain : g.team[s] # t, NEW f, f = promoteCaptain(g, t)
  PROVE  /\ f \in GameStates /\ OfficesOK(f) /\ SamePlay(f, g)
         /\ f.phase = g.phase /\ f.resumePhase = g.resumePhase /\ f.team = g.team /\ f.judge = g.judge
         /\ g.captain \subseteq f.captain
         /\ activeMembers(g, t) # {} => \E s \in f.captain : f.team[s] = t
<1> DEFINE M == activeMembers(g, t)
<1>1. M \subseteq g.active /\ M \in SUBSET Seats /\ \A s \in M : g.team[s] = t
  BY DEF activeMembers, GameStates
<1>2. CASE M = {}
  <2>1. f = g
    BY <1>2 DEF promoteCaptain
  <2> QED
    BY <1>2, <2>1 DEF SamePlay, SameAccount, SameTable
<1>3. CASE M # {}
  <2>1. PICK m : m = Lowest(M)
    OBVIOUS
  <2>2. m \in M
    BY <1>1, <1>3, <2>1, LowestIs
  <2>3. f = [g EXCEPT !.captain = @ \cup {m}]
    BY <1>3, <2>1 DEF promoteCaptain
  <2> HIDE DEF M
  <2>4. m \in Seats /\ m \in g.active /\ g.team[m] = t
    BY <1>1, <2>2
  <2>5. /\ f \in GameStates /\ SamePlay(f, g) /\ f.captain = g.captain \cup {m}
        /\ f.phase = g.phase /\ f.resumePhase = g.resumePhase /\ f.team = g.team /\ f.judge = g.judge
    <3>1. PICK C : C = g.captain \cup {m}
      OBVIOUS
    <3>2. C \in SUBSET Seats
      BY <2>4, <3>1 DEF GameStates
    <3>3. f = [g EXCEPT !.captain = C]
      BY <2>3, <3>1
    <3>4. f \in GameStates
      BY <3>2, <3>3 DEF GameStates
    <3>5. SamePlay(f, g) /\ f.captain = C
          /\ f.phase = g.phase /\ f.resumePhase = g.resumePhase /\ f.team = g.team /\ f.judge = g.judge
      BY <3>3 DEF GameStates, SamePlay, SameAccount, SameTable
    <3> QED
      BY <3>1, <3>4, <3>5
  <2>6. f.active = g.active
    BY <2>5 DEF SamePlay
  <2>7. OfficesOK(f)
    BY <2>4, <2>5, <2>6 DEF OfficesOK
  <2> QED
    BY <2>4, <2>5, <2>7
<1> QED
  BY <1>2, <1>3

\* What a captain of t is, searched for as captainOf does.
LEMMA CaptainIs ==
  ASSUME NEW g \in GameStates, NEW t \in Teams
  PROVE  /\ captainOf(g, t) = nobody <=> \A s \in g.captain : g.team[s] # t
         /\ captainOf(g, t) # nobody => captainOf(g, t) \in g.captain /\ g.team[captainOf(g, t)] = t
<1> DEFINE C == {s \in g.captain : g.team[s] = t}
<1>1. C \in SUBSET Seats /\ nobody \notin Seats
  BY SongGuessAssumption DEF GameStates, nobody
<1>2. captainOf(g, t) = Lowest(C)
  BY DEF captainOf
<1>3. (C = {} => Lowest(C) = nobody) /\ (C # {} => Lowest(C) \in C) /\ Lowest(C) \in Seats \cup {nobody}
  BY <1>1, LowestIs
<1> QED
  BY <1>1, <1>2, <1>3

\* The new judge is the only one and on no team; the team it leaves has another
\* captain, if the judge was theirs and one of them is left.
LEMMA ReassignIs ==
  ASSUME NEW g \in GameStates, OfficesOK(g), NEW target \in g.active, NEW f,
         f = reassignJudge(g, target)
  PROVE  /\ f \in GameStates /\ OfficesOK(f) /\ SamePlay(f, g)
         /\ f.phase = g.phase /\ f.resumePhase = g.resumePhase
         /\ target \in f.judge
         /\ f.team = [g.team EXCEPT ![target] = "NONE"]
         /\ \A t \in PlayTeams : (\E s \in g.captain : g.team[s] = t) /\ activeMembers(f, t) # {}
              => \E s \in f.captain : f.team[s] = t
<1>1. PICK h : h = [g EXCEPT !.judge = (@ \ {judgeOf(g)}) \cup {target},
                             !.team[target] = "NONE", !.captain = @ \ {target}]
  OBVIOUS
<1>2. target \in Seats /\ g.judge \in SUBSET Seats /\ g.team \in [Seats -> Teams] /\ g.captain \in SUBSET Seats
  BY DEF GameStates
<1>3. g.judge \ {judgeOf(g)} = {}
  <2>1. g.judge # {} => judgeOf(g) \in g.judge
    BY <1>2, LowestIs DEF judgeOf
  <2> QED
    BY <2>1 DEF OfficesOK
<1>4. [g.team EXCEPT ![target] = "NONE"] \in [Seats -> Teams]
  BY <1>2 DEF Teams
<1>5. PICK team : team = [g.team EXCEPT ![target] = "NONE"]
  OBVIOUS
<1>6. h = [g EXCEPT !.judge = {target}, !.team = team, !.captain = @ \ {target}]
  BY <1>1, <1>3, <1>5
<1>7. /\ h \in GameStates /\ SamePlay(h, g) /\ h.phase = g.phase /\ h.resumePhase = g.resumePhase
      /\ h.judge = {target} /\ h.team = team /\ h.captain = g.captain \ {target}
  BY <1>2, <1>4, <1>5, <1>6 DEF GameStates, SamePlay, SameAccount, SameTable
<1>8. \A s \in Seats : team[s] = IF s = target THEN "NONE" ELSE g.team[s]
  BY <1>2, <1>5
<1>9. h.active = g.active
  BY <1>7 DEF SamePlay
<1>10. OfficesOK(h)
  BY <1>2, <1>7, <1>8, <1>9 DEF OfficesOK
<1>11. PICK t : t = g.team[target]
  OBVIOUS
<1>12. t \in Teams /\ (t # "NONE" => t \in PlayTeams)
  BY <1>2, <1>11 DEF Teams
<1>13. f = IF t # "NONE" /\ captainOf(h, t) = nobody THEN promoteCaptain(h, t) ELSE h
  BY <1>1, <1>11 DEF reassignJudge
<1>14. \A u \in PlayTeams : u # t /\ (\E s \in g.captain : g.team[s] = u) => \E s \in h.captain : h.team[s] = u
  BY <1>2, <1>7, <1>8, <1>11
<1>15. CASE t # "NONE" /\ captainOf(h, t) = nobody
  <2>1. t \in PlayTeams /\ f = promoteCaptain(h, t)
    BY <1>12, <1>13, <1>15
  <2>2. \A s \in h.captain : h.team[s] # t
    BY <1>7, <1>12, <1>15, CaptainIs
  <2>3. /\ f \in GameStates /\ OfficesOK(f) /\ SamePlay(f, h)
        /\ f.phase = h.phase /\ f.resumePhase = h.resumePhase /\ f.team = h.team /\ f.judge = h.judge
        /\ h.captain \subseteq f.captain
        /\ activeMembers(h, t) # {} => \E s \in f.captain : f.team[s] = t
    BY <1>7, <1>10, <2>1, <2>2, PromoteIs
  <2>4. \A u \in PlayTeams : activeMembers(f, u) = activeMembers(h, u)
    BY <2>3 DEF activeMembers, SamePlay
  <2>5. SamePlay(f, g)
    BY <1>7, <2>3 DEF SamePlay, SameAccount, SameTable
  <2>6. ASSUME NEW u \in PlayTeams, \E s \in g.captain : g.team[s] = u, activeMembers(f, u) # {}
        PROVE  \E s \in f.captain : f.team[s] = u
    <3>1. CASE u = t
      BY <3>1, <2>3, <2>4, <2>6
    <3>2. CASE u # t
      BY <3>2, <1>14, <2>3, <2>6
    <3> QED
      BY <3>1, <3>2
  <2> QED
    BY <1>5, <1>7, <2>3, <2>5, <2>6
<1>16. CASE ~(t # "NONE" /\ captainOf(h, t) = nobody)
  <2>1. f = h
    BY <1>13, <1>16
  <2>2. t \in PlayTeams => \E s \in h.captain : h.team[s] = t
    BY <1>7, <1>12, <1>16, CaptainIs DEF PlayTeams
  <2>3. \A u \in PlayTeams : (\E s \in g.captain : g.team[s] = u) => \E s \in h.captain : h.team[s] = u
    BY <1>14, <2>2
  <2> QED
    BY <1>5, <1>7, <1>10, <2>1, <2>3
<1> QED
  BY <1>15, <1>16

\* Before the game begins there is nothing but offices to get wrong.
LEMMA RosterMoves ==
  ASSUME NEW g, StateOK(g), g.phase = "ROSTER", NEW f \in GameStates, OfficesOK(f),
         SamePlay(f, g), f.phase = "ROSTER", f.resumePhase = g.resumePhase
  PROVE  StateOK(f) /\ ~songInPlay(f)
<1>1. /\ g \in GameStates /\ PeopleOK(g) /\ TableOK(g) /\ HistoryOK(g) /\ ParkedOK(g)
  BY InOrder
<1>2. effectivePhase(f) = "ROSTER" /\ effectivePhase(g) = "ROSTER"
  BY DEF effectivePhase
<1>3. ~songInPlay(f) /\ ~begun(f)
  BY <1>2 DEF songInPlay, begun
<1>4. ParkedOK(f)
  BY <1>1 DEF ParkedOK
<1>5. HostOK(f)
  BY <1>1, <1>2 DEF PeopleOK, HostOK, SamePlay
<1>6. StaffedOK(f)
  BY <1>3 DEF StaffedOK
<1>7. TableOK(f) /\ HistoryOK(f)
  <2>1. SameAccount(f, g) /\ SameTable(f, g)
    BY DEF SamePlay
  <2> QED
    BY <1>1, <1>2, <2>1, Unmoved
<1> QED
  BY <1>3, <1>4, <1>5, <1>6, <1>7 DEF StateOK, PeopleOK

\* With no song in play there is no answer to see.
LEMMA OffRoundDeparts ==
  ASSUME NEW f, ~songInPlay(f)
  PROVE  Departs(f)
BY DEF Departs

\* Moving a player to a team stores a sound state.
LEMMA AssignTeamStores ==
  ASSUME StateOK(gs), NEW s \in Seats, NEW target \in Seats, NEW team \in Teams,
         AssignTeam(s, target, team)
  PROVE  Stores
<1>1. PICK g : g = gs
  OBVIOUS
<1>2. /\ StateOK(g) /\ g \in GameStates /\ OfficesOK(g) /\ g.phase = "ROSTER" /\ target \in g.active
      /\ team = "NONE" \/ target \notin g.judge
  BY <1>1, InOrder DEF AssignTeam, mayAssignTeam, hostInRoster
<1>3. g.team \in [Seats -> Teams] /\ g.captain \in SUBSET Seats
  BY <1>2 DEF GameStates
<1>4. PICK T : T = [g.team EXCEPT ![target] = team]
  OBVIOUS
<1>5. PICK C : C = IF team # g.team[target] THEN g.captain \ {target} ELSE g.captain
  OBVIOUS
<1>6. PICK f : f = [g EXCEPT !.team = T, !.captain = C]
  OBVIOUS
<1>7. Store(f)
  BY <1>1, <1>4, <1>5, <1>6 DEF AssignTeam
<1>8. T \in [Seats -> Teams] /\ \A q \in Seats : T[q] = IF q = target THEN team ELSE g.team[q]
  BY <1>3, <1>4
<1>9. C \in SUBSET Seats /\ C \subseteq g.captain /\ (target \in C => team = g.team[target])
  BY <1>3, <1>5
<1>10. /\ f \in GameStates /\ SamePlay(f, g) /\ f.phase = g.phase /\ f.resumePhase = g.resumePhase
       /\ f.team = T /\ f.captain = C /\ f.judge = g.judge
  BY <1>2, <1>6, <1>8, <1>9 DEF GameStates, SamePlay, SameAccount, SameTable
<1>11. \A q \in C : T[q] = g.team[q]
  BY <1>3, <1>8, <1>9
<1>12. \A q \in g.judge : q \in Seats /\ T[q] = "NONE"
  BY <1>2, <1>8 DEF OfficesOK, GameStates
<1>13. OfficesOK(f)
  <2>1. f.active = g.active
    BY <1>10 DEF SamePlay
  <2> QED
    BY <1>2, <1>9, <1>10, <1>11, <1>12, <2>1 DEF OfficesOK
<1>14. StateOK(f) /\ ~songInPlay(f)
  BY <1>2, <1>10, <1>13, RosterMoves
<1> QED
  BY <1>7, <1>14, OffRoundDeparts DEF Stores

\* Naming a captain stores a sound state.
LEMMA AssignCaptainStores ==
  ASSUME StateOK(gs), NEW s \in Seats, NEW target \in Seats, AssignCaptain(s, target)
  PROVE  Stores
<1>1. PICK g : g = gs
  OBVIOUS
<1>2. /\ StateOK(g) /\ g \in GameStates /\ OfficesOK(g) /\ g.phase = "ROSTER" /\ target \in g.active
      /\ g.team[target] # "NONE"
  BY <1>1, InOrder DEF AssignCaptain, hostInRoster
<1>3. g.team \in [Seats -> Teams] /\ g.captain \in SUBSET Seats
  BY <1>2 DEF GameStates
<1>4. PICK c : c = captainOf(g, g.team[target])
  OBVIOUS
<1>5. PICK C : C = (g.captain \ {c}) \cup {target}
  OBVIOUS
<1>6. PICK f : f = [g EXCEPT !.captain = C]
  OBVIOUS
<1>7. Store(f)
  BY <1>1, <1>4, <1>5, <1>6 DEF AssignCaptain
<1>8. C \in SUBSET Seats
  BY <1>3, <1>5
<1>9. /\ f \in GameStates /\ SamePlay(f, g) /\ f.phase = g.phase /\ f.resumePhase = g.resumePhase
      /\ f.team = g.team /\ f.captain = C /\ f.judge = g.judge
  BY <1>2, <1>6, <1>8 DEF GameStates, SamePlay, SameAccount, SameTable
<1>10. g.team[target] \in PlayTeams
  BY <1>2, <1>3 DEF Teams
<1>11. ASSUME NEW q \in C, g.team[q] = g.team[target]
       PROVE  q = target
  <2> SUFFICES ASSUME q # target PROVE FALSE
    OBVIOUS
  <2>1. q \in g.captain /\ q # c
    BY <1>5, <1>11
  <2>2. c # nobody => c \in g.captain /\ g.team[c] = g.team[target]
    BY <1>2, <1>3, <1>4, CaptainIs
  <2>3. c # nobody
    BY <1>2, <1>3, <1>4, <1>11, <2>1, CaptainIs
  <2> QED
    BY <1>2, <1>11, <2>1, <2>2, <2>3 DEF OfficesOK
<1>12. \A q \in C : q = target \/ q \in g.captain
  BY <1>5
<1>13. OfficesOK(f)
  <2>1. f.active = g.active
    BY <1>9 DEF SamePlay
  <2>2. C \subseteq g.active /\ \A q \in C : g.team[q] \in PlayTeams
    BY <1>2, <1>10, <1>12 DEF OfficesOK
  <2>3. \A q, r \in C : g.team[q] = g.team[r] => q = r
    BY <1>2, <1>11, <1>12 DEF OfficesOK
  <2> QED
    BY <1>2, <1>9, <2>1, <2>2, <2>3 DEF OfficesOK
<1>14. StateOK(f) /\ ~songInPlay(f)
  BY <1>2, <1>9, <1>13, RosterMoves
<1> QED
  BY <1>7, <1>14, OffRoundDeparts DEF Stores

\* Naming a judge before the game stores a sound state.
LEMMA AssignJudgeInRosterStores ==
  ASSUME StateOK(gs), NEW s \in Seats, NEW target \in Seats, AssignJudgeInRoster(s, target)
  PROVE  Stores
<1>1. PICK g : g = gs
  OBVIOUS
<1>2. StateOK(g) /\ g \in GameStates /\ OfficesOK(g) /\ g.phase = "ROSTER" /\ target \in g.active
  BY <1>1, InOrder DEF AssignJudgeInRoster, mayAssignJudge
<1>3. PICK f : f = reassignJudge(g, target)
  OBVIOUS
<1>4. Store(f)
  BY <1>1, <1>3 DEF AssignJudgeInRoster
<1>5. f \in GameStates /\ OfficesOK(f) /\ SamePlay(f, g) /\ f.phase = g.phase /\ f.resumePhase = g.resumePhase
  BY <1>2, <1>3, ReassignIs
<1>6. StateOK(f) /\ ~songInPlay(f)
  BY <1>2, <1>5, RosterMoves
<1> QED
  BY <1>4, <1>6, OffRoundDeparts DEF Stores

\* Only with a judge and two captains does the game begin.
LEMMA BeginGameStores ==
  ASSUME StateOK(gs), NEW s \in Seats, NEW startingTeam \in PlayTeams, BeginGame(s, startingTeam)
  PROVE  Stores
<1>1. PICK g : g = gs
  OBVIOUS
<1>2. /\ StateOK(g) /\ g \in GameStates /\ OfficesOK(g) /\ PeopleOK(g) /\ TableOK(g) /\ HistoryOK(g) /\ ParkedOK(g)
  BY <1>1, InOrder
<1>3. /\ g.phase = "ROSTER" /\ g.hostSeat \in Seats /\ validRoster(g) /\ g.unplayed # {}
  BY <1>1 DEF BeginGame, hostInRoster, isHost
<1>4. effectivePhase(g) = "ROSTER" /\ ~songInPlay(g) /\ g.resumePhase = "NONE"
  BY <1>2, <1>3 DEF effectivePhase, songInPlay, ParkedOK
<1>5. PICK f : f = [g EXCEPT !.phase = "ROUND_SELECT", !.activeTeam = startingTeam, !.roundNo = 1]
  OBVIOUS
<1>6. Store(f)
  BY <1>1, <1>5 DEF BeginGame
<1>7. /\ f \in GameStates /\ f.phase = "ROUND_SELECT" /\ f.resumePhase = "NONE" /\ f.roundNo = 1
      /\ SameTable(f, g) /\ SamePeople(f, g)
      /\ f.history = g.history /\ f.score = g.score
  BY <1>2, <1>4, <1>5 DEF GameStates, Phases, SameTable, SamePeople
<1>8. effectivePhase(f) = "ROUND_SELECT" /\ ~songInPlay(f) /\ begun(f)
  BY <1>7 DEF effectivePhase, songInPlay, begun
<1>9. PeopleOK(f)
  <2>1. OfficesOK(f)
    BY <1>2, <1>7 DEF OfficesOK, SamePeople
  <2>2. ParkedOK(f)
    BY <1>7 DEF ParkedOK
  <2>3. HostOK(f)
    BY <1>2, <1>3, <1>7 DEF PeopleOK, HostOK, SamePeople
  <2>4. g.judge # {}
    <3>1. judgeOf(g) # nobody
      BY <1>3 DEF validRoster
    <3> QED
      BY <3>1 DEF judgeOf, Lowest
  <2>5. ASSUME NEW t \in PlayTeams PROVE \E q \in g.captain : g.team[q] = t
    <3>1. Cardinality(activeMembers(g, t) \cap g.captain) = 1
      BY <1>3 DEF validRoster
    <3>2. activeMembers(g, t) \cap g.captain # {}
      BY <3>1, FS_EmptySet
    <3> QED
      BY <3>2 DEF activeMembers
  <2>6. StaffedOK(f)
    BY <1>7, <2>4, <2>5 DEF StaffedOK, SamePeople
  <2> QED
    BY <2>1, <2>2, <2>3, <2>6 DEF PeopleOK
<1>10. TableOK(f)
  <2>1. f.pending = NoPending /\ f.unplayed # {}
    BY <1>2, <1>3, <1>4, <1>7 DEF TableOK, PendingOK, SameTable
  <2> QED
    BY <1>8, <2>1 DEF TableOK, SongOK, PendingOK
<1>11. HistoryOK(f)
  <2>1. g.history = <<>>
    BY <1>2, <1>4 DEF HistoryOK, CountOK
  <2>2. SongsOK(f) /\ ScoreOK(f) /\ AlternateOK(f)
    BY <1>2, <1>4, <1>7, <1>8 DEF HistoryOK, SongsOK, ScoreOK, AlternateOK, Flying, playedSongs, SameTable
  <2>3. CountOK(f)
    BY <1>7, <1>8, <2>1 DEF CountOK
  <2> QED
    BY <2>2, <2>3 DEF HistoryOK
<1> QED
  BY <1>6, <1>7, <1>8, <1>9, <1>10, <1>11, OffRoundDeparts DEF Stores, StateOK

-----------------------------------------------------------------------------
(***************************************************************************)
(* The steps after which the game may be over: an appointment in a vacancy *)
(* and a departure.                                                        *)
(***************************************************************************)
LEMMA KeptOrEnded ==
  ASSUME StateOK(gs), NEW h \in GameStates, OfficesOK(h), SameAccount(h, gs), SameTable(h, gs),
         effectivePhase(h) = effectivePhase(gs), h.phase # "FINISHED",
         h.active \subseteq gs.active, \A s \in Seats : h.team[s] \in {gs.team[s], "NONE"},
         ~terminalCondition(h) => PeopleOK(h), Store(finalizeIfTerminal(h))
  PROVE  Stores
<1>1. PICK g : g = gs
  OBVIOUS
<1>2. g \in GameStates /\ TableOK(g) /\ HistoryOK(g)
  BY <1>1, InOrder
<1>3. TableOK(h) /\ HistoryOK(h)
  BY <1>1, <1>2, Unmoved
<1>4. Departs(h)
  BY DEF Departs
<1>5. CASE terminalCondition(h)
  <2>1. PICK f : f = finalize(h)
    OBVIOUS
  <2>2. Store(f)
    BY <1>5, <2>1 DEF finalizeIfTerminal
  <2>3. Sound(h)
    BY <1>3 DEF Sound, HistoryOK
  <2>4. StateOK(f) /\ f.phase = "FINISHED"
    BY <2>1, <2>3, FinalizeIs
  <2>5. ~songInPlay(f)
    BY <2>4 DEF songInPlay, effectivePhase
  <2> QED
    BY <2>2, <2>4, <2>5, OffRoundDeparts DEF Stores
<1>6. CASE ~terminalCondition(h)
  <2>1. Store(h)
    BY <1>6 DEF finalizeIfTerminal
  <2>2. StateOK(h)
    BY <1>3, <1>6 DEF StateOK
  <2> QED
    BY <1>4, <2>1, <2>2 DEF Stores
<1> QED
  BY <1>5, <1>6

\* Naming a new judge resumes the parked phase in a sound state.
LEMMA AssignJudgeInVacantStores ==
  ASSUME StateOK(gs), NEW s \in Seats, NEW target \in Seats, AssignJudgeInVacant(s, target)
  PROVE  Stores
<1>1. PICK g : g = gs
  OBVIOUS
<1>2. /\ StateOK(g) /\ g \in GameStates /\ PeopleOK(g) /\ OfficesOK(g) /\ ParkedOK(g)
      /\ g.phase = "JUDGE_VACANT" /\ target \in g.active
  BY <1>1, InOrder DEF AssignJudgeInVacant, mayAssignJudge
<1>3. g.resumePhase \in Phases \ {"JUDGE_VACANT", "FINISHED"} /\ effectivePhase(g) = g.resumePhase
  BY <1>2 DEF GameStates, ParkedOK, effectivePhase
<1>4. PICK r : r = reassignJudge(g, target)
  OBVIOUS
<1>5. /\ r \in GameStates /\ OfficesOK(r) /\ SamePlay(r, g)
      /\ target \in r.judge
      /\ r.team = [g.team EXCEPT ![target] = "NONE"]
      /\ \A t \in PlayTeams : (\E q \in g.captain : g.team[q] = t) /\ activeMembers(r, t) # {}
           => \E q \in r.captain : r.team[q] = t
  BY <1>2, <1>4, ReassignIs
<1>6. PICK h : h = [r EXCEPT !.phase = g.resumePhase, !.resumePhase = "NONE"]
  OBVIOUS
<1>7. Store(finalizeIfTerminal(h))
  BY <1>1, <1>4, <1>6 DEF AssignJudgeInVacant
<1>8. /\ h \in GameStates /\ h.phase = g.resumePhase /\ h.resumePhase = "NONE"
      /\ SamePeople(h, r) /\ SameAccount(h, r) /\ SameTable(h, r)
  BY <1>3, <1>5, <1>6 DEF GameStates, SamePeople, SameAccount, SameTable
<1>9. OfficesOK(h)
  BY <1>5, <1>8 DEF OfficesOK, SamePeople
<1>10. SameAccount(h, g) /\ SameTable(h, g) /\ h.active = g.active /\ h.hostSeat = g.hostSeat
  BY <1>5, <1>8 DEF SamePlay, SameAccount, SameTable, SamePeople
<1>11. effectivePhase(h) = effectivePhase(g) /\ h.phase # "FINISHED" /\ h.phase # "JUDGE_VACANT"
  BY <1>3, <1>8 DEF effectivePhase
<1>12. \A q \in Seats : h.team[q] \in {g.team[q], "NONE"}
  <2>1. g.team \in [Seats -> Teams]
    BY <1>2 DEF GameStates
  <2> QED
    BY <2>1, <1>5, <1>8 DEF SamePeople
<1>13. ASSUME ~terminalCondition(h) PROVE PeopleOK(h)
  <2>1. ParkedOK(h)
    BY <1>8, <1>11 DEF ParkedOK
  <2>2. HostOK(h)
    BY <1>2, <1>10, <1>11 DEF PeopleOK, HostOK
  <2>3. \A t \in PlayTeams : activeMembers(r, t) # {}
    BY <1>8, <1>13 DEF terminalCondition, activeMembers, SamePeople
  <2>4. begun(h) <=> begun(g)
    BY <1>11 DEF begun
  <2>5. begun(g) => \A t \in PlayTeams : \E q \in g.captain : g.team[q] = t
    BY <1>2 DEF PeopleOK, StaffedOK
  <2>6. begun(h) => \A t \in PlayTeams : \E q \in r.captain : r.team[q] = t
    BY <1>5, <2>3, <2>4, <2>5
  <2>7. StaffedOK(h)
    BY <1>5, <1>8, <2>6 DEF StaffedOK, SamePeople
  <2> QED
    BY <1>9, <2>1, <2>2, <2>7 DEF PeopleOK
<1> QED
  BY <1>1, <1>7, <1>8, <1>9, <1>10, <1>11, <1>12, <1>13, KeptOrEnded

\* The captain who leaves is replaced, the judge's seat becomes vacant, the host
\* hands over: unless the game ends, every office is held by someone who stayed.
LEMMA ResignStores ==
  ASSUME StateOK(gs), NEW s \in Seats, Resign(s)
  PROVE  Stores
<1>1. PICK g : g = gs
  OBVIOUS
<1>2. /\ g \in GameStates /\ PeopleOK(g) /\ OfficesOK(g) /\ ParkedOK(g)
      /\ g.phase # "FINISHED" /\ s \in g.active
  BY <1>1, InOrder DEF Resign, mayResign
<1>3. PICK left : left = [g EXCEPT !.active = @ \ {s}, !.captain = @ \ {s}, !.judge = @ \ {s}]
  OBVIOUS
<1>4. PICK promoted : promoted = IF s \in g.captain THEN promoteCaptain(left, g.team[s]) ELSE left
  OBVIOUS
<1>5. PICK parked : parked = IF s \in g.judge
                             THEN [promoted EXCEPT !.resumePhase = g.phase, !.phase = "JUDGE_VACANT"]
                             ELSE promoted
  OBVIOUS
<1>6. PICK h : h = handOver(parked, s)
  OBVIOUS
<1>7. Store(finalizeIfTerminal(h))
  BY <1>1, <1>3, <1>4, <1>5, <1>6 DEF Resign
<1>8. /\ left \in GameStates /\ left.active = g.active \ {s} /\ left.captain = g.captain \ {s}
      /\ left.judge = g.judge \ {s} /\ left.team = g.team /\ left.hostSeat = g.hostSeat
      /\ left.phase = g.phase /\ left.resumePhase = g.resumePhase
      /\ SameAccount(left, g) /\ SameTable(left, g)
  BY <1>2, <1>3 DEF GameStates, SameAccount, SameTable
<1>9. OfficesOK(left)
  BY <1>2, <1>8 DEF OfficesOK
<1>10. /\ promoted \in GameStates /\ OfficesOK(promoted) /\ SamePlay(promoted, left)
       /\ promoted.phase = left.phase /\ promoted.resumePhase = left.resumePhase
       /\ promoted.team = left.team /\ promoted.judge = left.judge
       /\ \A t \in PlayTeams : (\E q \in g.captain : g.team[q] = t) /\ activeMembers(promoted, t) # {}
            => \E q \in promoted.captain : promoted.team[q] = t
  <2>1. CASE s \in g.captain
    <3>1. PICK t : t = g.team[s]
      OBVIOUS
    <3>2. t \in PlayTeams /\ \A q \in left.captain : left.team[q] # t
      BY <1>2, <1>8, <2>1, <3>1 DEF OfficesOK
    <3>3. promoted = promoteCaptain(left, t)
      BY <1>4, <2>1, <3>1
    <3>4. /\ promoted \in GameStates /\ OfficesOK(promoted) /\ SamePlay(promoted, left)
          /\ promoted.phase = left.phase /\ promoted.resumePhase = left.resumePhase
          /\ promoted.team = left.team /\ promoted.judge = left.judge
          /\ left.captain \subseteq promoted.captain
          /\ activeMembers(left, t) # {} => \E q \in promoted.captain : promoted.team[q] = t
      BY <1>8, <1>9, <3>2, <3>3, PromoteIs
    <3>5. \A u \in PlayTeams : activeMembers(promoted, u) = activeMembers(left, u)
      BY <3>4 DEF activeMembers, SamePlay
    <3>6. ASSUME NEW u \in PlayTeams, \E q \in g.captain : g.team[q] = u, activeMembers(promoted, u) # {}
          PROVE  \E q \in promoted.captain : promoted.team[q] = u
      <4>1. CASE u = t
        BY <4>1, <3>4, <3>5, <3>6
      <4>2. CASE u # t
        BY <4>2, <1>8, <3>1, <3>4, <3>6
      <4> QED
        BY <4>1, <4>2
    <3> QED
      BY <3>4, <3>6
  <2>2. CASE s \notin g.captain
    <3>1. promoted = left
      BY <1>4, <2>2
    <3>2. \A q \in g.captain : q \in promoted.captain /\ promoted.team[q] = g.team[q]
      BY <1>8, <2>2, <3>1
    <3>3. SamePlay(promoted, left)
      BY <3>1 DEF SamePlay, SameAccount, SameTable
    <3> QED
      BY <1>8, <1>9, <3>1, <3>2, <3>3
  <2> QED
    BY <2>1, <2>2
<1>11. /\ promoted.active = g.active \ {s} /\ promoted.judge = g.judge \ {s} /\ promoted.team = g.team
       /\ promoted.hostSeat = g.hostSeat
       /\ promoted.phase = g.phase /\ promoted.resumePhase = g.resumePhase
       /\ SameAccount(promoted, g) /\ SameTable(promoted, g)
  BY <1>8, <1>10 DEF SamePlay, SameAccount, SameTable
<1>12. s \in g.judge => g.phase # "JUDGE_VACANT" /\ g.judge \ {s} = {} /\ g.resumePhase = "NONE"
  BY <1>2 DEF ParkedOK, OfficesOK
<1>13. /\ parked \in GameStates /\ SamePeople(parked, promoted)
       /\ SameAccount(parked, promoted) /\ SameTable(parked, promoted)
       /\ parked.phase = (IF s \in g.judge THEN "JUDGE_VACANT" ELSE g.phase)
       /\ parked.resumePhase = (IF s \in g.judge THEN g.phase ELSE g.resumePhase)
  <2>1. CASE s \in g.judge
    <3>1. g.phase \in Phases \ {"JUDGE_VACANT", "FINISHED"}
      BY <1>2, <1>12, <2>1 DEF GameStates
    <3>2. parked = [promoted EXCEPT !.resumePhase = g.phase, !.phase = "JUDGE_VACANT"]
      BY <1>5, <2>1
    <3>3. "JUDGE_VACANT" \in Phases
      BY DEF Phases
    <3>4. parked \in GameStates
      BY <1>10, <3>1, <3>2, <3>3 DEF GameStates
    <3>5. /\ SamePeople(parked, promoted) /\ SameAccount(parked, promoted) /\ SameTable(parked, promoted)
          /\ parked.phase = "JUDGE_VACANT" /\ parked.resumePhase = g.phase
      BY <1>10, <3>2 DEF GameStates, SamePeople, SameAccount, SameTable
    <3> QED
      BY <2>1, <3>4, <3>5
  <2>2. CASE s \notin g.judge
    BY <1>5, <1>10, <1>11, <2>2 DEF SamePeople, SameAccount, SameTable
  <2> QED
    BY <2>1, <2>2
<1>14. /\ h \in GameStates /\ h.active = parked.active /\ h.captain = parked.captain
       /\ h.judge = parked.judge /\ h.team = parked.team
       /\ h.hostSeat = (IF s = g.hostSeat THEN Lowest(h.active) ELSE g.hostSeat)
       /\ h.phase = parked.phase /\ h.resumePhase = parked.resumePhase
       /\ SameAccount(h, parked) /\ SameTable(h, parked)
  <2>1. parked.hostSeat = g.hostSeat
    BY <1>11, <1>13 DEF SamePeople
  <2>2. CASE s = g.hostSeat
    <3>1. PICK low : low = Lowest(parked.active)
      OBVIOUS
    <3>2. low \in Seats \cup {0, nobody}
      BY <1>13, <3>1, LowestIs DEF GameStates
    <3>3. h = [parked EXCEPT !.hostSeat = low]
      BY <1>6, <2>1, <2>2, <3>1 DEF handOver
    <3>4. h \in GameStates
      BY <1>13, <3>2, <3>3 DEF GameStates
    <3>5. /\ h.active = parked.active /\ h.captain = parked.captain
          /\ h.judge = parked.judge /\ h.team = parked.team /\ h.hostSeat = low
          /\ h.phase = parked.phase /\ h.resumePhase = parked.resumePhase
          /\ SameAccount(h, parked) /\ SameTable(h, parked)
      BY <1>13, <3>3 DEF GameStates, SameAccount, SameTable
    <3> QED
      BY <2>2, <3>1, <3>4, <3>5
  <2>3. CASE s # g.hostSeat
    BY <1>6, <1>13, <2>1, <2>3 DEF handOver, SameAccount, SameTable
  <2> QED
    BY <2>2, <2>3
<1>15. /\ h.active = g.active \ {s} /\ h.captain = promoted.captain /\ h.judge = g.judge \ {s}
       /\ h.team = g.team /\ h.phase = parked.phase /\ h.resumePhase = parked.resumePhase
  BY <1>11, <1>13, <1>14 DEF SamePeople
<1>16. SameAccount(h, g) /\ SameTable(h, g)
  BY <1>11, <1>13, <1>14 DEF SameAccount, SameTable
<1>17. effectivePhase(h) = effectivePhase(g) /\ h.phase # "FINISHED"
  BY <1>2, <1>12, <1>13, <1>15 DEF effectivePhase
<1>18. OfficesOK(h)
  BY <1>10, <1>11, <1>15 DEF OfficesOK
<1>19. ASSUME ~terminalCondition(h) PROVE PeopleOK(h)
  <2>1. \A t \in PlayTeams : activeMembers(h, t) # {}
    BY <1>19 DEF terminalCondition
  <2>2. ParkedOK(h)
    <3>1. g.phase # "NONE"
      BY <1>2 DEF GameStates, Phases
    <3> QED
      BY <1>2, <1>12, <1>13, <1>15, <3>1 DEF ParkedOK
  <2>3. HostOK(h)
    <3>1. CASE s = g.hostSeat
      <4>1. h.active # {} /\ h.active \in SUBSET Seats
        BY <1>14, <2>1 DEF activeMembers, PlayTeams, GameStates
      <4> QED
        BY <3>1, <4>1, <1>14, LowestIs DEF HostOK
    <3>2. CASE s # g.hostSeat
      BY <3>2, <1>2, <1>14, <1>15, <1>17 DEF PeopleOK, HostOK
    <3> QED
      BY <3>1, <3>2
  <2>4. StaffedOK(h)
    <3>1. begun(h) <=> begun(g)
      BY <1>17 DEF begun
    <3>2. begun(g) => \A t \in PlayTeams : \E q \in g.captain : g.team[q] = t
      BY <1>2 DEF PeopleOK, StaffedOK
    <3>3. \A t \in PlayTeams : activeMembers(promoted, t) = activeMembers(h, t)
      BY <1>11, <1>15 DEF activeMembers
    <3>4. begun(h) => \A t \in PlayTeams : \E q \in h.captain : h.team[q] = t
      BY <1>10, <1>11, <1>15, <2>1, <3>1, <3>2, <3>3
    <3>5. begun(h) /\ h.phase # "JUDGE_VACANT" => h.judge # {}
      BY <1>2, <1>13, <1>15, <3>1 DEF PeopleOK, StaffedOK
    <3> QED
      BY <3>4, <3>5 DEF StaffedOK
  <2> QED
    BY <1>18, <2>2, <2>3, <2>4 DEF PeopleOK
<1> QED
  BY <1>1, <1>7, <1>14, <1>15, <1>16, <1>17, <1>18, <1>19, KeptOrEnded

\* Naming a team stores a sound state.
LEMMA SetTeamNameStores ==
  ASSUME StateOK(gs), NEW s \in Seats, SetTeamName(s)
  PROVE  Stores
<1>1. Store(gs) /\ gs.phase = "ROSTER"
  BY DEF SetTeamName, hostInRoster
<1>2. ~songInPlay(gs)
  BY <1>1 DEF songInPlay, effectivePhase
<1> QED
  BY <1>1, <1>2, OffRoundDeparts DEF Stores

-----------------------------------------------------------------------------
(***************************************************************************)
(* The invariant.                                                          *)
(***************************************************************************)
\* The answer is only ever shown to a judge, who is on no team; nobody comes
\* onto a team before the song is over.
LEMMA StoresInv ==
  ASSUME Inv, Stores
  PROVE  Inv'
<1>1. PICK f : Store(f) /\ StateOK(f) /\ Departs(f)
  BY DEF Stores
<1>2. gs' = f
  BY <1>1 DEF Store
<1>3. sawAnswer' = IF songInPlay(f)
                   THEN {s \in Seats : answerShownTo(f, s)} \cup
                        (IF f.song.id = gs.song.id THEN sawAnswer ELSE {})
                   ELSE {}
  BY <1>1 DEF Store
<1>4. sawAnswer \subseteq Seats
  BY DEF Inv, SecretOK
<1>5. CASE songInPlay(f)
  <2>1. sawAnswer' \subseteq Seats
    BY <1>3, <1>4
  <2>2. ASSUME NEW s \in sawAnswer' \cap f.active
        PROVE  f.team[s] = "NONE"
    <3>1. CASE answerShownTo(f, s)
      <4>1. s \in f.judge
        BY <1>5, <3>1 DEF answerShownTo, songInPlay
      <4> QED
        BY <4>1, <1>1, InOrder DEF OfficesOK
    <3>2. CASE ~answerShownTo(f, s)
      <4>1. s \in sawAnswer /\ s \in Seats
        BY <1>3, <1>4, <1>5, <2>2, <3>2
      <4>2. songInPlay(gs) /\ \A q \in sawAnswer \cap gs.active : gs.team[q] = "NONE"
        BY <4>1 DEF Inv, SecretOK
      <4>3. f.active \subseteq gs.active /\ f.team[s] \in {gs.team[s], "NONE"}
        BY <1>1, <1>5, <4>1 DEF Departs
      <4> QED
        BY <4>1, <4>2, <4>3, <2>2
    <3> QED
      BY <3>1, <3>2
  <2>3. SecretOK(f, sawAnswer')
    BY <1>5, <2>1, <2>2 DEF SecretOK
  <2> QED
    BY <1>1, <1>2, <2>3 DEF Inv
<1>6. CASE ~songInPlay(f)
  <2>1. SecretOK(f, sawAnswer')
    BY <1>3, <1>6 DEF SecretOK
  <2> QED
    BY <1>1, <1>2, <2>1 DEF Inv
<1> QED
  BY <1>5, <1>6

\* A game that is set up and not begun.
SetUp(g) ==
  /\ g \in GameStates /\ OfficesOK(g)
  /\ g.phase = "ROSTER" /\ g.resumePhase = "NONE" /\ g.hostSeat = 0
  /\ g.active = Seats /\ g.score = [t \in PlayTeams |-> 0]
  /\ g.unplayed = Songs /\ g.song = NoSong /\ g.pending = NoPending /\ g.history = <<>>

\* A game just set up is sound, with no song in play.
LEMMA SetUpIs ==
  ASSUME NEW g, SetUp(g)
  PROVE  StateOK(g) /\ ~songInPlay(g)
<1>1. effectivePhase(g) = "ROSTER" /\ ~songInPlay(g) /\ ~begun(g)
  BY DEF SetUp, effectivePhase, songInPlay, begun
<1>2. PeopleOK(g)
  BY <1>1 DEF SetUp, PeopleOK, ParkedOK, HostOK, StaffedOK
<1>3. TableOK(g)
  BY <1>1 DEF SetUp, TableOK, SongOK, PendingOK
<1>4. g.history = <<>> /\ Len(g.history) = 0 /\ DOMAIN g.history = {}
  BY DEF SetUp
<1>5. SongsOK(g)
  <2>1. Flying(g) = {} /\ Cardinality(Flying(g)) = 0
    BY <1>1, FS_EmptySet DEF Flying
  <2>2. playedSongs(g) = {}
    BY <1>4 DEF playedSongs
  <2>3. Cardinality(Songs) \in Nat
    BY SongFacts, FS_CardinalityType
  <2> QED
    BY <1>4, <2>1, <2>2, <2>3 DEF SongsOK, SetUp
<1>6. ScoreOK(g)
  BY <1>4, SumOfNone DEF ScoreOK, SetUp
<1>7. AlternateOK(g) /\ CountOK(g)
  BY <1>1, <1>4 DEF AlternateOK, CountOK
<1> QED
  BY <1>1, <1>2, <1>3, <1>5, <1>6, <1>7 DEF StateOK, HistoryOK, SetUp

\* The default teams, and the occupant of seat 0 as the judge.
LEMMA InitStateIs == SetUp(InitState) /\ (0 \notin Seats => InitState.judge = {})
<1> DEFINE C == {Lowest({s \in Seats : defaultTeam[s] = t}) : t \in PlayTeams} \cap Seats
<1>1. PICK b : b =
        [phase |-> "ROSTER", resumePhase |-> "NONE", hostSeat |-> 0, activeTeam |-> "A", roundNo |-> 0,
         team |-> defaultTeam, captain |-> C, judge |-> {}, active |-> Seats,
         score |-> [t \in PlayTeams |-> 0],
         unplayed |-> Songs, song |-> NoSong, pending |-> NoPending,
         history |-> <<>>, results |-> <<>>]
  OBVIOUS
<1>2. InitState = applyHostJudgeDefault(b)
  BY <1>1 DEF InitState
<1>3. defaultTeam \in [Seats -> Teams] /\ \A s \in Seats : defaultTeam[s] \in PlayTeams
  BY DEF defaultTeam, Teams, PlayTeams
<1>4. \A s, r \in C : defaultTeam[s] = defaultTeam[r] => s = r
  <2>1. ASSUME NEW s \in C
        PROVE  s = Lowest({r \in Seats : defaultTeam[r] = defaultTeam[s]})
    <3>1. PICK t \in PlayTeams : s = Lowest({r \in Seats : defaultTeam[r] = t})
      OBVIOUS
    <3>2. PICK T : T = {r \in Seats : defaultTeam[r] = t}
      OBVIOUS
    <3>3. T \in SUBSET Seats /\ s = Lowest(T) /\ s \in Seats
      BY <3>1, <3>2
    <3>4. s \in T
      BY <3>3, LowestIs, SongGuessAssumption DEF nobody
    <3> QED
      BY <3>1, <3>2, <3>4
  <2> QED
    BY <2>1
<1> HIDE DEF C
<1>5. C \in SUBSET Seats
  BY DEF C
<1>6. b \in GameStates
  <2>1. "ROSTER" \in Phases /\ "A" \in PlayTeams /\ <<>> \in Seq(Outcomes) /\ <<>> \in ResultStates
    BY DEF Phases, PlayTeams, ResultStates
  <2>2. [t \in PlayTeams |-> 0] \in [PlayTeams -> Nat]
    OBVIOUS
  <2> QED
    BY <1>1, <1>3, <1>5, <2>1, <2>2 DEF GameStates
<1>7. OfficesOK(b)
  BY <1>1, <1>3, <1>4, <1>5 DEF OfficesOK
<1>8. CASE 0 \notin Seats
  <2>1. InitState = b
    BY <1>1, <1>2, <1>8 DEF applyHostJudgeDefault
  <2> QED
    BY <2>1, <1>1, <1>6, <1>7 DEF SetUp
<1>9. CASE 0 \in Seats
  <2>1. PICK t : t = defaultTeam[0]
    OBVIOUS
  <2>2. t \in PlayTeams
    BY <1>3, <1>9, <2>1
  <2>3. PICK T : T = [defaultTeam EXCEPT ![0] = "NONE"]
    OBVIOUS
  <2>4. T \in [Seats -> Teams] /\ \A s \in Seats : T[s] = IF s = 0 THEN "NONE" ELSE defaultTeam[s]
    BY <1>3, <1>9, <2>3 DEF Teams
  <2>5. PICK h : h = [b EXCEPT !.judge = {0}, !.team = T, !.captain = C \ {0}]
    OBVIOUS
  <2>6. h = [b EXCEPT !.judge = {0}, !.team[0] = "NONE", !.captain = @ \ {0}]
    BY <1>1, <2>3, <2>5
  <2>7. /\ h \in GameStates /\ h.judge = {0} /\ h.team = T /\ h.captain = C \ {0}
        /\ h.phase = "ROSTER" /\ h.resumePhase = "NONE" /\ h.hostSeat = 0
        /\ h.active = Seats /\ h.score = [u \in PlayTeams |-> 0]
        /\ h.unplayed = Songs /\ h.song = NoSong /\ h.pending = NoPending /\ h.history = <<>>
    <3>1. h \in GameStates
      BY <1>5, <1>6, <1>9, <2>4, <2>5 DEF GameStates
    <3> QED
      BY <3>1, <1>1, <2>5
  <2>8. OfficesOK(h)
    BY <1>3, <1>4, <1>5, <1>9, <2>4, <2>7 DEF OfficesOK
  <2>9. InitState = IF captainOf(h, t) = nobody THEN promoteCaptain(h, t) ELSE h
    <3>1. b.hostSeat = 0 /\ b.team = defaultTeam
      BY <1>1
    <3> QED
      BY <3>1, <1>2, <1>9, <2>1, <2>6 DEF applyHostJudgeDefault
  <2>10. SetUp(h)
    BY <2>7, <2>8 DEF SetUp
  <2>11. CASE captainOf(h, t) = nobody
    <3>1. PICK f : f = promoteCaptain(h, t)
      OBVIOUS
    <3>2. \A s \in h.captain : h.team[s] # t
      BY <2>2, <2>7, <2>11, CaptainIs DEF Teams
    <3>3. /\ f \in GameStates /\ OfficesOK(f) /\ SamePlay(f, h)
          /\ f.phase = h.phase /\ f.resumePhase = h.resumePhase
      BY <2>2, <2>7, <2>8, <3>1, <3>2, PromoteIs
    <3>4. SetUp(f)
      BY <2>7, <3>3 DEF SetUp, SamePlay, SameAccount, SameTable
    <3> QED
      BY <1>9, <2>9, <2>11, <3>1, <3>4
  <2>12. CASE captainOf(h, t) # nobody
    BY <1>9, <2>9, <2>10, <2>12
  <2> QED
    BY <2>11, <2>12
<1> QED
  BY <1>8, <1>9

\* The first state satisfies the invariant.
LEMMA InitInv == Init => Inv
<1> SUFFICES ASSUME Init PROVE Inv
  OBVIOUS
<1>1. gs = InitState /\ sawAnswer = {}
  BY DEF Init
<1>2. StateOK(gs) /\ ~songInPlay(gs)
  BY <1>1, InitStateIs, SetUpIs
<1>3. SecretOK(gs, sawAnswer)
  BY <1>1, <1>2 DEF SecretOK
<1> QED
  BY <1>2, <1>3 DEF Inv

\* Every accepted action stores a sound state.
LEMMA NextStores ==
  ASSUME StateOK(gs), Next
  PROVE  Stores
<1>1. PICK s \in Seats :
        \/ \E target \in Seats, team \in Teams : AssignTeam(s, target, team)
        \/ \E target \in Seats : AssignCaptain(s, target) \/ AssignJudge(s, target)
        \/ SetTeamName(s)
        \/ \E team \in PlayTeams : BeginGame(s, team)
        \/ \E cell \in Cells : SelectCell(s, cell)
        \/ NextRound(s)
        \/ \E index \in Indices : OpenBlock(s, index)
        \/ Guess(s) \/ Steal(s) \/ Pass(s) \/ SkipSong(s)
        \/ \E correct \in BOOLEAN : JudgeResult(s, correct)
        \/ Void(s) \/ Resign(s)
  BY DEF Next
<1>2. ASSUME NEW target \in Seats, NEW team \in Teams, AssignTeam(s, target, team) PROVE Stores
  BY <1>2, AssignTeamStores
<1>3. ASSUME NEW target \in Seats, AssignCaptain(s, target) PROVE Stores
  BY <1>3, AssignCaptainStores
<1>4. ASSUME NEW target \in Seats, AssignJudge(s, target) PROVE Stores
  BY <1>4, AssignJudgeInRosterStores, AssignJudgeInVacantStores DEF AssignJudge
<1>5. ASSUME SetTeamName(s) PROVE Stores
  BY <1>5, SetTeamNameStores
<1>6. ASSUME NEW team \in PlayTeams, BeginGame(s, team) PROVE Stores
  BY <1>6, BeginGameStores
<1>7. ASSUME NEW cell \in Cells, SelectCell(s, cell) PROVE Stores
  BY <1>7, SelectCellStores
<1>8. ASSUME NextRound(s) PROVE Stores
  BY <1>8, NextRoundStores
<1>9. ASSUME NEW index \in Indices, OpenBlock(s, index) PROVE Stores
  BY <1>9, OpenBlockStores
<1>10. ASSUME Guess(s) \/ Steal(s) \/ Pass(s) PROVE Stores
  BY <1>10, GuessStores, StealStores, PassStores
<1>11. ASSUME SkipSong(s) PROVE Stores
  BY <1>11, SkipSongStores
<1>12. ASSUME NEW correct \in BOOLEAN, JudgeResult(s, correct) PROVE Stores
  BY <1>12, JudgeResultStores
<1>13. ASSUME Void(s) PROVE Stores
  BY <1>13, VoidStores
<1>14. ASSUME Resign(s) PROVE Stores
  BY <1>14, ResignStores
<1> QED
  BY <1>1, <1>2, <1>3, <1>4, <1>5, <1>6, <1>7, <1>8, <1>9, <1>10, <1>11, <1>12, <1>13, <1>14

\* Every step keeps the invariant.
LEMMA StepInv == Inv /\ [Next]_vars => Inv'
<1> SUFFICES ASSUME Inv, [Next]_vars PROVE Inv'
  OBVIOUS
<1>1. CASE Next
  <2>1. Stores
    BY <1>1, NextStores DEF Inv
  <2> QED
    BY <2>1, StoresInv
<1>2. CASE UNCHANGED vars
  BY <1>2 DEF vars, Inv
<1> QED
  BY <1>1, <1>2

\* The stored game is in order after every action, for any seats and any pack:
\* its offices, the song in play and the claim on it, and its account.
THEOREM InvHolds == Spec => []Inv
BY InitInv, StepInv, PTL DEF Spec

-----------------------------------------------------------------------------
(***************************************************************************)
(* What the invariant says of the game.                                    *)
(***************************************************************************)
LEMMA InvType == Inv => TypeOK
<1> SUFFICES ASSUME Inv PROVE TypeOK
  OBVIOUS
<1>1. gs \in GameStates /\ sawAnswer \subseteq Seats
  BY DEF Inv, StateOK, SecretOK
<1> QED
  BY <1>1 DEF GameStates, TypeOK

\* The invariant implies that the roster is playable, ...
LEMMA InvRoster == Inv => RosterIsPlayable
<1> SUFFICES ASSUME Inv, begun(gs)
             PROVE  /\ gs.hostSeat \in gs.active
                    /\ \A t \in PlayTeams :
                         /\ Cardinality({s \in gs.captain : gs.team[s] = t}) = 1
                         /\ captainOf(gs, t) \in gs.active
                    /\ Cardinality(gs.judge) = (IF gs.phase = "JUDGE_VACANT" THEN 0 ELSE 1)
                    /\ \A s \in gs.judge : s \in gs.active /\ gs.team[s] = "NONE"
  BY DEF RosterIsPlayable
<1>1. gs \in GameStates /\ PeopleOK(gs) /\ OfficesOK(gs) /\ ParkedOK(gs) /\ StaffedOK(gs)
  BY DEF Inv, StateOK, PeopleOK
<1>2. gs.hostSeat \in gs.active
  <2>1. gs.phase # "FINISHED" /\ effectivePhase(gs) # "ROSTER"
    BY DEF begun, effectivePhase
  <2> QED
    BY <1>1, <2>1 DEF PeopleOK, HostOK
<1>3. ASSUME NEW t \in PlayTeams
      PROVE  /\ Cardinality({s \in gs.captain : gs.team[s] = t}) = 1
             /\ captainOf(gs, t) \in gs.active
  <2>1. PICK c \in gs.captain : gs.team[c] = t
    BY <1>1 DEF StaffedOK
  <2>2. {s \in gs.captain : gs.team[s] = t} = {c}
    BY <1>1, <2>1 DEF OfficesOK
  <2>3. Cardinality({c}) = 1
    BY FS_Singleton
  <2>4. captainOf(gs, t) \in gs.captain
    BY <1>1, <2>1, CaptainIs DEF Teams
  <2> QED
    BY <1>1, <2>2, <2>3, <2>4 DEF OfficesOK
<1>4. Cardinality(gs.judge) = (IF gs.phase = "JUDGE_VACANT" THEN 0 ELSE 1)
  <2>1. CASE gs.phase = "JUDGE_VACANT"
    BY <1>1, <2>1, FS_EmptySet DEF ParkedOK
  <2>2. CASE gs.phase # "JUDGE_VACANT"
    <3>1. PICK j : j \in gs.judge
      BY <1>1, <2>2 DEF StaffedOK
    <3>2. gs.judge = {j}
      BY <1>1, <3>1 DEF OfficesOK
    <3> QED
      BY <2>2, <3>2, FS_Singleton
  <2> QED
    BY <2>1, <2>2
<1> QED
  BY <1>1, <1>2, <1>3, <1>4 DEF OfficesOK

\* ... what is pending fits the song ...
LEMMA InvPending == Inv => PendingFitsSong
<1> SUFFICES ASSUME Inv PROVE PendingFitsSong
  OBVIOUS
<1>1. PendingOK(gs)
  BY DEF Inv, StateOK, TableOK
<1>2. songInPlay(gs) => potentialOf(gs.song) > 0
  <2>1. songInPlay(gs) => Drawn(gs) /\ closedBlocks(gs.song) # {}
    BY InOrder DEF Inv
  <2> QED
    BY <2>1, PotentialIs DEF Drawn
<1> QED
  BY <1>1, <1>2 DEF PendingOK, PendingFitsSong

\* The stored state is well formed: whoever leaves, the game has a host, two
\* captains and a judge who are still there, and a claim that fits the song.
THEOREM AlwaysWellFormed == Spec => []WellFormed
<1>1. Inv => WellFormed
  BY InvType, InvRoster, InvPending DEF WellFormed
<1> QED
  BY <1>1, InvHolds, PTL

\* What the history awards, as the sum of a function.
LEMMA AwardsSum ==
  ASSUME NEW h, NEW t
  PROVE  MapThenSumSet(LAMBDA i : IF h[i].awarded = t THEN h[i].points ELSE 0, DOMAIN h)
         = Sum(Awards(h, t), DOMAIN h)
<1> DEFINE D == DOMAIN h
           a == Awards(h, t)
           P(it) == it = [T \in SUBSET D |->
                            IF T = {} THEN 0
                            ELSE (IF h[Pick(T)].awarded = t THEN h[Pick(T)].points ELSE 0)
                                 + it[T \ {Pick(T)}]]
<1>1. MapThenSumSet(LAMBDA i : IF h[i].awarded = t THEN h[i].points ELSE 0, D) = (CHOOSE it : P(it))[D]
  BY DEF MapThenSumSet, MapThenFoldSet, Pick
<1>2. ASSUME NEW it PROVE P(it) <=> Iterates(a, D, it)
  <2>1. \A T \in SUBSET D : T # {} =>
          a[Pick(T)] = IF h[Pick(T)].awarded = t THEN h[Pick(T)].points ELSE 0
    BY DEF Pick, Awards
  <2> QED
    BY <2>1 DEF Iterates
<1>3. (CHOOSE it : P(it)) = (CHOOSE it : Iterates(a, D, it))
  BY <1>2
<1> QED
  BY <1>1, <1>3, SumIterates

\* ... and the history is exact.
LEMMA InvHistory == Inv => HistoryIsExact
<1> SUFFICES ASSUME Inv PROVE HistoryIsExact
  OBVIOUS
<1>1. gs \in GameStates /\ SongsOK(gs) /\ ScoreOK(gs) /\ AlternateOK(gs) /\ CountOK(gs)
  BY DEF Inv, StateOK, HistoryOK
<1>2. SongsConserved
  BY <1>1 DEF SongsOK, SongsConserved, Flying
<1>3. ASSUME NEW t \in PlayTeams
      PROVE  gs.score[t] = MapThenSumSet(LAMBDA i : IF gs.history[i].awarded = t THEN gs.history[i].points ELSE 0,
                                         DOMAIN gs.history)
  <2>1. gs.score[t] = Sum(Awards(gs.history, t), DOMAIN gs.history)
    BY <1>1 DEF ScoreOK
  <2> QED
    BY <2>1, AwardsSum
<1>4. ASSUME gs.phase = "FINISHED", NEW s \in Seats, NEW r \in Seats, gs.team[s] = "A", gs.team[r] = "B"
      PROVE  gs.results[s].rank <= gs.results[r].rank <=> gs.score["A"] >= gs.score["B"]
  <2>1. gs.results = buildResults(gs)
    BY <1>1, <1>4 DEF ScoreOK
  <2>2. gs.results[s].rank = rankOf(gs, "A") /\ gs.results[r].rank = rankOf(gs, "B")
    BY <1>4, <2>1 DEF buildResults, PlayTeams
  <2>3. gs.score["A"] \in Nat /\ gs.score["B"] \in Nat
    BY <1>1 DEF GameStates, PlayTeams
  <2> QED
    BY <2>2, <2>3 DEF rankOf, opponentOf
<1>5. ScoreIsHistory
  BY <1>1, <1>3, <1>4 DEF ScoreOK, ScoreIsHistory
<1>6. RoundsAlternate
  BY <1>1 DEF AlternateOK, CountOK, RoundsAlternate
<1> QED
  BY <1>2, <1>5, <1>6 DEF HistoryIsExact

\* No song is lost or played twice, no point is given without a song, and the
\* teams take turns, however songs are skipped, voided or broken off.
THEOREM HistoryIsAlwaysExact == Spec => []HistoryIsExact
BY InvHolds, InvHistory, PTL

\* Nobody on a team has been shown the answer of the song in play.
THEOREM AnswerIsSecret == Spec => []AnswerStaysSecret
<1>1. Inv => AnswerStaysSecret
  BY DEF Inv, SecretOK, AnswerStaysSecret
<1> QED
  BY <1>1, InvHolds, PTL

-----------------------------------------------------------------------------
(***************************************************************************)
(* The offered actions and the accepted ones.                              *)
(***************************************************************************)
\* Both come to this: x is open to seat s.
Open(x, s) ==
  \/ x \in {"assign_team", "set_team_name"} /\ isHost(s) /\ gs.phase = "ROSTER"
  \/ x = "assign_judge" /\ isHost(s) /\ gs.phase \in {"ROSTER", "JUDGE_VACANT"}
  \/ x = "select_cell" /\ gs.phase = "ROUND_SELECT" /\ isActiveCaptain(s)
  \/ x = "next_round" /\ gs.phase = "SONG_RESULT" /\ (isOpponentCaptain(s) \/ isHost(s))
  \/ x \in {"open_block", "guess"} /\ decides(s, "ACTIVE")
  \/ x \in {"steal", "pass"} /\ decides(s, "STEAL")
  \/ x \in {"guess", "pass"} /\ decides(s, "LAST_CHANCE")
  \/ x = "skip_song" /\ isHost(s) /\ gs.phase \in {"SONG_PLAY", "PENDING_JUDGEMENT"}
  \/ x \in {"judge_result", "void"} /\ gs.phase = "PENDING_JUDGEMENT" /\ s \in gs.judge
  \/ x = "resign" /\ gs.phase # "FINISHED" /\ s \in gs.active

\* Whoever has something to decide is still there.
LEMMA DecidersAreThere ==
  ASSUME Inv, NEW s \in Seats
  PROVE  /\ isActiveCaptain(s) => s \in gs.active
         /\ isOpponentCaptain(s) => s \in gs.active
         /\ isHost(s) /\ gs.phase # "FINISHED" => s \in gs.active
         /\ s \in gs.judge => s \in gs.active
<1>1. gs \in GameStates /\ OfficesOK(gs) /\ HostOK(gs)
  BY DEF Inv, StateOK, PeopleOK
<1>2. gs.activeTeam \in Teams /\ opponentOf(gs.activeTeam) \in Teams
  BY <1>1 DEF GameStates, PlayTeams, Teams, opponentOf
<1>3. s # nobody
  BY SongGuessAssumption DEF nobody
<1>4. \A t \in Teams : captainOf(gs, t) = s => s \in gs.active
  BY <1>1, <1>3, CaptainIs DEF OfficesOK
<1> QED
  BY <1>1, <1>2, <1>4 DEF isActiveCaptain, isOpponentCaptain, isHost, HostOK, OfficesOK

\* An action is accepted of a seat exactly when it is open to it.
LEMMA AcceptedIs ==
  ASSUME Inv, NEW s \in Seats, NEW x
  PROVE  x \in accepted(s) <=> Open(x, s)
<1>1. gs \in GameStates /\ gs.active \subseteq Seats
  BY DEF Inv, StateOK, GameStates
<1>2. (\E target \in Seats, team \in Teams : mayAssignTeam(s, target, team))
        <=> isHost(s) /\ gs.phase = "ROSTER"
  <2>1. isHost(s) /\ gs.phase = "ROSTER" => mayAssignTeam(s, s, "NONE")
    BY DecidersAreThere DEF mayAssignTeam, hostInRoster
  <2> QED
    BY <2>1 DEF mayAssignTeam, hostInRoster, Teams
<1>3. (\E target \in Seats, phase \in {"ROSTER", "JUDGE_VACANT"} : mayAssignJudge(s, target, phase))
        <=> isHost(s) /\ gs.phase \in {"ROSTER", "JUDGE_VACANT"}
  <2>1. isHost(s) /\ gs.phase \in {"ROSTER", "JUDGE_VACANT"} => mayAssignJudge(s, s, gs.phase)
    BY DecidersAreThere DEF mayAssignJudge
  <2> QED
    BY <2>1 DEF mayAssignJudge
<1>4. (\E cell \in Cells : maySelectCell(s, cell)) <=> gs.phase = "ROUND_SELECT" /\ isActiveCaptain(s)
  <2>1. ASSUME gs.phase = "ROUND_SELECT", isActiveCaptain(s)
        PROVE  \E cell \in Cells : maySelectCell(s, cell)
    <3>1. gs.unplayed # {} /\ gs.unplayed \subseteq Songs
      BY <2>1, <1>1, InOrder DEF Inv, StateOK, TableOK, effectivePhase, GameStates
    <3>2. PICK i \in Songs : i \in gs.unplayed
      BY <3>1
    <3>3. CellOf(i) \in Cells /\ i \in unplayedIn(CellOf(i))
      BY <3>2 DEF Cells, CellOf, unplayedIn
    <3> QED
      BY <2>1, <3>3 DEF maySelectCell
  <2> QED
    BY <2>1 DEF maySelectCell
<1>5. decides(s, "ACTIVE") => closedBlocks(gs.song) # {}
  BY InOrder DEF Inv, decides, playing
<1>6. decides(s, "STEAL") => gs.song.stealAllowed
  <2>1. decides(s, "STEAL") => songInPlay(gs) /\ gs.song.awaiting = "STEAL"
    BY InOrder DEF Inv, decides, playing
  <2> QED
    BY <2>1 DEF Inv, StateOK, TableOK, SongOK
<1>7. x \in accepted(s) <=>
        \/ x = "assign_team" /\ isHost(s) /\ gs.phase = "ROSTER"
        \/ x = "assign_judge" /\ isHost(s) /\ gs.phase \in {"ROSTER", "JUDGE_VACANT"}
        \/ x = "set_team_name" /\ hostInRoster(s)
        \/ x = "select_cell" /\ gs.phase = "ROUND_SELECT" /\ isActiveCaptain(s)
        \/ x = "next_round" /\ mayCallNextRound(s)
        \/ x = "open_block" /\ decides(s, "ACTIVE")
        \/ x = "guess" /\ (decides(s, "ACTIVE") \/ decides(s, "LAST_CHANCE"))
        \/ x = "steal" /\ decides(s, "STEAL")
        \/ x = "pass" /\ (decides(s, "STEAL") \/ decides(s, "LAST_CHANCE"))
        \/ x = "skip_song" /\ maySkip(s)
        \/ x \in {"judge_result", "void"} /\ mayJudge(s)
        \/ x = "resign" /\ mayResign(s)
  BY <1>2, <1>3, <1>4, <1>5, <1>6 DEF accepted, only
<1> QED
  BY <1>7 DEF Open, hostInRoster, mayCallNextRound, maySkip, mayJudge, mayResign

\* So is it offered, but for the two actions treated apart.
LEMMA OfferedIs ==
  ASSUME Inv, NEW s \in Seats, NEW x, x \notin {"begin_game", "assign_captain"}
  PROVE  x \in legalActions(gs, s) <=> Open(x, s)
<1>1. gs \in GameStates /\ gs.phase \in Phases
  BY DEF Inv, StateOK, GameStates
<1>2. CASE s \notin gs.active
  <2>1. legalActions(gs, s) = {}
    BY <1>2 DEF legalActions, only
  <2>2. ~Open(x, s)
    BY <1>2, DecidersAreThere DEF Open, decides, playing
  <2> QED
    BY <2>1, <2>2
<1>3. CASE s \in gs.active
  <2>1. x \in legalActions(gs, s)
          <=> (x \in phaseActions(gs, s) \/ (x = "resign" /\ gs.phase # "FINISHED"))
    BY <1>3 DEF legalActions, only
  <2>2. CASE gs.phase = "ROSTER"
    BY <1>3, <2>1, <2>2 DEF phaseActions, only, rosterActions, Open, isHost, decides, playing
  <2>3. CASE gs.phase = "ROUND_SELECT"
    BY <1>3, <2>1, <2>3 DEF phaseActions, only, Open, isActiveCaptain, decides, playing
  <2>4. CASE gs.phase = "SONG_PLAY"
    <3>1. gs.song \in SongStates /\ gs.song.awaiting \in Waits /\ closedBlocks(gs.song) # {}
      BY <2>4, InOrder DEF Inv, Drawn, SongStates
    <3>2. x \in phaseActions(gs, s)
            <=> (x \in songPlayActions(gs, s) \/ (x = "skip_song" /\ isHost(s)))
      BY <2>4 DEF phaseActions, only, isHost
    <3>3. x \in songPlayActions(gs, s) <=>
            \/ x \in {"open_block", "guess"} /\ decides(s, "ACTIVE")
            \/ x \in {"steal", "pass"} /\ decides(s, "STEAL")
            \/ x \in {"guess", "pass"} /\ decides(s, "LAST_CHANCE")
      <4>1. CASE gs.song.awaiting = "ACTIVE"
        BY <4>1, <3>1, <2>4 DEF songPlayActions, only, decides, playing, isActiveCaptain
      <4>2. CASE gs.song.awaiting = "STEAL"
        BY <4>2, <2>4 DEF songPlayActions, only, decides, playing, isOpponentCaptain
      <4>3. CASE gs.song.awaiting = "LAST_CHANCE"
        BY <4>3, <2>4 DEF songPlayActions, only, decides, playing, isOpponentCaptain
      <4> QED
        BY <3>1, <4>1, <4>2, <4>3 DEF Waits
    <3> QED
      BY <1>3, <2>1, <2>4, <3>2, <3>3 DEF Open
  <2>5. CASE gs.phase = "PENDING_JUDGEMENT"
    BY <1>3, <2>1, <2>5 DEF phaseActions, only, Open, isHost, decides, playing
  <2>6. CASE gs.phase = "SONG_RESULT"
    BY <1>3, <2>1, <2>6 DEF phaseActions, only, Open, isHost, isOpponentCaptain, decides, playing
  <2>7. CASE gs.phase = "JUDGE_VACANT"
    BY <1>3, <2>1, <2>7 DEF phaseActions, only, Open, isHost, decides, playing
  <2>8. CASE gs.phase = "FINISHED"
    BY <1>3, <2>1, <2>8 DEF phaseActions, Open, decides, playing
  <2> QED
    BY <1>1, <2>2, <2>3, <2>4, <2>5, <2>6, <2>7, <2>8 DEF Phases
<1> QED
  BY <1>2, <1>3

\* A viewer is offered what Engine.Apply accepts from that seat, and no more:
\* nothing is offered to somebody who left, or kept from somebody who decides.
THEOREM OffersAreAccepted == Spec => []LegalAgreesWithApply
<1>1. ASSUME Inv, NEW s \in Seats
      PROVE  legalActions(gs, s) \ {"begin_game", "assign_captain"} = accepted(s)
  <2>1. ASSUME NEW x
        PROVE  x \in legalActions(gs, s) \ {"begin_game", "assign_captain"} <=> x \in accepted(s)
    <3>1. CASE x \in {"begin_game", "assign_captain"}
      <4>1. ~Open(x, s)
        BY <3>1 DEF Open
      <4> QED
        BY <3>1, <4>1, <1>1, AcceptedIs
    <3>2. CASE x \notin {"begin_game", "assign_captain"}
      BY <3>2, <1>1, AcceptedIs, OfferedIs
    <3> QED
      BY <3>1, <3>2
  <2> QED
    BY <2>1
<1>2. Inv => LegalAgreesWithApply
  BY <1>1 DEF LegalAgreesWithApply
<1> QED
  BY <1>2, InvHolds, PTL

\* With a first seat, the host or the choosing captain can always move the game
\* on.  (InitState makes seat 0 the host; see HostlessGame for the others.)
THEOREM AlwaysAWayOut ==
  ASSUME 0 \in Seats
  PROVE  Spec => []WayOut
<1>1. ASSUME Inv, gs.phase # "FINISHED"
      PROVE  \E s \in gs.active :
               legalActions(gs, s) \cap {"skip_song", "next_round", "assign_judge", "select_cell"} # {}
  <2>1. gs \in GameStates /\ gs.phase \in Phases /\ gs.active \subseteq Seats
        /\ HostOK(gs) /\ ParkedOK(gs) /\ StaffedOK(gs) /\ OfficesOK(gs)
    BY <1>1 DEF Inv, StateOK, PeopleOK, GameStates
  <2>2. gs.hostSeat \in gs.active /\ gs.hostSeat \in Seats
    BY <1>1, <2>1 DEF HostOK
  <2>3. CASE gs.phase \in {"ROSTER", "JUDGE_VACANT"}
    <3>1. Open("assign_judge", gs.hostSeat)
      BY <2>3 DEF Open, isHost
    <3>2. "assign_judge" \in legalActions(gs, gs.hostSeat)
      BY <1>1, <2>2, <3>1, OfferedIs
    <3> QED
      BY <2>2, <3>2
  <2>4. CASE gs.phase \in {"SONG_PLAY", "PENDING_JUDGEMENT"}
    <3>1. Open("skip_song", gs.hostSeat)
      BY <2>4 DEF Open, isHost
    <3>2. "skip_song" \in legalActions(gs, gs.hostSeat)
      BY <1>1, <2>2, <3>1, OfferedIs
    <3> QED
      BY <2>2, <3>2
  <2>5. CASE gs.phase = "SONG_RESULT"
    <3>1. Open("next_round", gs.hostSeat)
      BY <2>5 DEF Open, isHost
    <3>2. "next_round" \in legalActions(gs, gs.hostSeat)
      BY <1>1, <2>2, <3>1, OfferedIs
    <3> QED
      BY <2>2, <3>2
  <2>6. CASE gs.phase = "ROUND_SELECT"
    <3>1. PICK c : c = captainOf(gs, gs.activeTeam)
      OBVIOUS
    <3>2. begun(gs) /\ gs.activeTeam \in PlayTeams
      BY <2>1, <2>6 DEF begun, effectivePhase, GameStates
    <3>3. \E q \in gs.captain : gs.team[q] = gs.activeTeam
      BY <2>1, <3>2 DEF StaffedOK
    <3>4. c \in gs.captain
      BY <2>1, <3>1, <3>2, <3>3, CaptainIs DEF Teams
    <3>5. c \in gs.active /\ c \in Seats
      BY <2>1, <3>4 DEF OfficesOK
    <3>6. Open("select_cell", c)
      BY <2>6, <3>1 DEF Open, isActiveCaptain
    <3>7. "select_cell" \in legalActions(gs, c)
      BY <1>1, <3>5, <3>6, OfferedIs
    <3> QED
      BY <3>5, <3>7
  <2> QED
    BY <1>1, <2>1, <2>3, <2>4, <2>5, <2>6 DEF Phases
<1>2. Inv => WayOut
  BY <1>1 DEF WayOut
<1> QED
  BY <1>2, InvHolds, PTL

-----------------------------------------------------------------------------
(***************************************************************************)
(* A game without a first seat.  InitState makes seat 0 the host, whether  *)
(* it is taken or not.                                                     *)
(***************************************************************************)
Hostless == gs.hostSeat = 0 /\ gs.judge = {} /\ gs.phase \in {"ROSTER", "FINISHED"}

\* Without a host nothing is left but to resign, and nobody inherits the host's seat.
LEMMA OnlyResignations ==
  ASSUME 0 \notin Seats, Inv, Hostless, Next
  PROVE  \E s \in Seats : Resign(s)
<1>1. \A s \in Seats : ~isHost(s)
  BY DEF Hostless, isHost
<1>2. gs.phase \in {"ROSTER", "FINISHED"}
  BY DEF Hostless
<1>3. PICK s \in Seats :
        \/ \E target \in Seats, team \in Teams : AssignTeam(s, target, team)
        \/ \E target \in Seats : AssignCaptain(s, target) \/ AssignJudge(s, target)
        \/ SetTeamName(s)
        \/ \E team \in PlayTeams : BeginGame(s, team)
        \/ \E cell \in Cells : SelectCell(s, cell)
        \/ NextRound(s)
        \/ \E index \in Indices : OpenBlock(s, index)
        \/ Guess(s) \/ Steal(s) \/ Pass(s) \/ SkipSong(s)
        \/ \E correct \in BOOLEAN : JudgeResult(s, correct)
        \/ Void(s) \/ Resign(s)
  BY DEF Next
<1>4. /\ \A target \in Seats, team \in Teams : ~AssignTeam(s, target, team)
      /\ \A target \in Seats : ~AssignCaptain(s, target)
      /\ ~SetTeamName(s)
      /\ \A team \in PlayTeams : ~BeginGame(s, team)
  BY <1>1 DEF AssignTeam, mayAssignTeam, AssignCaptain, SetTeamName, BeginGame, hostInRoster
<1>5. \A target \in Seats : ~AssignJudge(s, target)
  BY <1>1 DEF AssignJudge, AssignJudgeInRoster, AssignJudgeInVacant, mayAssignJudge
<1>6. /\ \A cell \in Cells : ~SelectCell(s, cell)
      /\ ~NextRound(s)
      /\ \A index \in Indices : ~OpenBlock(s, index)
  BY <1>2 DEF SelectCell, maySelectCell, NextRound, mayCallNextRound, OpenBlock, decides, playing
<1>7. ~Guess(s) /\ ~Steal(s) /\ ~Pass(s) /\ ~SkipSong(s)
  BY <1>1, <1>2 DEF Guess, GuessFromActive, GuessFromLastChance, Steal, Pass, PassFromSteal,
                    PassFromLastChance, SkipSong, maySkip, decides, playing
<1>8. (\A correct \in BOOLEAN : ~JudgeResult(s, correct)) /\ ~Void(s)
  BY <1>2 DEF JudgeResult, Void, mayJudge
<1> QED
  BY <1>3, <1>4, <1>5, <1>6, <1>7, <1>8

\* A resignation gives a hostless game no host.
LEMMA ResignHostless ==
  ASSUME 0 \notin Seats, Inv, Hostless, NEW s \in Seats, Resign(s)
  PROVE  Hostless'
<1>1. PICK g : g = gs
  OBVIOUS
<1>2. g \in GameStates /\ OfficesOK(g) /\ s # g.hostSeat /\ s \notin g.judge
  BY <1>1 DEF Inv, StateOK, PeopleOK, Hostless
<1>3. PICK left : left = [g EXCEPT !.active = @ \ {s}, !.captain = @ \ {s}, !.judge = @ \ {s}]
  OBVIOUS
<1>4. PICK h : h = IF s \in g.captain THEN promoteCaptain(left, g.team[s]) ELSE left
  OBVIOUS
<1>5. /\ left \in GameStates /\ left.active = g.active \ {s} /\ left.captain = g.captain \ {s}
      /\ left.judge = g.judge \ {s} /\ left.team = g.team /\ left.hostSeat = g.hostSeat
      /\ left.phase = g.phase
  BY <1>2, <1>3 DEF GameStates
<1>6. OfficesOK(left)
  BY <1>2, <1>5 DEF OfficesOK
<1>7. h \in GameStates /\ h.hostSeat = g.hostSeat /\ h.judge = {} /\ h.phase = g.phase
  <2>1. left.judge = {}
    BY <1>1, <1>5 DEF Hostless
  <2>2. CASE s \in g.captain
    <3>1. g.team[s] \in PlayTeams /\ \A q \in left.captain : left.team[q] # g.team[s]
      BY <1>2, <1>5, <2>2 DEF OfficesOK
    <3>2. h = promoteCaptain(left, g.team[s])
      BY <1>4, <2>2
    <3>3. h \in GameStates /\ SamePlay(h, left) /\ h.phase = left.phase /\ h.judge = left.judge
      BY <1>5, <1>6, <3>1, <3>2, PromoteIs
    <3> QED
      BY <1>5, <2>1, <3>3 DEF SamePlay
  <2>3. CASE s \notin g.captain
    BY <1>4, <1>5, <2>1, <2>3
  <2> QED
    BY <2>2, <2>3
<1>8. gs' = finalizeIfTerminal(h)
  <2>1. Store(finalizeIfTerminal(handOver(h, s)))
    BY <1>1, <1>2, <1>3, <1>4 DEF Resign
  <2>2. handOver(h, s) = h
    BY <1>2, <1>7 DEF handOver
  <2> QED
    BY <2>1, <2>2 DEF Store
<1>9. g.phase = "ROSTER" /\ g.hostSeat = 0
  BY <1>1 DEF Hostless, Resign, mayResign
<1>10. CASE terminalCondition(h)
  <2>1. effectivePhase(h) = "ROSTER"
    BY <1>7, <1>9 DEF effectivePhase
  <2>2. gs' = [h EXCEPT !.phase = "FINISHED", !.resumePhase = "NONE", !.results = buildResults(h)]
    BY <1>8, <1>10, <2>1 DEF finalizeIfTerminal, finalize
  <2>3. gs'.hostSeat = h.hostSeat /\ gs'.judge = h.judge /\ gs'.phase = "FINISHED"
    BY <1>7, <2>2 DEF GameStates
  <2> QED
    BY <1>7, <1>9, <2>3 DEF Hostless
<1>11. CASE ~terminalCondition(h)
  <2>1. gs' = h
    BY <1>8, <1>11 DEF finalizeIfTerminal
  <2> QED
    BY <1>7, <1>9, <2>1 DEF Hostless
<1> QED
  BY <1>10, <1>11

\* A game started with seat 0 empty (its creator left the lobby before) has no
\* host, so that nobody can appoint a judge or begin it: all it can do is end.
THEOREM HostlessGame ==
  ASSUME 0 \notin Seats
  PROVE  Spec => []Hostless
<1>1. Init => Hostless
  <2> SUFFICES ASSUME Init PROVE Hostless
    OBVIOUS
  <2>1. gs = InitState
    BY DEF Init
  <2>2. SetUp(InitState) /\ InitState.judge = {}
    BY InitStateIs
  <2> QED
    BY <2>1, <2>2 DEF SetUp, Hostless
<1>2. Inv /\ Hostless /\ [Next]_vars => Hostless'
  <2> SUFFICES ASSUME Inv, Hostless, [Next]_vars PROVE Hostless'
    OBVIOUS
  <2>1. CASE Next
    BY <2>1, OnlyResignations, ResignHostless
  <2>2. CASE UNCHANGED vars
    BY <2>2 DEF vars, Hostless
  <2> QED
    BY <2>1, <2>2
<1> QED
  BY <1>1, <1>2, InvHolds, PTL DEF Spec

=============================================================================
