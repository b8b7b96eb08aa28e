# Verification of bgex-backend

TLA+ models, TLC runs and TLAPS proofs for the board-game server. Every module
is translated from the Go source (and the SQL migrations); `PROJECT.json` maps
each definition to its lines, and lists the hazards the properties are about.

## 1. The system

| Component | State it keeps | Operations | Hard part |
|---|---|---|---|
| lobby (`internal/games/lobby`) | `game_lobbies`, `game_seats`, the game's state row | create, join, leave, start, finish | each request is several statements without a common transaction; decisions use snapshots |
| poker engine (`internal/games/poker`) | one serialized `TableState` | InitState, Apply (fold, check, call, bet, raise), NextHand, View | turn order, reopening, all-ins, side pots |
| poker session | `poker.game_states`, `hand_history` | Apply and NextHand in row-locking transactions | the hand number is stored twice, the archive has no key |
| realtime gateway (`internal/games/realtime`) | rooms, client buffers, next-hand timers, all in memory | websocket messages, broadcasts, scheduleNextHand, finishGame | unserialised broadcasts, bounded buffers, timers outside any lock and lost at a crash |
| Ticket to Ride (`internal/games/ttr`) | one serialized `GameState`, map versions, map cache | setup, draw, claim, tunnel, station, tickets, resign, scoring | interrupted decisions, cards running dry, final round, resignation, scoring |
| Song Guess (`internal/games/song_guess`) | one serialized `GameState` | roster, rounds, guesses, judgements, steals, resign | judge and host vacancies in every phase, what a view may show |
| Song Guess packs | `packs`, `pack_versions`, an LRU cache, the connection pool | create, save, fork, publish, delete, load | validation and publication are two steps; a cache miss inside a transaction |
| auth, users (`internal/domain`) | users, OAuth identities, refresh tokens (Redis) | register, login, Google callback, refresh, logout | check-then-insert; consume-then-store; lost answers |
| friends (`internal/domain/friends`) | `friend_requests` | send, respond, cancel, unfriend, lists | check-then-act over separate statements |
| server process (`cmd`, `pkg`) | none that outlives it | start, wait for services, shut down, health | I/O |

The lobby starts a game: it asks the game's engine for an initial state and
stores it in the transaction that moves the lobby to `in_progress`. Players then
act through a websocket; `onMessage` calls the game session's `Apply`, which
loads the row `FOR UPDATE`, runs the pure engine and stores the result, and the
handler broadcasts events, lobby and per-player views to the room. When an
action ends a poker hand the handler arms a timer that calls `NextHand`; when a
game ends it calls `lobby.Finish`. A leave of a running game first calls the
game's `ResignHandler`. Ticket to Ride and Song Guess register one; poker does
not, so a poker player who leaves stays in the hand. The end of a game frees no
seat: players leave by themselves.

What makes each part correct:

* lobby: one seat per user; the lobby row and the game's state row agree; a game
  starts once; empty lobbies finish; a waiting lobby has a seated host; the game
  plays with the people at the table; a leave frees the seat.
* poker: the turn is on a seat that must act; chips are conserved; streets close
  when everyone has answered; side pots pay what they should; hands end.
* poker session: every hand is archived once, when over; at most one trigger
  leads from a hand to the next, and a played hand is followed.
* Ticket to Ride: the turn is on a player who is still there; interrupting
  decisions are resolved or withdrawn; everyone gets one more turn in the final
  round; cards and tickets are conserved; the two records of the board agree;
  what is offered is accepted; scores are what the rules say.
* Song Guess: a judge who is on no team, captains who are active members of
  their team; an interrupted phase resumes; the history accounts for every song,
  point and round; nobody who can still guess has seen the answer.
* packs: a running game's pack never changes under it; the cache needs no
  invalidation.
* realtime: when things come to rest, everyone connected was sent the newest
  state; a client that does not read holds up nobody.
* auth: every account can be signed in to; a session has one usable token; a
  browser that was told of no failure is not logged out.
* friends: a friendship is one both sides wanted; the views agree.

## 2. Modules

| Module | Models | Used by |
|---|---|---|
| `PokerEngine` | the engine's functions on a table as operators | `PokerHand` |
| `PokerHand` | a table played through InitState, Apply and NextHand | `PokerSession` |
| `PokerSession` | stored row, history, timers, finish, crashes and failures | runs |
| `Lobby` | the lobby service, statement by statement | `MCLobby` |
| `MCLobby` | `Lobby` with a history variable that notes overlapping requests | runs, `LobbyProofs` |
| `TtrTurns` | the turn flow of Ticket to Ride: the abstract game | `TtrGame`, runs |
| `TtrBoard` | map, payments, trails and ticket scoring as operators | `TtrGame` |
| `TtrGame` | the whole game of Ticket to Ride; refines `TtrTurns` | `MCTtrGame` |
| `SongGuess` | the whole game of Song Guess | `MCSongGuess` |
| `Packs` | authoring, cache, pool, and the lobbies and sessions that use packs | runs |
| `Realtime` | rooms, connections, buffers, goroutines and broadcasts | runs |
| `Friends` | friend requests, statement by statement | `MCFriends` |
| `Auth` | accounts, sessions and refresh tokens | runs |
| `MCTtrGame`, `MCSongGuess`, `MCFriends` | a small map, a small pack, a symmetry set | runs |
| `BasicFacts` | facts about finite sums and ordered sets | the modules below |
| `PokerProofs`, `LobbyProofs`, `TtrTurnsProofs`, `TtrGameProofs`, `SongGuessProofs`, `PacksProofs`, `ServiceProofs` | theorems | tlapm |

### PokerEngine and PokerHand

`ts` is the stored `TableState`; its per-seat fields are functions on `Seats`.
Seat indexes may have gaps, as in a lobby. An action is one whole `Apply`: the
guards `mayAct`, `checkOK`, `betOK`, `raiseOK` are the early returns, and
`resolve` is what `Apply` does after the move (last seat standing, next actor,
next street, run-out, showdown). Cards are abstracted: a showdown picks any
ranking of the live hands (`Rankings`, by `Strengths`), which covers every board
and any tie. `settled` is a history variable, the table and ranking the last
showdown used; nothing reads it but `ShowdownIsFair`.

### PokerSession

`Apply`, `NextHand` and the handler's code after them are separate steps because
they are separate transactions or run outside one. `toSchedule`, `timers` and
`toFinish` count the calls that are between two of them; a crash sets them to
zero and nothing rebuilds them, as in the code.

### Lobby and MCLobby

Requests live in `Procs`; `pc` is the next statement, and a request keeps only
what it still uses from its snapshot. `GetRow` and `GetSeats` are the two queries
of `Repository.Get`; `CommitStart` is the one real transaction; leave continues
with `Resign`, `GameOver`, `LeaveSeat`, `CountRemaining`, `FinishEmpty`,
`GetFresh` and `SetHost`. The unique indexes of migration 0004 are the conditions
of `ClaimSeat` and `Create`, the primary key of the state row is the condition of
`CommitStart`. The engine behind the lobby is reduced to who still plays and
whether the game is over; whether a resignation ends the game is left open except
that a game with fewer than two players is over. `Cancelled` ends a request
between two statements (client gone, deadline) and is counted against `MaxFaults`;
`FinishFails` is a `Finish` that is only logged, which can happen once per lobby.

What the doc comments of Join and Leave promise is not kept once requests overlap
(section 5), so `MCLobby` notes the first overlap and `PromisesKeptInTurn` claims
the promises up to it.

### TtrTurns

The fields of `GameState` that decide whose turn it is and what is awaited:
`phase`, `currentSeat`, `finalTurnsLeft`, who has resigned and who has answered
the setup keep, the trains, which scratch fields (`Draw`, `PendingTunnel`,
`PendingTicketDraw`) are set, and the length of the pending tunnel's route. An
action is one `Engine.Apply`, its guard `checkPhaseGate`; the session runs it in a
transaction that locks the row, so actions do not overlap. Cards, tickets, routes
and stations are left out: whether a draw, claim, tunnel or keep is possible, and
which outcome it has, is open. `PHASE_SCORING` lasts only within `finalizeGame` and
is no state of its own. `finalSeats` and `turns` are history: who was playing when
the final round was armed, and the turns ended since.

### TtrBoard and TtrGame

`TtrBoard` has the map as constants (routes with colour, length, tunnel and ferry
flags and the parallel route; tickets), the rules of `maploader` as its assumption,
and the pure functions: which payments a route takes, the longest trail, the
tickets a set of routes completes, and the best use of stations. `TtrGame` is
`GameState` in full. Each action is one accepted `Engine.Apply` with everything it
does: refill and flush of the face-up row, reshuffle in the middle of a draw,
tunnel surcharge, refund at a resignation, `endTurn`, scoring. A pile of train
cards is a bag, because it is shuffled and face down; the ticket deck is a
sequence, because returned tickets go to its bottom.

`Turns == INSTANCE TtrTurns` maps the scratch fields to the set of open decisions
and the pending tunnel to its length; the other variables have the same names.
`FollowsTurns` is `Turns!Spec`: every move of the full game is a step of the turn
flow, so what is proved of `TtrTurns` holds of it. `ScoringIsFair` compares the
search of `scoring.go` with definitions by trails (sequences of distinct routes
that hang together) and by all assignments of stations to routes.

### SongGuess

`gs` is the stored `GameState`, an action one accepted `Engine.Apply`, `resign`
included. When the judge leaves, the phase becomes `JUDGE_VACANT` and the
interrupted phase is kept in `resumePhase`; `effectivePhase` is what views and
guards look at. The pack is the number of blocks and the language of each song.
`sawAnswer` is history: the seats to whose view the answer of the song in play was
given, by the redaction of `view.go`.

### Packs

Authoring requests that take more than one transaction (publish: read and check,
then update; fork: read, then insert) are records in `calls` between their steps. A
worker is a request that needs a pack: it looks the key up, loads and inserts on a
miss, and an action then begins its transaction, which keeps a connection of the
pool, and waits for the row lock. `order` is the LRU list. A document is valid or
not; `lobby[l].doc` remembers from which document a game was set up.

### Realtime

Goroutines are the clients' handlers and the timer; `todo` is what each still has
to do and `at` where it is in a broadcast, which goes message by message. What
lobby and game contain is reduced to what is new: a snapshot is `fresh` in the
parts not changed since it was read, and a client is `missing` the parts of which
it was not sent the latest. That makes the state finite however often things change.
A full buffer closes the client and drops the message, as `sendJSON` does.

The lobby's `status` and the engine's `game` are two variables, because a game can be
over in a lobby still in progress (a `Finish` that failed) and a lobby can finish while
its game plays. A leave is several steps, as the service makes it: `Resign` or `CatchUp`
for a game that registers a `ResignHandler`, then `LeaveSeat`, `CloseLobby`, `SetHost`. A
request that has changed something may fail after each of its steps (`gaveUp`: a later
statement, the closing read or the commit's answer); then the sender alone is told
(`AnswerError`) and nobody is broadcast to. `failed` is history: this, or a load or a
view that failed, happened since the last broadcast began.

### Friends

Sending and unfriending are one statement. Responding and cancelling are two, the
check and the unconditional write by id, with a record in `calls` between. `wants`
is history: whom a user asked or accepted and has not taken back since.

### Auth

`account` and `identity` are the two tables with their unique columns, `callbacks`
the Google sign-ins between their reads and their inserts. A session is a chain
of numbered tokens; `live` is Redis. Refresh consumes (`GETDEL`) and then stores; Redis
may fail before or after doing either, the answer may be lost, and tabs of one browser
share what it holds. `told` is history: the browser saw an error, missed an answer,
logged out or let the token expire. Two sign-ins that read the same are one record of
`callbacks`: the second finds the first's rows at its insert and changes nothing.

## 3. Runs

| Run | Instance | Shows |
|---|---|---|
| `poker_hand` | 3 seats 0,1,3, 5 chips, blinds 1/2, 3 hands, players keep acting | turn, conservation, offered moves = accepted moves, streets close when answered, side pots pay what a chip-by-chip definition says, hands end |
| `poker_session` | 3 seats, 3 chips, 3 hands, 2 faults, fair | archive, triggers; until a fault a played hand is followed |
| `lobby_races` | 2 users, 1 lobby of 2 seats, 2 requests at a time, 1 of them cut short, fair | state rows agree, one seat per user, started once, a leave frees the seat; the comments' promises until the first overlap |
| `ttr_turns` | 4 seats 0,1,3,4, 4 trains, routes of length 1 and 2, fair | turn holder, open decisions, the final round |
| `ttr_game` | 2 seats, 2 trains and 1 station each, 7 cards of 2 colours and locomotives, 4 routes (a double one, a tunnel, a ferry), 6 tickets | conservation of cards and tickets, the face-up row, the board's two records, offers, scoring, refinement of `TtrTurns` |
| `song_guess` | 4 seats, 2 songs of 3 and 1 blocks | playable states, exact history, secrecy of the answer, legal moves = accepted moves, a way out of every phase |
| `realtime` | 2 clients, buffers of 1, at most 2 goroutines at work, fair | everyone connected is current at rest; no goroutine is held up |
| `friends` | 3 users, 4 requests, 2 calls in flight, symmetric | friendship is mutual; views agree |
| `packs` | 1 pack, 3 documents (1 broken), 2 versions, 2 lobbies, 2 workers, cache of 1, pool of 2 | pinned packs stay playable, the cache is faithful, a cold lookup needs an eviction |
| `auth` | 2 e-mails, 2 Google accounts, 1 session of 3 tokens, 2 tabs | accounts are reachable, rotation is linear, held tokens work |
| `poker_stranded_chips` | 4 seats, 4 chips | violation, see below |
| `packs_publish_race` | as `packs` | violation, see below |

Bounds. Three seats and stacks of five with blinds 1 and 2 reach every shape of
betting: short calls, raises below the minimum, all-ins on different levels,
heads-up after a bust, and the button moving over empty seats. Stranding chips
needs two folded and two live seats, so conservation holds with three and fails
with four; both are kept. `MaxHands` bounds the button rotation and lets stacks
become unequal. In the lobby each race needs two overlapping requests. Four trains
arm the final round after one or two claims, and four seats leave a turn order to go
on with after two resignations. In `ttr_game` the pile, the discards and the row run
dry, a flush meets its threshold, a tunnel can cost more than the hand holds, and the
two players compete for the double route and for the borrowed routes; the
sizes of hands, row, reveals and offers are constants, smaller than in the code. Two
songs let a game go through a round of each team and end by exhaustion, four players
keep a game going after one leaves and let a new captain or judge be named. In
`realtime` a buffer of one message is full after one broadcast begins, and two goroutines
at work (`MaxBusy`) make every kind of broadcast interleave with every kind of change;
`QuietIsCurrent` proves the property for any number. In `packs`
one cache entry for two versions makes every other load evict. Three users make two
friend requests of one user overlap; four ids allow a request to be sent again after a
decline was removed. Three tokens are two refreshes in a chain, which two tabs can
race. Symmetry is used in `friends` only, a safety run. The proofs remove the bounds
for the properties they cover.

Deadlock checking is on in `poker_hand`, `poker_stranded_chips` and `lobby_races`,
whose systems never stop. Elsewhere `CHECK_DEADLOCK FALSE` stands for a real end:
the last hand of the bound, a finished game, all ids or tokens used. In `packs` it
also stands for section 5's wait for a connection.

Fairness. `Fairness` of the lobby: a running request goes on to its next statement
(it is a goroutine that nothing parks; deadlines and cancellation are faults, and
`LeaveFreesSeat` excepts them). `ServerRuns`: the handler goes on after `Apply`, an
armed `AfterFunc` fires, `finishGame` runs; weak fairness of `TimerFires` is written
with the enabling condition spelled out. In `Realtime` a goroutine with something to
do goes on; nothing is assumed of the network, a message may stay in a buffer for ever. Players are not obliged to act by
anything in the code. Where a property needs it, the specification assumes it and the
property only says that a game that is played does not go on for ever: for `HandEnds`
a betting street sees moves again and again (`PlayersMove`), for `FinalRoundEnds` the
player in turn does move (weak fairness of `TurnMove`).

### What the violations show

* `poker_stranded_chips`: two seats put in most and fold, two others are all-in
  for less: the layer above the all-ins has no eligible seat, is skipped, and its
  chips vanish when the commitments are cleared.
* `packs_publish_race`: publish parses the draft it read and then publishes whatever
  the draft is by then. A save with validation off in between goes live unparsed, and
  is marked validated. The game stays unplayable rather than wrong: `PinnedIsPlayable`
  holds, because the cache and the lobby's check refuse the version. The map store of
  Ticket to Ride publishes in the same two steps (`adminhandler.go:266`).

## 4. Proofs

Each module `XProofs` extends `X`; `PokerProofs` covers `PokerHand` and `PokerSession`,
`ServiceProofs` covers `Auth`, `Friends` and `Realtime`. (The last two name their
specifications `FriendsSpec` and `GatewaySpec`, so that one module can extend all three.)
All theorems hold for every value of the constants under the named assumptions of the
modules (`LobbyAssumption`, `PokerAssumption`, `HandAssumption`, `FaultAssumption`,
`TtrAssumption`, `GameAssumption`, `MapIsValid`, `SongGuessAssumption`, `PacksAssumption`,
`RealtimeAssumption`, `FriendsAssumption`, `AuthAssumption`); `ChipsConservedHolds`, `PromisesHold`, `AlwaysAWayOut`
and `HostlessGame` add a hypothesis each, below.

* `BasicFacts` is what the others share: least naturals, finite sums
  (`Sum(f, S)`, the fold `MapThenSumSet` of a function), their splitting, grouping,
  regrouping and exchange, places in a finite set of numbers. The library's induction
  theorems take an operator, which cannot be instantiated here, so induction is done on
  a *set*: `NaturalsAreReached` and `FiniteSetIsReached` say that a set closed under the
  step holds everything, and `RecursionExists` that a recursion has a solution.
* `LobbyProofs`: `TypeCorrect`; then `OneSeatHolds`, `StateRowHolds` and
  `StartedOnceHolds` from it. `OneSeatPerUser` is inductive with the typing because
  `ClaimSeat` and `Create` are guarded by `HasSeat`. `StateRowAgrees` is inductive
  although status updates are unconditional, because no statement ever writes
  `waiting` after creation. `PromisesHold`, for games that register a `ResignHandler`
  (without one a running game does wait for who has left): until two requests overlap,
  `Known` says what the lone request has read and may still rely on at each of its
  statements, and `Kept` that a promise is broken only while the request that broke it is
  on its way to mend it. Games that end and `Finish` calls that fail may come in between.
* `PokerProofs`, the turn: `TurnHolds`. The inductive invariant says that the stored
  table has its fields and that its turn is actionable when a street is being bet. The
  core is `nextActor`: the seat at the least distance after the last one is actionable
  whenever some seat is; `advanceStage` and `dealHand` stop betting exactly when none is.
* `PokerProofs`, the chips. `TableOK` adds to the turn that the table is well typed, bets
  are sound (`Sound`: nobody has bet more than the bet, a raise is of something), a hand in
  play has two contributors and two live seats and nothing from seats that sit out
  (`Played`), and the pot is empty between hands. Every engine call is shown to move chips
  only within a seat, until the pots: `LayersAddUp` (the levels hold what was contributed),
  `SharesAddUp` (a pot divided with its odd chips is paid to the last chip), `PotsAddUp`
  (everything is paid, except levels nobody live has reached). Hence `ChipsAccounted`:
  the only step that changes the total is a showdown, by its stranded levels;
  `NoChipIsMade`, which is also why `Amounts` bounds bets without loss; and
  `ChipsConservedHolds` for two or three seats, where nothing can be stranded. From four
  seats on it is false (`poker_stranded_chips`), so the hypothesis is sharp. `OfferedHolds`
  needs only the soundness of bets.
* `PokerProofs`, the streets: `StreetClosesHolds`. A move leaves the other seats'
  chips as they are, marks none of them as having acted and never lowers the bet
  (`OthersKept`); with nobody left that owes an action, `Sound` makes "at least the bet" exactly the bet.
* `PokerProofs`, the showdown: `ShowdownHolds` for any number of seats. The chip-by-chip
  definition and the pots are both sums: the layers between two levels have the same
  contributors, so they add up to the level (`LevelLayers`), levels with the same eligible
  seats to the pot (`PotLayers`), and pots with the same best hands to what a seat wins
  alone or may share (`LayersOfPots`, `PayoutsAreFair`). The uncalled bet is exactly the
  layers with one contributor (`LayersReturned`). The invariant `Settles` says that the
  stored table is what the recorded showdown made.
* `PokerProofs`, the session: `HandNoHolds`, `ArchivedOnceHolds`, `OneTriggerHolds` and
  `SuccessorHolds` from one invariant `SessionInv`, which ties the number of outstanding
  triggers to the stage and the current hand's archive row. None is inductive alone:
  that a timer cannot fire into a hand in play needs the trigger count, and the
  count needs that a hand over has at most one trigger.
* `TtrTurnsProofs`: `TypeCorrect`, `TurnHolderHolds`, `SetupHolds`, `ScratchHolds`
  and `CountdownHolds` from one invariant `Inv`, and `ArmedOnceHolds` from it. They
  need each other: that `nextActiveSeat` finds a seat needs two players left while
  the game runs (`EnoughPlayers`), that trains stay natural needs that the pending
  tunnel's length is at most the player's trains, and that an in-turn resignation
  does not drive the countdown below zero needs its range. `OneMoreTurnHolds` adds
  `RoundOK`: until somebody resigns, those still waiting for their last turn are the seats
  around the table from the current one to the one that armed the round, and the countdown
  is their number.
* `TtrGameProofs`: `Refinement` proves that the whole game follows the turn flow; its
  invariant (`PendingOK`) is that the one decision open is the one the phase awaits, which
  is what lets each step be matched. `TtrGame` maps `scratch` to `openDecisions`,
  `tunnelLength` to `pendingLength` and `Lengths` to `routeLengths`; `GameAssumption` and
  `MapIsValid` give what `TtrAssumption` asks of them, so the theorems of `TtrTurnsProofs`
  are about the game, too. `CardsConservedHolds` and `RowCatchesUpHolds` rest on `CardsOK`:
  per kind of card, one equation over all places, and a flush keeps every total whatever
  number of times it repeats. `BoardAgreesHolds` rests on `BoardOK`, with the mutual
  naming of double routes. `TicketsConservedHolds` needs that every ticket occurs once in
  hand, offer and deck together, from the deal on. `OffersHold` shows the enumeration of
  payments equal to what validation accepts, and that each kind of decision is offered to
  exactly those who have an answer `Apply` accepts. For that the decision must have one,
  which is `OfferOK`: whoever has yet to choose at the setup was offered as many tickets as
  must be kept; a draw in the game offers at least one. `GameAssumption` says what this
  takes: at the setup no more need be kept than are dealt, with the long one, and in the
  game at most one, as the deck may hold no more.
* `TtrGameProofs`, the scoring: `ScoringHolds`. Of the trails: `LongestTrailIsLongest`, for any
  set of routes. The lengths of the trails from each city (`Lengths`) solve the recursion
  of `dfs`, because a trail is a first route and a trail of the rest (`TrailsGrow`,
  `TrailsShrink`), and by induction on the routes left nothing else does; that no trail
  has more routes than there are is what makes `Trails` all of them. Of the stations:
  however many assignments there are, their nets are finitely many numbers, one is the
  greatest, and among those that reach it one is tried first (`OneIsTriedFirst`), which is
  "borrow nothing" unless borrowing gains. Of the places: `rankLess` with the seat order
  is a strict total order of those scored (`AheadOrders`), in such an order the places are
  0 to n - 1, each taken (`OrderPlaces`), and with equal ranks shared a place is one more than
  the number of those who rank better (`PlacesCountBetter`). The invariant `ScoredOK` says
  that a finished game shows the score of its board. It assumes of the map what the Go
  types give: finitely many tickets, with integer points.
* `SongGuessProofs`: `AlwaysWellFormed`, `HistoryIsAlwaysExact`, `AnswerIsSecret`,
  `OffersAreAccepted`, `AlwaysAWayOut` and `HostlessGame`, for any seats, blocks and number
  of songs. The invariant `Inv` is `StateOK(gs)`, a predicate on one stored game, with
  `SecretOK`, on who has seen the answer. `StateOK` speaks of a record and not of the
  variable, so the engine's helpers (`finishSong`, `finalize`, `judgedIncorrect`, the
  successions of host, judge and captains) have lemmas of their own that the actions cite.
  It has three parts: the people (`PeopleOK`: nobody who left holds an office, a team has one
  captain, the judge is on no team, a game is parked exactly while the judge's seat is
  vacant, the host is still there, no team in play is without a captain), the table
  (`TableOK`: a song in flight has closed blocks, what is pending is what the song awaits, a
  cell to be selected is there) and the history (`HistoryOK`: every song is unplayed, in
  flight or in the history, scores are what the history gives, teams alternate, the round
  number counts). `SecretOK` says that whoever was shown the answer is on no team since.
  `AlwaysAWayOut` assumes `0 \in Seats`; without it `HostlessGame` proves the
  opposite (section 5).
* `PacksProofs`: `PinnedHolds`, `CacheHolds` and `ColdHolds` from one invariant. `Faithful`
  (this document is the published one under this key, or the pack is gone) is stable: no
  author's statement makes it false (`RowsKept`), so it holds of cache entries, of
  documents in a request's hands and of pinned games alike; a warmed key stays cached
  unless an eviction is noted.
* `ServiceProofs`, accounts and sessions: `ReachableHolds` from `AccountsInv` (typing, what
  the callbacks under way may rely on, reachability); `RotationHolds` and `HeldTokenHolds`
  from `SessionsInv` (typing, token numbers within those issued, `AnswersAreNew`, and the two
  properties). `AnswersAreNew` is the strengthening that matters: an answer on its way
  carries the newest token of the session, which the browser does not hold yet, so no
  other tab can consume it before it arrives.
* `ServiceProofs`, friends: `FriendshipHolds` and `ViewsHold`. The invariant adds that ids and
  pairs have one row (`KeysOK`), that a call between its two statements was made by the right
  side of the row its id names, if that row still exists (`CallsOK`), and that a row is
  wanted by its sender and, once an acceptance is on its way, by its addressee
  (`WantsOK`): a late acceptance then writes what its caller did ask for.
* `ServiceProofs`, the gateway: `QuietIsCurrent`, for any number of clients, any buffer and any
  number of goroutines at work. Nothing about rest is inductive; what is, is `Covered`:
  for every part a connected client was not sent the latest of, some goroutine has still
  to load the state (`WillLoad`), or holds the latest of that part with this client still
  in its list (`WillSend`), unless a load or a view failed, or a request failed after it had
  changed something. To load the state is still ahead of a goroutine in the middle of a
  leave, too. A change makes copies old and misses parts in the same step that gives its
  goroutine a broadcast to begin, or in which the request fails; a message
  sent takes one client off one list. At rest nobody is left who will, so nothing is missing.

`HandNoAgrees`, `PlayedHandHasSuccessor`, `SetupIsComplete`, `CountdownInRange`,
`ArmedOnce`, `ChipStep` and the bound on chips are stated by theorems only; no run
repeats them.

Only model-checked: the liveness properties (`HandEnds`, `PlayedHandIsFollowed`,
`LeaveFreesSeat`, `FinalRoundEnds`, `HubNeverBlocks`), which are out of the prover's
reach. Every safety invariant and every action property of the passing runs is stated by a
theorem; of the two runs that expect a violation, `ChipsConserved` is proved for two or
three seats and `PublishedIsValid` is simply refuted.

## 5. Known divergences

What the code does differently from its comments, or from what one would expect, met
while modelling. The properties are stated so that they hold of the code as it is; this
list says where they stop.

Poker
* A hand that `NextHand` deals already over (blinds put everyone all-in) is neither
  archived nor followed by another: only `Apply` does either, and the timer's caller
  (`realtime/handler.go:190`) arms no further timer, although the comment at 182-183
  has hands go on. `PlayedHandIsFollowed` is about hands ended by a move.
* The next hand exists only as a timer in memory; a crash during the delay leaves the
  table between hands.
* Poker registers no `ResignHandler` (`lobby/service.go:229`): a player who leaves stays
  in the turn order.

Lobby (all need two overlapping requests; `PromisesKeptInTurn` is about the rest)
* Join checks a snapshot and then inserts (`service.go:168`, comment 149): a start in
  between leaves a user seated at a game that does not know them.
* Leave decides on a snapshot whether to tell the game (185, comment 175-178): a start
  in between leaves a player in the game who has no seat.
* Host succession (203, comment 174-175) can name a user whose own leave has run.
* A start under way (292) puts a lobby emptied and finished meanwhile back in progress.

Ticket to Ride
* Only a keep ends the setup (`engine.go:665`, comment 631-632): when the last player
  who owes one resigns, the others can do nothing but resign.
* A resignation in the final round (`turnflow.go:164`, comment 157-163) is paid for twice
  in turn (clamp and decrement), and out of turn the clamp does not know who has had the
  extra turn: someone may get none, or two. `OneMoreTurn` is claimed when nobody resigns in
  the final round.
* The face-up row need not satisfy the shape `invariants_test.go` (about 214-225) checks:
  it may be short while the discard pile holds cards, until the next card is taken from
  it. `RowCatchesUp` states what does hold.
* A player may be without any legal move in the normal phase when decks are empty and no
  route can be paid.
* Station offers ignore the hand: every free city is offered while the player has a station
  left (`legal.go:109`, `140-154`), although `BuildStation` wants a payment of `stationCost`
  cards; routes that cannot be paid are filtered out (113-133). `OffersAreAccepted` claims
  the free cities and the cost, and equality with what is accepted for everything else.

Song Guess
* The engine's host is seat 0 (`engine.go:85`). When that seat is empty, because the lobby's
  creator left before the start, `applyHostJudgeDefault` (140-160) returns early, although its
  comment says the default roster "is already begin_game-valid", and `scoring.go:93-97` hands
  the host on only when the host leaves: nobody can begin. The run has seat 0 taken, as
  `AlwaysAWayOut` assumes; `HostlessGame` proves that without seat 0 nobody is ever host or
  judge and the game never leaves the roster but by the resignations that end it.
* A captain who does not choose in `ROUND_SELECT` (`round.go:111-114`) cannot be skipped by
  anyone but by resignation: `WayOut` counts that captain among those who must move.
* Two overlapping `UpsertDraft` calls of one pack can create two drafts.
* The session's comment (`session.go:127-131`) says a lookup inside the transaction "can
  only ever hit a warm in-process cache"; an eviction between warm-up and lookup makes it
  miss (`ColdOnlyByEviction`). With a cache of one entry and a pool of one connection TLC
  finds an action waiting for its own connection; with two workers and two connections it
  does not occur.

Realtime
* A client may be sent a state before the events that led to it, although the comment at
  `handler.go:137-139` has events come first: one goroutine keeps that order, but another's
  broadcast, under way when the action commits, reads the new view when the next client's
  turn comes and may send it before the events. It may also be sent an older state after a
  newer one. `QuietMeansCurrent` is about who was sent the latest at all, and counts a
  state as the latest of the game only if it was sent after every event.
* A request can commit a change and then fail: a leave whose resignation is stored and whose
  seat is not left (`lobby/service.go:186-190`) or that fails after it (190-203), a join
  (168-171) or a start (298-301) whose closing read fails. `onMessage` (154-171) tells the
  sender alone and broadcasts nothing, so the others stay behind until the next broadcast
  to the room. `QuietMeansCurrent` claims nothing until one has begun.
* The events of a resignation through a leave are thrown away (`ttr/session.go:205`,
  `song_guess/session.go:208`): clients see its result in the next state, but no event.
* Changes made over REST are not broadcast.

Friends and authentication
* A stale Respond or CancelRequest (`friends/service.go:39-41`, `62-64`) can overwrite or
  delete a request that was answered meanwhile: a decline becomes an acceptance if the same
  user sent both, or a cancel deletes a friendship just accepted. `FriendshipIsMutual` shows
  that no friendship comes of it against the will of a side (a decline takes nothing back in
  `wants`); no property excludes the two outcomes.
* A refresh whose store fails after the consume logs the user out; the user is told.
* A logout racing a refresh leaves the new token live.

## 6. Not modelled

* Ticket to Ride maps: the store of versions and its handlers have the design of Song
  Guess packs, with an unbounded cache, so `Packs` covers their hazards; parsing, layout
  and assets are I/O.
* The poker hand evaluator: a pure function of seven cards over 133 million hands;
  a translation would restate it. Showdowns choose any ranking.
* Views, except for the moves they offer and for who sees the answer of a song; poker's
  redaction of hole cards.
* HTTP routing, JSON, SQL text, protobuf (generated), parsing of packs, password hashing,
  JWT and the OAuth exchange: library calls or formats.
* The server process and the shared packages: start-up, signals, logging, health checks.
* Reading and updating profiles: one statement on one row.

## 7. What could come next

All runs and proofs planned are there. Liveness stays with TLC: the five properties need
`ENABLED` or reasoning from fairness, for which there is no prover here. Worth modelling
next would be the views of poker and Ticket to Ride (who sees which cards), and the store of
Ticket to Ride maps, should its design part from that of the packs.
