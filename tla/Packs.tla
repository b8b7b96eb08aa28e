-------------------------------- MODULE Packs --------------------------------
(***************************************************************************)
(* Song packs: the versions authors save and publish, the lobbies that pin *)
(* a published version, the bounded cache of parsed packs and the pool of  *)
(* database connections that the requests share.                           *)
(*                                                                         *)
(* Authoring requests that take more than one transaction are records in   *)
(* calls between their steps.  A worker is a request that needs a pack: a  *)
(* lobby being created or started, a view, an action.  It looks the pack   *)
(* up, loads and inserts it on a miss, and an action then opens its        *)
(* transaction, which keeps a connection, and waits for the lobby's row.   *)
(***************************************************************************)
EXTENDS Naturals, Sequences, FiniteSets, SequencesExt

CONSTANTS PackIDs,      \* packs that may be created
          Docs,         \* pack documents
          Broken,       \* the documents ParsePack rejects
          MaxVersions,  \* bound: versions of a pack
          MaxCalls,     \* bound: authoring requests between two steps
          Lobbies, Workers,
          capacity,     \* of the cache (defaultPackCacheCapacity)
          PoolMaxConns  \* connections of the pool

ASSUME PacksAssumption == /\ Broken \subseteq Docs
                          /\ MaxVersions \in Nat /\ MaxCalls \in Nat
                          /\ capacity \in Nat \ {0}
                          /\ PoolMaxConns \in Nat \ {0}

VARIABLES status,    \* of every pack: "new", "live" or "deleted"
          versions,  \* pack_versions: for every pack a sequence of [status, doc]
          calls,     \* authoring requests between two steps
          lobby,     \* for every lobby its state, the pinned key and, once started,
                     \* the document the game was set up from
          order,     \* the cache: a sequence of [key, doc], most recently used first
          worker,    \* what every worker is doing
          evicted    \* history: whether a worker's pack was evicted since it got it

vars      == <<status, versions, calls, lobby, order, worker, evicted>>
storeVars == <<status, versions, calls>>
gameVars  == <<lobby, order, worker, evicted>>

NoKey  == <<>>
NoDoc  == "none"
Idle   == [pc |-> "idle", task |-> "none", lobby |-> "none", key |-> NoKey, doc |-> NoDoc]
NoGame == [state |-> "none", key |-> NoKey, doc |-> NoDoc]

valid(doc) == doc \in Docs \ Broken
exists(key) == status[key[1]] = "live" /\ key[2] \in DOMAIN versions[key[1]]
row(key) == versions[key[1]][key[2]]
published(p) == {v \in DOMAIN versions[p] : versions[p][v].status = "published"}
drafts(p) == {v \in DOMAIN versions[p] : versions[p][v].status = "draft"}
last(V) == CHOOSE v \in V : \A u \in V : u <= v

Init == /\ status = [p \in PackIDs |-> "new"]
        /\ versions = [p \in PackIDs |-> <<>>]
        /\ calls = {}
        /\ lobby = [l \in Lobbies |-> NoGame]
        /\ order = <<>>
        /\ worker = [w \in Workers |-> Idle]
        /\ evicted = [w \in Workers |-> FALSE]

-----------------------------------------------------------------------------
(* Authors.  Only requests of the owner or an admin are modelled: the      *)
(* others are answered before anything is read or written.                 *)

CreatePack(p) ==
    /\ status[p] = "new"
    /\ status' = [status EXCEPT ![p] = "live"]
    /\ UNCHANGED <<versions, calls, gameVars>>

(* A draft is parsed before it is saved, unless validation is turned off. *)
validateDraftBody(doc, validate) == validate => valid(doc)

(* UpsertDraft where it finds a draft: the row stays locked from the read  *)
(* to the update.                                                          *)
draftToSave_Newest(p) == {last(DOMAIN versions[p]) : v \in DOMAIN versions[p]}
draftToSave(p) == IF drafts(p) = {} THEN {} ELSE {last(drafts(p))}

SaveDraft(p, doc, validate) ==
    /\ status[p] = "live"
    /\ validateDraftBody(doc, validate)
    /\ \E v \in draftToSave(p) :
          versions' = [versions EXCEPT ![p][v].doc = doc]
    /\ UNCHANGED <<status, calls, gameVars>>

(* UpsertDraft where it finds none: it then locks the pack, numbers the    *)
(* new version after the highest one there is by then, and inserts it.     *)
FindNoDraft(p, doc, validate) ==
    /\ Cardinality(calls) < MaxCalls
    /\ status[p] = "live"
    /\ validateDraftBody(doc, validate)
    /\ draftToSave(p) = {}
    /\ calls' = calls \cup {[op |-> "fork", pack |-> p, doc |-> doc]}
    /\ UNCHANGED <<status, versions, gameVars>>

ForkDraft(call) ==
    /\ call \in calls /\ call.op = "fork"
    /\ Len(versions[call.pack]) < MaxVersions
    /\ versions' = IF status[call.pack] = "live"
                   THEN [versions EXCEPT ![call.pack] = Append(@, [status |-> "draft", doc |-> call.doc])]
                   ELSE versions
    /\ calls' = calls \ {call}
    /\ UNCHANGED <<status, gameVars>>

(* publish reads the draft and parses it; the update that follows asks     *)
(* only that the version is still a draft.                                 *)
CheckDraft(p, v) ==
    /\ Cardinality(calls) < MaxCalls
    /\ status[p] = "live"
    /\ v \in drafts(p)
    /\ valid(versions[p][v].doc)
    /\ calls' = calls \cup {[op |-> "publish", pack |-> p, version |-> v]}
    /\ UNCHANGED <<status, versions, gameVars>>

Publish(call) ==
    /\ call \in calls /\ call.op = "publish"
    /\ versions' = IF status[call.pack] = "live" /\ call.version \in drafts(call.pack)
                   THEN [versions EXCEPT ![call.pack][call.version].status = "published"]
                   ELSE versions
    /\ calls' = calls \ {call}
    /\ UNCHANGED <<status, gameVars>>

(* The versions go with the pack; a game that pins one forbids it. *)
pinned(p) == \E l \in Lobbies : lobby[l].state = "started" /\ lobby[l].key[1] = p

DeletePack(p) ==
    /\ status[p] = "live"
    /\ ~pinned(p)
    /\ status' = [status EXCEPT ![p] = "deleted"]
    /\ versions' = [versions EXCEPT ![p] = <<>>]
    /\ UNCHANGED <<calls, gameVars>>

-----------------------------------------------------------------------------
(* The cache: entries by key, the least recently used one dropped when a   *)
(* new one makes it too long.                                              *)

cached(key) == {i \in DOMAIN order : order[i].key = key}
toFront(i) == <<order[i]>> \o RemoveAt(order, i)

insert(key, doc) ==
    IF cached(key) # {} THEN toFront(CHOOSE i \in cached(key) : TRUE)
    ELSE SubSeq(<<[key |-> key, doc |-> doc]>> \o order, 1,
                IF Len(order) < capacity THEN Len(order) + 1 ELSE capacity)

keysOf(s) == {s[i].key : i \in DOMAIN s}

(* The cache becomes s as worker w gets its pack; the others may lose the  *)
(* pack they have in hand.                                                 *)
Cache(w, s) ==
    /\ order' = s
    /\ evicted' = [u \in Workers |-> u # w /\ (evicted[u] \/ worker[u].key \in keysOf(order) \ keysOf(s))]

-----------------------------------------------------------------------------
(* Connections.  A statement on the pool takes one only while it runs; an  *)
(* action's transaction keeps one until it commits or is rolled back.      *)
holders == {w \in Workers : worker[w].pc \in {"begun", "locked", "cold", "resolved"}}
free == PoolMaxConns - Cardinality(holders)

step(w, pc) == worker' = [worker EXCEPT ![w].pc = pc]
end(w) == worker' = [worker EXCEPT ![w] = Idle]

ask(w, task, l, key) ==
    /\ free > 0
    /\ worker[w] = Idle
    /\ worker' = [worker EXCEPT ![w] = [pc |-> "get", task |-> task, lobby |-> l, key |-> key, doc |-> NoDoc]]
    /\ UNCHANGED <<storeVars, lobby, order, evicted>>

(* ValidateLobbyConfig resolves the pack to its latest published version,  *)
(* Start and the requests of a started game use the version pinned.        *)
AskConfig(w, l, p) ==
    /\ lobby[l].state = "none"
    /\ status[p] = "live" /\ published(p) # {}
    /\ ask(w, "config", l, <<p, last(published(p))>>)

AskStart(w, l) == lobby[l].state = "waiting" /\ ask(w, "start", l, lobby[l].key)
AskView(w, l)  == lobby[l].state = "started" /\ ask(w, "view", l, lobby[l].key)
AskApply(w, l) == lobby[l].state = "started" /\ ask(w, "apply", l, lobby[l].key)

(* PackCache.Get: a hit, or a miss that loads and parses the published     *)
(* document and inserts it; a pack that is gone or does not parse ends the *)
(* request with an error.                                                  *)
GetHit(w) ==
    /\ worker[w].pc = "get"
    /\ \E i \in cached(worker[w].key) :
          /\ worker' = [worker EXCEPT ![w].pc = "have", ![w].doc = order[i].doc]
          /\ Cache(w, toFront(i))
    /\ UNCHANGED <<storeVars, lobby>>

LoadDoc(key) ==
    IF exists(key) /\ row(key).status = "published" /\ valid(row(key).doc) THEN {row(key).doc} ELSE {}

GetMiss(w) ==
    /\ worker[w].pc = "get"
    /\ cached(worker[w].key) = {}
    /\ free > 0
    /\ IF LoadDoc(worker[w].key) = {} THEN end(w)
       ELSE \E doc \in LoadDoc(worker[w].key) :
               worker' = [worker EXCEPT ![w].pc = "loaded", ![w].doc = doc]
    /\ UNCHANGED <<storeVars, lobby, order, evicted>>

Insert(w) ==
    /\ worker[w].pc = "loaded"
    /\ step(w, "have")
    /\ Cache(w, insert(worker[w].key, worker[w].doc))
    /\ UNCHANGED <<storeVars, lobby>>

-----------------------------------------------------------------------------
(* What the request wanted the pack for. *)

Configure(w) ==
    /\ worker[w].pc = "have" /\ worker[w].task = "config"
    /\ free > 0
    /\ end(w)
    /\ lobby' = IF lobby[worker[w].lobby].state = "none"
                THEN [lobby EXCEPT ![worker[w].lobby] = [state |-> "waiting", key |-> worker[w].key, doc |-> NoDoc]]
                ELSE lobby
    /\ UNCHANGED <<storeVars, order, evicted>>

(* Start inserts the state built from the pack; the foreign key asks that  *)
(* the pinned version still exists, the primary key that it is the first.  *)
pinHolds_NoForeignKey(key) == TRUE
pinHolds(key) == exists(key)

StartGame(w) ==
    /\ worker[w].pc = "have" /\ worker[w].task = "start"
    /\ free > 0
    /\ end(w)
    /\ lobby' = IF lobby[worker[w].lobby].state = "waiting" /\ pinHolds(worker[w].key)
                THEN [lobby EXCEPT ![worker[w].lobby].state = "started", ![worker[w].lobby].doc = worker[w].doc]
                ELSE lobby
    /\ UNCHANGED <<storeVars, order, evicted>>

View(w) ==
    /\ worker[w].pc = "have" /\ worker[w].task = "view"
    /\ end(w)
    /\ UNCHANGED <<storeVars, lobby, order, evicted>>

(* Apply after the cache is warm: its own transaction, the row lock, the   *)
(* pack again if the action selects a cell, and the end of the             *)
(* transaction, committed or rolled back.                                  *)
beginsWith_Cold(w) == worker[w].pc \in {"get", "have"} /\ worker[w].task = "apply"
beginsWith(w) == worker[w].pc = "have" /\ worker[w].task = "apply"

Begin(w) ==
    /\ beginsWith(w)
    /\ free > 0
    /\ step(w, "begun")
    /\ UNCHANGED <<storeVars, lobby, order, evicted>>

GetForUpdate(w) ==
    /\ worker[w].pc = "begun"
    /\ \A u \in holders \ {w} : worker[u].lobby = worker[w].lobby => worker[u].pc = "begun"
    /\ step(w, "locked")
    /\ UNCHANGED <<storeVars, lobby, order, evicted>>

ResolveHit(w) ==
    /\ worker[w].pc = "locked"
    /\ \E i \in cached(worker[w].key) : Cache(w, toFront(i))
    /\ step(w, "resolved")
    /\ UNCHANGED <<storeVars, lobby>>

ResolveMiss(w) ==
    /\ worker[w].pc = "locked"
    /\ cached(worker[w].key) = {}
    /\ step(w, "cold")
    /\ UNCHANGED <<storeVars, lobby, order, evicted>>

ResolveLoad(w) ==
    /\ worker[w].pc = "cold"
    /\ free > 0
    /\ IF LoadDoc(worker[w].key) = {} THEN end(w) /\ UNCHANGED <<order, evicted>>
       ELSE \E doc \in LoadDoc(worker[w].key) :
               step(w, "resolved") /\ Cache(w, insert(worker[w].key, doc))
    /\ UNCHANGED <<storeVars, lobby>>

Finish(w) ==
    /\ worker[w].pc \in {"locked", "resolved"}
    /\ end(w)
    /\ UNCHANGED <<storeVars, lobby, order, evicted>>

-----------------------------------------------------------------------------
Author == \/ \E p \in PackIDs : CreatePack(p) \/ DeletePack(p)
          \/ \E p \in PackIDs, doc \in Docs, validate \in BOOLEAN :
                SaveDraft(p, doc, validate) \/ FindNoDraft(p, doc, validate)
          \/ \E call \in calls : ForkDraft(call) \/ Publish(call)
          \/ \E p \in PackIDs : \E v \in DOMAIN versions[p] : CheckDraft(p, v)

Request(w) == \/ \E l \in Lobbies, p \in PackIDs : AskConfig(w, l, p)
              \/ \E l \in Lobbies : AskStart(w, l) \/ AskView(w, l) \/ AskApply(w, l)
              \/ GetHit(w) \/ GetMiss(w) \/ Insert(w)
              \/ Configure(w) \/ StartGame(w) \/ View(w)
              \/ Begin(w) \/ GetForUpdate(w) \/ ResolveHit(w) \/ ResolveMiss(w)
              \/ ResolveLoad(w) \/ Finish(w)

Next == Author \/ \E w \in Workers : Request(w)

Spec == Init /\ [][Next]_vars

-----------------------------------------------------------------------------
(* Later edits cannot affect a running game: as long as a game runs, the   *)
(* version it pins exists, is published, and still is the valid document   *)
(* the game was set up from, whatever authors save, publish or delete and  *)
(* whatever a stale cache handed to Start.                                 *)
PinnedIsPlayable ==
    \A l \in Lobbies : lobby[l].state = "started" =>
        /\ exists(lobby[l].key)
        /\ row(lobby[l].key) = [status |-> "published", doc |-> lobby[l].doc]
        /\ valid(lobby[l].doc)

(* The cache never needs invalidation: it holds each key at most once, no  *)
(* more keys than its capacity, and for a version that still exists it     *)
(* holds the document published, although entries outlive edits, deletions *)
(* and the races of two loads.                                             *)
CacheIsFaithful ==
    /\ Len(order) <= capacity
    /\ \A i, j \in DOMAIN order : order[i].key = order[j].key => i = j
    /\ \A i \in DOMAIN order :
          /\ valid(order[i].doc)
          /\ exists(order[i].key) => row(order[i].key) = [status |-> "published", doc |-> order[i].doc]

(* An action inside its transaction has to go back to the database for its *)
(* pack, needing a second connection while it keeps the first, only if the *)
(* pack was evicted after the warm-up: this is what warming before Begin   *)
(* is for.                                                                 *)
ColdOnlyByEviction ==
    \A w \in Workers : worker[w].pc = "cold" => evicted[w]

(* What the comment in PackCache.Get and on Publish says: a published      *)
(* version is guaranteed free of fatal issues, since publish validates it. *)
PublishedIsValid ==
    \A p \in PackIDs : \A v \in published(p) : valid(versions[p][v].doc)

=============================================================================
