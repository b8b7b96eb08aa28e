---------------------------- MODULE PacksProofs -----------------------------
(***************************************************************************)
(* Proofs about song packs, for any packs, documents, lobbies, requests,   *)
(* cache and pool.  They all rest on one fact: what is known of a          *)
(* published version stays true (Faithful), so a copy of it that was once  *)
(* right, in the cache or in the hands of a request, needs no second look. *)
(***************************************************************************)
EXTENDS Packs, SequenceTheorems, WellFoundedInduction, TLAPS

Keys    == PackIDs \X Nat
Entry   == [key : Keys, doc : Docs]
Version == [status : {"draft", "published"}, doc : Docs]
Call    == [op : {"fork"}, pack : PackIDs, doc : Docs]
             \cup [op : {"publish"}, pack : PackIDs, version : Nat]
Steps   == {"idle", "get", "loaded", "have", "begun", "locked", "cold", "resolved"}
Work    == [pc : Steps, task : {"none", "config", "start", "view", "apply"},
            lobby : Lobbies \cup {"none"}, key : Keys \cup {NoKey}, doc : Docs \cup {NoDoc}]
Game    == [state : {"none", "waiting", "started"}, key : Keys \cup {NoKey},
            doc : Docs \cup {NoDoc}]

TypeOK ==
  /\ status \in [PackIDs -> {"new", "live", "deleted"}]
  /\ versions \in [PackIDs -> Seq(Version)]
  /\ calls \subseteq Call
  /\ lobby \in [Lobbies -> Game]
  /\ order \in Seq(Entry)
  /\ worker \in [Workers -> Work]
  /\ evicted \in [Workers -> BOOLEAN]

\* The document is the one published under the key, or the pack is gone.
Faithful(key, doc) ==
  /\ valid(doc)
  /\ status[key[1]] # "new"
  /\ status[key[1]] = "live" =>
       key[2] \in DOMAIN versions[key[1]] /\ row(key) = [status |-> "published", doc |-> doc]

DistinctKeys(s) == \A i, j \in DOMAIN s : s[i].key = s[j].key => i = j

OrderOK ==
  /\ Len(order) <= capacity
  /\ DistinctKeys(order)
  /\ \A i \in DOMAIN order : Faithful(order[i].key, order[i].doc)

\* A lobby has a key from its configuration on, and a started one a version
\* that is there.
LobbyOK ==
  \A l \in Lobbies :
    /\ lobby[l].state # "none" => lobby[l].key \in Keys
    /\ lobby[l].state = "started" =>
         Faithful(lobby[l].key, lobby[l].doc) /\ status[lobby[l].key[1]] = "live"

\* A request has a key, that of its lobby if the lobby has one; and once it
\* has a document, it is the one published.
WorkOK(x) ==
  /\ x.pc # "idle" =>
       /\ x.key \in Keys
       /\ x.lobby \in Lobbies
       /\ x.task # "config" => lobby[x.lobby].state # "none" /\ lobby[x.lobby].key = x.key
  /\ x.pc \notin {"idle", "get"} => Faithful(x.key, x.doc)

\* An action's pack is in the cache from the warm-up on, unless evicted.
Warm(x, gone) ==
  /\ x.pc \in {"have", "begun", "locked"} => x.key \in keysOf(order) \/ gone
  /\ x.pc = "cold" => gone

WorkerOK == \A w \in Workers : WorkOK(worker[w]) /\ Warm(worker[w], evicted[w])

Inv == TypeOK /\ OrderOK /\ LobbyOK /\ WorkerOK

-----------------------------------------------------------------------------
(***************************************************************************)
(* The operations on the cache's order.                                    *)
(***************************************************************************)
\* The entry at i leaves its place and the ones after it move up.
LEMMA RemoveAtFacts ==
  ASSUME NEW s \in Seq(Entry), NEW i \in DOMAIN s
  PROVE  /\ RemoveAt(s, i) \in Seq(Entry)
         /\ Len(RemoveAt(s, i)) = Len(s) - 1
         /\ \A j \in 1..(Len(s) - 1) : RemoveAt(s, i)[j] = IF j < i THEN s[j] ELSE s[j + 1]
<1> DEFINE a == SubSeq(s, 1, i - 1)
           b == SubSeq(s, i + 1, Len(s))
<1>1. Len(s) \in Nat /\ i \in 1..Len(s) /\ \A j \in 1..Len(s) : s[j] \in Entry
  BY LenProperties, ElementOfSeq
<1>2. /\ a \in Seq(Entry) /\ Len(a) = i - 1
      /\ \A j \in 1..(i - 1) : a[j] = s[j]
  <2>1. 1 \in Int /\ i - 1 \in Int /\ \A j \in 1..(i - 1) : s[j] \in Entry
    BY <1>1
  <2>2. /\ a \in Seq(Entry) /\ Len(a) = IF 1 <= i - 1 THEN i - 1 - 1 + 1 ELSE 0
        /\ \A j \in 1..(i - 1 - 1 + 1) : a[j] = s[1 + j - 1]
    BY <2>1, SubSeqProperties
  <2> QED BY <2>2, <1>1
<1>3. /\ b \in Seq(Entry) /\ Len(b) = Len(s) - i
      /\ \A j \in 1..(Len(s) - i) : b[j] = s[i + j]
  <2>1. i + 1 \in Int /\ Len(s) \in Int /\ \A j \in (i + 1)..Len(s) : s[j] \in Entry
    BY <1>1
  <2>2. /\ b \in Seq(Entry) /\ Len(b) = IF i + 1 <= Len(s) THEN Len(s) - (i + 1) + 1 ELSE 0
        /\ \A j \in 1..(Len(s) - (i + 1) + 1) : b[j] = s[i + 1 + j - 1]
    BY <2>1, SubSeqProperties
  <2> QED BY <2>2, <1>1
<1>4. /\ a \o b \in Seq(Entry)
      /\ Len(a \o b) = Len(a) + Len(b)
      /\ \A j \in 1..(Len(a) + Len(b)) : (a \o b)[j] = IF j <= Len(a) THEN a[j] ELSE b[j - Len(a)]
  BY <1>2, <1>3, ConcatProperties
<1>5. RemoveAt(s, i) = a \o b
  BY DEF RemoveAt
<1> HIDE DEF a, b
<1>6. Len(a) + Len(b) = Len(s) - 1
  BY <1>1, <1>2, <1>3
<1>7. ASSUME NEW j \in 1..(Len(s) - 1)
      PROVE  (a \o b)[j] = IF j < i THEN s[j] ELSE s[j + 1]
  <2>1. CASE j < i
    BY <2>1, <1>1, <1>2, <1>4, <1>6
  <2>2. CASE ~(j < i)
    <3>1. j - (i - 1) \in 1..(Len(s) - i) /\ ~(j <= Len(a)) /\ j - Len(a) = j - (i - 1)
      BY <2>2, <1>1, <1>2
    <3>2. (a \o b)[j] = b[j - (i - 1)]
      BY <3>1, <1>4, <1>6
    <3>3. b[j - (i - 1)] = s[i + (j - (i - 1))]
      BY <3>1, <1>3
    <3>4. i + (j - (i - 1)) = j + 1
      BY <1>1
    <3> QED BY <3>2, <3>3, <3>4, <2>2, <1>1
  <2> QED BY <2>1, <2>2
<1> QED BY <1>4, <1>5, <1>6, <1>7

\* A sequence begun with one more entry.
LEMMA PushFacts ==
  ASSUME NEW s \in Seq(Entry), NEW e \in Entry
  PROVE  /\ <<e>> \o s \in Seq(Entry)
         /\ Len(<<e>> \o s) = Len(s) + 1
         /\ (<<e>> \o s)[1] = e
         /\ \A j \in 2..(Len(s) + 1) : (<<e>> \o s)[j] = s[j - 1]
<1>1. <<e>> \in Seq(Entry) /\ Len(<<e>>) = 1 /\ <<e>>[1] = e
  OBVIOUS
<1>2. Len(s) \in Nat
  BY LenProperties
<1>3. /\ <<e>> \o s \in Seq(Entry)
      /\ Len(<<e>> \o s) = 1 + Len(s)
      /\ \A j \in 1..(1 + Len(s)) : (<<e>> \o s)[j] = IF j <= 1 THEN <<e>>[j] ELSE s[j - 1]
  BY <1>1, ConcatProperties
<1> QED BY <1>1, <1>2, <1>3

\* What a new order keeps of the old one: entries as before, or the new one.
Keeps(s, fresh) ==
  /\ s \in Seq(Entry)
  /\ Len(s) <= capacity
  /\ DistinctKeys(s)
  /\ \A j \in DOMAIN s : s[j] \in fresh \/ \E k \in DOMAIN order : s[j] = order[k]

\* A hit only moves its entry to the front.
LEMMA ToFrontKeeps ==
  ASSUME order \in Seq(Entry), Len(order) <= capacity, DistinctKeys(order),
         NEW i \in DOMAIN order
  PROVE  Keeps(toFront(i), {}) /\ order[i].key \in keysOf(toFront(i))
<1> DEFINE r == RemoveAt(order, i)
           s == toFront(i)
<1>1. Len(order) \in Nat /\ DOMAIN order = 1..Len(order) /\ order[i] \in Entry
      /\ Len(order) - 1 \in Nat
  BY LenProperties, ElementOfSeq
<1>2. /\ r \in Seq(Entry)
      /\ Len(r) = Len(order) - 1
      /\ \A j \in 1..(Len(order) - 1) : r[j] = IF j < i THEN order[j] ELSE order[j + 1]
  BY RemoveAtFacts
<1>3. /\ s \in Seq(Entry)
      /\ Len(s) = Len(order)
      /\ s[1] = order[i]
      /\ \A j \in 2..Len(order) : s[j] = r[j - 1]
  <2>1. s = <<order[i]>> \o r
    BY DEF toFront
  <2> HIDE DEF r, s
  <2>2. /\ <<order[i]>> \o r \in Seq(Entry)
        /\ Len(<<order[i]>> \o r) = Len(r) + 1
        /\ (<<order[i]>> \o r)[1] = order[i]
        /\ \A j \in 2..(Len(r) + 1) : (<<order[i]>> \o r)[j] = r[j - 1]
    BY <1>1, <1>2, PushFacts
  <2> QED BY <2>1, <2>2, <1>1, <1>2
<1> HIDE DEF r, s
<1>4. DOMAIN s = 1..Len(order)
  BY <1>3, LenProperties
<1>5. \A j \in 1..Len(order) : s[j] = order[IF j = 1 THEN i ELSE IF j - 1 < i THEN j - 1 ELSE j]
  BY <1>1, <1>2, <1>3
<1>6. DistinctKeys(s)
  <2> SUFFICES ASSUME NEW j \in 1..Len(order), NEW k \in 1..Len(order), s[j].key = s[k].key
               PROVE  j = k
    BY <1>4 DEF DistinctKeys
  <2> DEFINE at(n) == IF n = 1 THEN i ELSE IF n - 1 < i THEN n - 1 ELSE n
  <2>1. s[j] = order[at(j)] /\ s[k] = order[at(k)]
    BY <1>5
  <2>2. at(j) \in DOMAIN order /\ at(k) \in DOMAIN order
    BY <1>1
  <2>3. at(j) = at(k)
    BY <2>1, <2>2 DEF DistinctKeys
  <2> QED BY <2>3, <1>1
<1>7. \A j \in 1..Len(order) : \E k \in DOMAIN order : s[j] = order[k]
  <2> TAKE j \in 1..Len(order)
  <2> DEFINE k == IF j = 1 THEN i ELSE IF j - 1 < i THEN j - 1 ELSE j
  <2>1. k \in DOMAIN order /\ s[j] = order[k]
    BY <1>1, <1>5
  <2> QED BY <2>1
<1>8. 1 \in DOMAIN s
  BY <1>1, <1>4
<1> QED BY <1>3, <1>4, <1>6, <1>7, <1>8 DEF Keeps, keysOf, s

\* An insertion adds its entry, unless the key is there by then.
LEMMA InsertKeeps ==
  ASSUME order \in Seq(Entry), Len(order) <= capacity, DistinctKeys(order),
         NEW key \in Keys, NEW doc \in Docs
  PROVE  /\ Keeps(insert(key, doc), {[key |-> key, doc |-> doc]})
         /\ key \in keysOf(insert(key, doc))
<1>1. CASE cached(key) # {}
  <2> DEFINE i == CHOOSE i \in cached(key) : TRUE
  <2>1. i \in DOMAIN order /\ order[i].key = key
    BY <1>1 DEF cached
  <2>2. insert(key, doc) = toFront(i)
    BY <1>1 DEF insert
  <2> HIDE DEF i
  <2> QED BY <2>1, <2>2, ToFrontKeeps DEF Keeps
<1>2. CASE cached(key) = {}
  <2> DEFINE e == [key |-> key, doc |-> doc]
             t == <<e>> \o order
             n == IF Len(order) < capacity THEN Len(order) + 1 ELSE capacity
             s == SubSeq(t, 1, n)
  <2>1. Len(order) \in Nat /\ DOMAIN order = 1..Len(order) /\ capacity \in Nat \ {0}
    BY LenProperties, PacksAssumption
  <2>2. e \in Entry
    BY DEF Entry
  <2>3. /\ t \in Seq(Entry) /\ Len(t) = Len(order) + 1 /\ t[1] = e
        /\ \A j \in 2..(Len(order) + 1) : t[j] = order[j - 1]
    BY <2>2, PushFacts
  <2>4. n \in 1..(Len(order) + 1) /\ n <= capacity
    BY <2>1
  <2>5. insert(key, doc) = s
    BY <1>2 DEF insert
  <2> HIDE DEF e, t, n
  <2>6. \A j \in 1..n : t[j] \in Entry
    BY <2>1, <2>3, <2>4, ElementOfSeq
  <2>7. s \in Seq(Entry) /\ Len(s) = n /\ \A j \in 1..n : s[j] = t[j]
    <3>1. /\ s \in Seq(Entry) /\ Len(s) = IF 1 <= n THEN n - 1 + 1 ELSE 0
          /\ \A j \in 1..(n - 1 + 1) : s[j] = t[1 + j - 1]
      BY <2>4, <2>6, SubSeqProperties
    <3> QED BY <3>1, <2>4
  <2> HIDE DEF s
  <2>8. DOMAIN s = 1..n
    BY <2>7, LenProperties
  <2>9. s[1] = e /\ \A j \in 2..n : j - 1 \in DOMAIN order /\ s[j] = order[j - 1]
    BY <2>1, <2>3, <2>4, <2>7
  <2>10. \A k \in DOMAIN order : order[k].key # e.key
    BY <1>2 DEF cached, e
  <2>11. DistinctKeys(s)
    <3> SUFFICES ASSUME NEW j \in 1..n, NEW k \in 1..n, s[j].key = s[k].key
                 PROVE  j = k
      BY <2>8 DEF DistinctKeys
    <3>1. CASE j = 1 /\ k = 1
      BY <3>1
    <3>2. CASE j = 1 /\ k # 1
      BY <3>2, <2>4, <2>9, <2>10
    <3>3. CASE j # 1 /\ k = 1
      BY <3>3, <2>4, <2>9, <2>10
    <3>4. CASE j # 1 /\ k # 1
      <4>1. j \in 2..n /\ k \in 2..n
        BY <3>4, <2>4
      <4>2. /\ j - 1 \in DOMAIN order /\ k - 1 \in DOMAIN order
            /\ order[j - 1].key = order[k - 1].key
        BY <4>1, <2>9
      <4>3. j - 1 = k - 1
        BY <4>2 DEF DistinctKeys
      <4> QED BY <4>1, <4>3, <2>4
    <3> QED BY <3>1, <3>2, <3>3, <3>4
  <2>12. \A j \in DOMAIN s : s[j] \in {e} \/ \E k \in DOMAIN order : s[j] = order[k]
    BY <2>4, <2>8, <2>9, SMTT(30)
  <2>13. key \in keysOf(s)
    <3>1. 1 \in DOMAIN s /\ s[1].key = key
      BY <2>4, <2>8, <2>9 DEF e
    <3> QED BY <3>1 DEF keysOf
  <2> QED BY <2>4, <2>5, <2>7, <2>11, <2>12, <2>13 DEF Keeps, e
<1> QED BY <1>1, <1>2

-----------------------------------------------------------------------------
(***************************************************************************)
(* Authors.  Whatever they do, published rows of a pack that stays are     *)
(* kept, and a pinned pack stays.                                          *)
(***************************************************************************)
StoreOK ==
  /\ status \in [PackIDs -> {"new", "live", "deleted"}]
  /\ versions \in [PackIDs -> Seq(Version)]
  /\ calls \subseteq Call

RowsKept ==
  \A p \in PackIDs :
    /\ status[p] # "new" => status'[p] # "new"
    /\ status[p] # "new" /\ status'[p] = "live" =>
         /\ status[p] = "live"
         /\ \A v \in published(p) : v \in DOMAIN versions'[p] /\ versions'[p][v] = versions[p][v]
    /\ status[p] = "live" /\ pinned(p) => status'[p] = "live"

\* The newest of some versions is one of them.
LEMMA LastIn ==
  ASSUME NEW n \in Nat, NEW V \in SUBSET (1..n), V # {}
  PROVE  last(V) \in V
<1> DEFINE R == OpToRel(<, Nat)
           T == {n - v : v \in V}
<1>1. IsWellFoundedOn(R, Nat)
  BY NatLessThanWellFounded
<1>2. T \subseteq Nat /\ T # {}
  <2>1. \A v \in V : n - v \in Nat
    OBVIOUS
  <2> QED BY <2>1
<1> HIDE DEF R, T
<1>3. PICK x \in T : \A y \in T : ~(<<y, x>> \in R)
  BY <1>1, <1>2, WFMin
<1>4. ASSUME NEW y \in T PROVE x <= y
  <2>1. y \in Nat /\ x \in Nat /\ ~(<<y, x>> \in R)
    BY <1>2, <1>3
  <2>2. ~(y < x)
    BY <2>1 DEF R, OpToRel
  <2> QED BY <2>1, <2>2
<1>5. \E v \in V : \A u \in V : u <= v
  <2>1. PICK v \in V : x = n - v
    BY <1>3 DEF T
  <2>2. \A u \in V : n - u \in T
    BY DEF T
  <2> QED BY <1>4, <2>1, <2>2
<1> QED BY <1>5 DEF last

\* Saving a draft writes no published row, ...
LEMMA SaveDraftKeeps ==
  ASSUME StoreOK, NEW p \in PackIDs, NEW doc \in Docs, NEW validate, SaveDraft(p, doc, validate)
  PROVE  StoreOK' /\ RowsKept
<1>1. PICK v \in draftToSave(p) : versions' = [versions EXCEPT ![p][v].doc = doc]
  BY DEF SaveDraft
<1>2. versions[p] \in Seq(Version) /\ Len(versions[p]) \in Nat /\ DOMAIN versions[p] = 1..Len(versions[p])
  BY LenProperties DEF StoreOK
<1>3. v \in drafts(p)
  <2>1. drafts(p) # {} /\ v = last(drafts(p))
    BY DEF draftToSave
  <2>2. drafts(p) \in SUBSET (1..Len(versions[p]))
    BY <1>2 DEF drafts
  <2> QED BY <1>2, <2>1, <2>2, LastIn
<1>4. v \in 1..Len(versions[p]) /\ versions[p][v].status = "draft" /\ versions[p][v] \in Version
  BY <1>2, <1>3, ElementOfSeq DEF drafts
<1> DEFINE new == [versions[p][v] EXCEPT !.doc = doc]
<1>5. new \in Version
  BY <1>4 DEF Version
<1>6. versions' = [versions EXCEPT ![p] = [versions[p] EXCEPT ![v] = new]]
  BY <1>1
<1> HIDE DEF new
<1>7. /\ [versions[p] EXCEPT ![v] = new] \in Seq(Version)
      /\ \A u \in DOMAIN versions[p] : u # v => [versions[p] EXCEPT ![v] = new][u] = versions[p][u]
      /\ DOMAIN [versions[p] EXCEPT ![v] = new] = DOMAIN versions[p]
  BY <1>2, <1>4, <1>5, ExceptSeq
<1>8. status' = status /\ calls' = calls
  BY DEF SaveDraft
<1>9. StoreOK'
  BY <1>6, <1>7, <1>8 DEF StoreOK
<1>10. RowsKept
  BY <1>4, <1>6, <1>7, <1>8 DEF RowsKept, StoreOK, published
<1> QED BY <1>9, <1>10

\* ... inserting a fork does not either, ...
LEMMA ForkDraftKeeps ==
  ASSUME StoreOK, NEW call \in calls, ForkDraft(call)
  PROVE  StoreOK' /\ RowsKept
<1> DEFINE p == call.pack
           new == [status |-> "draft", doc |-> call.doc]
<1>1. p \in PackIDs /\ call.doc \in Docs
  BY DEF StoreOK, Call, ForkDraft
<1>2. status' = status /\ calls' \subseteq calls
  BY DEF ForkDraft
<1>3. CASE versions' = versions
  BY <1>2, <1>3 DEF StoreOK, RowsKept, published
<1>4. CASE versions' = [versions EXCEPT ![p] = Append(versions[p], new)]
  <2>1. new \in Version
    BY <1>1 DEF Version
  <2>2. versions[p] \in Seq(Version)
    BY <1>1 DEF StoreOK
  <2> HIDE DEF p, new
  <2>3. /\ Append(versions[p], new) \in Seq(Version)
        /\ Len(Append(versions[p], new)) = Len(versions[p]) + 1
        /\ \A u \in 1..Len(versions[p]) : Append(versions[p], new)[u] = versions[p][u]
        /\ DOMAIN versions[p] = 1..Len(versions[p])
        /\ DOMAIN Append(versions[p], new) = 1..Len(Append(versions[p], new))
        /\ Len(versions[p]) \in Nat
    BY <2>1, <2>2, AppendProperties, LenProperties
  <2>4. StoreOK'
    BY <1>1, <1>2, <1>4, <2>3 DEF StoreOK
  <2>5. \A u \in DOMAIN versions[p] : u \in DOMAIN Append(versions[p], new)
    BY <2>3
  <2>6. RowsKept
    BY <1>1, <1>2, <1>4, <2>3, <2>5 DEF RowsKept, StoreOK, published
  <2> QED BY <2>4, <2>6
<1> QED BY <1>3, <1>4 DEF ForkDraft

\* ... and publishing writes a draft only.
LEMMA PublishKeeps ==
  ASSUME StoreOK, NEW call \in calls, Publish(call)
  PROVE  StoreOK' /\ RowsKept
<1> DEFINE p == call.pack
           v == call.version
           new == [versions[p][v] EXCEPT !.status = "published"]
<1>1. p \in PackIDs
  BY DEF StoreOK, Call, Publish
<1>2. status' = status /\ calls' \subseteq calls
  BY DEF Publish
<1>3. CASE versions' = versions
  BY <1>2, <1>3 DEF StoreOK, RowsKept, published
<1>4. CASE v \in drafts(p) /\ versions' = [versions EXCEPT ![p][v].status = "published"]
  <2>1. /\ versions[p] \in Seq(Version) /\ Len(versions[p]) \in Nat
        /\ DOMAIN versions[p] = 1..Len(versions[p])
    BY <1>1, LenProperties DEF StoreOK
  <2>2. v \in 1..Len(versions[p]) /\ versions[p][v].status = "draft" /\ versions[p][v] \in Version
    BY <1>4, <2>1, ElementOfSeq DEF drafts
  <2>3. new \in Version
    BY <2>2 DEF Version
  <2>4. versions' = [versions EXCEPT ![p] = [versions[p] EXCEPT ![v] = new]]
    BY <1>4
  <2> HIDE DEF new, p, v
  <2>5. /\ [versions[p] EXCEPT ![v] = new] \in Seq(Version)
        /\ \A u \in DOMAIN versions[p] : u # v => [versions[p] EXCEPT ![v] = new][u] = versions[p][u]
        /\ DOMAIN [versions[p] EXCEPT ![v] = new] = DOMAIN versions[p]
    BY <2>1, <2>2, <2>3, ExceptSeq
  <2>6. StoreOK'
    BY <1>1, <1>2, <2>4, <2>5 DEF StoreOK
  <2>7. RowsKept
    BY <1>1, <1>2, <2>2, <2>4, <2>5 DEF RowsKept, StoreOK, published
  <2> QED BY <2>6, <2>7
<1> QED BY <1>3, <1>4 DEF Publish

\* No step of an author does, or touches a game.
LEMMA AuthorKeeps ==
  ASSUME StoreOK, Author
  PROVE  StoreOK' /\ RowsKept /\ UNCHANGED gameVars
<1>1. ASSUME NEW p \in PackIDs, CreatePack(p)
      PROVE  StoreOK' /\ RowsKept
  BY <1>1 DEF CreatePack, StoreOK, RowsKept, published
<1>2. ASSUME NEW p \in PackIDs, DeletePack(p)
      PROVE  StoreOK' /\ RowsKept
  <2>1. << >> \in Seq(Version)
    BY EmptySeq
  <2>2. StoreOK'
    BY <1>2, <2>1 DEF DeletePack, StoreOK
  <2>3. RowsKept
    BY <1>2 DEF DeletePack, StoreOK, RowsKept, published
  <2> QED BY <2>2, <2>3
<1>3. ASSUME NEW p \in PackIDs, NEW doc \in Docs, NEW validate \in BOOLEAN, FindNoDraft(p, doc, validate)
      PROVE  StoreOK' /\ RowsKept
  BY <1>3 DEF FindNoDraft, StoreOK, Call, RowsKept, published
<1>4. ASSUME NEW p \in PackIDs, NEW v \in DOMAIN versions[p], CheckDraft(p, v)
      PROVE  StoreOK' /\ RowsKept
  <2>1. v \in Nat
    BY LenProperties DEF StoreOK
  <2> QED BY <1>4, <2>1 DEF CheckDraft, StoreOK, Call, RowsKept, published
<1>5. UNCHANGED gameVars
  BY DEF Author, CreatePack, DeletePack, SaveDraft, FindNoDraft, ForkDraft, Publish, CheckDraft
<1> QED BY <1>1, <1>2, <1>3, <1>4, <1>5, SaveDraftKeeps, ForkDraftKeeps, PublishKeeps DEF Author

-----------------------------------------------------------------------------
(***************************************************************************)
(* The invariant.                                                          *)
(***************************************************************************)
LEMMA InitInv == Init => Inv
<1> SUFFICES ASSUME Init PROVE Inv
  OBVIOUS
<1>1. << >> \in Seq(Version) /\ << >> \in Seq(Entry) /\ Len(<< >>) = 0 /\ DOMAIN << >> = {}
  BY EmptySeq, LenProperties
<1>2. TypeOK
  BY <1>1 DEF Init, TypeOK, NoGame, Game, Idle, Work, Steps
<1>3. OrderOK
  BY <1>1, PacksAssumption DEF Init, OrderOK, DistinctKeys
<1>4. LobbyOK
  BY DEF Init, LobbyOK, NoGame
<1>5. WorkerOK
  BY DEF Init, WorkerOK, WorkOK, Warm, Idle
<1> QED BY <1>2, <1>3, <1>4, <1>5 DEF Inv

\* The key and document of an entry.
LEMMA EntryParts ==
  ASSUME TypeOK, NEW i \in DOMAIN order
  PROVE  order[i] \in Entry /\ order[i].key \in Keys /\ order[i].doc \in Docs
<1>1. order \in Seq(Entry)
  BY DEF TypeOK
<1>2. order[i] \in Entry
  BY <1>1, LenProperties, ElementOfSeq
<1> QED BY <1>2 DEF Entry

\* What was found published stays so.
LEMMA FaithfulKept ==
  ASSUME StoreOK, StoreOK', RowsKept, NEW key \in Keys, NEW doc, Faithful(key, doc)
  PROVE  Faithful(key, doc)'
<1> DEFINE p == key[1]
           v == key[2]
<1>1. p \in PackIDs
  BY DEF Keys
<1>2. status[p] # "new" /\ status'[p] # "new"
  BY <1>1 DEF Faithful, RowsKept
<1>3. ASSUME status'[p] = "live"
      PROVE  v \in DOMAIN versions'[p] /\ versions'[p][v] = [status |-> "published", doc |-> doc]
  <2>1. status[p] = "live" /\ \A u \in published(p) : u \in DOMAIN versions'[p] /\ versions'[p][u] = versions[p][u]
    BY <1>1, <1>2, <1>3 DEF RowsKept
  <2>2. v \in DOMAIN versions[p] /\ versions[p][v] = [status |-> "published", doc |-> doc]
    BY <2>1 DEF Faithful, row
  <2>3. v \in published(p)
    BY <2>2 DEF published
  <2> QED BY <2>1, <2>2, <2>3
<1> QED BY <1>2, <1>3 DEF Faithful, row, valid

\* So authors keep the invariant.
LEMMA AuthorInv == Inv /\ Author => Inv'
<1> SUFFICES ASSUME Inv, Author PROVE Inv'
  OBVIOUS
<1>1. StoreOK
  BY DEF Inv, TypeOK, StoreOK
<1>2. StoreOK' /\ RowsKept /\ UNCHANGED <<lobby, order, worker, evicted>>
  BY <1>1, AuthorKeeps DEF gameVars
<1>3. TypeOK'
  BY <1>2 DEF Inv, TypeOK, StoreOK
<1>4. OrderOK'
  <2>1. \A i \in DOMAIN order : Faithful(order[i].key, order[i].doc)'
    BY <1>1, <1>2, EntryParts, FaithfulKept DEF Inv, OrderOK
  <2> QED BY <1>2, <2>1 DEF Inv, OrderOK, DistinctKeys
<1>5. LobbyOK'
  <2> SUFFICES ASSUME NEW l \in Lobbies, lobby[l].state = "started"
               PROVE  Faithful(lobby[l].key, lobby[l].doc)' /\ status'[lobby[l].key[1]] = "live"
    BY <1>2 DEF Inv, LobbyOK
  <2>1. /\ lobby[l].key \in Keys /\ lobby[l].key[1] \in PackIDs
        /\ Faithful(lobby[l].key, lobby[l].doc) /\ status[lobby[l].key[1]] = "live"
        /\ pinned(lobby[l].key[1])
    BY DEF Inv, LobbyOK, Keys, pinned
  <2>2. status'[lobby[l].key[1]] = "live"
    BY <1>2, <2>1 DEF RowsKept
  <2>3. Faithful(lobby[l].key, lobby[l].doc)'
    <3>1. Faithful(lobby[l].key, lobby[l].doc) /\ lobby[l].key \in Keys
      BY <2>1
    <3> DEFINE k == lobby[l].key
               d == lobby[l].doc
    <3>2. \A key \in Keys : \A doc : Faithful(key, doc) => Faithful(key, doc)'
      BY <1>1, <1>2, FaithfulKept
    <3> QED BY <1>2, <3>1, <3>2
  <2> QED BY <2>2, <2>3
<1>6. WorkerOK'
  <2>1. \A key \in Keys : \A doc : Faithful(key, doc) => Faithful(key, doc)'
    BY <1>1, <1>2, FaithfulKept
  <2> SUFFICES ASSUME NEW w \in Workers
               PROVE  (WorkOK(worker[w]) /\ Warm(worker[w], evicted[w]))'
    BY <1>2 DEF WorkerOK
  <2>2. WorkOK(worker[w]) /\ Warm(worker[w], evicted[w])
    BY DEF Inv, WorkerOK
  <2>3. WorkOK(worker[w])'
    BY <1>2, <2>1, <2>2 DEF WorkOK
  <2>4. Warm(worker[w], evicted[w])'
    BY <1>2, <2>2 DEF Warm, keysOf
  <2> QED BY <2>3, <2>4
<1> QED BY <1>3, <1>4, <1>5, <1>6 DEF Inv

(***************************************************************************)
(* Requests.  The store is only read, so Faithful does not change.         *)
(***************************************************************************)
\* One request goes on to x, and nothing else changes.
LEMMA WorkStep ==
  ASSUME Inv, NEW w \in Workers, NEW x \in Work,
         UNCHANGED <<storeVars, lobby, order, evicted>>,
         worker' = [worker EXCEPT ![w] = x],
         WorkOK(x), Warm(x, evicted[w])
  PROVE  Inv'
<1>1. TypeOK'
  BY DEF Inv, TypeOK, storeVars
<1>2. OrderOK' /\ LobbyOK'
  BY DEF Inv, OrderOK, DistinctKeys, LobbyOK, Faithful, row, valid, storeVars
<1>3. \A u \in Workers : worker'[u] = IF u = w THEN x ELSE worker[u]
  BY DEF Inv, TypeOK
<1>4. ASSUME NEW u \in Workers
      PROVE  WorkOK(worker[u])' /\ Warm(worker[u], evicted[u])'
  <2>1. WorkOK(worker'[u]) /\ Warm(worker'[u], evicted[u])
    BY <1>3 DEF Inv, WorkerOK
  <2>2. WorkOK(worker[u])'
    BY <2>1 DEF WorkOK, Faithful, row, valid, storeVars
  <2>3. Warm(worker[u], evicted[u])'
    BY <2>1 DEF Warm, keysOf
  <2> QED BY <2>2, <2>3
<1> QED BY <1>1, <1>2, <1>4 DEF Inv, WorkerOK

\* One request goes on to x as the cache becomes s.
LEMMA CacheStep ==
  ASSUME Inv, NEW w \in Workers, NEW x \in Work, NEW s, NEW fresh \in SUBSET Entry,
         UNCHANGED <<storeVars, lobby>>,
         worker' = [worker EXCEPT ![w] = x],
         Cache(w, s), Keeps(s, fresh),
         \A e \in fresh : Faithful(e.key, e.doc),
         WorkOK(x), x.pc # "cold", x.key \in keysOf(s)
  PROVE  Inv'
<1>1. /\ order' = s
      /\ evicted' = [u \in Workers |-> u # w /\ (evicted[u] \/ worker[u].key \in keysOf(order) \ keysOf(s))]
  BY DEF Cache
<1>2. TypeOK'
  BY <1>1 DEF Inv, TypeOK, storeVars, Keeps
<1>3. OrderOK'
  <2>1. \A j \in DOMAIN s : Faithful(s[j].key, s[j].doc)
    BY DEF Keeps, Inv, OrderOK
  <2> QED BY <1>1, <2>1 DEF OrderOK, Keeps, DistinctKeys, Faithful, row, valid, storeVars
<1>4. LobbyOK'
  BY DEF Inv, LobbyOK, Faithful, row, valid, storeVars
<1>5. \A u \in Workers : worker'[u] = IF u = w THEN x ELSE worker[u]
  BY DEF Inv, TypeOK
<1>6. ASSUME NEW u \in Workers
      PROVE  WorkOK(worker[u])'
  <2>1. WorkOK(worker'[u])
    BY <1>5 DEF Inv, WorkerOK
  <2> QED BY <2>1 DEF WorkOK, Faithful, row, valid, storeVars
<1>7. ASSUME NEW u \in Workers
      PROVE  Warm(worker[u], evicted[u])'
  <2>1. CASE u = w
    BY <1>1, <1>5, <2>1 DEF Warm, keysOf
  <2>2. CASE u # w
    <3>1. Warm(worker[u], evicted[u]) /\ worker'[u] = worker[u]
      BY <1>5, <2>2 DEF Inv, WorkerOK
    <3>2. evicted'[u] <=> evicted[u] \/ worker[u].key \in keysOf(order) \ keysOf(s)
      BY <1>1, <2>2
    <3>3. keysOf(order)' = keysOf(s)
      BY <1>1 DEF keysOf
    <3> QED BY <3>1, <3>2, <3>3 DEF Warm
  <2> QED BY <2>1, <2>2
<1> QED BY <1>2, <1>3, <1>4, <1>6, <1>7 DEF Inv, WorkerOK

\* A request ends, and its lobby becomes g.
LEMMA LobbyStep ==
  ASSUME Inv, NEW w \in Workers, NEW l \in Lobbies, NEW g \in Game,
         UNCHANGED <<storeVars, order, evicted>>,
         end(w), lobby' = [lobby EXCEPT ![l] = g],
         g.state # "none" => g.key \in Keys,
         g.state = "started" => Faithful(g.key, g.doc) /\ status[g.key[1]] = "live",
         lobby[l].state # "none" => g.state # "none" /\ g.key = lobby[l].key
  PROVE  Inv'
<1>1. worker' = [worker EXCEPT ![w] = Idle] /\ Idle \in Work
  BY DEF end, Idle, Work, Steps
<1>2. TypeOK'
  BY <1>1 DEF Inv, TypeOK, storeVars
<1>3. OrderOK'
  BY DEF Inv, OrderOK, DistinctKeys, Faithful, row, valid, storeVars
<1>4. \A m \in Lobbies : lobby'[m] = IF m = l THEN g ELSE lobby[m]
  BY DEF Inv, TypeOK
<1>5. LobbyOK'
  <2>1. \A m \in Lobbies :
           /\ lobby'[m].state # "none" => lobby'[m].key \in Keys
           /\ lobby'[m].state = "started" =>
                Faithful(lobby'[m].key, lobby'[m].doc) /\ status[lobby'[m].key[1]] = "live"
    BY <1>4 DEF Inv, LobbyOK
  <2> QED BY <2>1 DEF LobbyOK, Faithful, row, valid, storeVars
<1>6. \A u \in Workers : worker'[u] = IF u = w THEN Idle ELSE worker[u]
  BY <1>1 DEF Inv, TypeOK
<1>7. ASSUME NEW u \in Workers
      PROVE  WorkOK(worker[u])' /\ Warm(worker[u], evicted[u])'
  <2>1. CASE u = w
    BY <1>6, <2>1 DEF WorkOK, Warm, Idle
  <2>2. CASE u # w
    <3>1. WorkOK(worker[u]) /\ Warm(worker[u], evicted[u]) /\ worker'[u] = worker[u]
      BY <1>6, <2>2 DEF Inv, WorkerOK
    <3>2. WorkOK(worker[u])'
      BY <1>4, <3>1 DEF WorkOK, Faithful, row, valid, storeVars
    <3>3. Warm(worker[u], evicted[u])'
      BY <3>1 DEF Warm, keysOf
    <3> QED BY <3>2, <3>3
  <2> QED BY <2>1, <2>2
<1> QED BY <1>2, <1>3, <1>5, <1>7 DEF Inv, WorkerOK

\* What a load returns is what is published.
LEMMA LoadIsFaithful ==
  ASSUME TypeOK, NEW key \in Keys, NEW doc \in LoadDoc(key)
  PROVE  Faithful(key, doc) /\ doc \in Docs
<1> DEFINE p == key[1]
           v == key[2]
<1>1. exists(key) /\ row(key).status = "published" /\ valid(row(key).doc) /\ doc = row(key).doc
  BY DEF LoadDoc
<1>2. p \in PackIDs /\ status[p] = "live" /\ v \in DOMAIN versions[p] /\ row(key) = versions[p][v]
  BY <1>1 DEF exists, row, Keys
<1>3. versions[p] \in Seq(Version)
  BY <1>2 DEF TypeOK
<1>4. versions[p][v] \in Version
  BY <1>2, <1>3, LenProperties, ElementOfSeq
<1>5. row(key) = [status |-> "published", doc |-> doc]
  BY <1>1, <1>2, <1>4 DEF Version
<1> QED BY <1>1, <1>2, <1>5, PacksAssumption DEF Faithful, valid

\* A request begins.
LEMMA AskInv ==
  ASSUME Inv, NEW w \in Workers, NEW l \in Lobbies, NEW key \in Keys,
         NEW task \in {"config", "start", "view", "apply"}, ask(w, task, l, key),
         task # "config" => lobby[l].state # "none" /\ lobby[l].key = key
  PROVE  Inv'
<1> DEFINE x == [pc |-> "get", task |-> task, lobby |-> l, key |-> key, doc |-> NoDoc]
<1>1. x \in Work
  BY DEF Work, Steps
<1>2. WorkOK(x) /\ Warm(x, evicted[w])
  BY DEF WorkOK, Warm
<1>3. worker' = [worker EXCEPT ![w] = x] /\ UNCHANGED <<storeVars, lobby, order, evicted>>
  BY DEF ask
<1> HIDE DEF x
<1> QED BY <1>1, <1>2, <1>3, WorkStep

\* The request of w goes on to its step pc, with document doc.
moved(w, pc, doc) == [worker[w] EXCEPT !.pc = pc, !.doc = doc]

\* A worker that goes on.
LEMMA MovedFacts ==
  ASSUME TypeOK, NEW w \in Workers, NEW pc \in Steps, NEW doc \in Docs \cup {NoDoc}
  PROVE  /\ worker[w] \in Work
         /\ moved(w, pc, doc) \in Work
         /\ moved(w, pc, doc).pc = pc /\ moved(w, pc, doc).doc = doc
         /\ moved(w, pc, doc).key = worker[w].key
         /\ moved(w, pc, doc).lobby = worker[w].lobby
         /\ moved(w, pc, doc).task = worker[w].task
BY DEF TypeOK, Work, moved

\* A step that keeps its document is one.
LEMMA StepIsMoved ==
  ASSUME TypeOK, NEW w \in Workers, NEW pc \in Steps, step(w, pc)
  PROVE  worker' = [worker EXCEPT ![w] = moved(w, pc, worker[w].doc)] /\ worker[w].doc \in Docs \cup {NoDoc}
<1>1. worker[w] \in Work
  BY DEF TypeOK
<1>2. [worker[w] EXCEPT !.pc = pc] = moved(w, pc, worker[w].doc)
  BY <1>1 DEF Work, moved
<1>3. worker' = [worker EXCEPT ![w] = [worker[w] EXCEPT !.pc = pc]]
  BY DEF step
<1> QED BY <1>1, <1>2, <1>3 DEF Work

\* A request that leaves its pack's step with the document it had.
LEMMA StepInv ==
  ASSUME Inv, NEW w \in Workers, NEW pc \in Steps \ {"idle"}, step(w, pc),
         UNCHANGED <<storeVars, lobby, order, evicted>>,
         worker[w].pc \notin {"idle", "get"},
         pc \in {"have", "begun", "locked"} => worker[w].pc \in {"have", "begun", "locked"},
         pc = "cold" => evicted[w]
  PROVE  Inv'
<1> DEFINE x == moved(w, pc, worker[w].doc)
<1>1. worker' = [worker EXCEPT ![w] = x] /\ worker[w].doc \in Docs \cup {NoDoc}
  BY StepIsMoved DEF Inv
<1>2. /\ x \in Work /\ x.pc = pc /\ x.doc = worker[w].doc
      /\ x.key = worker[w].key /\ x.lobby = worker[w].lobby /\ x.task = worker[w].task
  BY <1>1, MovedFacts DEF Inv
<1> HIDE DEF x
<1>3. WorkOK(worker[w]) /\ Warm(worker[w], evicted[w])
  BY DEF Inv, WorkerOK
<1>4. WorkOK(x)
  BY <1>2, <1>3 DEF WorkOK
<1>5. Warm(x, evicted[w])
  BY <1>2, <1>3 DEF Warm
<1> QED BY <1>1, <1>2, <1>4, <1>5, WorkStep

\* A request that ends.
LEMMA EndInv ==
  ASSUME Inv, NEW w \in Workers, end(w), UNCHANGED <<storeVars, lobby, order, evicted>>
  PROVE  Inv'
<1>1. Idle \in Work /\ WorkOK(Idle) /\ Warm(Idle, evicted[w])
  BY DEF Idle, Work, Steps, WorkOK, Warm
<1> QED BY <1>1, WorkStep DEF end

\* A request that finds its pack in the cache.
LEMMA HitInv ==
  ASSUME Inv, NEW w \in Workers, NEW pc \in {"have", "resolved"}, NEW i \in cached(worker[w].key),
         UNCHANGED <<storeVars, lobby>>, Cache(w, toFront(i)), worker[w].pc # "idle",
         NEW doc \in Docs, Faithful(worker[w].key, doc),
         worker' = [worker EXCEPT ![w] = moved(w, pc, doc)]
  PROVE  Inv'
<1> DEFINE x == moved(w, pc, doc)
           s == toFront(i)
<1>1. /\ x \in Work /\ x.pc = pc /\ x.doc = doc
      /\ x.key = worker[w].key /\ x.lobby = worker[w].lobby /\ x.task = worker[w].task
  BY MovedFacts DEF Inv, Steps
<1>2. i \in DOMAIN order /\ order[i].key = worker[w].key
  BY DEF cached
<1>3. Keeps(s, {}) /\ x.key \in keysOf(s)
  BY <1>1, <1>2, ToFrontKeeps DEF Inv, TypeOK, OrderOK
<1> HIDE DEF x, s
<1>4. WorkOK(x)
  BY <1>1 DEF Inv, WorkerOK, WorkOK
<1>5. {} \in SUBSET Entry
  OBVIOUS
<1>6. Cache(w, s) /\ worker' = [worker EXCEPT ![w] = x] /\ x.pc # "cold"
  BY <1>1 DEF x, s
<1> QED BY <1>1, <1>3, <1>4, <1>5, <1>6, CacheStep

\* A request that inserts what it loaded.
LEMMA MissInv ==
  ASSUME Inv, NEW w \in Workers, NEW pc \in {"have", "resolved"}, NEW doc \in Docs,
         UNCHANGED <<storeVars, lobby>>, Cache(w, insert(worker[w].key, doc)),
         worker[w].pc \notin {"idle", "get"}, step(w, pc),
         Faithful(worker[w].key, doc)
  PROVE  Inv'
<1> DEFINE x == moved(w, pc, worker[w].doc)
           s == insert(worker[w].key, doc)
           fresh == {[key |-> worker[w].key, doc |-> doc]}
<1>1. worker' = [worker EXCEPT ![w] = x] /\ worker[w].doc \in Docs \cup {NoDoc}
  BY StepIsMoved DEF Inv, Steps
<1>2. /\ x \in Work /\ x.pc = pc /\ x.doc = worker[w].doc
      /\ x.key = worker[w].key /\ x.lobby = worker[w].lobby /\ x.task = worker[w].task
  BY <1>1, MovedFacts DEF Inv, Steps
<1>3. worker[w].key \in Keys /\ WorkOK(worker[w])
  BY DEF Inv, WorkerOK, WorkOK
<1>4. Keeps(s, fresh) /\ worker[w].key \in keysOf(s)
  BY <1>3, InsertKeeps DEF Inv, TypeOK, OrderOK
<1>5. fresh \in SUBSET Entry /\ \A e \in fresh : Faithful(e.key, e.doc)
  BY <1>3 DEF Entry
<1>6. Cache(w, s)
  OBVIOUS
<1> HIDE DEF x, s, fresh
<1>7. WorkOK(x) /\ x.pc # "cold" /\ x.key \in keysOf(s)
  BY <1>2, <1>3, <1>4 DEF WorkOK
<1> QED BY <1>1, <1>2, <1>4, <1>5, <1>6, <1>7, CacheStep

-----------------------------------------------------------------------------
(***************************************************************************)
(* Every step keeps the invariant.                                         *)
(***************************************************************************)
LEMMA AskConfigInv ==
  ASSUME Inv, NEW w \in Workers, NEW l \in Lobbies, NEW p \in PackIDs, AskConfig(w, l, p)
  PROVE  Inv'
<1>1. /\ versions[p] \in Seq(Version) /\ Len(versions[p]) \in Nat
      /\ DOMAIN versions[p] = 1..Len(versions[p])
  BY LenProperties DEF Inv, TypeOK
<1>2. published(p) \in SUBSET (1..Len(versions[p])) /\ published(p) # {}
  BY <1>1 DEF published, AskConfig
<1>3. last(published(p)) \in Nat
  <2>1. last(published(p)) \in published(p)
    BY <1>1, <1>2, LastIn
  <2>2. last(published(p)) \in 1..Len(versions[p])
    BY <1>2, <2>1
  <2> QED BY <1>1, <2>2
<1>4. <<p, last(published(p))>> \in Keys
  BY <1>3 DEF Keys
<1> QED BY <1>4, AskInv DEF AskConfig

\* A request for the pack of a game keeps the invariant.
LEMMA AskPinnedInv ==
  ASSUME Inv, NEW w \in Workers, NEW l \in Lobbies, AskStart(w, l) \/ AskView(w, l) \/ AskApply(w, l)
  PROVE  Inv'
<1>1. lobby[l].state # "none"
  BY DEF AskStart, AskView, AskApply
<1>2. lobby[l].key \in Keys
  BY <1>1 DEF Inv, LobbyOK
<1> QED BY <1>1, <1>2, AskInv DEF AskStart, AskView, AskApply

\* A cache hit keeps it, ...
LEMMA GetHitInv ==
  ASSUME Inv, NEW w \in Workers, GetHit(w)
  PROVE  Inv'
<1>1. PICK i \in cached(worker[w].key) :
         /\ worker' = [worker EXCEPT ![w].pc = "have", ![w].doc = order[i].doc]
         /\ Cache(w, toFront(i))
  BY DEF GetHit
<1>2. i \in DOMAIN order /\ order[i].key = worker[w].key
  BY DEF cached
<1>3. order[i].doc \in Docs /\ Faithful(worker[w].key, order[i].doc)
  BY <1>2, EntryParts DEF Inv, OrderOK
<1>4. worker' = [worker EXCEPT ![w] = moved(w, "have", order[i].doc)]
  BY <1>1 DEF moved
<1> QED BY <1>1, <1>3, <1>4, HitInv DEF GetHit

\* ... a miss, ...
LEMMA GetMissInv ==
  ASSUME Inv, NEW w \in Workers, GetMiss(w)
  PROVE  Inv'
<1>1. CASE LoadDoc(worker[w].key) = {}
  BY <1>1, EndInv DEF GetMiss
<1>2. CASE LoadDoc(worker[w].key) # {}
  <2>1. PICK doc \in LoadDoc(worker[w].key) :
           worker' = [worker EXCEPT ![w].pc = "loaded", ![w].doc = doc]
    BY <1>2 DEF GetMiss
  <2> DEFINE x == moved(w, "loaded", doc)
  <2>2. WorkOK(worker[w]) /\ worker[w].key \in Keys
    BY DEF Inv, WorkerOK, WorkOK, GetMiss
  <2>3. Faithful(worker[w].key, doc) /\ doc \in Docs
    BY <2>2, LoadIsFaithful DEF Inv
  <2>4. worker' = [worker EXCEPT ![w] = x]
    BY <2>1 DEF moved
  <2>5. /\ x \in Work /\ x.pc = "loaded" /\ x.doc = doc
        /\ x.key = worker[w].key /\ x.lobby = worker[w].lobby /\ x.task = worker[w].task
    BY <2>3, MovedFacts DEF Inv, Steps
  <2> HIDE DEF x
  <2>6. WorkOK(x) /\ Warm(x, evicted[w])
    BY <2>2, <2>3, <2>5 DEF WorkOK, Warm, GetMiss
  <2>7. UNCHANGED <<storeVars, lobby, order, evicted>>
    BY DEF GetMiss
  <2> QED BY <2>4, <2>5, <2>6, <2>7, WorkStep
<1> QED BY <1>1, <1>2

\* ... a load into the cache, ...
LEMMA InsertInv ==
  ASSUME Inv, NEW w \in Workers, Insert(w)
  PROVE  Inv'
<1>1. Faithful(worker[w].key, worker[w].doc)
  BY DEF Inv, WorkerOK, WorkOK, Insert
<1>2. worker[w].doc \in Docs
  BY <1>1 DEF Faithful, valid
<1> QED BY <1>1, <1>2, MissInv DEF Insert

\* ... the choice of a pack for a lobby ...
LEMMA ConfigureInv ==
  ASSUME Inv, NEW w \in Workers, Configure(w)
  PROVE  Inv'
<1> DEFINE l == worker[w].lobby
           g == [state |-> "waiting", key |-> worker[w].key, doc |-> NoDoc]
<1>1. l \in Lobbies /\ worker[w].key \in Keys
  BY DEF Inv, WorkerOK, WorkOK, Configure
<1>2. CASE lobby[l].state = "none"
  <2>1. g \in Game
    BY <1>1 DEF Game
  <2>2. lobby' = [lobby EXCEPT ![l] = g]
    BY <1>2 DEF Configure
  <2> QED BY <1>1, <1>2, <2>1, <2>2, LobbyStep DEF Configure
<1>3. CASE lobby[l].state # "none"
  BY <1>3, EndInv DEF Configure
<1> QED BY <1>2, <1>3

\* ... and the start of a game.
LEMMA StartGameInv ==
  ASSUME Inv, NEW w \in Workers, StartGame(w)
  PROVE  Inv'
<1> DEFINE l == worker[w].lobby
           g == [lobby[l] EXCEPT !.state = "started", !.doc = worker[w].doc]
<1>1. /\ l \in Lobbies /\ worker[w].key \in Keys /\ lobby[l].key = worker[w].key
      /\ lobby[l].state # "none"
      /\ Faithful(worker[w].key, worker[w].doc)
  BY DEF Inv, WorkerOK, WorkOK, StartGame
<1>2. CASE lobby[l].state = "waiting" /\ pinHolds(worker[w].key)
  <2>1. lobby[l] \in Game /\ worker[w].doc \in Docs
    BY <1>1 DEF Inv, TypeOK, Faithful, valid
  <2>2. g \in Game /\ g.state = "started" /\ g.key = worker[w].key /\ g.doc = worker[w].doc
    BY <1>1, <2>1 DEF Game
  <2>3. lobby' = [lobby EXCEPT ![l] = g]
    BY <1>2 DEF StartGame
  <2>4. status[worker[w].key[1]] = "live"
    BY <1>2 DEF pinHolds, exists
  <2> HIDE DEF g
  <2> QED BY <1>1, <2>2, <2>3, <2>4, LobbyStep DEF StartGame
<1>3. CASE ~(lobby[l].state = "waiting" /\ pinHolds(worker[w].key))
  BY <1>3, EndInv DEF StartGame
<1> QED BY <1>2, <1>3

\* The steps of a transaction: with the pack still in the cache, or, after an
\* eviction, with the pack loaded again.
LEMMA ApplyInv ==
  ASSUME Inv, NEW w \in Workers,
         \/ Begin(w) \/ GetForUpdate(w) \/ ResolveHit(w) \/ ResolveMiss(w) \/ ResolveLoad(w)
  PROVE  Inv'
<1>1. CASE Begin(w)
  BY <1>1, StepInv DEF Begin, beginsWith, Steps
<1>2. CASE GetForUpdate(w)
  BY <1>2, StepInv DEF GetForUpdate, Steps
<1>3. CASE ResolveHit(w)
  <2>1. PICK i \in cached(worker[w].key) : Cache(w, toFront(i))
    BY <1>3 DEF ResolveHit
  <2>2. Faithful(worker[w].key, worker[w].doc)
    BY <1>3 DEF Inv, WorkerOK, WorkOK, ResolveHit
  <2>3. worker[w].doc \in Docs
    BY <2>2 DEF Faithful, valid
  <2>4. worker' = [worker EXCEPT ![w] = moved(w, "resolved", worker[w].doc)]
    BY <1>3, StepIsMoved DEF Inv, ResolveHit, Steps
  <2> QED BY <1>3, <2>1, <2>2, <2>3, <2>4, HitInv DEF ResolveHit
<1>4. CASE ResolveMiss(w)
  <2>1. worker[w].key \notin keysOf(order)
    BY <1>4 DEF ResolveMiss, cached, keysOf
  <2>2. evicted[w]
    BY <1>4, <2>1 DEF ResolveMiss, Inv, WorkerOK, Warm
  <2> QED BY <1>4, <2>2, StepInv DEF ResolveMiss, Steps
<1>5. CASE ResolveLoad(w)
  <2>1. CASE LoadDoc(worker[w].key) = {}
    BY <1>5, <2>1, EndInv DEF ResolveLoad
  <2>2. CASE LoadDoc(worker[w].key) # {}
    <3>1. PICK doc \in LoadDoc(worker[w].key) :
             step(w, "resolved") /\ Cache(w, insert(worker[w].key, doc))
      BY <1>5, <2>2 DEF ResolveLoad
    <3>2. worker[w].key \in Keys
      BY <1>5 DEF Inv, WorkerOK, WorkOK, ResolveLoad
    <3>3. Faithful(worker[w].key, doc) /\ doc \in Docs
      BY <3>2, LoadIsFaithful DEF Inv
    <3> QED BY <1>5, <3>1, <3>3, MissInv DEF ResolveLoad
  <2> QED BY <2>1, <2>2
<1> QED BY <1>1, <1>2, <1>3, <1>4, <1>5

\* Every step keeps the invariant, ...
LEMMA StepKeepsInv == Inv /\ [Next]_vars => Inv'
<1> SUFFICES ASSUME Inv, [Next]_vars PROVE Inv'
  OBVIOUS
<1>1. CASE Author
  BY <1>1, AuthorInv
<1>2. ASSUME NEW w \in Workers, Request(w)
      PROVE  Inv'
  <2>1. CASE \E l \in Lobbies, p \in PackIDs : AskConfig(w, l, p)
    BY <2>1, AskConfigInv
  <2>2. CASE \E l \in Lobbies : AskStart(w, l) \/ AskView(w, l) \/ AskApply(w, l)
    BY <2>2, AskPinnedInv
  <2>3. CASE View(w) \/ Finish(w)
    BY <2>3, EndInv DEF View, Finish
  <2> QED BY <1>2, <2>1, <2>2, <2>3, GetHitInv, GetMissInv, InsertInv, ConfigureInv, StartGameInv,
          ApplyInv DEF Request
<1>3. CASE UNCHANGED vars
  <2>1. TypeOK' /\ OrderOK' /\ LobbyOK'
    BY <1>3 DEF vars, storeVars, gameVars, Inv, TypeOK, OrderOK, LobbyOK, DistinctKeys, Faithful, row,
                valid
  <2>2. WorkerOK'
    BY <1>3 DEF vars, storeVars, gameVars, Inv, WorkerOK, WorkOK, Warm, Faithful, row, valid, keysOf
  <2> QED BY <2>1, <2>2 DEF Inv
<1> QED BY <1>1, <1>2, <1>3 DEF Next

\* ... which holds always.
LEMMA InvHolds == Spec => []Inv
BY InitInv, StepKeepsInv, PTL DEF Spec

-----------------------------------------------------------------------------
(***************************************************************************)
(* A running game's pack stays the one it was set up from, whatever        *)
(* authors do and however stale the cache that Start used.                 *)
(***************************************************************************)
THEOREM PinnedHolds == Spec => []PinnedIsPlayable
<1>1. Inv => PinnedIsPlayable
  BY DEF Inv, LobbyOK, PinnedIsPlayable, Faithful, exists
<1> QED BY <1>1, InvHolds, PTL

(***************************************************************************)
(* The cache needs no invalidation, for any capacity and any races.        *)
(***************************************************************************)
THEOREM CacheHolds == Spec => []CacheIsFaithful
<1>1. Inv => CacheIsFaithful
  BY DEF Inv, OrderOK, DistinctKeys, CacheIsFaithful, Faithful, exists
<1> QED BY <1>1, InvHolds, PTL

(***************************************************************************)
(* Inside its transaction an action misses only what was evicted since its *)
(* warm-up.                                                                *)
(***************************************************************************)
THEOREM ColdHolds == Spec => []ColdOnlyByEviction
<1>1. Inv => ColdOnlyByEviction
  BY DEF Inv, WorkerOK, Warm, ColdOnlyByEviction
<1> QED BY <1>1, InvHolds, PTL

=============================================================================
