------------------------------- MODULE Friends -------------------------------
(***************************************************************************)
(* Friend requests: the table friend_requests, the requests that change it *)
(* and the views read from it.  Sending and unfriending are one statement  *)
(* each.  Answering and cancelling are two: the row is read and checked,   *)
(* and only then updated or deleted, by id and without a condition, so any *)
(* other request may run in between.                                       *)
(***************************************************************************)
EXTENDS Naturals, FiniteSets

CONSTANTS Users,        \* user ids
          MaxRequests,  \* bound: requests ever sent (ids are never reused)
          MaxCalls      \* bound: answers and cancellations under way at once

ASSUME FriendsAssumption == MaxRequests \in Nat /\ MaxCalls \in Nat

VARIABLES rows,     \* friend_requests: a set of [id, requester, addressee, status]
          nextID,   \* the id the next row gets
          calls,    \* Respond and CancelRequest calls between their check and their write
          wants     \* history: for every user, the others asked or accepted, and since
                    \* then neither withdrawn by the user nor removed by either of the two

friendVars == <<rows, nextID, calls, wants>>

Statuses == {"pending", "accepted", "declined"}
Ops      == {"accepted", "declined", "cancel"}

Pair(a, b)  == {a, b}
pairOf(r)   == Pair(r.requester, r.addressee)
between(a, b) == {r \in rows : pairOf(r) = Pair(a, b)}
byID(id)    == {r \in rows : r.id = id}

FriendsInit == /\ rows = {}
               /\ nextID = 1
               /\ calls = {}
               /\ wants = [u \in Users |-> {}]

-----------------------------------------------------------------------------
(* Two users cannot have two rows, in whatever direction: the unique index *)
(* on the canonical pair, which a declined row occupies as well.           *)
canonicalPairIsFree_Directed(a, b) ==
    \A r \in rows : ~(r.requester = a /\ r.addressee = b)
canonicalPairIsFree(a, b) == between(a, b) = {}

Send(a, b) ==
    /\ a # b
    /\ nextID <= MaxRequests
    /\ canonicalPairIsFree(a, b)
    /\ rows' = rows \cup {[id |-> nextID, requester |-> a, addressee |-> b, status |-> "pending"]}
    /\ nextID' = nextID + 1
    /\ wants' = [wants EXCEPT ![a] = @ \cup {b}]
    /\ UNCHANGED calls

(* Respond and CancelRequest up to the check of the row they read. *)
mayRespond(u, r) == r.addressee = u /\ r.status = "pending"
mayCancel(u, r) == r.requester = u /\ r.status = "pending"

Load(u, r, op) ==
    /\ Cardinality(calls) < MaxCalls
    /\ IF op = "cancel" THEN mayCancel(u, r) ELSE mayRespond(u, r)
    /\ calls' = calls \cup {[op |-> op, by |-> u, id |-> r.id, pair |-> pairOf(r)]}
    /\ wants' = IF op = "accepted" THEN [wants EXCEPT ![u] = @ \cup (pairOf(r) \ {u})] ELSE wants
    /\ UNCHANGED <<rows, nextID>>

(* The rows the write of a call reaches: the one with its id, if it is     *)
(* still there (ErrNotFound otherwise).                                    *)
reached_ByPair(call) == {r \in rows : pairOf(r) = call.pair}
reached(call) == byID(call.id)

UpdateStatus(call) ==
    /\ call \in calls
    /\ call.op # "cancel"
    /\ rows' = {IF r \in reached(call) THEN [r EXCEPT !.status = call.op] ELSE r : r \in rows}
    /\ calls' = calls \ {call}
    /\ UNCHANGED <<nextID, wants>>

Delete(call) ==
    /\ call \in calls
    /\ call.op = "cancel"
    /\ rows' = rows \ reached(call)
    /\ calls' = calls \ {call}
    /\ wants' = IF reached(call) = {} THEN wants ELSE [wants EXCEPT ![call.by] = @ \ call.pair]
    /\ UNCHANGED nextID

(* A request that never comes back from its read or write: the database   *)
(* call fails or the caller is gone.                                       *)
Abandon(call) ==
    /\ call \in calls
    /\ calls' = calls \ {call}
    /\ UNCHANGED <<rows, nextID, wants>>

(* DeleteBetween removes the row whatever its status. *)
Unfriend(a, b) ==
    /\ a # b
    /\ between(a, b) # {}
    /\ rows' = rows \ between(a, b)
    /\ wants' = [wants EXCEPT ![a] = @ \ {b}, ![b] = @ \ {a}]
    /\ UNCHANGED <<nextID, calls>>

FriendsNext == \/ \E a, b \in Users : Send(a, b) \/ Unfriend(a, b)
               \/ \E u \in Users, r \in rows, op \in Ops : Load(u, r, op)
               \/ \E call \in calls : UpdateStatus(call) \/ Delete(call) \/ Abandon(call)

FriendsSpec == FriendsInit /\ [][FriendsNext]_friendVars

-----------------------------------------------------------------------------
(* What users are shown. *)

incoming(u) == {r.requester : r \in {q \in rows : q.addressee = u /\ q.status = "pending"}}
outgoing(u) == {r.addressee : r \in {q \in rows : q.requester = u /\ q.status = "pending"}}
friendsOf(u) == UNION {pairOf(r) \ {u} : r \in {q \in rows : u \in pairOf(q) /\ q.status = "accepted"}}

(* GetRelationshipStatus on the row GetBetween happens to return. *)
kindOf(viewer, r) ==
    CASE r.status = "accepted" -> "friends"
      [] r.status = "pending" /\ r.requester = viewer -> "pending_sent"
      [] r.status = "pending" /\ r.requester # viewer -> "pending_received"
      [] OTHER -> "none"

relationships(viewer, target) ==
    IF between(viewer, target) = {} THEN {"none"}
    ELSE {kindOf(viewer, r) : r \in between(viewer, target)}

-----------------------------------------------------------------------------
(* Nobody becomes a friend without having asked or accepted, and neither   *)
(* does a removal lose to a stale answer: two users are friends only while *)
(* both want it.  An answer checked against a request that is then         *)
(* withdrawn, removed or sent anew in the other direction must not accept  *)
(* what came after it (Respond reads, then writes by id).                  *)
FriendshipIsMutual ==
    \A r \in rows : r.status = "accepted" =>
        r.addressee \in wants[r.requester] /\ r.requester \in wants[r.addressee]

(* The lists and the relationship status tell one story to both users,     *)
(* whichever row GetBetween's LIMIT 1 picks: friends see each other, and a *)
(* request sent by one is received by the other.                           *)
ViewsAgree ==
    \A a, b \in Users : a # b =>
        \A kind \in relationships(a, b) :
            /\ (kind = "friends") <=> (b \in friendsOf(a))
            /\ (kind = "friends") <=> (a \in friendsOf(b))
            /\ (kind = "pending_sent") <=> (b \in outgoing(a))
            /\ (kind = "pending_received") <=> (b \in incoming(a))
            /\ (kind = "pending_sent") <=> (a \in incoming(b))

=============================================================================
