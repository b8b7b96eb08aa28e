------------------------------- MODULE MCLobby -------------------------------
(***************************************************************************)
(* The lobby service on a small instance, watched for the first moment at  *)
(* which two requests overlap.                                             *)
(***************************************************************************)
EXTENDS Lobby

VARIABLE overlapped   \* history: two requests have been in flight together

MCInit == Init /\ overlapped = FALSE

MCNext == /\ Next
          /\ overlapped' = (overlapped \/ \E p, q \in Procs : p # q /\ req'[p] # Idle /\ req'[q] # Idle)

MCSpec == MCInit /\ [][MCNext]_<<vars, overlapped>> /\ Fairness

(***************************************************************************)
(* What the doc comments of Join and Leave promise holds as long as no two *)
(* requests have overlapped and none was cut short: an emptied lobby is    *)
(* finished, a waiting one has its host among its players, a running game  *)
(* waits for nobody who has left, and nobody is seated once it has begun.  *)
(* Each of them fails once requests overlap: they are decided on a         *)
(* snapshot and written without a condition.                               *)
(***************************************************************************)
PromisesKeptInTurn ==
  [][~overlapped' /\ faults' = 0 =>
       EmptyIsFinished' /\ HostIsSeated' /\ PlayersAreSeated' /\ SeatedWhileWaiting]_vars

=============================================================================
