--------------------------- MODULE SessionDelivery ---------------------------
(***************************************************************************)
(* Who is told of the ownership in the end.  SessionManager with a history *)
(* variable: senders that are suspended on a connection which has departed *)
(* hold on to what they read before, while the broadcasts that come after  *)
(* leave that connection out and get past them.                            *)
(***************************************************************************)
EXTENDS SessionManager

VARIABLE
  overtaken   \* a sender has been suspended on a departed connection, and not
              \* everybody has been told the present ownership since

deliveryVars == <<vars, overtaken>>

Current == Ownership(owner_operator_id, teleop_state)

\* A sender is suspended on a connection that is no participant any more.
LeftBehind == \E c \in Conns \ Members(participants) : draining[c] # <<>>

\* No sender is suspended, and every participant was told the present ownership last.
Settled ==
  /\ \A c \in Conns : draining[c] = <<>>
  /\ \A c \in Members(participants) : view[c] = Current

TrackInit == Init /\ overtaken = FALSE
TrackNext == Next /\ overtaken' = (LeftBehind' \/ (overtaken /\ ~Settled'))
TrackSpec == TrackInit /\ [][TrackNext]_deliveryVars

FairTrackSpec == TrackSpec /\ Fairness

\* A participant whose last ownership message is out of date is going to be told:
\* some suspended task will broadcast afresh, or is carrying the present ownership to
\* it.  No interleaving of suspended broadcasts leaves a client with a stale owner,
\* unless one of them was suspended on a connection that departed meanwhile: it is
\* overtaken by those after the departure, and what it still delivers stays until the
\* next broadcast.
StaleIsPending ==
  ~overtaken =>
    \A c \in Members(participants) :
      view[c] # Current =>
        \E k \in Tasks :
          \/ task[k].kind \in {"claimed", "estop"}
          \/ /\ task[k].kind = "ownership"
             /\ c \in ToSet(task[k].to)
             /\ task[k].msg = Current
=============================================================================
