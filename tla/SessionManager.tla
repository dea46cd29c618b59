--------------------------- MODULE SessionManager ---------------------------
(***************************************************************************)
(* The signaling server's view of one teleoperation session: who is        *)
(* connected, who owns the claim, the e-stop, the grace timer that frees   *)
(* the claim of an operator whose websocket dropped, and the delivery of   *)
(* the teleop.ownership broadcasts.                                        *)
(*                                                                         *)
(* The server is one asyncio thread: code between two awaits is atomic.    *)
(* The only awaits that matter are those of send(): sending to a websocket *)
(* whose client reads slowly suspends the sending task until the write     *)
(* buffer drains, and other handlers run in between.  A step below is what *)
(* one task does from one suspension to the next.                          *)
(***************************************************************************)
EXTENDS Naturals, SequencesExt

CONSTANTS
  Conns,       \* websocket connections; a reconnect is another connection
  Operators,   \* operator ids
  RoleOf,      \* the role each connection joins with
  OpOf,        \* the operator_id each connection joins with, or None
  Slow,        \* the connections whose sends may suspend the sender
  Names,       \* which operator the claims and releases of each task may name:
               \* the server compares it with nothing, so Tasks \X Operators is
               \* all the code allows; a client that names only its own operator
               \* keeps to less
  None

Roles == {"operator", "leader", "follower"}
SessionStates == {"DISCONNECTED", "CONNECTED", "READY", "CLAIMED", "ESTOPPED"}

\* The tasks that send: one handler per connection, one HTTP request at a
\* time, and the release task.
Timer == "release_task"
Http == "http"
Tasks == Conns \cup {Timer, Http}

ASSUME SessionAssumption ==
  /\ RoleOf \in [Conns -> Roles]
  /\ OpOf \in [Conns -> Operators \cup {None}]
  /\ Slow \subseteq Conns
  /\ Names \subseteq Tasks \X Operators
  /\ None \notin Operators
  /\ Timer \notin Conns /\ Http \notin Conns

VARIABLES
  participants,        \* connections that joined, in join order (a dict)
  owner_operator_id,
  estopped,
  teleop_state,
  release_task,        \* None, or the operator for whose sake a release task
                       \* sleeps (the code keeps the task, not the operator)
  task,                \* what each task has yet to send while it is suspended
  draining,            \* tasks suspended on each connection, in order: the
                       \* websocket library's drain lock is FIFO
  view                 \* the last ownership each participant was told

session == <<participants, owner_operator_id, estopped, teleop_state, release_task>>
vars == <<participants, owner_operator_id, estopped, teleop_state, release_task, task, draining, view>>

Ownerships == [owner : Operators \cup {None}, state : SessionStates]

\* A suspended task: a teleop.claimed reply or a relayed teleop.estop, each
\* followed by an ownership broadcast, or an ownership broadcast under way.
NoTask == [kind |-> "none"]
TaskStates ==
  {NoTask, [kind |-> "claimed"]}
    \cup [kind : {"estop"}, to : Seq(Conns)]
    \cup [kind : {"ownership"}, to : Seq(Conns), msg : Ownerships]

Members(ps) == ToSet(ps)
IsOperator(c, o) == RoleOf[c] = "operator" /\ OpOf[c] = o

\* Some websocket of operator o is connected.
Online(ps, o) == \E c \in Members(ps) : IsOperator(c, o)

\* Some participant has role r.
Present(ps, r) == \E c \in Members(ps) : RoleOf[c] = r

\* Variant: a claim is looked at before the e-stop.
RecomputedOwnerFirst(ps, owner, stop) ==
  IF owner # None THEN "CLAIMED"
  ELSE IF stop THEN "ESTOPPED"
  ELSE IF Present(ps, "follower") /\ Present(ps, "operator") THEN "READY"
  ELSE IF Members(ps) # {} THEN "CONNECTED"
  ELSE "DISCONNECTED"

\* _recompute_state: the coarse session state is a function of the rest.
RecomputedState(ps, owner, stop) ==
  IF stop THEN "ESTOPPED"
  ELSE IF owner # None THEN "CLAIMED"
  ELSE IF Present(ps, "follower") /\ Present(ps, "operator") THEN "READY"
  ELSE IF Members(ps) # {} THEN "CONNECTED"
  ELSE "DISCONNECTED"

\* Variant: an early return when the last participant has left.
RecomputeUnlessEmpty ==
  teleop_state' = IF participants' = <<>> THEN teleop_state
                  ELSE RecomputedState(participants', owner_operator_id', estopped')

Recompute ==
  teleop_state' = RecomputedState(participants', owner_operator_id', estopped')

Ownership(owner, state) == [owner |-> owner, state |-> state]

Init ==
  /\ participants = <<>>
  /\ owner_operator_id = None
  /\ estopped = FALSE
  /\ teleop_state = "DISCONNECTED"
  /\ release_task = None
  /\ task = [k \in Tasks |-> NoTask]
  /\ draining = [c \in Conns |-> <<>>]
  /\ view = [c \in Conns |-> Ownership(None, "DISCONNECTED")]

-----------------------------------------------------------------------------
(* Sending.  d is the draining queues as the sender finds them.            *)

\* A connection that has departed may be closed, so that a send to it fails at once,
\* or still open and as slow as before: its handler may have ended by a send to
\* somebody else.  Which one is left open.

\* Nobody is suspended on the first n recipients of to, or they are closed, so a sender
\* gets past them; it may still be suspended on the next one if that one is slow.
Clear(to, n, d) == \A i \in 1..n : to[i] \in Members(participants') => d[to[i]] = <<>>

\* The participants among cs are told msg; a newcomer's session.joined has told
\* it the same already.
Newcomers == Members(participants') \ Members(participants)
Delivered(cs, msg) ==
  view' = [c \in Conns |-> IF c \in (cs \cup Newcomers) \cap Members(participants')
                           THEN msg ELSE view[c]]

\* Of the tasks t, task k is suspended on c with r still to do, or ends.
Suspend(k, c, r, t, d) ==
  /\ c \in Slow
  /\ task' = [t EXCEPT ![k] = r]
  /\ draining' = [d EXCEPT ![c] = Append(@, k)]

Finish(k, t, d) ==
  /\ task' = [t EXCEPT ![k] = NoTask]
  /\ draining' = d

\* broadcast of an ownership message, built before the first send.
SendOwnership(k, to, msg, t, d) ==
  \/ \E n \in 1..Len(to) :
       /\ Clear(to, n - 1, d)
       /\ Suspend(k, to[n], [kind |-> "ownership", to |-> SubSeq(to, n + 1, Len(to)), msg |-> msg], t, d)
       /\ Delivered({to[i] : i \in 1..n}, msg)
  \/ /\ Clear(to, Len(to), d)
     /\ Finish(k, t, d)
     /\ Delivered(ToSet(to), msg)

\* broadcast_ownership: a snapshot of the session, to a snapshot of the members.
BroadcastOwnership(k, t, d) ==
  SendOwnership(k, participants', Ownership(owner_operator_id', teleop_state'), t, d)

\* Variant: the relay of a teleop.estop is not followed by an ownership broadcast.
SendEstopAlone(k, to, t, d) ==
  \/ \E n \in 1..Len(to) :
       /\ Clear(to, n - 1, d)
       /\ Suspend(k, to[n], [kind |-> "estop", to |-> SubSeq(to, n + 1, Len(to))], t, d)
       /\ UNCHANGED view
  \/ Clear(to, Len(to), d) /\ Finish(k, t, d) /\ UNCHANGED view

\* handle_message relays a teleop.estop to the recipients to, then broadcasts
\* the ownership as it is by then.
SendEstop(k, to, t, d) ==
  \/ \E n \in 1..Len(to) :
       /\ Clear(to, n - 1, d)
       /\ Suspend(k, to[n], [kind |-> "estop", to |-> SubSeq(to, n + 1, Len(to))], t, d)
       /\ UNCHANGED view
  \/ Clear(to, Len(to), d) /\ BroadcastOwnership(k, t, d)

\* teleop.claimed goes to the claimant alone, before the broadcast.
SendClaimed(c, t, d) ==
  \/ Suspend(c, c, [kind |-> "claimed"], t, d) /\ UNCHANGED view
  \/ d[c] = <<>> /\ BroadcastOwnership(c, t, d)

\* Variant: a sleeping release task is left to fire.
LeaveGraceRunning == UNCHANGED release_task

\* _cancel_release_timer: a release task that sleeps never fires ...
CancelGrace == release_task' = None

\* Variant: the cancelled task's slot is deleted.
TasksWithTimerDeleted == [k \in Tasks \ {Timer} |-> task[k]]

\* Variant: a release task past its sleep is not cancelled.
TasksWithTimer == task

\* ... and one that is broadcasting leaves the queue it is suspended in.
Position(s, k) == CHOOSE i \in DOMAIN s : s[i] = k
TasksWithoutTimer == [task EXCEPT ![Timer] = NoTask]
QueuesWithoutTimer ==
  [c \in Conns |-> IF Timer \in ToSet(draining[c])
                   THEN RemoveAt(draining[c], Position(draining[c], Timer)) ELSE draining[c]]

-----------------------------------------------------------------------------
(* The handlers                                                            *)

\* c's handler waits for the next message of its websocket.
Listening(c) == c \in Members(participants) /\ task[c] = NoTask

\* Variant: any operator's websocket passes for the owner's.
AnOperatorsConn(c) == owner_operator_id # None /\ RoleOf[c] = "operator"

\* Connection c is one of the owner's websockets.
OwnersConn(c) == owner_operator_id # None /\ IsOperator(c, owner_operator_id)

\* A new connection joins: a websocket is fresh, so no suspended task has it
\* among its recipients.  The owner's return stops the grace timer.
Join(c) ==
  /\ c \notin Members(participants)
  /\ draining[c] = <<>>
  /\ \A k \in Tasks : task[k].kind \in {"estop", "ownership"} => c \notin ToSet(task[k].to)
  /\ task[c] = NoTask
  /\ participants' = Append(participants, c)
  /\ release_task' = IF OwnersConn(c) THEN None ELSE release_task
  /\ UNCHANGED <<owner_operator_id, estopped>>
  /\ Recompute
  /\ BroadcastOwnership(c, task, draining)

\* leave(): the departure of one of the owner's websockets starts the grace
\* timer anew, whether or not another one remains.  Its handler then broadcasts.
Depart(c, t, d) ==
  /\ \E i \in DOMAIN participants :
       participants[i] = c /\ participants' = RemoveAt(participants, i)
  /\ release_task' = IF OwnersConn(c) THEN owner_operator_id ELSE release_task
  /\ UNCHANGED <<owner_operator_id, estopped>>
  /\ Recompute
  /\ BroadcastOwnership(c, t, d)

\* c's handler ends by an exception: its websocket is lost, or it fails to send, a reply
\* to c or a WebRTC message of c to a target whose websocket is lost.  In the last
\* case c itself is alive.  Either way others may still be suspended on c: the
\* departure is broadcast before they go on.
Leave(c) ==
  /\ Listening(c)
  /\ Depart(c, task, draining)

\* Variant: the check for another owner is dropped.
GrantedOverOwner(o) == ~estopped

\* claim(): refused while e-stopped or owned by another (a refusal changes no
\* state and is not broadcast).
Granted(o) == ~estopped /\ owner_operator_id \in {None, o}

TakeClaim(o) ==
  /\ Granted(o)
  /\ CancelGrace
  /\ owner_operator_id' = o
  /\ UNCHANGED <<participants, estopped>>
  /\ Recompute

\* release(): refused unless o is the owner.
DropClaim(o) ==
  /\ owner_operator_id = o
  /\ CancelGrace
  /\ owner_operator_id' = None
  /\ UNCHANGED <<participants, estopped>>
  /\ Recompute

Claim(c, o) ==
  /\ Listening(c)
  /\ <<c, o>> \in Names
  /\ TakeClaim(o)
  /\ SendClaimed(c, TasksWithoutTimer, QueuesWithoutTimer)

Release(c, o) ==
  /\ Listening(c)
  /\ <<c, o>> \in Names
  /\ DropClaim(o)
  /\ BroadcastOwnership(c, TasksWithoutTimer, QueuesWithoutTimer)

HttpClaim(o) ==
  /\ <<Http, o>> \in Names
  /\ task[Http] = NoTask
  /\ TakeClaim(o)
  /\ BroadcastOwnership(Http, TasksWithoutTimer, QueuesWithoutTimer)

HttpRelease(o) ==
  /\ <<Http, o>> \in Names
  /\ task[Http] = NoTask
  /\ DropClaim(o)
  /\ BroadcastOwnership(Http, TasksWithoutTimer, QueuesWithoutTimer)

\* set_estop: reset is looked at first.
EstoppedAfter(engaged, reset) ==
  \/ ~reset /\ engaged
  \/ ~reset /\ ~engaged /\ estopped

Estop(c, engaged, reset) ==
  /\ Listening(c)
  /\ estopped' = EstoppedAfter(engaged, reset)
  /\ UNCHANGED <<participants, owner_operator_id, release_task>>
  /\ Recompute
  /\ SendEstop(c, participants, task, draining)

\* Variant: any operator's websocket keeps the owner's claim alive.
AnyoneStillConnected == Present(participants, "operator")

\* Variant: so does any participant, the follower gateway included.
SomeoneStillConnected == participants # <<>>

StillConnected == Online(participants, owner_operator_id)

\* _release_later wakes from its sleep: the claim is freed unless a websocket
\* of the owner is connected.
ReleaseLater ==
  /\ release_task # None
  /\ release_task' = None
  /\ UNCHANGED <<participants, estopped>>
  /\ IF owner_operator_id # None /\ ~StillConnected
     THEN /\ owner_operator_id' = None
          /\ Recompute
          /\ BroadcastOwnership(Timer, task, draining)
     ELSE UNCHANGED <<owner_operator_id, teleop_state, task, draining, view>>

-----------------------------------------------------------------------------
(* Resumption: the buffer of c has drained, or c is gone and the send fails *)
(* (broadcast catches that), and the first task suspended on c goes on.     *)

Undrained(c) == [draining EXCEPT ![c] = Tail(@)]

Resume(c) ==
  /\ draining[c] # <<>>
  /\ UNCHANGED session
  /\ LET k == Head(draining[c])
         t == task[k]
     IN \/ t.kind = "claimed" /\ BroadcastOwnership(k, task, Undrained(c))
        \/ t.kind = "estop" /\ SendEstop(k, t.to, task, Undrained(c))
        \/ t.kind = "ownership" /\ SendOwnership(k, t.to, t.msg, task, Undrained(c))

\* A failed teleop.claimed reply is not caught: the claimant's handler ends and
\* its connection leaves, with the claim granted.
ReplyFails(c) ==
  /\ draining[c] # <<>>
  /\ Head(draining[c]) = c
  /\ task[c].kind = "claimed"
  /\ Depart(c, task, Undrained(c))

-----------------------------------------------------------------------------
Next ==
  \/ \E c \in Conns : Join(c) \/ Leave(c) \/ Resume(c) \/ ReplyFails(c)
  \/ \E c \in Conns, o \in Operators : Claim(c, o) \/ Release(c, o)
  \/ \E c \in Conns, engaged, reset \in BOOLEAN : Estop(c, engaged, reset)
  \/ \E o \in Operators : HttpClaim(o) \/ HttpRelease(o)
  \/ ReleaseLater

Spec == Init /\ [][Next]_vars

\* asyncio runs every ready task: a sleep ends and a drained buffer wakes its
\* sender.  Nothing obliges a client to act.
Fairness == WF_vars(ReleaseLater) /\ \A c \in Conns : WF_vars(Resume(c))

FairSpec == Spec /\ Fairness

-----------------------------------------------------------------------------
(* Properties                                                              *)

\* Every variable has its type.
TypeOK ==
  /\ participants \in Seq(Conns)
  /\ owner_operator_id \in Operators \cup {None}
  /\ estopped \in BOOLEAN
  /\ teleop_state \in SessionStates
  /\ release_task \in Operators \cup {None}
  /\ task \in [Tasks -> TaskStates]
  /\ draining \in [Conns -> Seq(Tasks)]
  /\ view \in [Conns -> Ownerships]

\* The stored teleop_state, which clients are told and a follower gateway adopts
\* when it joins, is never out of date with the members, the claim and the e-stop:
\* every operation that changes one of them recomputes it.
StateIsCurrent ==
  teleop_state = RecomputedState(participants, owner_operator_id, estopped)

\* A sleeping release task was started by the departure of the present owner, so a
\* timer left over from one operator's claim can never free the claim of another.
GraceIsOwners == release_task # None => release_task = owner_operator_id

\* A release task that is still broadcasting "nobody owns the session" has been
\* cancelled by the time somebody does.
ReleaseBroadcastIsTrue == task[Timer] # NoTask => owner_operator_id = None

\* An owner none of whose websockets is connected is in the grace period: a task
\* is pending that will free the claim (config.py: the claim survives the websocket
\* for a limited time).
OfflineOwnerHasTimer ==
  owner_operator_id # None /\ ~Online(participants, owner_operator_id)
    => release_task = owner_operator_id

\* The server implements the abstract claim: it never passes from one operator to
\* another directly and is never acquired during an e-stop.
Abstract == INSTANCE Ownership WITH owner <- owner_operator_id, stopped <- estopped
ImplementsOwnership == Abstract!Spec

\* An owner who stays away loses the claim.
AwayOwnerIsReleased ==
  \A o \in Operators :
    (owner_operator_id = o /\ ~Online(participants, o))
      ~> (owner_operator_id # o \/ Online(participants, o))

\* A grace period ends: the operator whose websocket closed is back, or the claim is
\* free (config.py: TELEOP_CLAIM_TIMEOUT_S is how long a claim survives after the
\* operator's websocket disconnects, before it is automatically released).
GraceEnds ==
  \A o \in Operators :
    release_task = o ~> (owner_operator_id # o \/ Online(participants, o))
=============================================================================
