------------------------ MODULE SessionManagerProofs ------------------------
(* Proofs about the signaling server's session, for every value of the      *)
(* constants.                                                               *)
EXTENDS SessionDelivery, TLAPS, SequenceTheorems, SequenceLemmas

-----------------------------------------------------------------------------
(* The session's own state.  Its invariants depend on what the handlers do  *)
(* to it before they send, so the sending operators stay unexpanded.        *)

SessionTypeOK ==
  /\ participants \in Seq(Conns)
  /\ owner_operator_id \in Operators \cup {None}
  /\ estopped \in BOOLEAN
  /\ teleop_state \in SessionStates
  /\ release_task \in Operators \cup {None}

LEMMA RecomputedStateType ==
  ASSUME NEW ps, NEW owner, NEW stop \in BOOLEAN
  PROVE  RecomputedState(ps, owner, stop) \in SessionStates
  BY DEF RecomputedState, SessionStates

\* StateIsCurrent is inductive with the types, and so is GraceIsOwners.
SessionInv == SessionTypeOK /\ StateIsCurrent /\ GraceIsOwners

LEMMA SessionInit == Init => SessionInv
<1> SUFFICES ASSUME Init PROVE SessionInv
  OBVIOUS
<1>1. participants \in Seq(Conns) /\ Members(participants) = {}
  BY ToSetOfEmpty, EmptySeq DEF Init, Members
<1>2. RecomputedState(participants, None, FALSE) = "DISCONNECTED"
  BY <1>1 DEF RecomputedState, Present
<1> QED BY <1>1, <1>2 DEF Init, SessionInv, SessionTypeOK, StateIsCurrent, GraceIsOwners, SessionStates

LEMMA SessionStep ==
  ASSUME SessionInv, [Next]_vars
  PROVE  SessionInv'
<1> USE SessionAssumption DEF SessionInv, SessionTypeOK, StateIsCurrent, GraceIsOwners
<1>1. ASSUME NEW c \in Conns, Join(c) PROVE SessionInv'
  BY <1>1, RecomputedStateType, AppendProperties DEF Join, Recompute, OwnersConn
<1>2. ASSUME NEW c \in Conns, NEW t, NEW d, Depart(c, t, d) PROVE SessionInv'
  <2>1. participants' \in Seq(Conns)
    BY <1>2, RemoveAtType, LenProperties DEF Depart
  <2> QED BY <1>2, <2>1, RecomputedStateType DEF Depart, Recompute, OwnersConn
<1>3. ASSUME NEW o \in Operators, TakeClaim(o) PROVE SessionInv'
  BY <1>3, RecomputedStateType DEF TakeClaim, CancelGrace, Recompute
<1>4. ASSUME NEW o \in Operators, DropClaim(o) PROVE SessionInv'
  BY <1>4, RecomputedStateType DEF DropClaim, CancelGrace, Recompute
<1>5. ASSUME NEW c \in Conns, NEW e \in BOOLEAN, NEW r \in BOOLEAN, Estop(c, e, r) PROVE SessionInv'
  BY <1>5, RecomputedStateType DEF Estop, EstoppedAfter, Recompute
<1>6. CASE ReleaseLater
  BY <1>6, RecomputedStateType DEF ReleaseLater, Recompute
<1>7. ASSUME UNCHANGED session PROVE SessionInv'
  BY <1>7 DEF session
<1> QED
  BY <1>1, <1>2, <1>3, <1>4, <1>5, <1>6, <1>7
  DEF Next, Leave, Claim, Release, HttpClaim, HttpRelease, Resume, ReplyFails, vars, session

\* teleop_state is what _recompute_state would compute, in every reachable state.
THEOREM StateAlwaysCurrent == Spec => []StateIsCurrent
<1>1. SessionInv => StateIsCurrent
  BY DEF SessionInv
<1> QED BY SessionInit, SessionStep, <1>1, PTL DEF Spec

\* A sleeping release task belongs to the present owner's departure.
THEOREM GraceAlwaysOwners == Spec => []GraceIsOwners
<1>1. SessionInv => GraceIsOwners
  BY DEF SessionInv
<1> QED BY SessionInit, SessionStep, <1>1, PTL DEF Spec

-----------------------------------------------------------------------------
(* Refinement: every step of the server is a step of the abstract claim or  *)
(* leaves it alone.                                                         *)

LEMMA OwnershipStep ==
  ASSUME SessionInv, [Next]_vars
  PROVE  [Abstract!Next]_(Abstract!vars)
<1> USE DEF SessionInv, SessionTypeOK, Abstract!Next, Abstract!vars
<1>1. ASSUME NEW o \in Operators, TakeClaim(o) PROVE [Abstract!Next]_(Abstract!vars)
  BY <1>1 DEF TakeClaim, Granted, Abstract!Claim
<1>2. ASSUME NEW o \in Operators, DropClaim(o) PROVE [Abstract!Next]_(Abstract!vars)
  BY <1>2 DEF DropClaim, Abstract!GiveUp
<1>3. CASE ReleaseLater
  BY <1>3 DEF ReleaseLater, Abstract!GiveUp
<1>4. ASSUME NEW c \in Conns, NEW e \in BOOLEAN, NEW r \in BOOLEAN, Estop(c, e, r)
      PROVE [Abstract!Next]_(Abstract!vars)
  BY <1>4 DEF Estop, EstoppedAfter, Abstract!SetStop
<1>5. ASSUME UNCHANGED <<owner_operator_id, estopped>> PROVE [Abstract!Next]_(Abstract!vars)
  BY <1>5
<1> QED
  BY <1>1, <1>2, <1>3, <1>4, <1>5
  DEF Next, Join, Leave, Claim, Release, HttpClaim, HttpRelease, Resume, ReplyFails, Depart, vars, session

\* The signaling server implements the abstract claim: one owner at a time, no
\* transfer but through nobody, no acquisition under the e-stop.
THEOREM ServerImplementsOwnership == Spec => ImplementsOwnership
<1>1. Init => Abstract!Init
  BY DEF Init, Abstract!Init
<1> QED BY <1>1, SessionInit, SessionStep, OwnershipStep, PTL DEF Spec, ImplementsOwnership, Abstract!Spec

-----------------------------------------------------------------------------
(* The grace period, when messages name the operator of their own websocket *)

\* What the operator UI keeps to: a claim or release arrives on a websocket that
\* joined as the operator it names.
NamesAreOwn == \A p \in Names : p[1] \in Conns /\ IsOperator(p[1], p[2])

LEMMA OfflineStep ==
  ASSUME NamesAreOwn, SessionInv, OfflineOwnerHasTimer, [Next]_vars
  PROVE  OfflineOwnerHasTimer'
<1> USE SessionAssumption DEF SessionInv, SessionTypeOK, OfflineOwnerHasTimer
<1>1. ASSUME NEW c \in Conns, Join(c) PROVE OfflineOwnerHasTimer'
  <2>1. Members(participants') = Members(participants) \cup {c}
    BY <1>1, ToSetOfAppend DEF Join, Members
  <2>2. owner_operator_id' = owner_operator_id
    BY <1>1 DEF Join
  <2>3. CASE OwnersConn(c)
    BY <2>1, <2>2, <2>3 DEF OwnersConn, Online
  <2>4. CASE ~OwnersConn(c)
    BY <1>1, <2>1, <2>2, <2>4 DEF Join, Online
  <2> QED BY <2>3, <2>4
<1>2. ASSUME NEW c \in Conns, NEW t, NEW d, Depart(c, t, d) PROVE OfflineOwnerHasTimer'
  <2>1. owner_operator_id' = owner_operator_id
    BY <1>2 DEF Depart
  <2>2. \A x \in Members(participants) : x # c => x \in Members(participants')
    BY <1>2, ToSetOfRemoveAt, LenProperties DEF Depart, Members
  <2>3. CASE OwnersConn(c)
    BY <1>2, <2>1, <2>3 DEF Depart
  <2>4. CASE ~OwnersConn(c)
    <3>1. owner_operator_id # None /\ Online(participants, owner_operator_id)
            => Online(participants', owner_operator_id)
      BY <2>2, <2>4 DEF Online, OwnersConn
    <3> QED BY <1>2, <2>1, <2>4, <3>1 DEF Depart
  <2> QED BY <2>3, <2>4
<1>3. ASSUME NEW c \in Conns, NEW o \in Operators, Claim(c, o) PROVE OfflineOwnerHasTimer'
  <2>1. c \in Members(participants) /\ IsOperator(c, o)
    BY <1>3 DEF Claim, Listening, NamesAreOwn
  <2>2. participants' = participants /\ owner_operator_id' = o
    BY <1>3 DEF Claim, TakeClaim
  <2> QED BY <2>1, <2>2 DEF Online
<1>4. ASSUME NEW o \in Operators, DropClaim(o) PROVE OfflineOwnerHasTimer'
  BY <1>4 DEF DropClaim
<1>5. ASSUME NEW c \in Conns, NEW e \in BOOLEAN, NEW r \in BOOLEAN, Estop(c, e, r)
      PROVE OfflineOwnerHasTimer'
  BY <1>5 DEF Estop, Online
<1>6. CASE ReleaseLater
  <2>1. participants' = participants
    BY <1>6 DEF ReleaseLater
  <2>2. owner_operator_id' = None \/ (owner_operator_id' = owner_operator_id
                                      /\ (owner_operator_id = None \/ StillConnected))
    BY <1>6 DEF ReleaseLater
  <2> QED BY <2>1, <2>2 DEF StillConnected
<1>7. ASSUME UNCHANGED session PROVE OfflineOwnerHasTimer'
  BY <1>7 DEF session, Online
<1>8. ASSUME NEW o \in Operators PROVE ~HttpClaim(o)
  BY DEF HttpClaim, NamesAreOwn
<1> QED
  BY <1>1, <1>2, <1>3, <1>4, <1>5, <1>6, <1>7, <1>8
  DEF Next, Leave, Release, HttpRelease, Resume, ReplyFails, vars, session

\* When claims arrive on the claimant's own websocket, an owner with no websocket is
\* always in the grace period: no interleaving of reconnects, second tabs, claims and
\* releases loses the pending release of the claim.
THEOREM OfflineOwnerAlwaysHasTimer ==
  ASSUME NamesAreOwn
  PROVE  Spec => []OfflineOwnerHasTimer
<1>1. Init => OfflineOwnerHasTimer
  BY DEF Init, OfflineOwnerHasTimer
<1>2. SessionInv /\ OfflineOwnerHasTimer /\ [Next]_vars => OfflineOwnerHasTimer'
  BY OfflineStep
<1> QED BY <1>1, <1>2, SessionInit, SessionStep, PTL DEF Spec

-----------------------------------------------------------------------------
(* Delivery: the types of the suspended tasks, and what a send may touch.   *)

DeliveryTypeOK ==
  /\ task \in [Tasks -> TaskStates]
  /\ draining \in [Conns -> Seq(Tasks)]
  /\ view \in [Conns -> Ownerships]

\* The fields a suspended task has, by its kind.
LEMMA TaskFields ==
  ASSUME NEW r \in TaskStates
  PROVE  /\ r.kind = "estop" => r.to \in Seq(Conns)
         /\ r.kind = "ownership" => r.to \in Seq(Conns) /\ r.msg \in Ownerships
<1>1. CASE r \in {NoTask, [kind |-> "claimed"]}
  <2>1. r.kind \in {"none", "claimed"}
    BY <1>1 DEF NoTask
  <2> QED BY <2>1
<1>2. CASE r \in [kind : {"estop"}, to : Seq(Conns)]
  BY <1>2
<1>3. CASE r \in [kind : {"ownership"}, to : Seq(Conns), msg : Ownerships]
  BY <1>3
<1> QED BY <1>1, <1>2, <1>3 DEF TaskStates

LEMMA TypeOKParts == TypeOK <=> SessionTypeOK /\ DeliveryTypeOK
  BY DEF TypeOK, SessionTypeOK, DeliveryTypeOK

\* Suspending and finishing keep the types and touch the sender's entry only.
LEMMA SuspendType ==
  ASSUME NEW k \in Tasks, NEW c \in Conns, NEW r \in TaskStates,
         NEW t \in [Tasks -> TaskStates], NEW d \in [Conns -> Seq(Tasks)],
         Suspend(k, c, r, t, d)
  PROVE  /\ task' \in [Tasks -> TaskStates]
         /\ draining' \in [Conns -> Seq(Tasks)]
         /\ \A x \in Tasks \ {k} : task'[x] = t[x]
<1>1. Append(d[c], k) \in Seq(Tasks)
  BY AppendProperties
<1> QED BY <1>1 DEF Suspend

LEMMA FinishType ==
  ASSUME NEW k \in Tasks, NEW t \in [Tasks -> TaskStates], NEW d \in [Conns -> Seq(Tasks)],
         Finish(k, t, d)
  PROVE  /\ task' \in [Tasks -> TaskStates]
         /\ draining' \in [Conns -> Seq(Tasks)]
         /\ \A x \in Tasks \ {k} : task'[x] = t[x]
  BY DEF Finish, TaskStates

\* What every sending operator keeps.
SendKeeps(k, t) ==
  /\ task' \in [Tasks -> TaskStates]
  /\ draining' \in [Conns -> Seq(Tasks)]
  /\ view' \in [Conns -> Ownerships]
  /\ \A x \in Tasks \ {k} : task'[x] = t[x]

LEMMA SendOwnershipKeeps ==
  ASSUME NEW k \in Tasks, NEW to \in Seq(Conns), NEW msg \in Ownerships,
         NEW t \in [Tasks -> TaskStates], NEW d \in [Conns -> Seq(Tasks)],
         view \in [Conns -> Ownerships],
         SendOwnership(k, to, msg, t, d)
  PROVE  SendKeeps(k, t)
<1>1. ASSUME NEW cs, Delivered(cs, msg) PROVE view' \in [Conns -> Ownerships]
  BY <1>1 DEF Delivered
<1>2. ASSUME NEW n \in 1..Len(to),
             Suspend(k, to[n], [kind |-> "ownership", to |-> SubSeq(to, n + 1, Len(to)), msg |-> msg], t, d),
             Delivered({to[i] : i \in 1..n}, msg)
      PROVE  SendKeeps(k, t)
  <2>1. Len(to) \in Nat /\ to[n] \in Conns
    BY LenProperties, ElementOfSeq
  <2>2. SubSeq(to, n + 1, Len(to)) \in Seq(Conns)
    BY <2>1, SubSeqProperties
  <2>3. [kind |-> "ownership", to |-> SubSeq(to, n + 1, Len(to)), msg |-> msg] \in TaskStates
    BY <2>2 DEF TaskStates
  <2> DEFINE r == [kind |-> "ownership", to |-> SubSeq(to, n + 1, Len(to)), msg |-> msg]
  <2>4. Suspend(k, to[n], r, t, d) /\ r \in TaskStates
    BY <1>2, <2>3
  <2> HIDE DEF r
  <2>5. /\ task' \in [Tasks -> TaskStates] /\ draining' \in [Conns -> Seq(Tasks)]
        /\ \A x \in Tasks \ {k} : task'[x] = t[x]
    BY <2>1, <2>4, SuspendType
  <2> QED BY <1>1, <1>2, <2>5 DEF SendKeeps
<1>3. ASSUME Finish(k, t, d), Delivered(ToSet(to), msg) PROVE SendKeeps(k, t)
  BY <1>1, <1>3, FinishType DEF SendKeeps
<1> QED BY <1>2, <1>3 DEF SendOwnership

LEMMA BroadcastOwnershipKeeps ==
  ASSUME NEW k \in Tasks, SessionTypeOK',
         NEW t \in [Tasks -> TaskStates], NEW d \in [Conns -> Seq(Tasks)],
         view \in [Conns -> Ownerships],
         BroadcastOwnership(k, t, d)
  PROVE  SendKeeps(k, t)
<1>1. Ownership(owner_operator_id', teleop_state') \in Ownerships
  BY DEF SessionTypeOK, Ownership, Ownerships
<1> QED BY <1>1, SendOwnershipKeeps DEF BroadcastOwnership, SessionTypeOK

LEMMA SendEstopKeeps ==
  ASSUME NEW k \in Tasks, NEW to \in Seq(Conns), SessionTypeOK',
         NEW t \in [Tasks -> TaskStates], NEW d \in [Conns -> Seq(Tasks)],
         view \in [Conns -> Ownerships],
         SendEstop(k, to, t, d)
  PROVE  SendKeeps(k, t)
<1>1. ASSUME NEW n \in 1..Len(to),
             Suspend(k, to[n], [kind |-> "estop", to |-> SubSeq(to, n + 1, Len(to))], t, d),
             UNCHANGED view
      PROVE  SendKeeps(k, t)
  <2>1. Len(to) \in Nat /\ to[n] \in Conns
    BY LenProperties, ElementOfSeq
  <2>2. SubSeq(to, n + 1, Len(to)) \in Seq(Conns)
    BY <2>1, SubSeqProperties
  <2>3. [kind |-> "estop", to |-> SubSeq(to, n + 1, Len(to))] \in TaskStates
    BY <2>2 DEF TaskStates
  <2> DEFINE r == [kind |-> "estop", to |-> SubSeq(to, n + 1, Len(to))]
  <2>4. Suspend(k, to[n], r, t, d) /\ r \in TaskStates
    BY <1>1, <2>3
  <2> HIDE DEF r
  <2>5. /\ task' \in [Tasks -> TaskStates] /\ draining' \in [Conns -> Seq(Tasks)]
        /\ \A x \in Tasks \ {k} : task'[x] = t[x]
    BY <2>1, <2>4, SuspendType
  <2> QED BY <1>1, <2>5 DEF SendKeeps
<1>2. ASSUME BroadcastOwnership(k, t, d) PROVE SendKeeps(k, t)
  BY <1>2, BroadcastOwnershipKeeps
<1> QED BY <1>1, <1>2 DEF SendEstop

LEMMA SendClaimedKeeps ==
  ASSUME NEW c \in Conns, SessionTypeOK',
         NEW t \in [Tasks -> TaskStates], NEW d \in [Conns -> Seq(Tasks)],
         view \in [Conns -> Ownerships],
         SendClaimed(c, t, d)
  PROVE  SendKeeps(c, t)
<1>1. c \in Tasks /\ [kind |-> "claimed"] \in TaskStates
  BY DEF Tasks, TaskStates
<1>2. ASSUME Suspend(c, c, [kind |-> "claimed"], t, d), UNCHANGED view PROVE SendKeeps(c, t)
  BY <1>1, <1>2, SuspendType DEF SendKeeps
<1>3. ASSUME BroadcastOwnership(c, t, d) PROVE SendKeeps(c, t)
  BY <1>1, <1>3, BroadcastOwnershipKeeps
<1> QED BY <1>2, <1>3 DEF SendClaimed

\* Cancelling the release task and waking the first sender keep the types.
LEMMA CancelTypes ==
  ASSUME DeliveryTypeOK
  PROVE  /\ TasksWithoutTimer \in [Tasks -> TaskStates]
         /\ TasksWithoutTimer[Timer] = NoTask
         /\ QueuesWithoutTimer \in [Conns -> Seq(Tasks)]
<1>1. NoTask \in TaskStates /\ Timer \in Tasks
  BY DEF TaskStates, Tasks
<1>2. ASSUME NEW c \in Conns, Timer \in ToSet(draining[c])
      PROVE  RemoveAt(draining[c], Position(draining[c], Timer)) \in Seq(Tasks)
  <2>1. draining[c] \in Seq(Tasks) /\ DOMAIN draining[c] = 1..Len(draining[c])
    BY LenProperties DEF DeliveryTypeOK
  <2>2. Position(draining[c], Timer) \in 1..Len(draining[c])
    BY <1>2, <2>1 DEF Position, ToSet
  <2> QED BY <2>1, <2>2, RemoveAtType
<1> QED BY <1>1, <1>2 DEF DeliveryTypeOK, TasksWithoutTimer, QueuesWithoutTimer

LEMMA UndrainedType ==
  ASSUME DeliveryTypeOK, NEW c \in Conns, draining[c] # <<>>
  PROVE  Head(draining[c]) \in Tasks /\ Undrained(c) \in [Conns -> Seq(Tasks)]
  BY HeadTailProperties DEF DeliveryTypeOK, Undrained

-----------------------------------------------------------------------------
(* The types of everything, and the release broadcast.                      *)

DeliveryInv == SessionInv /\ DeliveryTypeOK /\ ReleaseBroadcastIsTrue

LEMMA DeliveryInit == Init => DeliveryInv
<1> SUFFICES ASSUME Init PROVE DeliveryInv
  OBVIOUS
<1>1. NoTask \in TaskStates /\ Timer \in Tasks
  BY DEF TaskStates, Tasks
<1>2. Ownership(None, "DISCONNECTED") \in Ownerships
  BY DEF Ownership, Ownerships, SessionStates
<1>3. <<>> \in Seq(Tasks)
  BY EmptySeq
<1> QED BY SessionInit, <1>1, <1>2, <1>3 DEF Init, DeliveryInv, DeliveryTypeOK, ReleaseBroadcastIsTrue

\* After a send by k that started from the tasks t, the release task is idle if it
\* was idle in t, or nobody owns the session.
LEMMA BroadcastStaysTrue ==
  ASSUME NEW k \in Tasks, NEW t, SendKeeps(k, t),
         owner_operator_id' # None => k # Timer /\ t[Timer] = NoTask
  PROVE  DeliveryTypeOK' /\ ReleaseBroadcastIsTrue'
<1>1. Timer \in Tasks
  BY DEF Tasks
<1> QED BY <1>1 DEF SendKeeps, DeliveryTypeOK, ReleaseBroadcastIsTrue

LEMMA DeliveryStep ==
  ASSUME DeliveryInv, [Next]_vars
  PROVE  DeliveryInv'
<1> USE DEF DeliveryInv
<1>1. SessionInv' /\ SessionTypeOK'
  BY SessionStep DEF SessionInv
<1>2. /\ task \in [Tasks -> TaskStates]
      /\ draining \in [Conns -> Seq(Tasks)]
      /\ view \in [Conns -> Ownerships]
      /\ participants \in Seq(Conns)
  BY DEF DeliveryTypeOK, SessionInv, SessionTypeOK
<1>3. \A c \in Conns : c \in Tasks /\ c # Timer
  BY SessionAssumption DEF Tasks
<1>4. Timer \in Tasks /\ Http \in Tasks /\ Http # Timer
  BY DEF Tasks, Http, Timer
<1>5. owner_operator_id # None => task[Timer] = NoTask
  BY DEF ReleaseBroadcastIsTrue
<1>6. /\ TasksWithoutTimer \in [Tasks -> TaskStates]
      /\ TasksWithoutTimer[Timer] = NoTask
      /\ QueuesWithoutTimer \in [Conns -> Seq(Tasks)]
  BY CancelTypes
<1>7. ASSUME NEW c \in Conns, Join(c) PROVE DeliveryInv'
  <2>1. BroadcastOwnership(c, task, draining) /\ owner_operator_id' = owner_operator_id
    BY <1>7 DEF Join
  <2>2. SendKeeps(c, task)
    BY <2>1, <1>1, <1>2, <1>3, BroadcastOwnershipKeeps
  <2> QED BY <2>1, <2>2, <1>1, <1>3, <1>5, BroadcastStaysTrue
<1>8. ASSUME NEW c \in Conns, NEW d \in [Conns -> Seq(Tasks)], Depart(c, task, d) PROVE DeliveryInv'
  <2>1. BroadcastOwnership(c, task, d) /\ owner_operator_id' = owner_operator_id
    BY <1>8 DEF Depart
  <2>2. SendKeeps(c, task)
    BY <2>1, <1>1, <1>2, <1>3, BroadcastOwnershipKeeps
  <2> QED BY <2>1, <2>2, <1>1, <1>3, <1>5, BroadcastStaysTrue
<1>9. ASSUME NEW c \in Conns, NEW o \in Operators, Claim(c, o) PROVE DeliveryInv'
  <2>1. SendKeeps(c, TasksWithoutTimer)
    BY <1>9, <1>1, <1>2, <1>6, SendClaimedKeeps DEF Claim
  <2> QED BY <2>1, <1>1, <1>3, <1>6, BroadcastStaysTrue
<1>10. ASSUME NEW k \in Tasks, k # Timer, BroadcastOwnership(k, TasksWithoutTimer, QueuesWithoutTimer)
       PROVE DeliveryInv'
  <2>1. SendKeeps(k, TasksWithoutTimer)
    BY <1>10, <1>1, <1>2, <1>6, BroadcastOwnershipKeeps
  <2> QED BY <2>1, <1>10, <1>1, <1>6, BroadcastStaysTrue
<1>11. ASSUME NEW c \in Conns, NEW e \in BOOLEAN, NEW r \in BOOLEAN, Estop(c, e, r) PROVE DeliveryInv'
  <2>1. SendEstop(c, participants, task, draining) /\ owner_operator_id' = owner_operator_id
    BY <1>11 DEF Estop
  <2>2. SendKeeps(c, task)
    BY <2>1, <1>1, <1>2, <1>3, SendEstopKeeps
  <2> QED BY <2>1, <2>2, <1>1, <1>3, <1>5, BroadcastStaysTrue
<1>12. CASE ReleaseLater
  <2>1. CASE owner_operator_id # None /\ ~StillConnected
    <3>1. BroadcastOwnership(Timer, task, draining) /\ owner_operator_id' = None
      BY <1>12, <2>1 DEF ReleaseLater
    <3>2. SendKeeps(Timer, task)
      BY <3>1, <1>1, <1>2, <1>4, BroadcastOwnershipKeeps
    <3> QED BY <3>1, <3>2, <1>1, <1>4, BroadcastStaysTrue
  <2>2. CASE ~(owner_operator_id # None /\ ~StillConnected)
    <3>1. UNCHANGED <<owner_operator_id, task, draining, view>>
      BY <1>12, <2>2 DEF ReleaseLater
    <3> QED BY <3>1, <1>1 DEF DeliveryTypeOK, ReleaseBroadcastIsTrue
  <2> QED BY <2>1, <2>2
<1>13. ASSUME NEW c \in Conns, Resume(c) PROVE DeliveryInv'
  <2> DEFINE k == Head(draining[c])
  <2>1. k \in Tasks /\ Undrained(c) \in [Conns -> Seq(Tasks)]
    BY <1>13, UndrainedType DEF Resume
  <2>2. owner_operator_id' = owner_operator_id
    BY <1>13 DEF Resume, session
  <2>3. task[k].kind \in {"claimed", "estop", "ownership"}
    BY <1>13 DEF Resume
  <2>4. task[k] # NoTask
    BY <2>3 DEF NoTask
  <2>5. owner_operator_id' # None => k # Timer /\ task[Timer] = NoTask
    BY <2>2, <2>4, <1>5
  <2>6. CASE task[k].kind = "claimed" /\ BroadcastOwnership(k, task, Undrained(c))
    BY <2>1, <2>5, <2>6, <1>1, <1>2, BroadcastOwnershipKeeps, BroadcastStaysTrue
  <2>7. CASE task[k].kind = "estop" /\ SendEstop(k, task[k].to, task, Undrained(c))
    <3>1. task[k].to \in Seq(Conns)
      BY <2>1, <2>7, <1>2, TaskFields
    <3>2. SendKeeps(k, task)
      BY <3>1, <2>1, <2>7, <1>1, <1>2, SendEstopKeeps
    <3> QED BY <3>2, <2>1, <2>5, <1>1, BroadcastStaysTrue
  <2>8. CASE task[k].kind = "ownership" /\ SendOwnership(k, task[k].to, task[k].msg, task, Undrained(c))
    <3>1. task[k].to \in Seq(Conns) /\ task[k].msg \in Ownerships
      BY <2>1, <2>8, <1>2, TaskFields
    <3>2. SendKeeps(k, task)
      BY <3>1, <2>1, <2>8, <1>2, SendOwnershipKeeps
    <3> QED BY <3>2, <2>1, <2>5, <1>1, BroadcastStaysTrue
  <2> QED BY <1>13, <2>6, <2>7, <2>8 DEF Resume
<1>14. ASSUME NEW c \in Conns, ReplyFails(c) PROVE DeliveryInv'
  <2>1. Undrained(c) \in [Conns -> Seq(Tasks)]
    BY <1>14, UndrainedType DEF ReplyFails
  <2> QED BY <2>1, <1>8, <1>14 DEF ReplyFails
<1>15. CASE UNCHANGED vars
  BY <1>15, <1>1 DEF vars, DeliveryTypeOK, ReleaseBroadcastIsTrue
<1>16. ASSUME NEW c \in Conns, Leave(c) PROVE DeliveryInv'
  BY <1>16, <1>2, <1>8 DEF Leave
<1>17. ASSUME NEW c \in Conns, NEW o \in Operators, Release(c, o) PROVE DeliveryInv'
  BY <1>17, <1>3, <1>10 DEF Release
<1>18. ASSUME NEW o \in Operators, HttpClaim(o) \/ HttpRelease(o) PROVE DeliveryInv'
  BY <1>18, <1>4, <1>10 DEF HttpClaim, HttpRelease
<1> QED BY <1>7, <1>9, <1>11, <1>12, <1>13, <1>14, <1>15, <1>16, <1>17, <1>18 DEF Next

\* Every variable of the signaling server keeps its type.
THEOREM TypeCorrect == Spec => []TypeOK
<1>1. DeliveryInv => TypeOK
  BY TypeOKParts DEF DeliveryInv, SessionInv
<1> QED BY DeliveryInit, DeliveryStep, <1>1, PTL DEF Spec

\* No release task goes on telling participants that the session is free once somebody
\* owns it: every claim cancels it first.
THEOREM ReleaseBroadcastAlwaysTrue == Spec => []ReleaseBroadcastIsTrue
<1>1. DeliveryInv => ReleaseBroadcastIsTrue
  BY DEF DeliveryInv
<1> QED BY DeliveryInit, DeliveryStep, <1>1, PTL DEF Spec
-----------------------------------------------------------------------------
(* No interleaving of suspended broadcasts leaves a participant with a      *)
(* stale owner.  Every broadcast goes through the participants in the order *)
(* in which they joined, and a sender never gets past a connection on which *)
(* another one is suspended as long as it is a participant: an older        *)
(* broadcast may be late, but the present one comes after it wherever both  *)
(* go.                                                                      *)
(*                                                                          *)
(* The order of the recipients: q is the participants, t what the tasks     *)
(* have yet to send, d the queues of suspended senders.                     *)

\* The participants among to are in join order, without leaving one out between two.
Stretch(q, to) ==
  /\ \A i, j \in DOMAIN to :
       i < j /\ to[i] \in ToSet(q) /\ to[j] \in ToSet(q) => Before(q, to[i], to[j])
  /\ \A i, j \in DOMAIN to : \A x : Before(q, to[i], x) /\ Before(q, x, to[j]) => x \in ToSet(to)

\* A sender suspended on c has to go on to the participants right behind c.
Onward(q, c, to) ==
  /\ Stretch(q, to)
  /\ \A i \in DOMAIN to : to[i] \in ToSet(q) => Before(q, c, to[i])
  /\ \A j \in DOMAIN to : \A x : Before(q, c, x) /\ Before(q, x, to[j]) => x \in ToSet(to)

\* Only connections that are still there hold senders up; a sender is held up once.
InLine(q, t, d) ==
  /\ q \in Seq(Conns) /\ IsInjective(q)
  /\ t \in [Tasks -> TaskStates] /\ d \in [Conns -> Seq(Tasks)]
  /\ \A c \in Conns :
       /\ d[c] # <<>> => c \in ToSet(q)
       /\ IsInjective(d[c])
       /\ \A k \in ToSet(d[c]) :
            /\ t[k].kind # "none"
            /\ t[k].kind = "ownership" => Onward(q, c, t[k].to)
  /\ \A b, c \in Conns : b # c => ToSet(d[b]) \cap ToSet(d[c]) = {}

Unqueued(k, d) == \A c \in Conns : k \notin ToSet(d[c])

LEMMA NonEmptySet ==
  ASSUME NEW S, NEW s \in Seq(S)
  PROVE  ToSet(s) # {} <=> s # <<>>
<1>1. ToSet(s) = {s[i] : i \in 1..Len(s)} /\ Len(s) \in Nat
  BY ToSetOfSeq, LenProperties
<1>2. s # <<>> <=> Len(s) # 0
  BY EmptySeq
<1> QED BY <1>1, <1>2

LEMMA RestOfSeq ==
  ASSUME NEW S, NEW to \in Seq(S), NEW n \in 1..Len(to)
  PROVE  LET rest == SubSeq(to, n + 1, Len(to))
         IN /\ Len(to) \in Nat /\ DOMAIN to = 1..Len(to)
            /\ rest \in Seq(S) /\ DOMAIN rest = 1..(Len(to) - n)
            /\ \A i \in 1..(Len(to) - n) : rest[i] = to[n + i]
            /\ ToSet(rest) = {to[i] : i \in (n + 1)..Len(to)}
<1> DEFINE rest == SubSeq(to, n + 1, Len(to))
<1>1. Len(to) \in Nat /\ DOMAIN to = 1..Len(to) /\ \A i \in 1..Len(to) : to[i] \in S
  BY LenProperties, ElementOfSeq
<1>2. /\ rest \in Seq(S) /\ Len(rest) = Len(to) - n
      /\ \A i \in 1..(Len(to) - n) : rest[i] = to[n + i]
  <2>1. /\ rest \in Seq(S)
        /\ Len(rest) = IF n + 1 <= Len(to) THEN Len(to) - (n + 1) + 1 ELSE 0
        /\ \A i \in 1..(Len(to) - (n + 1) + 1) : rest[i] = to[(n + 1) + i - 1]
    BY <1>1, SubSeqProperties
  <2>2. Len(rest) = Len(to) - n
    <3> HIDE DEF rest
    <3>1. Len(rest) = IF n + 1 <= Len(to) THEN Len(to) - (n + 1) + 1 ELSE 0
      BY <2>1
    <3>2. Len(to) \in Nat /\ n \in Nat /\ n <= Len(to)
      BY <1>1
    <3> QED BY <3>1, <3>2
  <2> HIDE DEF rest
  <2>3. ASSUME NEW i \in 1..(Len(to) - n) PROVE rest[i] = to[n + i]
    <3>1. i \in 1..(Len(to) - (n + 1) + 1) /\ (n + 1) + i - 1 = n + i
      BY <1>1
    <3> QED BY <2>1, <3>1
  <2> QED BY <2>1, <2>2, <2>3
<1>3. DOMAIN rest = 1..(Len(to) - n)
  BY <1>2, LenProperties
<1> HIDE DEF rest
<1>4. ToSet(rest) = {to[i] : i \in (n + 1)..Len(to)}
  <2>1. ASSUME NEW i \in 1..(Len(to) - n) PROVE n + i \in (n + 1)..Len(to) /\ rest[i] = to[n + i]
    BY <1>1, <1>2
  <2>2. ASSUME NEW i \in (n + 1)..Len(to)
        PROVE  i - n \in 1..(Len(to) - n) /\ rest[i - n] = to[i]
    <3>1. i - n \in 1..(Len(to) - n) /\ n + (i - n) = i
      BY <1>1
    <3> QED BY <1>2, <3>1
  <2> QED BY <1>3, <2>1, <2>2 DEF ToSet
<1> QED BY <1>1, <1>2, <1>3, <1>4 DEF rest

LEMMA WholeStretch ==
  ASSUME NEW q \in Seq(Conns), IsInjective(q)
  PROVE  Stretch(q, q)
<1>1. \A i, j \in DOMAIN q : i < j => Before(q, q[i], q[j])
  BY DEF Before
<1>2. \A x, y : Before(q, x, y) => x \in ToSet(q)
  BY BeforeIsOrder
<1> QED BY <1>1, <1>2 DEF Stretch

\* A sender that gets as far as to[n] has the rest in front of it.
LEMMA StretchOnward ==
  ASSUME NEW q \in Seq(Conns), IsInjective(q), NEW to \in Seq(Conns), Stretch(q, to),
         NEW n \in 1..Len(to), to[n] \in ToSet(q)
  PROVE  Onward(q, to[n], SubSeq(to, n + 1, Len(to)))
<1> DEFINE rest == SubSeq(to, n + 1, Len(to))
<1>1. /\ Len(to) \in Nat /\ DOMAIN to = 1..Len(to)
      /\ DOMAIN rest = 1..(Len(to) - n)
      /\ \A i \in 1..(Len(to) - n) : rest[i] = to[n + i]
      /\ ToSet(rest) = {to[i] : i \in (n + 1)..Len(to)}
  BY RestOfSeq
<1> HIDE DEF rest
<1>2. /\ \A x, y : Before(q, x, y) => x \in ToSet(q) /\ y \in ToSet(q) /\ x # y
      /\ \A x, y : ~(Before(q, x, y) /\ Before(q, y, x))
      /\ \A x, y, z : Before(q, x, y) /\ Before(q, y, z) => Before(q, x, z)
  BY BeforeIsOrder
<1>3. \A i, j \in 1..Len(to) :
        i < j /\ to[i] \in ToSet(q) /\ to[j] \in ToSet(q) => Before(q, to[i], to[j])
  BY <1>1 DEF Stretch
<1>4. ASSUME NEW i \in 1..(Len(to) - n), rest[i] \in ToSet(q)
      PROVE  Before(q, to[n], rest[i])
  <2>1. n + i \in 1..Len(to) /\ n < n + i /\ rest[i] = to[n + i]
    BY <1>1
  <2> QED BY <1>3, <1>4, <2>1
<1>5. ASSUME NEW j \in 1..(Len(to) - n), NEW x, Before(q, to[n], x), Before(q, x, rest[j])
      PROVE  x \in ToSet(rest)
  <2>1. n + j \in 1..Len(to) /\ rest[j] = to[n + j]
    BY <1>1
  <2>2. x \in ToSet(to)
    BY <1>1, <1>5, <2>1 DEF Stretch
  <2>3. PICK l \in 1..Len(to) : x = to[l]
    BY <1>1, <2>2 DEF ToSet
  <2>4. l # n /\ ~(l < n)
    BY <1>2, <1>3, <1>5, <2>3
  <2>5. l \in (n + 1)..Len(to)
    BY <1>1, <2>4
  <2> QED BY <1>1, <2>3, <2>5
<1>6. ASSUME NEW i \in 1..(Len(to) - n), NEW j \in 1..(Len(to) - n), i < j,
             rest[i] \in ToSet(q), rest[j] \in ToSet(q)
      PROVE  Before(q, rest[i], rest[j])
  <2>1. n + i \in 1..Len(to) /\ n + j \in 1..Len(to) /\ n + i < n + j
    BY <1>1, <1>6
  <2> QED BY <1>1, <1>3, <1>6, <2>1
<1>7. ASSUME NEW i \in 1..(Len(to) - n), NEW j \in 1..(Len(to) - n), NEW x,
             Before(q, rest[i], x), Before(q, x, rest[j])
      PROVE  x \in ToSet(rest)
  <2>1. Before(q, to[n], rest[i])
    BY <1>2, <1>4, <1>7
  <2> QED BY <1>2, <1>5, <1>7, <2>1
<1>8. Stretch(q, rest)
  BY <1>1, <1>6, <1>7 DEF Stretch
<1> QED BY <1>1, <1>4, <1>5, <1>8 DEF Onward, rest

\* A newcomer is behind everybody, and a sender under way does not know it.
LEMMA OnwardAfterJoin ==
  ASSUME NEW q \in Seq(Conns), NEW n \in Conns, n \notin ToSet(q),
         NEW c, NEW to, n \notin ToSet(to), Onward(q, c, to)
  PROVE  Onward(Append(q, n), c, to)
<1> DEFINE r == Append(q, n)
<1>1. /\ ToSet(r) = ToSet(q) \cup {n}
      /\ \A x, y : Before(r, x, y) <=> Before(q, x, y) \/ (x \in ToSet(q) /\ y = n)
  BY ToSetOfAppend, BeforeAppend
<1> HIDE DEF r
<1>2. \A i \in DOMAIN to : to[i] # n
  BY DEF ToSet
<1>3. \A x, y : Before(q, x, y) => x \in ToSet(q)
  BY DEF Before, ToSet
<1>4. \A x, y, z : Before(r, x, y) /\ Before(r, y, z) /\ z # n => Before(q, x, y) /\ Before(q, y, z)
  BY <1>1, <1>3
<1>5. Stretch(r, to)
  BY <1>1, <1>2, <1>4 DEF Stretch, Onward
<1> QED BY <1>1, <1>2, <1>4, <1>5 DEF Onward, r

LEMMA OnwardAfterLeave ==
  ASSUME NEW q \in Seq(Conns), IsInjective(q), NEW n \in 1..Len(q),
         NEW c, c # q[n], NEW to, Onward(q, c, to)
  PROVE  Onward(RemoveAt(q, n), c, to)
<1> DEFINE r == RemoveAt(q, n)
<1>1. /\ ToSet(r) = ToSet(q) \ {q[n]}
      /\ \A x, y : Before(r, x, y) <=> Before(q, x, y) /\ x # q[n] /\ y # q[n]
  BY RemoveAtSet, BeforeRemoveAt
<1> HIDE DEF r
<1>2. Stretch(r, to)
  BY <1>1 DEF Stretch, Onward
<1> QED BY <1>1, <1>2 DEF Onward, r

-----------------------------------------------------------------------------
(* The queues of suspended senders                                          *)

LEMMA InLineSuspend ==
  ASSUME NEW q, NEW t, NEW d, InLine(q, t, d), NEW k \in Tasks, Unqueued(k, d),
         NEW c \in ToSet(q), NEW r \in TaskStates, r.kind # "none",
         r.kind = "ownership" => Onward(q, c, r.to)
  PROVE  InLine(q, [t EXCEPT ![k] = r], [d EXCEPT ![c] = Append(d[c], k)])
<1> DEFINE u == [t EXCEPT ![k] = r]
           e == [d EXCEPT ![c] = Append(d[c], k)]
<1> USE DEF InLine
<1>1. c \in Conns /\ d[c] \in Seq(Tasks)
  BY ToSetOfSeq
<1>2. Append(d[c], k) \in Seq(Tasks) /\ ToSet(Append(d[c], k)) = ToSet(d[c]) \cup {k}
  BY <1>1, ToSetOfAppend, AppendProperties
<1>3. IsInjective(Append(d[c], k))
  BY <1>1, AppendKeepsInjective DEF Unqueued
<1>4. /\ u \in [Tasks -> TaskStates] /\ u[k] = r
      /\ \A j \in Tasks : j # k => u[j] = t[j]
  OBVIOUS
<1>5. /\ e \in [Conns -> Seq(Tasks)] /\ e[c] = Append(d[c], k)
      /\ \A b \in Conns : b # c => e[b] = d[b]
  BY <1>1, <1>2
<1>6. \A b \in Conns : ToSet(d[b]) \subseteq Tasks /\ k \notin ToSet(d[b])
  BY ToSetOfSeq DEF Unqueued
<1> HIDE DEF u, e
<1>7. ASSUME NEW b \in Conns
      PROVE  /\ e[b] # <<>> => b \in ToSet(q)
             /\ IsInjective(e[b])
             /\ \A j \in ToSet(e[b]) : /\ u[j].kind # "none"
                                       /\ u[j].kind = "ownership" => Onward(q, b, u[j].to)
  <2>1. CASE b = c
    BY <1>2, <1>3, <1>4, <1>5, <1>6, <2>1
  <2>2. CASE b # c
    BY <1>4, <1>5, <1>6, <2>2
  <2> QED BY <2>1, <2>2
<1>8. ASSUME NEW a \in Conns, NEW b \in Conns, a # b
      PROVE  ToSet(e[a]) \cap ToSet(e[b]) = {}
  <2>1. \A f \in Conns : ToSet(e[f]) = IF f = c THEN ToSet(d[f]) \cup {k} ELSE ToSet(d[f])
    BY <1>2, <1>5
  <2>2. ToSet(d[a]) \cap ToSet(d[b]) = {} /\ k \notin ToSet(d[a]) /\ k \notin ToSet(d[b])
    BY <1>6, <1>8
  <2> USE <1>8, <2>2
  <2>3. CASE a = c
    <3>1. ToSet(e[a]) = ToSet(d[a]) \cup {k} /\ ToSet(e[b]) = ToSet(d[b])
      BY <2>1, <2>3
    <3> HIDE DEF InLine
    <3> QED BY <3>1
  <2>4. CASE a # c
    <3>1. ToSet(e[a]) = ToSet(d[a]) /\ ToSet(e[b]) \subseteq ToSet(d[b]) \cup {k}
      BY <2>1, <2>4
    <3> HIDE DEF InLine
    <3> QED BY <3>1
  <2> QED BY <2>3, <2>4
<1> QED BY <1>4, <1>5, <1>7, <1>8 DEF u, e

LEMMA InLineFinish ==
  ASSUME NEW q, NEW t, NEW d, InLine(q, t, d), NEW k \in Tasks, Unqueued(k, d)
  PROVE  InLine(q, [t EXCEPT ![k] = NoTask], d)
<1> USE DEF InLine
<1>1. \A b \in Conns : ToSet(d[b]) \subseteq Tasks /\ k \notin ToSet(d[b])
  BY ToSetOfSeq DEF Unqueued
<1>2. NoTask \in TaskStates
  BY DEF TaskStates
<1>3. \A j \in Tasks : j # k => [t EXCEPT ![k] = NoTask][j] = t[j]
  OBVIOUS
<1> QED BY <1>1, <1>2, <1>3

\* The first sender in the queue of c goes on.
LEMMA InLineTail ==
  ASSUME NEW q, NEW t, NEW d, InLine(q, t, d), NEW c \in Conns, d[c] # <<>>
  PROVE  /\ InLine(q, t, [d EXCEPT ![c] = Tail(d[c])])
         /\ Head(d[c]) \in Tasks /\ Head(d[c]) \in ToSet(d[c])
         /\ Unqueued(Head(d[c]), [d EXCEPT ![c] = Tail(d[c])])
<1> DEFINE e == [d EXCEPT ![c] = Tail(d[c])]
           k == Head(d[c])
<1> USE DEF InLine
<1>1. d[c] \in Seq(Tasks) /\ IsInjective(d[c])
  OBVIOUS
<1>2. /\ Tail(d[c]) \in Seq(Tasks) /\ IsInjective(Tail(d[c]))
      /\ k \in ToSet(d[c]) /\ k \in Tasks
      /\ ToSet(Tail(d[c])) = ToSet(d[c]) \ {k}
  BY <1>1, TailKeepsInjective, HeadTailProperties
<1>3. /\ e \in [Conns -> Seq(Tasks)] /\ e[c] = Tail(d[c])
      /\ \A b \in Conns : b # c => e[b] = d[b]
  BY <1>2
<1> HIDE DEF e, k
<1>4. ASSUME NEW b \in Conns
      PROVE  /\ e[b] # <<>> => b \in ToSet(q)
             /\ IsInjective(e[b])
             /\ ToSet(e[b]) \subseteq ToSet(d[b]) /\ k \notin ToSet(e[b])
  BY <1>2, <1>3
<1>5. InLine(q, t, e)
  BY <1>3, <1>4
<1> QED BY <1>2, <1>4, <1>5 DEF Unqueued, e, k

LEMMA IdleUnqueued ==
  ASSUME NEW q, NEW t, NEW d, InLine(q, t, d), NEW k \in Tasks, t[k] = NoTask
  PROVE  Unqueued(k, d)
  BY DEF InLine, Unqueued, NoTask

LEMMA InLineJoin ==
  ASSUME NEW q, NEW t, NEW d, InLine(q, t, d), NEW n \in Conns, n \notin ToSet(q),
         \A k \in Tasks : t[k].kind = "ownership" => n \notin ToSet(t[k].to)
  PROVE  InLine(Append(q, n), t, d)
<1> USE DEF InLine
<1>1. /\ Append(q, n) \in Seq(Conns) /\ IsInjective(Append(q, n))
      /\ ToSet(Append(q, n)) = ToSet(q) \cup {n}
  BY AppendProperties, AppendKeepsInjective, ToSetOfAppend
<1>2. \A c \in Conns : \A k \in ToSet(d[c]) :
        t[k].kind = "ownership" => Onward(Append(q, n), c, t[k].to)
  <2> SUFFICES ASSUME NEW c \in Conns, NEW k \in ToSet(d[c]), t[k].kind = "ownership"
               PROVE  Onward(Append(q, n), c, t[k].to)
    OBVIOUS
  <2>1. k \in Tasks
    BY ToSetOfSeq
  <2> QED BY <2>1, OnwardAfterJoin
<1> QED BY <1>1, <1>2

LEMMA InLineLeave ==
  ASSUME NEW q, NEW t, NEW d, InLine(q, t, d), NEW n \in 1..Len(q), d[q[n]] = <<>>
  PROVE  InLine(RemoveAt(q, n), t, d)
<1> USE DEF InLine
<1>1. /\ RemoveAt(q, n) \in Seq(Conns) /\ IsInjective(RemoveAt(q, n))
      /\ ToSet(RemoveAt(q, n)) = ToSet(q) \ {q[n]}
  BY RemoveAtType, RemoveAtKeepsInjective, RemoveAtSet
<1>2. \A c \in Conns : d[c] # <<>> => c # q[n]
  OBVIOUS
<1>3. \A c \in Conns : \A k \in ToSet(d[c]) :
        t[k].kind = "ownership" => Onward(RemoveAt(q, n), c, t[k].to)
  <2> SUFFICES ASSUME NEW c \in Conns, NEW k \in ToSet(d[c]), t[k].kind = "ownership"
               PROVE  Onward(RemoveAt(q, n), c, t[k].to)
    OBVIOUS
  <2>1. c # q[n]
    BY <1>2, ToSetOfEmpty
  <2> QED BY <2>1, OnwardAfterLeave
<1> QED BY <1>1, <1>2, <1>3

\* A cancelled release task leaves its queue.
LEMMA InLineCancel ==
  ASSUME NEW q, InLine(q, task, draining), DeliveryTypeOK
  PROVE  InLine(q, TasksWithoutTimer, QueuesWithoutTimer)
<1> USE DEF InLine
<1> DEFINE t == TasksWithoutTimer
           d == QueuesWithoutTimer
<1>1. /\ t \in [Tasks -> TaskStates] /\ d \in [Conns -> Seq(Tasks)]
  BY CancelTypes
<1>2. \A k \in Tasks : k # Timer => t[k] = task[k]
  BY DEF TasksWithoutTimer
<1>3. ASSUME NEW c \in Conns
      PROVE  IsInjective(d[c]) /\ ToSet(d[c]) = ToSet(draining[c]) \ {Timer}
  <2>1. /\ d[c] = IF Timer \in ToSet(draining[c])
                  THEN RemoveAt(draining[c], Position(draining[c], Timer)) ELSE draining[c]
        /\ draining[c] \in Seq(Tasks) /\ IsInjective(draining[c])
    BY DEF QueuesWithoutTimer
  <2>2. CASE Timer \in ToSet(draining[c])
    <3>1. DOMAIN draining[c] = 1..Len(draining[c])
      BY <2>1, LenProperties
    <3>2. /\ Position(draining[c], Timer) \in 1..Len(draining[c])
          /\ draining[c][Position(draining[c], Timer)] = Timer
      BY <2>2, <3>1 DEF Position, ToSet
    <3> QED BY <2>1, <2>2, <3>2, RemoveAtKeepsInjective, RemoveAtSet
  <2>3. CASE Timer \notin ToSet(draining[c])
    BY <2>1, <2>3
  <2> QED BY <2>2, <2>3
<1> HIDE DEF t, d
<1>4. ASSUME NEW c \in Conns, d[c] # <<>>
      PROVE  c \in ToSet(q)
  <2>1. ToSet(d[c]) # {}
    BY <1>1, <1>4, NonEmptySet
  <2>2. draining[c] \in Seq(Tasks) /\ (draining[c] # <<>> => c \in ToSet(q))
    OBVIOUS
  <2>3. ToSet(draining[c]) # {}
    BY <1>3, <2>1
  <2> HIDE DEF InLine
  <2> QED BY <2>2, <2>3, NonEmptySet
<1>5. \A c \in Conns : ToSet(d[c]) \subseteq Tasks
  BY <1>1, ToSetOfSeq
<1> QED BY <1>1, <1>2, <1>3, <1>4, <1>5 DEF t, d

-----------------------------------------------------------------------------
(* Outdated broadcasts                                                      *)

\* Some task is going to broadcast the ownership as it is by then.
Afresh(t) == \E k \in Tasks : t[k].kind \in {"claimed", "estop"}

\* A task with r to send will tell c msg.
Brings(r, c, msg) == r.kind = "ownership" /\ c \in ToSet(r.to) /\ r.msg = msg

\* k, suspended on s, comes after j, suspended on r, wherever both go.
Behind(q, d, k, s, j, r) == Before(q, s, r) \/ (s = r /\ Before(d[r], j, k))

\* Whoever an outdated broadcast is still to reach is told msg after it.
Corrected(q, t, d, msg) ==
  \A r \in Conns : \A j \in ToSet(d[r]) : t[j].kind = "ownership" /\ t[j].msg # msg =>
    \A c \in ToSet(t[j].to) \cap ToSet(q) :
      \E s \in Conns : \E k \in ToSet(d[s]) : Brings(t[k], c, msg) /\ Behind(q, d, k, s, j, r)

\* Whoever has not heard msg last is going to.
Told(q, t, v, msg) ==
  \A c \in ToSet(q) : v[c] # msg => Afresh(t) \/ \E k \in Tasks : Brings(t[k], c, msg)

BroadcastInv ==
  /\ InLine(participants, task, draining)
  /\ Afresh(task) \/ Corrected(participants, task, draining, Current)
  /\ Told(participants, task, view, Current)

LEMMA ToldIsPending == (~overtaken => Told(participants, task, view, Current)) => StaleIsPending
  BY DEF Told, StaleIsPending, Current, Afresh, Brings, Members

Carrying(to, msg) == [kind |-> "ownership", to |-> to, msg |-> msg]

LEMMA CarryingFields ==
  ASSUME NEW to \in Seq(Conns), NEW msg \in Ownerships
  PROVE  /\ Carrying(to, msg) \in TaskStates
         /\ Carrying(to, msg).kind = "ownership"
         /\ Carrying(to, msg).to = to /\ Carrying(to, msg).msg = msg
  BY DEF Carrying, TaskStates

\* Nobody is suspended on the first n recipients of to.
Vacant(to, n, d) == \A i \in 1..n : d[to[i]] = <<>>

LEMMA ClearIsVacant ==
  ASSUME NEW t, NEW d, InLine(participants', t, d), NEW to \in Seq(Conns),
         NEW n, 1..n \subseteq 1..Len(to), Clear(to, n, d)
  PROVE  Vacant(to, n, d)
<1>1. \A i \in 1..n : to[i] \in Conns
  BY ElementOfSeq
<1> QED BY <1>1 DEF Clear, Vacant, InLine, Members

\* A new broadcast is held up with the first of the older ones at the latest.
LEMMA BroadcastCorrects ==
  ASSUME NEW q, NEW t, NEW d, InLine(q, t, d), NEW k \in Tasks, Unqueued(k, d),
         NEW msg \in Ownerships, NEW n \in 1..Len(q), Vacant(q, n - 1, d)
  PROVE  LET u == [t EXCEPT ![k] = Carrying(SubSeq(q, n + 1, Len(q)), msg)]
             e == [d EXCEPT ![q[n]] = Append(d[q[n]], k)]
         IN InLine(q, u, e) /\ Corrected(q, u, e, msg)
<1> DEFINE w == q[n]
           rest == SubSeq(q, n + 1, Len(q))
           u == [t EXCEPT ![k] = Carrying(rest, msg)]
           e == [d EXCEPT ![w] = Append(d[w], k)]
<1>1. /\ q \in Seq(Conns) /\ IsInjective(q)
      /\ t \in [Tasks -> TaskStates] /\ d \in [Conns -> Seq(Tasks)]
  BY DEF InLine
<1>2. /\ Len(q) \in Nat /\ DOMAIN q = 1..Len(q)
      /\ rest \in Seq(Conns) /\ ToSet(rest) = {q[i] : i \in (n + 1)..Len(q)}
  BY <1>1, RestOfSeq
<1>3. w \in ToSet(q) /\ w \in Conns
  BY <1>1, <1>2, ElementOfSeq DEF ToSet
<1>4. /\ Carrying(rest, msg) \in TaskStates /\ Carrying(rest, msg).kind = "ownership"
      /\ Carrying(rest, msg).to = rest /\ Carrying(rest, msg).msg = msg
  BY <1>2, CarryingFields
<1>5. Onward(q, w, rest)
  BY <1>1, <1>3, WholeStretch, StretchOnward
<1> HIDE DEF rest
<1>6. u[k] = Carrying(rest, msg) /\ \A j \in Tasks : j # k => u[j] = t[j]
  BY <1>1
<1> HIDE DEF w
<1>7. InLine(q, u, e)
  BY <1>3, <1>4, <1>5, InLineSuspend
<1>8. /\ e[w] = Append(d[w], k) /\ \A c \in Conns : c # w => e[c] = d[c]
      /\ d[w] \in Seq(Tasks)
  BY <1>1, <1>3
<1>9. /\ ToSet(e[w]) = ToSet(d[w]) \cup {k}
      /\ \A x \in ToSet(d[w]) : Before(e[w], x, k)
  BY <1>8, ToSetOfAppend, BeforeAppend
<1>10. \A c \in Conns : ToSet(d[c]) \subseteq Tasks
  BY <1>1, ToSetOfSeq
<1> HIDE DEF u, e
<1>11. Corrected(q, u, e, msg)
  <2> SUFFICES ASSUME NEW r \in Conns, NEW j \in ToSet(e[r]),
                      u[j].kind = "ownership", u[j].msg # msg,
                      NEW y \in ToSet(u[j].to), y \in ToSet(q)
               PROVE  /\ k \in ToSet(e[w]) /\ Brings(u[k], y, msg)
                      /\ Behind(q, e, k, w, j, r)
    BY <1>3 DEF Corrected
  <2>1. j # k /\ j \in ToSet(d[r]) /\ u[j] = t[j]
    BY <1>4, <1>6, <1>8, <1>9, <1>10
  <2>2. r \in ToSet(q) /\ d[r] # <<>> /\ Onward(q, r, t[j].to)
    BY <1>1, <2>1, NonEmptySet DEF InLine
  <2>3. Before(q, r, y)
    BY <2>1, <2>2 DEF Onward, ToSet
  <2>4. PICK a \in 1..Len(q), b \in 1..Len(q) : a < b /\ q[a] = r /\ q[b] = y
    BY <1>2, <2>3 DEF Before
  <2>5. ~(a \in 1..(n - 1))
    BY <2>2, <2>4 DEF Vacant
  <2>6. n <= a /\ b \in (n + 1)..Len(q)
    BY <1>2, <2>4, <2>5
  <2>7. Brings(u[k], y, msg)
    BY <1>2, <1>4, <1>6, <2>4, <2>6 DEF Brings
  <2>8. CASE a = n
    BY <1>9, <2>1, <2>4, <2>7, <2>8 DEF Behind, w
  <2>9. CASE a # n
    <3>1. Before(q, w, r)
      BY <1>2, <2>4, <2>6, <2>9 DEF Before, w
    <3> QED BY <1>9, <2>7, <3>1 DEF Behind
  <2> QED BY <2>8, <2>9
<1> QED BY <1>7, <1>11 DEF u, e, w, rest

\* A broadcast that nobody holds up finds no other under way.
LEMMA BroadcastAlone ==
  ASSUME NEW q, NEW t, NEW d, InLine(q, t, d), NEW k \in Tasks, Vacant(q, Len(q), d), NEW msg
  PROVE  /\ InLine(q, [t EXCEPT ![k] = NoTask], d)
         /\ Corrected(q, [t EXCEPT ![k] = NoTask], d, msg)
<1>1. q \in Seq(Conns) /\ d \in [Conns -> Seq(Tasks)]
  BY DEF InLine
<1>2. \A c \in ToSet(q) : d[c] = <<>>
  BY <1>1, ToSetOfSeq DEF Vacant
<1>3. \A c \in Conns : d[c] = <<>>
  BY <1>2 DEF InLine
<1>4. \A c \in Conns : ToSet(d[c]) = {}
  BY <1>3, ToSetOfEmpty
<1> QED BY <1>4, InLineFinish DEF Corrected, Unqueued

\* On its way through to, a sender comes by r before it comes by y.
PassesFirst(to, r, y) == \E l, i \in DOMAIN to : l < i /\ to[l] = r /\ to[i] = y

\* The first sender h suspended on c comes behind j, suspended on r, and both go to y:
\* then h comes by r before it gets to y.
HeadMeetsAhead(q, t, d, c, h, msg) ==
  \A y \in ToSet(q), r \in Conns : \A j \in ToSet(d[r]) :
    Brings(t[h], y, msg) /\ t[j].kind = "ownership" /\ y \in ToSet(t[j].to)
        /\ Behind(q, d, h, c, j, r)
      => r # c /\ d[r] # <<>> /\ r \in ToSet(q) /\ PassesFirst(t[h].to, r, y)

LEMMA HeadOvertakesNone ==
  ASSUME NEW q, NEW t, NEW d, InLine(q, t, d), NEW c \in Conns, d[c] # <<>>, NEW msg
  PROVE  HeadMeetsAhead(q, t, d, c, Head(d[c]), msg)
<1> DEFINE h == Head(d[c])
           to == t[h].to
<1> SUFFICES ASSUME NEW y \in ToSet(q), NEW r \in Conns, NEW j \in ToSet(d[r]),
                    Brings(t[h], y, msg), t[j].kind = "ownership", y \in ToSet(t[j].to),
                    Behind(q, d, h, c, j, r)
             PROVE  r # c /\ d[r] # <<>> /\ r \in ToSet(q) /\ PassesFirst(to, r, y)
  BY DEF HeadMeetsAhead
<1>1. /\ q \in Seq(Conns) /\ IsInjective(q)
      /\ t \in [Tasks -> TaskStates] /\ d \in [Conns -> Seq(Tasks)]
      /\ d[c] \in Seq(Tasks) /\ d[r] \in Seq(Tasks) /\ IsInjective(d[c])
  BY DEF InLine
<1>2. h \in Tasks /\ h \in ToSet(d[c]) /\ t[h].kind = "ownership" /\ y \in ToSet(to)
  BY InLineTail DEF Brings
<1>3. to \in Seq(Conns) /\ Onward(q, c, to) /\ Onward(q, r, t[j].to)
  BY <1>1, <1>2, TaskFields DEF InLine
<1>4. /\ \A x, z : Before(q, x, z) => x \in ToSet(q) /\ z \in ToSet(q) /\ x # z
      /\ \A x, z : ~(Before(q, x, z) /\ Before(q, z, x))
  BY <1>1, BeforeIsOrder
<1>5. ~Before(d[c], j, h)
  BY <1>1, BeforeHead
<1> HIDE DEF h, to
<1>6. Before(q, c, r)
  BY <1>5 DEF Behind
<1>7. Before(q, r, y)
  BY <1>3 DEF Onward, ToSet
<1>8. DOMAIN to = 1..Len(to) /\ Len(to) \in Nat
  BY <1>3, LenProperties
<1>9. PICK i \in 1..Len(to) : to[i] = y
  BY <1>2, <1>8 DEF ToSet
<1>10. PICK l \in 1..Len(to) : to[l] = r
  <2>1. r \in ToSet(to)
    BY <1>3, <1>6, <1>7, <1>8, <1>9 DEF Onward
  <2> QED BY <1>8, <2>1 DEF ToSet
<1>11. l < i
  <2>1. l # i
    BY <1>4, <1>7, <1>9, <1>10
  <2>2. ~(i < l)
    <3> SUFFICES ASSUME i < l PROVE FALSE
      OBVIOUS
    <3>1. Before(q, to[i], to[l])
      BY <1>3, <1>4, <1>7, <1>8, <1>9, <1>10 DEF Onward, Stretch
    <3> QED BY <1>4, <1>7, <1>9, <1>10, <3>1
  <2> QED BY <1>8, <2>1, <2>2
<1>12. d[r] # <<>>
  BY <1>1, NonEmptySet
<1> QED BY <1>4, <1>6, <1>8, <1>9, <1>10, <1>11, <1>12 DEF PassesFirst

\* The other senders keep their order when the first of a queue is taken.
LEMMA OthersStayBehind ==
  ASSUME NEW q, NEW t, NEW d, InLine(q, t, d), NEW c \in Conns, d[c] # <<>>,
         NEW r \in Conns, NEW j \in ToSet(d[r]), j # Head(d[c]),
         NEW s \in Conns, NEW k \in ToSet(d[s]), k # Head(d[c]), Behind(q, d, k, s, j, r)
  PROVE  LET e == [d EXCEPT ![c] = Tail(d[c])]
         IN k \in ToSet(e[s]) /\ Behind(q, e, k, s, j, r)
<1> DEFINE e == [d EXCEPT ![c] = Tail(d[c])]
<1>1. d[c] \in Seq(Tasks) /\ IsInjective(d[c]) /\ d \in [Conns -> Seq(Tasks)]
  BY DEF InLine
<1>2. /\ ToSet(Tail(d[c])) = ToSet(d[c]) \ {Head(d[c])}
      /\ \A x, y : Before(d[c], x, y) /\ x # Head(d[c]) => Before(Tail(d[c]), x, y)
  BY <1>1, TailKeepsInjective, BeforeTail
<1>3. e[c] = Tail(d[c]) /\ \A b \in Conns : b # c => e[b] = d[b]
  BY <1>1
<1> HIDE DEF e
<1>4. k \in ToSet(e[s])
  BY <1>2, <1>3
<1>5. Before(d[r], j, k) => Before(e[r], j, k)
  BY <1>2, <1>3
<1> QED BY <1>4, <1>5 DEF Behind, e

\* A broadcast that ends overtakes no other on its way.
LEMMA FinishCorrects ==
  ASSUME NEW q, NEW t, NEW d, InLine(q, t, d), NEW c \in Conns, d[c] # <<>>,
         t[Head(d[c])].kind = "ownership", NEW msg, Corrected(q, t, d, msg),
         Vacant(t[Head(d[c])].to, Len(t[Head(d[c])].to), [d EXCEPT ![c] = Tail(d[c])])
  PROVE  LET u == [t EXCEPT ![Head(d[c])] = NoTask]
             e == [d EXCEPT ![c] = Tail(d[c])]
         IN InLine(q, u, e) /\ Corrected(q, u, e, msg)
<1> DEFINE h == Head(d[c])
           to == t[h].to
           u == [t EXCEPT ![h] = NoTask]
           e == [d EXCEPT ![c] = Tail(d[c])]
<1>1. /\ t \in [Tasks -> TaskStates] /\ d \in [Conns -> Seq(Tasks)]
  BY DEF InLine
<1>2. InLine(q, t, e) /\ h \in Tasks /\ h \in ToSet(d[c]) /\ Unqueued(h, e)
  BY InLineTail
<1>3. \A b \in Conns : ToSet(e[b]) \subseteq Tasks /\ ToSet(e[b]) \subseteq ToSet(d[b])
  <2>1. d[c] \in Seq(Tasks) /\ IsInjective(d[c])
    BY DEF InLine
  <2>2. ToSet(Tail(d[c])) \subseteq ToSet(d[c])
    BY <2>1, TailKeepsInjective
  <2>3. \A b \in Conns : ToSet(d[b]) \subseteq Tasks
    BY <1>1, ToSetOfSeq
  <2> QED BY <1>1, <2>2, <2>3
<1>4. \A j \in Tasks : j # h => u[j] = t[j]
  BY <1>1
<1>5. \A b \in Conns : b # c => e[b] = d[b]
  BY <1>1
<1>6. Vacant(to, Len(to), e) /\ to \in Seq(Conns)
  BY <1>1, <1>2, TaskFields
<1>7. InLine(q, u, e)
  BY <1>2, InLineFinish
<1>8. \A j : \A b \in Conns : j \in ToSet(e[b]) => j # h
  BY <1>2 DEF Unqueued
<1>11. HeadMeetsAhead(q, t, d, c, h, msg)
  BY HeadOvertakesNone
<1> HIDE DEF u, e, h, to
<1>9. Corrected(q, u, e, msg)
  <2> SUFFICES ASSUME NEW r \in Conns, NEW j \in ToSet(e[r]),
                      u[j].kind = "ownership", u[j].msg # msg,
                      NEW y \in ToSet(u[j].to), y \in ToSet(q)
               PROVE  \E s \in Conns : \E k \in ToSet(e[s]) :
                        Brings(u[k], y, msg) /\ Behind(q, e, k, s, j, r)
    BY DEF Corrected
  <2>1. j \in Tasks /\ j # h /\ j \in ToSet(d[r]) /\ u[j] = t[j]
    BY <1>3, <1>4, <1>8
  <2>2. PICK s \in Conns : \E k \in ToSet(d[s]) : Brings(t[k], y, msg) /\ Behind(q, d, k, s, j, r)
    BY <2>1 DEF Corrected
  <2>3. PICK k \in ToSet(d[s]) : Brings(t[k], y, msg) /\ Behind(q, d, k, s, j, r)
    BY <2>2
  <2>4. CASE k # h
    <3>1. k \in ToSet(e[s]) /\ Behind(q, e, k, s, j, r)
      BY <2>1, <2>3, <2>4, OthersStayBehind DEF e, h
    <3>2. u[k] = t[k]
      BY <1>3, <1>4, <2>4, <3>1
    <3> QED BY <2>3, <3>1, <3>2
  <2>5. CASE k = h
    <3>1. s = c
      BY <1>2, <2>3, <2>5 DEF InLine
    <3>2. r # c /\ d[r] # <<>> /\ PassesFirst(to, r, y)
      <4>1. /\ Brings(t[h], y, msg) /\ Behind(q, d, h, c, j, r)
            /\ t[j].kind = "ownership" /\ y \in ToSet(t[j].to) /\ j \in ToSet(d[r])
        BY <2>1, <2>3, <2>5, <3>1
      <4> QED BY <1>11, <4>1 DEF HeadMeetsAhead, to
    <3>3. r \in ToSet(to) /\ e[r] # <<>>
      BY <1>5, <3>2 DEF ToSet, PassesFirst
    <3> QED BY <1>6, <3>3, ToSetOfSeq DEF Vacant
  <2> QED BY <2>4, <2>5
<1> QED BY <1>7, <1>9 DEF u, e, h

\* Nor does one that is held up further on: it stays behind whom it was behind, and whoever
\* was behind it still is.
LEMMA ForwardCorrects ==
  ASSUME NEW q, NEW t, NEW d, InLine(q, t, d), NEW c \in Conns, d[c] # <<>>,
         t[Head(d[c])].kind = "ownership", NEW msg, Corrected(q, t, d, msg),
         NEW n \in 1..Len(t[Head(d[c])].to), t[Head(d[c])].to[n] \in ToSet(q),
         Vacant(t[Head(d[c])].to, n - 1, [d EXCEPT ![c] = Tail(d[c])])
  PROVE  LET h == Head(d[c])
             to == t[h].to
             u == [t EXCEPT ![h] = Carrying(SubSeq(to, n + 1, Len(to)), t[h].msg)]
             e == [d EXCEPT ![c] = Tail(d[c])]
             f == [e EXCEPT ![to[n]] = Append(e[to[n]], h)]
         IN InLine(q, u, f) /\ Corrected(q, u, f, msg)
<1> DEFINE h == Head(d[c])
           to == t[h].to
           w == to[n]
           rest == SubSeq(to, n + 1, Len(to))
           u == [t EXCEPT ![h] = Carrying(rest, t[h].msg)]
           e == [d EXCEPT ![c] = Tail(d[c])]
           f == [e EXCEPT ![w] = Append(e[w], h)]
<1>1. /\ q \in Seq(Conns) /\ IsInjective(q)
      /\ t \in [Tasks -> TaskStates] /\ d \in [Conns -> Seq(Tasks)]
      /\ d[c] \in Seq(Tasks) /\ IsInjective(d[c])
  BY DEF InLine
<1>2. InLine(q, t, e) /\ h \in Tasks /\ h \in ToSet(d[c]) /\ Unqueued(h, e)
  BY InLineTail
<1>3. \A b \in Conns : ToSet(e[b]) \subseteq Tasks /\ ToSet(e[b]) \subseteq ToSet(d[b])
  <2>1. ToSet(Tail(d[c])) \subseteq ToSet(d[c])
    BY <1>1, TailKeepsInjective
  <2>2. \A b \in Conns : ToSet(d[b]) \subseteq Tasks
    BY <1>1, ToSetOfSeq
  <2> QED BY <1>1, <2>1, <2>2
<1>4. /\ \A j \in Tasks : j # h => u[j] = t[j]
      /\ u[h] = Carrying(rest, t[h].msg)
  BY <1>1, <1>2
<1>5. \A b \in Conns : b # c => e[b] = d[b]
  BY <1>1
<1>6. Vacant(to, n - 1, e) /\ to \in Seq(Conns) /\ t[h].msg \in Ownerships /\ Onward(q, c, to)
  BY <1>1, <1>2, TaskFields DEF InLine
<1>7. n \in 1..Len(to) /\ w \in ToSet(q)
  OBVIOUS
<1>8. /\ Len(to) \in Nat /\ DOMAIN to = 1..Len(to)
      /\ rest \in Seq(Conns) /\ ToSet(rest) = {to[i] : i \in (n + 1)..Len(to)}
      /\ ToSet(rest) \subseteq ToSet(to)
  <2> HIDE DEF h, to, u, e, f, w
  <2>1. /\ Len(to) \in Nat /\ DOMAIN to = 1..Len(to)
        /\ rest \in Seq(Conns) /\ ToSet(rest) = {to[i] : i \in (n + 1)..Len(to)}
    BY <1>6, <1>7, RestOfSeq
  <2> HIDE DEF rest
  <2>2. n \in Nat \ {0}
    BY <1>7, <2>1
  <2>3. (n + 1)..Len(to) \subseteq DOMAIN to
    BY <2>1, <2>2
  <2> QED BY <2>1, <2>3 DEF ToSet
<1>9. /\ Carrying(rest, t[h].msg) \in TaskStates /\ Carrying(rest, t[h].msg).kind = "ownership"
      /\ Carrying(rest, t[h].msg).to = rest /\ Carrying(rest, t[h].msg).msg = t[h].msg
  <2> HIDE DEF h, to, u, e, f, w, rest
  <2> QED BY <1>6, <1>8, CarryingFields
<1>10. Onward(q, w, rest)
  BY <1>1, <1>6, StretchOnward DEF Onward
<1>11. Before(q, c, w)
  BY <1>6, <1>7, <1>8 DEF Onward
<1>12. /\ \A x, y : Before(q, x, y) => x \in ToSet(q) /\ y \in ToSet(q) /\ x # y
       /\ \A x, y, z : Before(q, x, y) /\ Before(q, y, z) => Before(q, x, z)
  BY <1>1, BeforeIsOrder
<1>13. e \in [Conns -> Seq(Tasks)] /\ w \in Conns
  BY <1>1, <1>2, <1>7, ToSetOfSeq DEF InLine
<1>14. \A j : \A b \in Conns : j \in ToSet(e[b]) => j # h
  BY <1>2 DEF Unqueued
<1> HIDE DEF rest, w
<1>20. HeadMeetsAhead(q, t, d, c, h, msg)
  BY HeadOvertakesNone
<1>15. InLine(q, u, f)
  BY <1>2, <1>7, <1>9, <1>10, InLineSuspend
<1>16. f[w] = Append(e[w], h) /\ \A b \in Conns : b # w => f[b] = e[b]
  BY <1>13
<1> HIDE DEF u, e, f, h, to
<1>17. /\ ToSet(f[w]) = ToSet(e[w]) \cup {h}
       /\ \A x, y : Before(f[w], x, y) <=> Before(e[w], x, y) \/ (x \in ToSet(e[w]) /\ y = h)
  BY <1>2, <1>13, <1>16, ToSetOfAppend, BeforeAppend
<1>18. /\ \A b \in Conns : ToSet(e[b]) \subseteq ToSet(f[b])
       /\ \A b \in Conns : \A x, y : Before(e[b], x, y) => Before(f[b], x, y)
  BY <1>16, <1>17
<1>19. Corrected(q, u, f, msg)
  <2> SUFFICES ASSUME NEW r \in Conns, NEW j \in ToSet(f[r]),
                      u[j].kind = "ownership", u[j].msg # msg,
                      NEW y \in ToSet(u[j].to), y \in ToSet(q)
               PROVE  \E s \in Conns : \E k \in ToSet(f[s]) :
                        Brings(u[k], y, msg) /\ Behind(q, f, k, s, j, r)
    BY DEF Corrected
  <2>1. CASE j # h
    <3>1. j \in Tasks /\ j \in ToSet(e[r]) /\ j \in ToSet(d[r]) /\ u[j] = t[j]
      BY <1>3, <1>4, <1>16, <1>17, <2>1
    <3>2. PICK s \in Conns : \E k \in ToSet(d[s]) : Brings(t[k], y, msg) /\ Behind(q, d, k, s, j, r)
      BY <3>1 DEF Corrected
    <3>3. PICK k \in ToSet(d[s]) : Brings(t[k], y, msg) /\ Behind(q, d, k, s, j, r)
      BY <3>2
    <3>4. CASE k # h
      <4>1. k \in ToSet(e[s]) /\ Behind(q, e, k, s, j, r)
        BY <2>1, <3>1, <3>3, <3>4, OthersStayBehind DEF e, h
      <4>2. u[k] = t[k] /\ k \in ToSet(f[s])
        BY <1>3, <1>4, <1>18, <3>4, <4>1
      <4>3. Behind(q, f, k, s, j, r)
        BY <1>18, <4>1 DEF Behind
      <4> QED BY <3>3, <4>2, <4>3
    <3>5. CASE k = h
      <4>1. s = c
        BY <1>2, <3>3, <3>5 DEF InLine
      <4>2. r # c /\ d[r] # <<>> /\ r \in ToSet(q) /\ PassesFirst(to, r, y)
        <5>1. /\ Brings(t[h], y, msg) /\ Behind(q, d, h, c, j, r)
              /\ t[j].kind = "ownership" /\ y \in ToSet(t[j].to) /\ j \in ToSet(d[r])
          BY <3>1, <3>3, <3>5, <4>1
        <5> QED BY <1>20, <5>1 DEF HeadMeetsAhead, to
      <4>3. PICK l \in 1..Len(to), i \in 1..Len(to) : l < i /\ to[l] = r /\ to[i] = y
        BY <1>8, <4>2 DEF PassesFirst
      <4>4. ~(l \in 1..(n - 1))
        BY <1>5, <1>6, <4>2, <4>3 DEF Vacant
      <4>5. n <= l /\ i \in (n + 1)..Len(to)
        BY <1>7, <1>8, <4>3, <4>4
      <4>6. Brings(u[h], y, msg)
        BY <1>4, <1>8, <1>9, <3>3, <3>5, <4>3, <4>5 DEF Brings
      <4>7. Behind(q, f, h, w, j, r)
        <5>1. CASE l = n
          BY <1>17, <3>1, <4>3, <5>1 DEF Behind, w
        <5>2. CASE l # n
          <6>1. Before(q, w, r)
            BY <1>6, <1>7, <1>8, <4>2, <4>3, <4>5, <5>2 DEF Onward, Stretch, w
          <6> QED BY <6>1 DEF Behind
        <5> QED BY <5>1, <5>2
      <4> QED BY <1>13, <1>17, <4>6, <4>7
    <3> QED BY <3>4, <3>5
  <2>2. CASE j = h
    <3>1. r = w
      BY <1>14, <1>16, <2>2
    <3>2. t[h].msg # msg /\ y \in ToSet(to)
      BY <1>4, <1>8, <1>9, <2>2
    <3>3. t[h].kind = "ownership"
      BY DEF h
    <3>4. PICK s \in Conns : \E k \in ToSet(d[s]) : Brings(t[k], y, msg) /\ Behind(q, d, k, s, h, c)
      BY <1>2, <3>2, <3>3 DEF Corrected, to
    <3>5. PICK k \in ToSet(d[s]) : Brings(t[k], y, msg) /\ Behind(q, d, k, s, h, c)
      BY <3>4
    <3>6. k # h
      BY <3>2, <3>5 DEF Brings
    <3>7. k \in ToSet(e[s]) /\ k \in Tasks
      <4>1. ToSet(Tail(d[c])) = ToSet(d[c]) \ {h}
        BY <1>1, TailKeepsInjective DEF h
      <4>2. e[s] = IF s = c THEN Tail(d[c]) ELSE d[s]
        BY <1>1 DEF e
      <4> QED BY <1>3, <3>5, <3>6, <4>1, <4>2
    <3>8. u[k] = t[k] /\ k \in ToSet(f[s])
      BY <1>4, <1>18, <3>6, <3>7
    <3>9. Before(q, s, w)
      BY <1>11, <1>12, <3>5 DEF Behind
    <3> QED BY <2>2, <3>1, <3>5, <3>8, <3>9 DEF Behind
  <2> QED BY <2>1, <2>2
<1> QED BY <1>15, <1>19 DEF u, e, f, h, to, w, rest

-----------------------------------------------------------------------------
(* The sending operators                                                    *)

LEMMA AfreshSuffices ==
  ASSUME InLine(participants', task', draining'), NEW k \in Tasks,
         task'[k].kind \in {"claimed", "estop"}
  PROVE  BroadcastInv'
<1>1. Afresh(task')
  BY DEF Afresh
<1>2. Told(participants', task', view', Current')
  BY <1>1 DEF Told
<1> QED BY <1>1, <1>2 DEF BroadcastInv

\* A broadcast of the session as it is makes up for all that went before.
LEMMA BroadcastEstablishes ==
  ASSUME NEW k \in Tasks, SessionTypeOK', NEW t, NEW d, InLine(participants', t, d),
         Unqueued(k, d), BroadcastOwnership(k, t, d)
  PROVE  BroadcastInv'
<1> DEFINE q == participants'
           msg == Ownership(owner_operator_id', teleop_state')
<1>1. q \in Seq(Conns) /\ msg \in Ownerships /\ Current' = msg
  BY DEF SessionTypeOK, Ownership, Ownerships, Current
<1>2. Len(q) \in Nat /\ DOMAIN q = 1..Len(q) /\ ToSet(q) = {q[i] : i \in 1..Len(q)} /\ ToSet(q) \subseteq Conns
  BY <1>1, LenProperties, ToSetOfSeq
<1>3. \A cs : Delivered(cs, msg) => \A y \in cs \cap ToSet(q) : view'[y] = msg
  BY <1>2 DEF Delivered, Members
<1>4. ASSUME NEW n \in 1..Len(q), Clear(q, n - 1, d),
             Suspend(k, q[n], [kind |-> "ownership", to |-> SubSeq(q, n + 1, Len(q)), msg |-> msg], t, d),
             Delivered({q[i] : i \in 1..n}, msg)
      PROVE  BroadcastInv'
  <2> DEFINE rest == SubSeq(q, n + 1, Len(q))
  <2>1. /\ task' = [t EXCEPT ![k] = Carrying(rest, msg)]
        /\ draining' = [d EXCEPT ![q[n]] = Append(d[q[n]], k)]
    BY <1>4 DEF Suspend, Carrying
  <2>2. InLine(q, task', draining') /\ Corrected(q, task', draining', msg)
    <3>1. 1..(n - 1) \subseteq 1..Len(q)
      BY <1>2
    <3>2. Vacant(q, n - 1, d)
      BY <1>1, <1>4, <3>1, ClearIsVacant
    <3> QED BY <1>1, <1>4, <2>1, <3>2, BroadcastCorrects
  <2>3. /\ rest \in Seq(Conns) /\ ToSet(rest) = {q[i] : i \in (n + 1)..Len(q)}
    BY <1>1, RestOfSeq
  <2> HIDE DEF rest
  <2>4. task'[k] = Carrying(rest, msg)
    <3>1. t \in [Tasks -> TaskStates]
      BY DEF InLine
    <3> QED BY <2>1, <3>1
  <2> HIDE DEF q, msg
  <2>5. Told(q, task', view', msg)
    <3> SUFFICES ASSUME NEW y \in ToSet(q), view'[y] # msg
                 PROVE  Brings(task'[k], y, msg)
      BY DEF Told
    <3>1. PICK i \in 1..Len(q) : y = q[i]
      BY <1>2
    <3>2. ~(i \in 1..n)
      BY <1>3, <1>4, <3>1
    <3>3. i \in (n + 1)..Len(q)
      BY <1>2, <3>1, <3>2
    <3> QED BY <1>1, <2>3, <2>4, <3>1, <3>3, CarryingFields DEF Brings
  <2> QED BY <1>1, <2>2, <2>5 DEF BroadcastInv, q
<1>5. ASSUME Clear(q, Len(q), d), Finish(k, t, d), Delivered(ToSet(q), msg)
      PROVE  BroadcastInv'
  <2>1. InLine(q, task', draining') /\ Corrected(q, task', draining', msg)
    <3>1. Vacant(q, Len(q), d)
      BY <1>1, <1>5, ClearIsVacant
    <3> QED BY <1>5, <3>1, BroadcastAlone DEF Finish
  <2>2. Told(q, task', view', msg)
    BY <1>3, <1>5 DEF Told
  <2> QED BY <1>1, <2>1, <2>2 DEF BroadcastInv
<1> QED BY <1>4, <1>5 DEF BroadcastOwnership, SendOwnership

\* Unless it is left behind, a sender is suspended on a participant.
LEMMA WaitsOnParticipant ==
  ASSUME NEW t, NEW d, InLine(participants', t, d), ~LeftBehind',
         NEW c \in Conns, NEW k \in Tasks, draining' = [d EXCEPT ![c] = Append(d[c], k)]
  PROVE  c \in ToSet(participants')
<1>1. d \in [Conns -> Seq(Tasks)] /\ d[c] \in Seq(Tasks)
  BY DEF InLine
<1>2. draining'[c] # <<>>
  BY <1>1, AppendProperties
<1> QED BY <1>2 DEF LeftBehind, Members

LEMMA EstopEstablishes ==
  ASSUME NEW k \in Tasks, SessionTypeOK', NEW t, NEW d, InLine(participants', t, d),
         Unqueued(k, d), NEW to \in Seq(Conns), SendEstop(k, to, t, d), ~LeftBehind'
  PROVE  BroadcastInv'
<1>1. ASSUME NEW n \in 1..Len(to),
             Suspend(k, to[n], [kind |-> "estop", to |-> SubSeq(to, n + 1, Len(to))], t, d)
      PROVE  BroadcastInv'
  <2> DEFINE r == [kind |-> "estop", to |-> SubSeq(to, n + 1, Len(to))]
  <2>1. SubSeq(to, n + 1, Len(to)) \in Seq(Conns)
    BY RestOfSeq
  <2>2. r \in TaskStates /\ r.kind = "estop"
    BY <2>1 DEF TaskStates
  <2>3. /\ task' = [t EXCEPT ![k] = r] /\ to[n] \in ToSet(participants')
        /\ draining' = [d EXCEPT ![to[n]] = Append(d[to[n]], k)]
    <3>1. to[n] \in Conns
      BY ElementOfSeq
    <3> QED BY <1>1, <3>1, WaitsOnParticipant DEF Suspend
  <2> HIDE DEF r
  <2>4. InLine(participants', task', draining')
    BY <2>2, <2>3, InLineSuspend
  <2>5. task'[k] = r
    BY <2>3 DEF InLine
  <2> QED BY <2>2, <2>4, <2>5, AfreshSuffices
<1>2. ASSUME BroadcastOwnership(k, t, d)
      PROVE  BroadcastInv'
  BY <1>2, BroadcastEstablishes
<1> QED BY <1>1, <1>2 DEF SendEstop

LEMMA ClaimedEstablishes ==
  ASSUME NEW c \in Conns, SessionTypeOK', NEW t, NEW d, InLine(participants', t, d),
         Unqueued(c, d), SendClaimed(c, t, d), ~LeftBehind'
  PROVE  BroadcastInv'
<1>1. c \in Tasks
  BY DEF Tasks
<1>2. ASSUME Suspend(c, c, [kind |-> "claimed"], t, d)
      PROVE  BroadcastInv'
  <2> DEFINE r == [kind |-> "claimed"]
  <2>1. r \in TaskStates /\ r.kind = "claimed"
    BY DEF TaskStates
  <2>2. /\ task' = [t EXCEPT ![c] = r] /\ c \in ToSet(participants')
        /\ draining' = [d EXCEPT ![c] = Append(d[c], c)]
    BY <1>1, <1>2, WaitsOnParticipant DEF Suspend
  <2> HIDE DEF r
  <2>3. InLine(participants', task', draining')
    BY <1>1, <2>1, <2>2, InLineSuspend
  <2>4. task'[c] = r
    BY <1>1, <2>2 DEF InLine
  <2> QED BY <1>1, <2>1, <2>3, <2>4, AfreshSuffices
<1>3. ASSUME BroadcastOwnership(c, t, d)
      PROVE  BroadcastInv'
  BY <1>1, <1>3, BroadcastEstablishes
<1> QED BY <1>2, <1>3 DEF SendClaimed

LEMMA DepartEstablishes ==
  ASSUME NEW c \in Conns, SessionTypeOK', NEW d, InLine(participants, task, d),
         Unqueued(c, d), Depart(c, task, d), ~LeftBehind'
  PROVE  BroadcastInv'
<1>1. PICK i \in DOMAIN participants :
        participants[i] = c /\ participants' = RemoveAt(participants, i)
  BY DEF Depart
<1>2. i \in 1..Len(participants)
  BY <1>1, LenProperties DEF InLine
<1>3. c \notin ToSet(participants')
  BY <1>1, <1>2, RemoveAtSet DEF InLine
<1>4. draining'[c] = <<>>
  BY <1>3 DEF LeftBehind, Members
<1>5. d[c] = <<>>
  <2>1. d \in [Conns -> Seq(Tasks)] /\ d[c] \in Seq(Tasks) /\ c \in Tasks
    BY DEF InLine, Tasks
  <2>2. draining' = d \/ \E x : draining' = [d EXCEPT ![x] = Append(d[x], c)]
    BY DEF Depart, BroadcastOwnership, SendOwnership, Suspend, Finish
  <2>3. draining'[c] = d[c] \/ draining'[c] = Append(d[c], c)
    BY <2>1, <2>2
  <2> QED BY <1>4, <2>1, <2>3, AppendProperties
<1>6. InLine(participants', task, d)
  BY <1>1, <1>2, <1>5, InLineLeave
<1> QED BY <1>6, BroadcastEstablishes DEF Depart, Tasks

\* A broadcast that goes on delivers nothing outdated that is not corrected later.
LEMMA ResumedKeeps ==
  ASSUME BroadcastInv, DeliveryTypeOK, NEW c \in Conns, draining[c] # <<>>,
         UNCHANGED session, ~LeftBehind', task[Head(draining[c])].kind = "ownership",
         SendOwnership(Head(draining[c]), task[Head(draining[c])].to,
                       task[Head(draining[c])].msg, task, Undrained(c))
  PROVE  BroadcastInv'
<1> DEFINE h == Head(draining[c])
           to == task[h].to
           e == Undrained(c)
<1>1. /\ InLine(participants, task, draining) /\ task \in [Tasks -> TaskStates]
      /\ e = [draining EXCEPT ![c] = Tail(draining[c])]
  BY DEF BroadcastInv, InLine, Undrained
<1>2. h \in Tasks /\ h \in ToSet(draining[c])
  BY <1>1, InLineTail
<1>3. to \in Seq(Conns) /\ task[h].msg \in Ownerships
  BY <1>1, <1>2, TaskFields
<1>4. Len(to) \in Nat /\ DOMAIN to = 1..Len(to) /\ ToSet(to) = {to[i] : i \in 1..Len(to)}
  BY <1>3, LenProperties, ToSetOfSeq
<1>5. participants' = participants /\ Current' = Current
  BY DEF session, Current
<1>6. \A cs : Delivered(cs, task[h].msg)
        => \A y \in Conns : view'[y] = IF y \in cs \cap ToSet(participants) THEN task[h].msg ELSE view[y]
  BY <1>5 DEF Delivered, Members, Newcomers
<1>7. ToSet(participants) \subseteq Conns
  BY <1>1, ToSetOfSeq DEF InLine
<1>8. ASSUME Afresh(task), NEW r, r.kind # "claimed", task' = [task EXCEPT ![h] = r]
      PROVE  Afresh(task')
  <2>1. PICK k \in Tasks : task[k].kind \in {"claimed", "estop"}
    BY <1>8 DEF Afresh
  <2>2. task'[k] = task[k]
    BY <1>1, <1>8, <2>1
  <2> QED BY <2>1, <2>2 DEF Afresh
\* What a participant still lacks comes with a later broadcast, or is delivered.
<1>9. ASSUME NEW r, NEW cs, task' = [task EXCEPT ![h] = r], r.kind # "claimed",
             Delivered(cs, task[h].msg), cs \subseteq ToSet(to),
             \A y \in ToSet(to) : y \in cs \/ Brings(r, y, task[h].msg)
      PROVE  Told(participants', task', view', Current')
  <2> SUFFICES ASSUME NEW y \in ToSet(participants), view'[y] # Current, ~Afresh(task')
               PROVE  \E k \in Tasks : Brings(task'[k], y, Current)
    BY <1>5 DEF Told
  <2>1. ~Afresh(task)
    BY <1>8, <1>9
  <2>2. task'[h] = r /\ \A k \in Tasks : k # h => task'[k] = task[k]
    BY <1>1, <1>2, <1>9
  <2>3. CASE y \in cs
    <3>1. view'[y] = task[h].msg /\ task[h].msg # Current /\ y \in ToSet(to)
      BY <1>6, <1>7, <1>9, <2>3
    <3>2. Corrected(participants, task, draining, Current)
      BY <2>1 DEF BroadcastInv
    <3>3. PICK s \in Conns : \E k \in ToSet(draining[s]) : Brings(task[k], y, Current)
      BY <1>2, <3>1, <3>2 DEF Corrected
    <3>4. PICK k \in ToSet(draining[s]) : Brings(task[k], y, Current)
      BY <3>3
    <3>5. k \in Tasks /\ k # h
      <4>1. ToSet(draining[s]) \subseteq Tasks
        BY <1>1, ToSetOfSeq DEF InLine
      <4> QED BY <3>1, <3>4, <4>1 DEF Brings
    <3> QED BY <2>2, <3>4, <3>5
  <2>4. CASE y \notin cs
    <3>1. view[y] # Current
      BY <1>6, <1>7, <1>9, <2>4
    <3>2. PICK k \in Tasks : Brings(task[k], y, Current)
      BY <2>1, <3>1 DEF BroadcastInv, Told
    <3>3. CASE k # h
      BY <2>2, <3>2, <3>3
    <3>4. CASE k = h
      <4>1. y \in ToSet(to) /\ task[h].msg = Current
        BY <3>2, <3>4 DEF Brings
      <4> QED BY <1>2, <1>9, <2>2, <2>4, <4>1
    <3> QED BY <3>3, <3>4
  <2> QED BY <2>3, <2>4
<1>10. InLine(participants', task, e)
  <2>1. InLine(participants, task, [draining EXCEPT ![c] = Tail(draining[c])])
    BY <1>1, InLineTail
  <2> QED BY <1>1, <1>5, <2>1
<1>11. ASSUME NEW n \in 1..Len(to), Clear(to, n - 1, e),
              Suspend(h, to[n], [kind |-> "ownership", to |-> SubSeq(to, n + 1, Len(to)), msg |-> task[h].msg], task, e),
              Delivered({to[i] : i \in 1..n}, task[h].msg)
       PROVE  BroadcastInv'
  <2> DEFINE rest == SubSeq(to, n + 1, Len(to))
             r == Carrying(rest, task[h].msg)
  <2>1. /\ rest \in Seq(Conns) /\ ToSet(rest) = {to[i] : i \in (n + 1)..Len(to)}
    BY <1>3, RestOfSeq
  <2>2. /\ task' = [task EXCEPT ![h] = r] /\ to[n] \in ToSet(participants)
        /\ draining' = [e EXCEPT ![to[n]] = Append(e[to[n]], h)]
    <3>1. task' = [task EXCEPT ![h] = r] /\ draining' = [e EXCEPT ![to[n]] = Append(e[to[n]], h)]
      BY <1>11 DEF Suspend, Carrying
    <3>2. to[n] \in Conns
      BY <1>3, ElementOfSeq
    <3> HIDE DEF e, h, to
    <3> QED BY <1>2, <1>5, <1>10, <3>1, <3>2, WaitsOnParticipant
  <2>3. ASSUME Corrected(participants, task, draining, Current)
        PROVE  Corrected(participants, task', draining', Current)
    <3> DEFINE f == [draining EXCEPT ![c] = Tail(draining[c])]
    <3>1. Vacant(task[Head(draining[c])].to, n - 1, f) /\ n \in 1..Len(task[Head(draining[c])].to)
      <4>1. 1..(n - 1) \subseteq 1..Len(to)
        BY <1>4
      <4>2. Vacant(to, n - 1, e)
        BY <1>3, <1>11, <1>10, <4>1, ClearIsVacant
      <4> QED BY <1>1, <1>11, <4>2
    <3>2. Corrected(participants,
             [task EXCEPT ![h] = Carrying(SubSeq(task[h].to, n + 1, Len(task[h].to)), task[h].msg)],
             [f EXCEPT ![task[h].to[n]] = Append(f[task[h].to[n]], h)], Current)
      BY <1>1, <2>2, <2>3, <3>1, ForwardCorrects
    <3> QED BY <1>1, <2>2, <3>2
  <2>4. InLine(participants, task', draining')
    <3>1. InLine(participants, task, e) /\ Unqueued(h, e)
      <4>1. /\ InLine(participants, task, [draining EXCEPT ![c] = Tail(draining[c])])
            /\ Unqueued(Head(draining[c]), [draining EXCEPT ![c] = Tail(draining[c])])
        BY <1>1, InLineTail
      <4> QED BY <1>1, <4>1
    <3>2. Onward(participants, c, to)
      BY <1>1, <1>2 DEF InLine
    <3>3. Onward(participants, to[n], rest)
      BY <1>1, <1>3, <2>2, <3>2, StretchOnward DEF Onward, InLine
    <3>4. r \in TaskStates /\ r.kind = "ownership" /\ r.to = rest
      BY <1>3, <2>1, CarryingFields
    <3> HIDE DEF rest, r, e, to, h
    <3> QED BY <1>2, <2>2, <3>1, <3>3, <3>4, InLineSuspend
  <2>5. r.kind = "ownership" /\ r.to = rest /\ r.msg = task[h].msg
    <3>1. rest \in Seq(Conns) /\ task[h].msg \in Ownerships /\ r = Carrying(rest, task[h].msg)
      BY <1>3, <2>1
    <3> HIDE DEF rest, r, to, h, e
    <3> QED BY <3>1, CarryingFields
  <2>6. Afresh(task) => Afresh(task')
    BY <1>8, <2>2, <2>5
  <2> HIDE DEF rest, r, to
  <2>7. /\ {to[i] : i \in 1..n} \subseteq ToSet(to)
        /\ \A y \in ToSet(to) : y \in {to[i] : i \in 1..n} \/ Brings(r, y, task[h].msg)
    <3>1. 1..n \subseteq 1..Len(to) /\ \A i \in 1..Len(to) : i \in 1..n \/ i \in (n + 1)..Len(to)
      BY <1>4
    <3> QED BY <1>4, <2>1, <2>5, <3>1 DEF Brings
  <2>8. Told(participants', task', view', Current')
    BY <1>9, <1>11, <2>2, <2>5, <2>7
  <2> QED BY <1>5, <2>3, <2>4, <2>6, <2>8 DEF BroadcastInv
<1>12. ASSUME Clear(to, Len(to), e), Finish(h, task, e), Delivered(ToSet(to), task[h].msg)
       PROVE  BroadcastInv'
  <2>1. task' = [task EXCEPT ![h] = NoTask] /\ draining' = e /\ NoTask.kind = "none"
    BY <1>12 DEF Finish, NoTask
  <2>2. ASSUME Corrected(participants, task, draining, Current)
        PROVE  Corrected(participants, task', draining', Current)
    <3>1. Vacant(task[Head(draining[c])].to, Len(task[Head(draining[c])].to),
                 [draining EXCEPT ![c] = Tail(draining[c])])
      <4>1. Vacant(to, Len(to), e)
        BY <1>3, <1>12, <1>10, ClearIsVacant
      <4> QED BY <1>1, <4>1
    <3>2. Corrected(participants, [task EXCEPT ![Head(draining[c])] = NoTask],
                    [draining EXCEPT ![c] = Tail(draining[c])], Current)
      BY <1>1, <2>2, <3>1, FinishCorrects
    <3> QED BY <1>1, <2>1, <3>2
  <2>3. InLine(participants, task', draining')
    BY <1>1, <1>2, <2>1, InLineTail, InLineFinish
  <2>4. Afresh(task) => Afresh(task')
    BY <1>8, <2>1
  <2>5. Told(participants', task', view', Current')
    BY <1>9, <1>12, <2>1
  <2> QED BY <1>5, <2>2, <2>3, <2>4, <2>5 DEF BroadcastInv
<1> QED BY <1>11, <1>12 DEF SendOwnership

-----------------------------------------------------------------------------
(* The invariant                                                            *)

LEMMA BroadcastInit == Init => BroadcastInv
<1> SUFFICES ASSUME Init PROVE BroadcastInv
  OBVIOUS
<1>1. /\ participants \in Seq(Conns) /\ ToSet(participants) = {} /\ IsInjective(participants)
      /\ <<>> \in Seq(Tasks) /\ ToSet(<<>>) = {} /\ IsInjective(<<>>)
  BY ToSetOfEmpty, EmptySeq DEF Init, IsInjective
<1>2. NoTask \in TaskStates
  BY DEF TaskStates
<1>3. InLine(participants, task, draining)
  BY <1>1, <1>2 DEF Init, InLine
<1>4. Corrected(participants, task, draining, Current)
  BY <1>1 DEF Init, Corrected
<1>5. Told(participants, task, view, Current)
  BY <1>1 DEF Told
<1> QED BY <1>3, <1>4, <1>5 DEF BroadcastInv

LEMMA BroadcastStep ==
  ASSUME DeliveryInv, SessionTypeOK', BroadcastInv, ~LeftBehind', [Next]_vars
  PROVE  BroadcastInv'
<1>1. InLine(participants, task, draining) /\ DeliveryTypeOK
  BY DEF BroadcastInv, DeliveryInv
<1>2. /\ task \in [Tasks -> TaskStates] /\ draining \in [Conns -> Seq(Tasks)]
      /\ participants \in Seq(Conns)
  BY <1>1 DEF InLine
<1>3. \A c \in Conns : c \in Tasks /\ c # Timer
  BY SessionAssumption DEF Tasks
<1>4. Timer \in Tasks /\ Http \in Tasks /\ Http # Timer
  BY DEF Tasks, Http, Timer
<1>5. InLine(participants, TasksWithoutTimer, QueuesWithoutTimer)
  BY <1>1, InLineCancel
<1>6. ASSUME NEW k \in Tasks, k # Timer, task[k] = NoTask
      PROVE  Unqueued(k, QueuesWithoutTimer)
  <2>1. TasksWithoutTimer[k] = NoTask
    BY <1>2, <1>6 DEF TasksWithoutTimer
  <2> QED BY <1>5, <2>1, IdleUnqueued
<1>7. ASSUME NEW c \in Conns, Join(c) PROVE BroadcastInv'
  <2>1. InLine(participants', task, draining)
    <3>1. /\ c \notin ToSet(participants) /\ participants' = Append(participants, c)
          /\ \A k \in Tasks : task[k].kind = "ownership" => c \notin ToSet(task[k].to)
      BY <1>7 DEF Join, Members
    <3> QED BY <1>1, <3>1, InLineJoin
  <2>2. Unqueued(c, draining) /\ BroadcastOwnership(c, task, draining)
    BY <1>1, <1>3, <1>7, IdleUnqueued DEF Join
  <2> QED BY <1>3, <2>1, <2>2, BroadcastEstablishes
<1>8. ASSUME NEW c \in Conns, Leave(c) PROVE BroadcastInv'
  <2>1. Unqueued(c, draining) /\ Depart(c, task, draining)
    BY <1>1, <1>3, <1>8, IdleUnqueued DEF Leave, Listening
  <2> QED BY <1>1, <2>1, DepartEstablishes
<1>9. ASSUME NEW c \in Conns, NEW o \in Operators, Claim(c, o) PROVE BroadcastInv'
  <2>1. participants' = participants /\ task[c] = NoTask
        /\ SendClaimed(c, TasksWithoutTimer, QueuesWithoutTimer)
    BY <1>9 DEF Claim, TakeClaim, Listening
  <2> QED BY <1>3, <1>5, <1>6, <2>1, ClaimedEstablishes
<1>10. ASSUME NEW k \in Tasks, k # Timer, task[k] = NoTask, participants' = participants,
              BroadcastOwnership(k, TasksWithoutTimer, QueuesWithoutTimer)
       PROVE  BroadcastInv'
  BY <1>5, <1>6, <1>10, BroadcastEstablishes
<1>11. ASSUME NEW c \in Conns, NEW o \in Operators, Release(c, o) PROVE BroadcastInv'
  BY <1>3, <1>10, <1>11 DEF Release, DropClaim, Listening
<1>12. ASSUME NEW o \in Operators, HttpClaim(o) \/ HttpRelease(o) PROVE BroadcastInv'
  BY <1>4, <1>10, <1>12 DEF HttpClaim, HttpRelease, TakeClaim, DropClaim
<1>13. ASSUME NEW c \in Conns, NEW e \in BOOLEAN, NEW r \in BOOLEAN, Estop(c, e, r) PROVE BroadcastInv'
  <2>1. participants' = participants /\ task[c] = NoTask /\ SendEstop(c, participants, task, draining)
    BY <1>13 DEF Estop, Listening
  <2>2. Unqueued(c, draining)
    BY <1>1, <1>3, <2>1, IdleUnqueued
  <2> QED BY <1>1, <1>2, <1>3, <2>1, <2>2, EstopEstablishes
<1>14. ASSUME UNCHANGED <<participants, owner_operator_id, teleop_state, task, draining, view>>
       PROVE  BroadcastInv'
  <2>1. Current' = Current
    BY <1>14 DEF Current
  <2> QED BY <1>14, <2>1 DEF BroadcastInv
<1>15. CASE ReleaseLater
  <2>1. CASE owner_operator_id # None /\ ~StillConnected
    <3>1. BroadcastOwnership(Timer, task, draining) /\ participants' = participants
      BY <1>15, <2>1 DEF ReleaseLater
    <3>2. Unqueued(Timer, draining)
      BY <1>1, <1>4, <2>1, IdleUnqueued DEF DeliveryInv, ReleaseBroadcastIsTrue
    <3> QED BY <1>1, <1>4, <3>1, <3>2, BroadcastEstablishes
  <2>2. CASE ~(owner_operator_id # None /\ ~StillConnected)
    BY <1>14, <1>15, <2>2 DEF ReleaseLater
  <2> QED BY <2>1, <2>2
<1>16. ASSUME NEW c \in Conns, draining[c] # <<>>
       PROVE  /\ InLine(participants, task, Undrained(c))
              /\ Head(draining[c]) \in Tasks
              /\ Unqueued(Head(draining[c]), Undrained(c))
  BY <1>1, <1>16, InLineTail DEF Undrained
<1>17. ASSUME NEW c \in Conns, Resume(c) PROVE BroadcastInv'
  <2> DEFINE k == Head(draining[c])
  <2>1. draining[c] # <<>> /\ UNCHANGED session /\ participants' = participants
    BY <1>17 DEF Resume, session
  <2>2. InLine(participants', task, Undrained(c)) /\ k \in Tasks /\ Unqueued(k, Undrained(c))
    BY <1>16, <2>1
  <2>3. CASE task[k].kind = "claimed" /\ BroadcastOwnership(k, task, Undrained(c))
    BY <2>2, <2>3, BroadcastEstablishes
  <2>4. CASE task[k].kind = "estop" /\ SendEstop(k, task[k].to, task, Undrained(c))
    <3>1. task[k].to \in Seq(Conns)
      BY <1>2, <2>2, <2>4, TaskFields
    <3> QED BY <2>2, <2>4, <3>1, EstopEstablishes
  <2>5. CASE task[k].kind = "ownership" /\ SendOwnership(k, task[k].to, task[k].msg, task, Undrained(c))
    BY <1>1, <2>1, <2>5, ResumedKeeps
  <2> QED BY <1>17, <2>3, <2>4, <2>5 DEF Resume
<1>18. ASSUME NEW c \in Conns, ReplyFails(c) PROVE BroadcastInv'
  <2>1. draining[c] # <<>> /\ Head(draining[c]) = c /\ Depart(c, task, Undrained(c))
    BY <1>18 DEF ReplyFails
  <2> QED BY <1>16, <2>1, DepartEstablishes
<1>19. CASE UNCHANGED vars
  BY <1>14, <1>19 DEF vars
<1> QED BY <1>7, <1>8, <1>9, <1>11, <1>12, <1>13, <1>15, <1>17, <1>18, <1>19 DEF Next

\* A websocket joins once.
LEMMA JoinsOnce ==
  ASSUME SessionTypeOK, IsInjective(participants), [Next]_vars
  PROVE  IsInjective(participants')
<1>1. ASSUME NEW c \in Conns, Join(c) PROVE IsInjective(participants')
  BY <1>1, AppendKeepsInjective DEF Join, Members, SessionTypeOK
<1>2. ASSUME NEW c \in Conns, NEW t, NEW d, Depart(c, t, d) PROVE IsInjective(participants')
  <2>1. PICK i \in DOMAIN participants : participants' = RemoveAt(participants, i)
    BY <1>2 DEF Depart
  <2>2. i \in 1..Len(participants)
    BY <2>1, LenProperties DEF SessionTypeOK
  <2> QED BY <2>1, <2>2, RemoveAtKeepsInjective DEF SessionTypeOK
<1>3. ASSUME UNCHANGED participants PROVE IsInjective(participants')
  BY <1>3
<1> QED
  BY <1>1, <1>2, <1>3
  DEF Next, Leave, Claim, Release, HttpClaim, HttpRelease, TakeClaim, DropClaim, Estop, ReleaseLater,
      Resume, ReplyFails, vars, session

LEMMA SettledSuffices ==
  ASSUME SessionTypeOK, DeliveryTypeOK, IsInjective(participants), Settled
  PROVE  BroadcastInv
<1>1. ToSet(<<>>) = {} /\ IsInjective(<<>>)
  BY ToSetOfEmpty DEF IsInjective
<1>2. InLine(participants, task, draining)
  BY <1>1 DEF SessionTypeOK, DeliveryTypeOK, Settled, InLine
<1>3. Corrected(participants, task, draining, Current)
  BY <1>1 DEF Settled, Corrected
<1>4. Told(participants, task, view, Current)
  BY DEF Settled, Told, Members
<1> QED BY <1>2, <1>3, <1>4 DEF BroadcastInv

TrackInv == DeliveryInv /\ IsInjective(participants) /\ (~overtaken => BroadcastInv)

LEMMA TrackStep ==
  ASSUME TrackInv, [TrackNext]_deliveryVars
  PROVE  TrackInv'
<1>1. [Next]_vars
  BY DEF TrackNext, deliveryVars
<1>2. DeliveryInv' /\ SessionTypeOK' /\ DeliveryTypeOK' /\ IsInjective(participants')
  BY <1>1, DeliveryStep, JoinsOnce DEF TrackInv, DeliveryInv, SessionInv
<1>3. ASSUME ~overtaken' PROVE BroadcastInv'
  <2>1. CASE TrackNext
    <3>1. ~LeftBehind' /\ (~overtaken \/ Settled')
      BY <1>3, <2>1 DEF TrackNext
    <3>2. ASSUME ~overtaken PROVE BroadcastInv'
      BY <1>1, <1>2, <3>1, <3>2, BroadcastStep DEF TrackInv
    <3>3. ASSUME Settled' PROVE BroadcastInv'
      <4>1. SessionTypeOK' /\ DeliveryTypeOK' /\ IsInjective(participants)' /\ Settled'
        BY <1>2, <3>3
      <4> QED BY <4>1, SettledSuffices, PTL
    <3> QED BY <3>1, <3>2, <3>3
  <2>2. CASE UNCHANGED deliveryVars
    BY <1>3, <2>2 DEF TrackInv, BroadcastInv, Current, deliveryVars, vars
  <2> QED BY <2>1, <2>2
<1> QED BY <1>2, <1>3 DEF TrackInv

\* No interleaving of suspended broadcasts leaves a participant with a stale owner: whoever
\* has not been told the present ownership last is going to be, whichever connections
\* read slowly.  The exception is part of the property: a sender that was suspended
\* on a connection which departed delivers the ownership of an earlier time after the
\* departure was broadcast.
THEOREM StaleAlwaysPending == TrackSpec => []StaleIsPending
<1>1. TrackInit => TrackInv
  <2>1. TrackInit => IsInjective(participants)
    BY DEF TrackInit, Init, IsInjective
  <2> QED BY <2>1, DeliveryInit, BroadcastInit DEF TrackInit, TrackInv
<1>2. TrackInv => StaleIsPending
  BY ToldIsPending DEF TrackInv, BroadcastInv
<1> QED BY <1>1, <1>2, TrackStep, PTL DEF TrackSpec
=============================================================================
