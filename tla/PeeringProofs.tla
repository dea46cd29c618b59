----------------------------- MODULE PeeringProofs -----------------------------
(***************************************************************************)
(* Proofs about how the peers find each other, for every set of leader     *)
(* gateways and browsers and any number of connections.  An offer, once it *)
(* is sent, is in one place at a time, as itself, as the work of the       *)
(* follower gateway or as its answer; the invariants follow it there.      *)
(***************************************************************************)
EXTENDS Peering, TLAPS, SequenceTheorems

-----------------------------------------------------------------------------
(* Queues                                                                  *)

\* What clients send, and what is sent to them.
Calls == {OfferMsg(i) : i \in Ids} \cup {AnswerMsg(i) : i \in Ids}
Messages == {JoinedMsg} \cup Calls

\* m is offer i or its answer.
Carries(m, i) == m \in {OfferMsg(i), AnswerMsg(i)}

Silent(q, i) == \A n \in DOMAIN q : ~Carries(q[n], i)

\* At most one message of q carries i.
Alone(q, i) == \A n, k \in DOMAIN q : Carries(q[n], i) /\ Carries(q[k], i) => n = k

\* r carries i no more often than q.
NoMore(r, q, i) == (Silent(q, i) => Silent(r, i)) /\ (Alone(q, i) => Alone(r, i))

\* What may wait on connection i: a session.joined only in front, and no answer to
\* an offer of another connection.
GoodDown(q, i) ==
  \A n \in DOMAIN q :
    /\ n > 1 => q[n] # JoinedMsg
    /\ q[n].type = "webrtc.answer" => q[n] = AnswerMsg(i)

LEMMA MessageFacts ==
  /\ \A i \in Ids : /\ OfferMsg(i) \in Calls /\ AnswerMsg(i) \in Calls
                    /\ Carries(OfferMsg(i), i) /\ Carries(AnswerMsg(i), i)
                    /\ OfferMsg(i) # JoinedMsg /\ AnswerMsg(i) # JoinedMsg
                    /\ OfferMsg(i).type = "webrtc.offer" /\ AnswerMsg(i).type = "webrtc.answer"
                    /\ OfferMsg(i).offer = i /\ AnswerMsg(i).offer = i
                    /\ ~Carries(JoinedMsg, i)
  /\ \A i, j \in Ids : /\ Carries(OfferMsg(j), i) => i = j
                       /\ Carries(AnswerMsg(j), i) => i = j
                       /\ OfferMsg(i) # AnswerMsg(j)
  /\ JoinedMsg \in Messages /\ Calls \subseteq Messages /\ JoinedMsg.type = "session.joined"
<1>1. \A i : /\ OfferMsg(i).type = "webrtc.offer" /\ AnswerMsg(i).type = "webrtc.answer"
             /\ OfferMsg(i).offer = i /\ AnswerMsg(i).offer = i
  BY DEF OfferMsg, AnswerMsg
<1>2. JoinedMsg.type = "session.joined"
  BY DEF JoinedMsg
<1> QED BY <1>1, <1>2 DEF Messages, Calls, Carries

LEMMA EmptyQueue ==
  ASSUME NEW i
  PROVE  Silent(<<>>, i) /\ Alone(<<>>, i) /\ GoodDown(<<>>, i)
<1>1. DOMAIN <<>> = {}
  OBVIOUS
<1> QED BY <1>1 DEF Silent, Alone, GoodDown

LEMMA SilentAlone ==
  ASSUME NEW q, NEW i, Silent(q, i)
  PROVE  Alone(q, i)
  BY DEF Silent, Alone

\* One message more.
LEMMA AppendCarries ==
  ASSUME NEW S, NEW q \in Seq(S), NEW m \in S, NEW i \in Ids
  PROVE  /\ Append(q, m) \in Seq(S)
         /\ ~Carries(m, i) => NoMore(Append(q, m), q, i)
         /\ Silent(q, i) => Alone(Append(q, m), i)
<1> DEFINE r == Append(q, m)
<1>1. /\ r \in Seq(S)
      /\ Len(q) \in Nat /\ DOMAIN q = 1..Len(q) /\ DOMAIN r = 1..(Len(q) + 1)
      /\ \A n \in 1..Len(q) : r[n] = q[n]
      /\ r[Len(q) + 1] = m
  BY AppendProperties, LenProperties
<1> HIDE DEF r
<1>2. ~Carries(m, i) /\ Silent(q, i) => Silent(r, i)
  BY <1>1 DEF Silent
<1>3. ~Carries(m, i) /\ Alone(q, i) => Alone(r, i)
  BY <1>1 DEF Alone
<1>4. Silent(q, i) => Alone(r, i)
  BY <1>1 DEF Silent, Alone
<1> QED BY <1>1, <1>2, <1>3, <1>4 DEF NoMore, r

LEMMA AppendGood ==
  ASSUME NEW i \in Ids, NEW q \in Seq(Messages), GoodDown(q, i), NEW m \in Messages,
         m # JoinedMsg, m.type = "webrtc.answer" => m = AnswerMsg(i)
  PROVE  GoodDown(Append(q, m), i) /\ (Append(q, m)[1] = JoinedMsg => q # <<>> /\ q[1] = JoinedMsg)
<1> DEFINE r == Append(q, m)
<1>1. /\ Len(q) \in Nat /\ DOMAIN q = 1..Len(q) /\ DOMAIN r = 1..(Len(q) + 1)
      /\ \A n \in 1..Len(q) : r[n] = q[n]
      /\ r[Len(q) + 1] = m
      /\ q = <<>> <=> Len(q) = 0
  BY AppendProperties, LenProperties, EmptySeq
<1> HIDE DEF r
<1>2. GoodDown(r, i)
  BY <1>1 DEF GoodDown
<1>3. r[1] = JoinedMsg => q # <<>> /\ q[1] = JoinedMsg
  BY <1>1
<1> QED BY <1>2, <1>3 DEF r

\* One message less in front.
LEMMA TailCarries ==
  ASSUME NEW S, NEW q \in Seq(S), q # <<>>, NEW i \in Ids
  PROVE  /\ Head(q) \in S /\ Tail(q) \in Seq(S)
         /\ NoMore(Tail(q), q, i)
         /\ Carries(Head(q), i) => ~Silent(q, i)
         /\ Carries(Head(q), i) /\ Alone(q, i) => Silent(Tail(q), i)
<1> DEFINE r == Tail(q)
<1>1. /\ Head(q) \in S /\ r \in Seq(S)
      /\ Len(q) \in Nat \ {0} /\ DOMAIN q = 1..Len(q) /\ DOMAIN r = 1..(Len(q) - 1)
      /\ \A n \in 1..(Len(q) - 1) : r[n] = q[n + 1]
      /\ Head(q) = q[1]
  BY HeadTailProperties, LenProperties, EmptySeq
<1> HIDE DEF r
<1>2. Silent(q, i) => Silent(r, i)
  BY <1>1 DEF Silent
<1>3. Alone(q, i) => Alone(r, i)
  <2> SUFFICES ASSUME Alone(q, i), NEW n \in DOMAIN r, NEW k \in DOMAIN r,
                      Carries(r[n], i), Carries(r[k], i)
               PROVE  n = k
    BY DEF Alone
  <2>1. /\ n + 1 \in DOMAIN q /\ k + 1 \in DOMAIN q /\ n \in Nat /\ k \in Nat
        /\ Carries(q[n + 1], i) /\ Carries(q[k + 1], i)
    BY <1>1
  <2>2. n + 1 = k + 1
    BY <2>1 DEF Alone
  <2> QED BY <2>1, <2>2
<1>4. Carries(Head(q), i) => ~Silent(q, i)
  BY <1>1 DEF Silent
<1>5. Carries(Head(q), i) /\ Alone(q, i) => Silent(r, i)
  <2> SUFFICES ASSUME Carries(q[1], i), Alone(q, i), NEW n \in DOMAIN r, Carries(r[n], i)
               PROVE  FALSE
    BY <1>1 DEF Silent
  <2>1. 1 \in DOMAIN q /\ n + 1 \in DOMAIN q /\ n + 1 # 1 /\ Carries(q[n + 1], i)
    BY <1>1
  <2> QED BY <2>1 DEF Alone
<1> QED BY <1>1, <1>2, <1>3, <1>4, <1>5 DEF NoMore, r

LEMMA TailGood ==
  ASSUME NEW i \in Ids, NEW q \in Seq(Messages), q # <<>>, GoodDown(q, i)
  PROVE  GoodDown(Tail(q), i) /\ ~(Tail(q) # <<>> /\ Tail(q)[1] = JoinedMsg)
<1> DEFINE r == Tail(q)
<1>1. /\ Len(q) \in Nat \ {0} /\ DOMAIN q = 1..Len(q) /\ DOMAIN r = 1..(Len(q) - 1)
      /\ \A n \in 1..(Len(q) - 1) : r[n] = q[n + 1]
      /\ r # <<>> => Len(q) > 1
  <2>1. /\ r \in Seq(Messages) /\ Len(r) = Len(q) - 1
        /\ Len(q) \in Nat \ {0} /\ DOMAIN q = 1..Len(q) /\ DOMAIN r = 1..(Len(q) - 1)
        /\ \A n \in 1..(Len(q) - 1) : r[n] = q[n + 1]
    BY HeadTailProperties, LenProperties, EmptySeq
  <2>2. r # <<>> => Len(r) # 0
    BY <2>1, EmptySeq
  <2> QED BY <2>1, <2>2
<1> HIDE DEF r
<1>2. GoodDown(r, i)
  <2> SUFFICES ASSUME NEW n \in DOMAIN r
               PROVE  /\ n > 1 => r[n] # JoinedMsg
                      /\ r[n].type = "webrtc.answer" => r[n] = AnswerMsg(i)
    BY DEF GoodDown
  <2>1. n + 1 \in DOMAIN q /\ n + 1 > 1 /\ r[n] = q[n + 1]
    BY <1>1
  <2> QED BY <2>1 DEF GoodDown
<1>3. r # <<>> => r[1] # JoinedMsg
  <2> SUFFICES ASSUME r # <<>>
               PROVE  r[1] # JoinedMsg
    OBVIOUS
  <2>1. 2 \in DOMAIN q /\ 2 > 1 /\ r[1] = q[2]
    BY <1>1
  <2> QED BY <2>1 DEF GoodDown
<1> QED BY <1>2, <1>3 DEF r

\* What is left of a queue that is cut.
LEMMA PrefixCarries ==
  ASSUME NEW S, NEW q \in Seq(S), NEW n \in 0..Len(q), NEW i \in Ids
  PROVE  SubSeq(q, 1, n) \in Seq(S) /\ NoMore(SubSeq(q, 1, n), q, i)
<1> DEFINE r == SubSeq(q, 1, n)
<1>1. Len(q) \in Nat /\ DOMAIN q = 1..Len(q) /\ \A k \in 1..n : q[k] \in S
  BY LenProperties, ElementOfSeq
<1>2. /\ r \in Seq(S) /\ DOMAIN r = 1..n
      /\ \A k \in 1..n : r[k] = q[k]
  <2>1. /\ r \in Seq(S) /\ Len(r) = IF 1 <= n THEN n - 1 + 1 ELSE 0
        /\ \A k \in 1..(n - 1 + 1) : r[k] = q[1 + k - 1]
    BY <1>1, SubSeqProperties
  <2>2. Len(r) = n /\ DOMAIN r = 1..Len(r)
    BY <1>1, <2>1, LenProperties
  <2>3. \A k \in 1..n : r[k] = q[k]
    BY <1>1, <2>1
  <2> QED BY <2>1, <2>2, <2>3
<1> HIDE DEF r
<1>3. Silent(q, i) => Silent(r, i)
  BY <1>1, <1>2 DEF Silent
<1>4. Alone(q, i) => Alone(r, i)
  BY <1>1, <1>2 DEF Alone
<1> QED BY <1>2, <1>3, <1>4 DEF NoMore, r

-----------------------------------------------------------------------------
(* The invariant                                                           *)

PeerConnections ==
  [signaling : {"new", "gathering", "have-local-offer", "stable"},
   offer : Ids \cup {None}, remote : Ids \cup {None}]

PeeringTypeOK ==
  /\ made \in 0..MaxConns
  /\ who \in [Ids -> Clients \cup {None}]
  /\ members \subseteq Ids
  /\ ws \in [Clients -> Ids \cup {None}]
  /\ up \in [Ids -> Seq(Calls)]
  /\ down \in [Ids -> Seq(Messages)]
  /\ pc \in [Offerers -> PeerConnections]
  /\ answering \in Ids \cup {None}

\* In a state with the queues u and d and the work a of the follower gateway, neither
\* offer i nor its answer is anywhere ...
NowhereIn(i, u, d, a) ==
  /\ a # i
  /\ \A g \in Ids : Silent(u[g], i) /\ Silent(d[g], i)

\* ... or in one place at most.
InOnePlace(i, u, d, a) ==
  /\ \A g \in Ids : Alone(u[g], i) /\ Alone(d[g], i)
  /\ \A g, h \in Ids : Silent(u[g], i) \/ Silent(u[h], i) \/ g = h
  /\ \A g, h \in Ids : Silent(d[g], i) \/ Silent(d[h], i) \/ g = h
  /\ \A g, h \in Ids : Silent(u[g], i) \/ Silent(d[h], i)
  /\ a = i => \A g \in Ids : Silent(u[g], i) /\ Silent(d[g], i)

\* A client's connection is one that was made, for it.
ConnsOwned ==
  \A c \in Clients : ws[c] # None => ws[c] <= made /\ who[ws[c]] = c

\* Nothing carries the offer of a connection that is yet to be made.
FutureIsBlank == \A i \in Ids : i > made => NowhereIn(i, up, down, answering)

OffersInOnePlace == \A i \in Ids : InOnePlace(i, up, down, answering)

DownsGood == \A i \in Ids : GoodDown(down[i], i)

\* A leader gateway that has yet to read its session.joined has not offered.
Joining(q) == q # <<>> /\ q[1] = JoinedMsg
JoiningIsBlank ==
  \A l \in Leaders :
    ws[l] # None /\ Joining(down[ws[l]]) => NowhereIn(ws[l], up, down, answering)

\* The offer of an open connection is the one its pc waits for, as long as it or its
\* answer is anywhere.
Awaits(p, i) == p.signaling = "have-local-offer" /\ p.offer = i
OffersAwaited ==
  \A o \in Offerers :
    ws[o] # None => NowhereIn(ws[o], up, down, answering) \/ Awaits(pc[o], ws[o])

PeeringInv ==
  /\ PeeringTypeOK
  /\ ConnsOwned
  /\ FutureIsBlank
  /\ OffersInOnePlace
  /\ DownsGood
  /\ JoiningIsBlank
  /\ OffersAwaited

-----------------------------------------------------------------------------
(* Where an offer may go                                                   *)

\* A step that makes no new offer leaves every offer in one place, or nowhere.
Kept ==
  \A i \in Ids :
    /\ InOnePlace(i, up, down, answering) => InOnePlace(i, up', down', answering')
    /\ NowhereIn(i, up, down, answering) => NowhereIn(i, up', down', answering')

\* An offer that no queue carries more often than before.
LEMMA NoMoreKept ==
  ASSUME NEW i \in Ids,
         \A g \in Ids : NoMore(up'[g], up[g], i) /\ NoMore(down'[g], down[g], i),
         answering' # i \/ answering' = answering
  PROVE  /\ InOnePlace(i, up, down, answering) => InOnePlace(i, up', down', answering')
         /\ NowhereIn(i, up, down, answering) => NowhereIn(i, up', down', answering')
  BY DEF NoMore, InOnePlace, NowhereIn

\* The queues that only lose messages, none of which is taken as work.
LEMMA LosingKept ==
  ASSUME \A i, g \in Ids : NoMore(up'[g], up[g], i) /\ NoMore(down'[g], down[g], i),
         answering' \in {answering, None}
  PROVE  Kept
  BY NoMoreKept, PeeringAssumption DEF Kept, Ids

\* An offer taken from a queue is in no other place, nor in that queue any more.
LEMMA TakenFromUp ==
  ASSUME PeeringTypeOK, NEW i \in Ids, NEW g \in Ids, InOnePlace(i, up, down, answering),
         up[g] # <<>>, Carries(Head(up[g]), i)
  PROVE  /\ answering # i
         /\ \A h \in Ids : Silent(down[h], i) /\ (h # g => Silent(up[h], i))
         /\ Silent(Tail(up[g]), i)
<1>1. up[g] \in Seq(Calls)
  BY DEF PeeringTypeOK
<1>2. ~Silent(up[g], i) /\ (Alone(up[g], i) => Silent(Tail(up[g]), i))
  BY <1>1, TailCarries
<1> QED BY <1>2 DEF InOnePlace

LEMMA TakenFromDown ==
  ASSUME PeeringTypeOK, NEW i \in Ids, NEW g \in Ids, InOnePlace(i, up, down, answering),
         down[g] # <<>>, Carries(Head(down[g]), i)
  PROVE  /\ answering # i
         /\ \A h \in Ids : Silent(up[h], i) /\ (h # g => Silent(down[h], i))
         /\ Silent(Tail(down[g]), i)
<1>1. down[g] \in Seq(Messages)
  BY DEF PeeringTypeOK
<1>2. ~Silent(down[g], i) /\ (Alone(down[g], i) => Silent(Tail(down[g]), i))
  BY <1>1, TailCarries
<1> QED BY <1>2 DEF InOnePlace

\* Unless a new offer is made or a connection, the invariant follows from this.
LEMMA KeptInv ==
  ASSUME PeeringInv, Kept, PeeringTypeOK', DownsGood', UNCHANGED <<made, who>>,
         \A c \in Clients : ws'[c] \in {ws[c], None},
         \A g \in Ids : Joining(down'[g]) => Joining(down[g]),
         \A o \in Offerers, i \in Ids :
           ws[o] = i /\ Awaits(pc[o], i)
             => Awaits(pc'[o], i) \/ NowhereIn(i, up', down', answering')
  PROVE  PeeringInv'
<1> USE DEF PeeringInv, Clients, Offerers
<1>1. \A c \in Clients : ws[c] \in Ids \cup {None}
  BY DEF PeeringTypeOK
<1>2. ConnsOwned'
  BY DEF ConnsOwned
<1>3. FutureIsBlank' /\ OffersInOnePlace'
  BY DEF FutureIsBlank, OffersInOnePlace, Kept
<1>4. JoiningIsBlank'
  <2> SUFFICES ASSUME NEW l \in Leaders, ws'[l] # None, Joining(down'[ws'[l]])
               PROVE  NowhereIn(ws'[l], up', down', answering')
    BY DEF JoiningIsBlank
  <2>1. ws'[l] = ws[l] /\ ws[l] \in Ids
    BY <1>1
  <2>2. NowhereIn(ws[l], up, down, answering)
    BY <2>1 DEF JoiningIsBlank
  <2> QED BY <2>1, <2>2 DEF Kept
<1>5. OffersAwaited'
  <2> SUFFICES ASSUME NEW o \in Offerers, ws'[o] # None
               PROVE  NowhereIn(ws'[o], up', down', answering') \/ Awaits(pc'[o], ws'[o])
    BY DEF OffersAwaited
  <2>1. ws'[o] = ws[o] /\ ws[o] \in Ids
    BY <1>1
  <2>2. NowhereIn(ws[o], up, down, answering) \/ Awaits(pc[o], ws[o])
    BY <2>1 DEF OffersAwaited
  <2> QED BY <2>1, <2>2 DEF Kept
<1> QED BY <1>2, <1>3, <1>4, <1>5

-----------------------------------------------------------------------------
(* The clients                                                             *)

LEMMA SameQueue ==
  ASSUME NEW q, NEW i
  PROVE  NoMore(q, q, i) /\ NoMore(<<>>, q, i)
  BY EmptyQueue DEF NoMore

\* A client reads its next message.
LEMMA ReadLeaves ==
  ASSUME PeeringInv, NEW c \in Clients, ws[c] # None, down[ws[c]] # <<>>,
         down' = [down EXCEPT ![ws[c]] = Tail(@)]
  PROVE  /\ ws[c] \in Ids
         /\ Head(down[ws[c]]) \in Messages /\ Head(down[ws[c]]) = down[ws[c]][1]
         /\ down' \in [Ids -> Seq(Messages)] /\ DownsGood'
         /\ \A g \in Ids : Joining(down'[g]) => Joining(down[g])
         /\ ~Joining(down'[ws[c]])
         /\ \A i, g \in Ids : NoMore(down'[g], down[g], i)
         /\ \A g \in Ids : g # ws[c] => down'[g] = down[g]
         /\ down'[ws[c]] = Tail(down[ws[c]])
<1> USE DEF PeeringInv
<1> DEFINE w == ws[c]
<1>1. w \in Ids /\ down \in [Ids -> Seq(Messages)]
  BY DEF PeeringTypeOK
<1>2. /\ Head(down[w]) \in Messages /\ Tail(down[w]) \in Seq(Messages)
      /\ Head(down[w]) = down[w][1]
  BY <1>1, HeadTailProperties
<1>3. GoodDown(Tail(down[w]), w) /\ ~Joining(Tail(down[w]))
  BY <1>1, TailGood DEF DownsGood, Joining
<1>4. \A i \in Ids : NoMore(Tail(down[w]), down[w], i)
  BY <1>1, TailCarries
<1>5. /\ \A g \in Ids : g # w => down'[g] = down[g]
      /\ down'[w] = Tail(down[w])
      /\ down' \in [Ids -> Seq(Messages)]
  BY <1>1, <1>2
<1> HIDE DEF w
<1>6. DownsGood'
  BY <1>1, <1>3, <1>5 DEF DownsGood
<1>7. \A g \in Ids : Joining(down'[g]) => Joining(down[g])
  BY <1>1, <1>3, <1>5
<1>8. \A i, g \in Ids : NoMore(down'[g], down[g], i)
  BY <1>4, <1>5, SameQueue
<1> QED BY <1>1, <1>2, <1>3, <1>5, <1>6, <1>7, <1>8 DEF w

LEMMA LosesWebsocketKeeps ==
  ASSUME PeeringInv, NEW c \in Clients, LosesWebsocket(c)
  PROVE  PeeringInv'
<1> USE DEF PeeringInv
<1> DEFINE w == ws[c]
<1>1. w \in Ids /\ up[w] \in Seq(Calls)
  BY DEF PeeringTypeOK, LosesWebsocket
<1>2. PICK n \in 0..Len(up[w]) : up' = [up EXCEPT ![w] = SubSeq(up[w], 1, n)]
  BY <1>1 DEF LosesWebsocket, PeeringTypeOK
<1>3. /\ ws' = [ws EXCEPT ![c] = None] /\ down' = [down EXCEPT ![w] = <<>>]
      /\ UNCHANGED <<made, who, members, pc, answering>>
  BY DEF LosesWebsocket, server
<1> HIDE DEF w
<1>4. SubSeq(up[w], 1, n) \in Seq(Calls) /\ \A i \in Ids : NoMore(SubSeq(up[w], 1, n), up[w], i)
  BY <1>1, PrefixCarries
<1>5. PeeringTypeOK'
  BY <1>1, <1>2, <1>3, <1>4, EmptySeq DEF PeeringTypeOK
<1>6. \A i, g \in Ids : NoMore(up'[g], up[g], i) /\ NoMore(down'[g], down[g], i)
  BY <1>1, <1>2, <1>3, <1>4, SameQueue DEF PeeringTypeOK
<1>7. DownsGood' /\ \A g \in Ids : Joining(down'[g]) => Joining(down[g])
  BY <1>1, <1>3, EmptyQueue DEF PeeringTypeOK, DownsGood, Joining
<1>8. \A d \in Clients : ws'[d] \in {ws[d], None}
  BY <1>3 DEF PeeringTypeOK
<1>9. Kept
  BY <1>3, <1>6, LosingKept
<1> QED BY <1>3, <1>5, <1>7, <1>8, <1>9, KeptInv

LEMMA RestartsKeeps ==
  ASSUME PeeringInv, NEW c \in Clients, Restarts(c)
  PROVE  PeeringInv'
<1> USE DEF PeeringInv
<1>1. /\ ws[c] = None /\ UNCHANGED <<made, who, members, ws, up, down>>
      /\ answering' \in {answering, None}
      /\ \/ pc' = pc
         \/ pc' = [pc EXCEPT ![c] = NewPeerConnection]
  BY DEF Restarts, server
<1>2. NewPeerConnection \in PeerConnections
  BY DEF NewPeerConnection, PeerConnections
<1>3. PeeringTypeOK'
  BY <1>1, <1>2 DEF PeeringTypeOK
<1>4. None \notin Ids
  BY PeeringAssumption DEF Ids
<1>5. \A o \in Offerers, i \in Ids : ws[o] = i => pc'[o] = pc[o]
  BY <1>1, <1>4 DEF PeeringTypeOK
<1>6. Kept
  BY <1>1, SameQueue, LosingKept
<1>7. DownsGood'
  BY <1>1 DEF DownsGood
<1>8. \A d \in Clients : ws'[d] \in {ws[d], None}
  BY <1>1
<1>9. \A g \in Ids : Joining(down'[g]) => Joining(down[g])
  BY <1>1
<1>10. \A o \in Offerers, i \in Ids : ws[o] = i /\ Awaits(pc[o], i) => Awaits(pc'[o], i)
  BY <1>5
<1> QED BY <1>1, <1>3, <1>6, <1>7, <1>8, <1>9, <1>10, KeptInv

LEMMA BrowserJoinedKeeps ==
  ASSUME PeeringInv, NEW b \in Browsers, BrowserJoined(b)
  PROVE  PeeringInv'
<1> USE DEF PeeringInv
<1>1. /\ b \in Clients /\ ws[b] # None /\ down[ws[b]] # <<>>
      /\ down' = [down EXCEPT ![ws[b]] = Tail(@)]
      /\ UNCHANGED <<made, who, members, ws, up, answering>>
      /\ pc' = [pc EXCEPT ![b].signaling = IF @ = "new" THEN "gathering" ELSE @]
  BY DEF BrowserJoined, Reads, Clients, Offerers, server
<1>2. PeeringTypeOK'
  <2>1. pc' \in [Offerers -> PeerConnections]
    <3>1. pc \in [Offerers -> PeerConnections] /\ b \in Offerers
      BY DEF PeeringTypeOK, Offerers
    <3>2. \A s \in {"new", "gathering", "have-local-offer", "stable"} :
            [pc[b] EXCEPT !.signaling = s] \in PeerConnections
      BY <3>1 DEF PeerConnections
    <3>3. pc[b].signaling \in {"new", "gathering", "have-local-offer", "stable"}
      BY <3>1 DEF PeerConnections
    <3>4. [pc[b] EXCEPT !.signaling = IF @ = "new" THEN "gathering" ELSE @] \in PeerConnections
      BY <3>2, <3>3
    <3> QED BY <1>1, <3>1, <3>4
  <2> QED BY <1>1, <2>1, ReadLeaves DEF PeeringTypeOK
<1>3. \A o \in Offerers, i \in Ids : Awaits(pc[o], i) => Awaits(pc'[o], i)
  BY <1>1 DEF Awaits, PeeringTypeOK, PeerConnections
<1>4. Kept
  BY <1>1, ReadLeaves, SameQueue, LosingKept
<1> QED BY <1>1, <1>2, <1>3, <1>4, ReadLeaves, KeptInv

LEMMA TakesAnswerKeeps ==
  ASSUME PeeringInv, NEW o \in Offerers, TakesAnswer(o)
  PROVE  PeeringInv'
<1> USE DEF PeeringInv
<1>1. PICK i \in Ids :
        /\ ws[o] # None /\ down[ws[o]] # <<>> /\ Head(down[ws[o]]) = AnswerMsg(i)
        /\ down' = [down EXCEPT ![ws[o]] = Tail(@)]
        /\ pc' = [pc EXCEPT ![o] = [signaling |-> "stable", offer |-> None, remote |-> i]]
        /\ UNCHANGED <<made, who, members, ws, up, answering>>
  BY DEF TakesAnswer, Reads, server
<1>2. o \in Clients
  BY DEF Clients
<1>3. PeeringTypeOK'
  <2>1. pc' \in [Offerers -> PeerConnections]
    BY <1>1 DEF PeeringTypeOK, PeerConnections
  <2> QED BY <1>1, <1>2, <2>1, ReadLeaves DEF PeeringTypeOK
<1>4. Kept
  BY <1>1, <1>2, ReadLeaves, SameQueue, LosingKept
<1>5. ws[o] \in Ids /\ down[ws[o]] \in Seq(Messages) /\ down[ws[o]][1] = AnswerMsg(i)
  BY <1>1, <1>2, ReadLeaves DEF PeeringTypeOK
<1>6. i = ws[o]
  <2>1. 1 \in DOMAIN down[ws[o]]
    BY <1>1, <1>5, LenProperties, EmptySeq
  <2>2. AnswerMsg(i) = AnswerMsg(ws[o])
    BY <1>5, <2>1, MessageFacts DEF DownsGood, GoodDown
  <2> QED BY <1>5, <2>2, MessageFacts
<1>7. NowhereIn(i, up', down', answering')
  <2>1. /\ answering # i
        /\ \A h \in Ids : Silent(up[h], i) /\ (h # ws[o] => Silent(down[h], i))
        /\ Silent(Tail(down[ws[o]]), i)
    BY <1>1, <1>5, MessageFacts, TakenFromDown DEF OffersInOnePlace
  <2> QED BY <1>1, <1>2, <2>1, ReadLeaves DEF NowhereIn
<1>8. \A p \in Offerers, j \in Ids : ws[p] = j /\ Awaits(pc[p], j)
        => Awaits(pc'[p], j) \/ NowhereIn(j, up', down', answering')
  BY <1>1, <1>6, <1>7 DEF PeeringTypeOK
<1>9. \A c \in Clients : ws'[c] \in {ws[c], None}
  BY <1>1
<1> QED BY <1>1, <1>2, <1>3, <1>4, <1>8, <1>9, ReadLeaves, KeptInv

-----------------------------------------------------------------------------
(* The follower gateway                                                    *)

\* A message sent carries no offer but its own.
LEMMA SentKeeps ==
  ASSUME NEW w \in Ids, NEW u \in [Ids -> Seq(Calls)], NEW m \in Calls
  PROVE  /\ [u EXCEPT ![w] = Append(u[w], m)] \in [Ids -> Seq(Calls)]
         /\ \A i, g \in Ids :
              ~Carries(m, i) => NoMore([u EXCEPT ![w] = Append(u[w], m)][g], u[g], i)
<1> DEFINE v == [u EXCEPT ![w] = Append(u[w], m)]
<1>1. /\ Append(u[w], m) \in Seq(Calls)
      /\ \A i \in Ids : ~Carries(m, i) => NoMore(Append(u[w], m), u[w], i)
  BY AppendCarries
<1>2. v \in [Ids -> Seq(Calls)] /\ v[w] = Append(u[w], m) /\ \A g \in Ids : g # w => v[g] = u[g]
  BY <1>1
<1> HIDE DEF v
<1>3. \A i, g \in Ids : ~Carries(m, i) => NoMore(v[g], u[g], i)
  BY <1>1, <1>2, SameQueue
<1> QED BY <1>2, <1>3 DEF v

\* A message sent by a client whose offer is in no queue.
LEMMA SentAlone ==
  ASSUME NEW i \in Ids, NEW w \in Ids, NEW u \in [Ids -> Seq(Calls)], NEW d, NEW a, a # i,
         NEW m \in Calls, \A g \in Ids : Silent(u[g], i) /\ Silent(d[g], i)
  PROVE  InOnePlace(i, [u EXCEPT ![w] = Append(u[w], m)], d, a)
<1> DEFINE v == [u EXCEPT ![w] = Append(u[w], m)]
<1>1. \A g \in Ids : g # w => v[g] = u[g]
  OBVIOUS
<1>2. v[w] = Append(u[w], m) /\ Alone(v[w], i)
  BY AppendCarries
<1> HIDE DEF v
<1>3. \A g \in Ids : Alone(v[g], i) /\ Alone(d[g], i) /\ (g # w => Silent(v[g], i))
  BY <1>1, <1>2, SilentAlone
<1>4. InOnePlace(i, v, d, a)
  BY <1>3 DEF InOnePlace
<1> QED BY <1>4 DEF v

LEMMA TakesOfferKeeps ==
  ASSUME PeeringInv, TakesOffer
  PROVE  PeeringInv'
<1> USE DEF PeeringInv
<1> DEFINE w == ws[Follower]
<1>1. PICK i \in Ids :
        /\ answering = None /\ answering' = i
        /\ w # None /\ down[w] # <<>> /\ Head(down[w]) = OfferMsg(i)
        /\ down' = [down EXCEPT ![w] = Tail(@)]
        /\ UNCHANGED <<made, who, members, ws, up, pc>>
  BY DEF TakesOffer, Reads, server
<1>2. Follower \in Clients
  BY DEF Clients
<1>3. PeeringTypeOK'
  BY <1>1, <1>2, ReadLeaves DEF PeeringTypeOK
<1>4. /\ w \in Ids
      /\ \A j, g \in Ids : NoMore(down'[g], down[g], j) /\ NoMore(up'[g], up[g], j)
      /\ \A g \in Ids : g # w => down'[g] = down[g]
      /\ down'[w] = Tail(down[w])
  BY <1>1, <1>2, ReadLeaves, SameQueue
<1>5. /\ answering # i
      /\ \A h \in Ids : Silent(up[h], i) /\ (h # w => Silent(down[h], i))
      /\ Silent(Tail(down[w]), i)
  BY <1>1, <1>4, MessageFacts, TakenFromDown DEF OffersInOnePlace
<1>6. ~NowhereIn(i, up, down, answering)
  <2>1. down[w] \in Seq(Messages) /\ Carries(Head(down[w]), i)
    BY <1>1, <1>4, MessageFacts DEF PeeringTypeOK
  <2> QED BY <1>1, <1>4, <2>1, TailCarries DEF NowhereIn
<1>7. InOnePlace(i, up', down', answering')
  <2>1. \A g \in Ids : Silent(up'[g], i) /\ Silent(down'[g], i)
    BY <1>1, <1>4, <1>5
  <2> QED BY <2>1, SilentAlone DEF InOnePlace
<1>8. Kept
  <2> SUFFICES ASSUME NEW j \in Ids
               PROVE  /\ InOnePlace(j, up, down, answering) => InOnePlace(j, up', down', answering')
                      /\ NowhereIn(j, up, down, answering) => NowhereIn(j, up', down', answering')
    BY DEF Kept
  <2>1. CASE j = i
    BY <1>6, <1>7, <2>1
  <2>2. CASE j # i
    BY <1>1, <1>4, <2>2, NoMoreKept
  <2> QED BY <2>1, <2>2
<1>9. \A c \in Clients : ws'[c] \in {ws[c], None}
  BY <1>1
<1> QED BY <1>1, <1>2, <1>3, <1>8, <1>9, ReadLeaves, KeptInv

LEMMA AnswersKeeps ==
  ASSUME PeeringInv, Answers
  PROVE  PeeringInv'
<1> USE DEF PeeringInv
<1> DEFINE w == ws[Follower]
           a == answering
<1>1. /\ a \in Ids /\ answering' = None
      /\ UNCHANGED <<made, who, members, ws, down, pc>>
      /\ \/ up' = up
         \/ w \in Ids /\ up' = [up EXCEPT ![w] = Append(up[w], AnswerMsg(a))]
  BY DEF Answers, Sends, server, PeeringTypeOK, Clients
<1>2. up \in [Ids -> Seq(Calls)] /\ AnswerMsg(a) \in Calls /\ None \notin Ids
  BY <1>1, MessageFacts, PeeringAssumption DEF PeeringTypeOK, Ids
<1> HIDE DEF w, a
<1>3. PeeringTypeOK'
  <2>1. ASSUME NEW v \in Ids
        PROVE  [up EXCEPT ![v] = Append(up[v], AnswerMsg(a))] \in [Ids -> Seq(Calls)]
    BY <1>2, SentKeeps
  <2>2. up' \in [Ids -> Seq(Calls)]
    BY <1>1, <1>2, <2>1
  <2> QED BY <1>1, <2>2 DEF PeeringTypeOK
<1>4. InOnePlace(a, up', down', answering')
  <2>1. InOnePlace(a, up, down, answering) /\ \A g \in Ids : Silent(up[g], a) /\ Silent(down[g], a)
    BY <1>1 DEF OffersInOnePlace, InOnePlace, a
  <2>2. CASE up' = up
    BY <1>1, <1>2, <2>1, <2>2 DEF InOnePlace
  <2>3. CASE w \in Ids /\ up' = [up EXCEPT ![w] = Append(up[w], AnswerMsg(a))]
    <3>1. InOnePlace(a, [up EXCEPT ![w] = Append(up[w], AnswerMsg(a))], down, None)
      BY <1>1, <1>2, <2>1, <2>3, SentAlone
    <3> QED BY <1>1, <2>3, <3>1
  <2> QED BY <1>1, <2>2, <2>3
<1>5. ~NowhereIn(a, up, down, answering)
  BY DEF NowhereIn, a
<1>6. Kept
  <2> SUFFICES ASSUME NEW j \in Ids
               PROVE  /\ InOnePlace(j, up, down, answering) => InOnePlace(j, up', down', answering')
                      /\ NowhereIn(j, up, down, answering) => NowhereIn(j, up', down', answering')
    BY DEF Kept
  <2>1. CASE j = a
    BY <1>4, <1>5, <2>1
  <2>2. CASE j # a
    <3>1. ~Carries(AnswerMsg(a), j)
      BY <1>1, <2>2, MessageFacts
    <3>2. \A g \in Ids : NoMore(up'[g], up[g], j)
      BY <1>1, <1>2, <3>1, SentKeeps, SameQueue
    <3> QED BY <1>1, <1>2, <3>2, SameQueue, NoMoreKept
  <2> QED BY <2>1, <2>2
<1>7. DownsGood' /\ \A g \in Ids : Joining(down'[g]) => Joining(down[g])
  BY <1>1 DEF DownsGood
<1>8. \A c \in Clients : ws'[c] \in {ws[c], None}
  BY <1>1
<1> QED BY <1>1, <1>3, <1>6, <1>7, <1>8, KeptInv

-----------------------------------------------------------------------------
(* The server                                                              *)

\* Whatever a participant sends is for one open connection at most, and an answer for
\* the connection of its offer.
LEMMA OneTarget ==
  ASSUME PeeringInv, NEW m \in Calls
  PROVE  \E y \in Ids : /\ m.type = "webrtc.answer" => m = AnswerMsg(y)
                        /\ \A g \in Targets(m) : (\E c \in Clients : ws[c] = g) => g = y
<1> USE DEF PeeringInv
<1>1. ASSUME NEW i \in Ids, m = AnswerMsg(i)
      PROVE  m.offer = i /\ Targets(m) \subseteq {i}
  BY <1>1, MessageFacts DEF Targets
<1>2. ASSUME NEW i \in Ids, m = OfferMsg(i)
      PROVE  \E y \in Ids : \A g \in Targets(m) : (\E c \in Clients : ws[c] = g) => g = y
  <2>1. Targets(m) = Gateways /\ Gateways \subseteq Ids
    BY <1>2, MessageFacts DEF Targets, Gateways, PeeringTypeOK
  <2>2. \A g \in Gateways, c \in Clients : ws[c] = g => c = Follower
    BY <2>1, PeeringAssumption DEF Gateways, ConnsOwned, Ids
  <2>3. \A g \in Gateways : (\E c \in Clients : ws[c] = g) => g = ws[Follower]
    BY <2>2
  <2>4. CASE ws[Follower] \in Ids
    BY <2>1, <2>3, <2>4
  <2>5. CASE ws[Follower] \notin Ids
    BY <2>1, <2>3, <2>5
  <2> QED BY <2>4, <2>5
<1>3. \A i \in Ids : OfferMsg(i).type # "webrtc.answer"
  BY MessageFacts
<1> QED BY <1>1, <1>2, <1>3 DEF Calls

\* The message in front of up[i] is taken, and one queue at most is given it.
LEMMA RelayedKept ==
  ASSUME PeeringInv, NEW i \in Ids, up[i] # <<>>, NEW y \in Ids,
         NEW r \in {Tail(up[i]), <<>>}, up' = [up EXCEPT ![i] = r],
         \A g \in Ids : \/ down'[g] \in {down[g], <<>>}
                        \/ g = y /\ down'[g] = Append(down[y], Head(up[i])),
         UNCHANGED answering
  PROVE  Kept
<1> USE DEF PeeringInv
<1> DEFINE m == Head(up[i])
<1>1. /\ up \in [Ids -> Seq(Calls)] /\ down \in [Ids -> Seq(Messages)]
      /\ up[i] \in Seq(Calls) /\ m \in Calls /\ m \in Messages
  BY HeadTailProperties, MessageFacts DEF PeeringTypeOK
<1> SUFFICES ASSUME NEW j \in Ids
             PROVE  /\ InOnePlace(j, up, down, answering) => InOnePlace(j, up', down', answering')
                    /\ NowhereIn(j, up, down, answering) => NowhereIn(j, up', down', answering')
  BY DEF Kept
<1>2. NoMore(r, up[i], j) /\ \A g \in Ids : NoMore(up'[g], up[g], j)
  <2>1. NoMore(Tail(up[i]), up[i], j)
    BY <1>1, TailCarries
  <2>2. NoMore(r, up[i], j)
    BY <2>1, SameQueue
  <2>3. up'[i] = r /\ \A g \in Ids : g # i => up'[g] = up[g]
    BY <1>1
  <2> QED BY <2>2, <2>3, SameQueue
<1>3. CASE ~Carries(m, j)
  <2>1. NoMore(Append(down[y], m), down[y], j)
    BY <1>1, <1>3, AppendCarries
  <2>2. \A g \in Ids : NoMore(down'[g], down[g], j)
    BY <2>1, SameQueue
  <2> QED BY <1>2, <2>2, NoMoreKept
<1>4. CASE Carries(m, j)
  <2>1. InOnePlace(j, up, down, answering)
    BY DEF OffersInOnePlace
  <2>2. /\ answering # j
        /\ \A h \in Ids : Silent(down[h], j) /\ (h # i => Silent(up[h], j))
        /\ Silent(Tail(up[i]), j)
    BY <1>1, <1>4, <2>1, TakenFromUp
  <2>3. ~NowhereIn(j, up, down, answering)
    BY <1>1, <1>4, TailCarries DEF NowhereIn
  <2>4. \A g \in Ids : Silent(up'[g], j)
    BY <1>1, <2>2, EmptyQueue
  <2>5. Alone(Append(down[y], m), j)
    BY <1>1, <2>2, AppendCarries
  <2> HIDE DEF m
  <2>6. \A g \in Ids : g # y => Silent(down'[g], j)
    BY <2>2, EmptyQueue
  <2>7. \A g \in Ids : Alone(down'[g], j) /\ Alone(up'[g], j)
    BY <2>2, <2>4, <2>5, EmptyQueue, SilentAlone DEF m
  <2>8. InOnePlace(j, up', down', answering')
    BY <2>2, <2>4, <2>6, <2>7 DEF InOnePlace
  <2> QED BY <2>3, <2>8
<1> QED BY <1>3, <1>4

LEMMA RelayedInv ==
  ASSUME PeeringInv, NEW i \in Ids, up[i] # <<>>, NEW y \in Ids,
         Head(up[i]).type = "webrtc.answer" => Head(up[i]) = AnswerMsg(y),
         NEW r \in {Tail(up[i]), <<>>}, up' = [up EXCEPT ![i] = r],
         \A g \in Ids : \/ down'[g] \in {down[g], <<>>}
                        \/ g = y /\ down'[g] = Append(down[y], Head(up[i])),
         down' = [g \in Ids |-> down'[g]],
         members' \subseteq members, ws' \in [Clients -> Ids \cup {None}],
         \A c \in Clients : ws'[c] \in {ws[c], None},
         UNCHANGED <<made, who, pc, answering>>
  PROVE  PeeringInv'
<1> USE DEF PeeringInv
<1> DEFINE m == Head(up[i])
<1>1. Kept
  BY RelayedKept
<1>2. /\ up \in [Ids -> Seq(Calls)] /\ down \in [Ids -> Seq(Messages)]
      /\ up[i] \in Seq(Calls) /\ m \in Calls /\ m \in Messages /\ m # JoinedMsg
      /\ Tail(up[i]) \in Seq(Calls)
  <2>1. up[i] \in Seq(Calls)
    BY DEF PeeringTypeOK
  <2>2. m \in Calls /\ Tail(up[i]) \in Seq(Calls)
    BY <2>1, HeadTailProperties
  <2>3. m # JoinedMsg
    BY <2>2, MessageFacts DEF Calls
  <2> QED BY <2>1, <2>2, <2>3, MessageFacts DEF PeeringTypeOK
<1>3. /\ Append(down[y], m) \in Seq(Messages)
      /\ GoodDown(Append(down[y], m), y)
      /\ Joining(Append(down[y], m)) => Joining(down[y])
  <2>1. GoodDown(down[y], y) /\ down[y] \in Seq(Messages)
    BY <1>2 DEF DownsGood
  <2> QED BY <1>2, <2>1, AppendGood, AppendProperties DEF Joining
<1> HIDE DEF m
<1>4. /\ \A g \in Ids : down'[g] \in Seq(Messages)
      /\ DownsGood'
      /\ \A g \in Ids : Joining(down'[g]) => Joining(down[g])
  <2> SUFFICES ASSUME NEW g \in Ids
               PROVE  /\ down'[g] \in Seq(Messages) /\ GoodDown(down'[g], g)
                      /\ Joining(down'[g]) => Joining(down[g])
    BY DEF DownsGood
  <2>1. CASE down'[g] = down[g]
    BY <1>2, <2>1 DEF DownsGood
  <2>2. CASE down'[g] = <<>>
    BY <2>2, EmptyQueue, EmptySeq DEF Joining
  <2>3. CASE g = y /\ down'[g] = Append(down[y], m)
    BY <1>3, <2>3
  <2> QED BY <2>1, <2>2, <2>3 DEF m
<1>5. PeeringTypeOK'
  <2>1. up' \in [Ids -> Seq(Calls)]
    BY <1>2, EmptySeq
  <2>2. down' \in [Ids -> Seq(Messages)]
    BY <1>4
  <2> QED BY <2>1, <2>2 DEF PeeringTypeOK
<1>6. \A o \in Offerers, j \in Ids : Awaits(pc[o], j) => Awaits(pc'[o], j)
  OBVIOUS
<1> QED BY <1>1, <1>4, <1>5, <1>6, KeptInv

LEMMA RelaysKeeps ==
  ASSUME PeeringInv, NEW i \in Ids, Relays(i)
  PROVE  PeeringInv'
<1> DEFINE m == Head(up[i])
<1>1. /\ up[i] # <<>> /\ up' = [up EXCEPT ![i] = Tail(up[i])]
      /\ UNCHANGED <<made, who, members, ws, pc, answering>>
      /\ down' = [g \in Ids |-> IF g \in Targets(m) /\ Open(g) THEN Append(down[g], m) ELSE down[g]]
  BY DEF Relays, Delivered, server, PeeringInv, PeeringTypeOK
<1>2. m \in Calls
  BY <1>1, HeadTailProperties DEF PeeringInv, PeeringTypeOK
<1>3. PICK y \in Ids : /\ m.type = "webrtc.answer" => m = AnswerMsg(y)
                       /\ \A g \in Targets(m) : (\E c \in Clients : ws[c] = g) => g = y
  BY <1>2, OneTarget DEF Targets, Gateways
<1> HIDE DEF m
<1>4. /\ \A g \in Ids : \/ down'[g] \in {down[g], <<>>}
                        \/ g = y /\ down'[g] = Append(down[y], m)
      /\ down' = [g \in Ids |-> down'[g]]
  BY <1>1, <1>3 DEF Open
<1>5. /\ ws' \in [Clients -> Ids \cup {None}] /\ members' \subseteq members
      /\ \A c \in Clients : ws'[c] \in {ws[c], None}
  BY <1>1 DEF PeeringInv, PeeringTypeOK
<1> QED BY <1>1, <1>3, <1>4, <1>5, RelayedInv DEF m

LEMMA RelayFailsKeeps ==
  ASSUME PeeringInv, NEW i \in Ids, RelayFails(i)
  PROVE  PeeringInv'
<1> DEFINE m == Head(up[i])
<1>1. /\ up[i] # <<>> /\ up' = [up EXCEPT ![i] = <<>>]
      /\ UNCHANGED <<made, who, pc, answering>>
      /\ members' = members \ {i}
      /\ ws' = IF Open(i) THEN [ws EXCEPT ![who[i]] = None] ELSE ws
  BY DEF RelayFails
<1>2. m \in Calls
  BY <1>1, HeadTailProperties DEF PeeringInv, PeeringTypeOK
<1>3. PICK dead \in Targets(m) :
        down' = [Delivered(m, {t \in Targets(m) : t < dead}) EXCEPT ![i] = <<>>]
  BY DEF RelayFails
<1>4. PICK y \in Ids : /\ m.type = "webrtc.answer" => m = AnswerMsg(y)
                       /\ \A g \in Targets(m) : (\E c \in Clients : ws[c] = g) => g = y
  BY <1>2, OneTarget DEF Targets, Gateways
<1> HIDE DEF m
<1>5. \A g \in Ids :
        down'[g] = IF g = i THEN <<>>
                   ELSE IF g \in {t \in Targets(m) : t < dead} /\ Open(g)
                        THEN Append(down[g], m) ELSE down[g]
  BY <1>3 DEF Delivered
<1>6. down' = [g \in Ids |-> down'[g]]
  BY <1>3 DEF Delivered
<1>7. \A g \in Ids : \/ down'[g] \in {down[g], <<>>}
                     \/ g = y /\ down'[g] = Append(down[y], m)
  BY <1>4, <1>5 DEF Open
<1>8. /\ ws' \in [Clients -> Ids \cup {None}] /\ members' \subseteq members
      /\ \A c \in Clients : ws'[c] \in {ws[c], None}
  BY <1>1 DEF PeeringInv, PeeringTypeOK
<1> QED BY <1>1, <1>4, <1>6, <1>7, <1>8, RelayedInv DEF m

LEMMA NoticesKeeps ==
  ASSUME PeeringInv, NEW i \in Ids, Notices(i)
  PROVE  PeeringInv'
<1>1. /\ members' \subseteq members /\ UNCHANGED <<made, who, ws, up, down, pc, answering>>
  BY DEF Notices
<1>2. PeeringTypeOK'
  BY <1>1 DEF PeeringInv, PeeringTypeOK
<1> QED
  BY <1>1, <1>2 DEF PeeringInv, ConnsOwned, FutureIsBlank, OffersInOnePlace, DownsGood,
     JoiningIsBlank, OffersAwaited

-----------------------------------------------------------------------------
(* New connections and new offers                                          *)

LEMMA ConnectsKeeps ==
  ASSUME PeeringInv, NEW c \in Clients, Connects(c)
  PROVE  PeeringInv'
<1> USE DEF PeeringInv
<1> DEFINE n == made + 1
           first == IF c = Follower THEN <<>> ELSE <<JoinedMsg>>
<1>1. /\ ws[c] = None /\ made < MaxConns /\ made' = n
      /\ who' = [who EXCEPT ![n] = c] /\ members' = members \cup {n}
      /\ ws' = [ws EXCEPT ![c] = n] /\ down' = [down EXCEPT ![n] = first]
      /\ UNCHANGED <<up, pc, answering>>
  BY DEF Connects
<1>2. n \in Ids /\ made \in Nat /\ n \in 0..MaxConns /\ n > made /\ None \notin Ids
  BY <1>1, PeeringAssumption DEF PeeringTypeOK, Ids
<1>3. /\ first \in Seq(Messages) /\ GoodDown(first, n)
      /\ \A i \in Ids : \A q : NoMore(first, q, i)
  <2>1. CASE first = <<>>
    BY <2>1, EmptyQueue, SameQueue, EmptySeq
  <2>2. CASE first = <<JoinedMsg>>
    <3>1. /\ first \in Seq(Messages) /\ DOMAIN first = {1} /\ first[1] = JoinedMsg
      BY <2>2, MessageFacts
    <3>2. \A i \in Ids : ~Carries(JoinedMsg, i)
      BY MessageFacts
    <3>3. \A i \in Ids : Silent(first, i) /\ Alone(first, i)
      BY <3>1, <3>2 DEF Silent, Alone
    <3>4. GoodDown(first, n)
      BY <3>1, MessageFacts DEF GoodDown
    <3> QED BY <3>1, <3>3, <3>4 DEF NoMore
  <2> QED BY <2>1, <2>2
<1> HIDE DEF n, first
<1>4. PeeringTypeOK'
  <2>1. down' \in [Ids -> Seq(Messages)] /\ who' \in [Ids -> Clients \cup {None}]
        /\ ws' \in [Clients -> Ids \cup {None}] /\ members' \subseteq Ids
    BY <1>1, <1>2, <1>3 DEF PeeringTypeOK
  <2> QED BY <1>1, <1>2, <2>1 DEF PeeringTypeOK
<1>5. Kept
  <2>1. \A i, g \in Ids : NoMore(up'[g], up[g], i) /\ NoMore(down'[g], down[g], i)
    BY <1>1, <1>2, <1>3, SameQueue DEF PeeringTypeOK
  <2> QED BY <1>1, <2>1, LosingKept
<1>6. \A d \in Clients : ws[d] # None => ws[d] \in Ids /\ ws[d] <= made /\ ws[d] # n
  BY <1>2 DEF ConnsOwned, PeeringTypeOK, Ids
<1>7. ConnsOwned'
  <2> SUFFICES ASSUME NEW d \in Clients, ws'[d] # None
               PROVE  ws'[d] <= made' /\ who'[ws'[d]] = d
    BY DEF ConnsOwned
  <2>1. CASE d = c
    BY <1>1, <1>2, <2>1 DEF PeeringTypeOK
  <2>2. CASE d # c
    <3>1. ws'[d] = ws[d] /\ ws[d] # None
      BY <1>1, <2>2 DEF PeeringTypeOK
    <3>2. who'[ws[d]] = who[ws[d]] /\ ws[d] <= made' /\ who[ws[d]] = d
      BY <1>1, <1>2, <1>6, <3>1 DEF PeeringTypeOK, ConnsOwned, Ids, n
    <3> QED BY <3>1, <3>2
  <2> QED BY <2>1, <2>2
<1>8. FutureIsBlank' /\ OffersInOnePlace'
  <2>1. \A i \in Ids : i > made' => i > made
    BY <1>1, <1>2 DEF Ids, n
  <2> QED BY <1>5, <2>1 DEF Kept, FutureIsBlank, OffersInOnePlace
<1>9. NowhereIn(n, up', down', answering')
  BY <1>2, <1>5 DEF Kept, FutureIsBlank
<1>10. DownsGood'
  BY <1>1, <1>2, <1>3 DEF DownsGood, PeeringTypeOK
<1>11. JoiningIsBlank'
  <2> SUFFICES ASSUME NEW l \in Leaders, ws'[l] # None, Joining(down'[ws'[l]])
               PROVE  NowhereIn(ws'[l], up', down', answering')
    BY DEF JoiningIsBlank
  <2>0. l \in Clients
    BY DEF Clients, Offerers
  <2>1. CASE l = c
    BY <1>1, <1>9, <2>1 DEF PeeringTypeOK
  <2>2. CASE l # c
    <3>1. ws'[l] = ws[l] /\ ws[l] \in Ids /\ down'[ws[l]] = down[ws[l]]
      BY <1>1, <1>6, <2>0, <2>2 DEF PeeringTypeOK
    <3> QED BY <1>5, <3>1 DEF Kept, JoiningIsBlank
  <2> QED BY <2>1, <2>2
<1>12. OffersAwaited'
  <2> SUFFICES ASSUME NEW o \in Offerers, ws'[o] # None
               PROVE  NowhereIn(ws'[o], up', down', answering') \/ Awaits(pc'[o], ws'[o])
    BY DEF OffersAwaited
  <2>0. o \in Clients
    BY DEF Clients
  <2>1. CASE o = c
    BY <1>1, <1>9, <2>1 DEF PeeringTypeOK
  <2>2. CASE o # c
    <3>1. ws'[o] = ws[o] /\ ws[o] \in Ids /\ pc'[o] = pc[o]
      BY <1>1, <1>6, <2>0, <2>2 DEF PeeringTypeOK
    <3> QED BY <1>5, <3>1 DEF Kept, OffersAwaited
  <2> QED BY <2>1, <2>2
<1> QED BY <1>4, <1>7, <1>8, <1>10, <1>11, <1>12

\* An offer on a connection that carries none yet and has not been offered on: its pc
\* waits for it from then on.
LEMMA OfferedInv ==
  ASSUME PeeringInv, NEW o \in Offerers, ws[o] # None,
         NowhereIn(ws[o], up, down, answering),
         UNCHANGED <<made, who, members, ws, answering>>,
         up' = [up EXCEPT ![ws[o]] = Append(up[ws[o]], OfferMsg(ws[o]))],
         pc' = [pc EXCEPT ![o].signaling = "have-local-offer", ![o].offer = ws[o]],
         down' \in [Ids -> Seq(Messages)], DownsGood',
         \A g \in Ids : Joining(down'[g]) => Joining(down[g]),
         \A i, g \in Ids : NoMore(down'[g], down[g], i),
         o \in Leaders => ~Joining(down'[ws[o]])
  PROVE  PeeringInv'
<1> USE DEF PeeringInv
<1> DEFINE w == ws[o]
<1>1. /\ o \in Clients /\ w \in Ids /\ up \in [Ids -> Seq(Calls)]
      /\ OfferMsg(w) \in Calls
      /\ \A i \in Ids : i # w => ~Carries(OfferMsg(w), i)
  BY MessageFacts DEF PeeringTypeOK, Clients
<1>2. up' = [up EXCEPT ![w] = Append(up[w], OfferMsg(w))]
  OBVIOUS
<1>3. Awaits(pc'[o], w) /\ \A p \in Offerers : p # o => pc'[p] = pc[p]
  BY DEF Awaits, PeeringTypeOK, PeerConnections
<1>4. \A d \in Clients : ws[d] = w => d = o
  BY <1>1 DEF ConnsOwned
<1>5. w <= made
  BY <1>1 DEF ConnsOwned
<1>6. o \in Leaders => ~Joining(down'[w])
  OBVIOUS
<1>7. NowhereIn(w, up, down, answering)
  OBVIOUS
<1>8. PeeringTypeOK'
  <2>1. pc' \in [Offerers -> PeerConnections]
    <3>1. pc \in [Offerers -> PeerConnections]
      BY DEF PeeringTypeOK
    <3>2. [pc[o] EXCEPT !.signaling = "have-local-offer", !.offer = w] \in PeerConnections
      BY <1>1, <3>1 DEF PeerConnections
    <3>3. pc' = [pc EXCEPT ![o] = [pc[o] EXCEPT !.signaling = "have-local-offer", !.offer = w]]
      BY <3>1
    <3> HIDE DEF w
    <3> QED BY <3>1, <3>2, <3>3
  <2>2. up' \in [Ids -> Seq(Calls)]
    <3>1. [up EXCEPT ![w] = Append(up[w], OfferMsg(w))] \in [Ids -> Seq(Calls)]
      <4> HIDE DEF w
      <4> QED BY <1>1, SentKeeps
    <3> QED BY <1>2, <3>1
  <2> QED BY <2>1, <2>2 DEF PeeringTypeOK
<1>9. ws' = ws /\ made' = made /\ who' = who /\ answering' = answering
  OBVIOUS
<1>10. ws \in [Clients -> Ids \cup {None}]
  BY DEF PeeringTypeOK
<1> HIDE DEF w
<1>11. InOnePlace(w, up', down', answering')
  <2>1. \A g \in Ids : Silent(up[g], w) /\ Silent(down'[g], w)
    BY <1>1, <1>7 DEF NowhereIn, NoMore
  <2>2. answering' # w
    BY <1>7, <1>9 DEF NowhereIn
  <2>3. InOnePlace(w, [up EXCEPT ![w] = Append(up[w], OfferMsg(w))], down', answering')
    BY <1>1, <2>1, <2>2, SentAlone
  <2> QED BY <1>2, <2>3
<1>12. ASSUME NEW j \in Ids, j # w
       PROVE  /\ InOnePlace(j, up, down, answering) => InOnePlace(j, up', down', answering')
              /\ NowhereIn(j, up, down, answering) => NowhereIn(j, up', down', answering')
  <2>1. ~Carries(OfferMsg(w), j)
    BY <1>1, <1>12
  <2>2. \A g \in Ids : NoMore(up'[g], up[g], j)
    BY <1>1, <1>2, <2>1, SentKeeps
  <2> QED BY <1>9, <2>2, NoMoreKept
<1>13. ConnsOwned'
  BY <1>9 DEF ConnsOwned
<1>14. FutureIsBlank' /\ OffersInOnePlace'
  <2>1. \A i \in Ids : i > made => i # w
    BY <1>1, <1>5, PeeringAssumption DEF Ids, PeeringTypeOK
  <2>2. FutureIsBlank'
    BY <1>9, <1>12, <2>1 DEF FutureIsBlank
  <2>3. OffersInOnePlace'
    BY <1>11, <1>12 DEF OffersInOnePlace
  <2> QED BY <2>2, <2>3
<1>15. JoiningIsBlank'
  <2> SUFFICES ASSUME NEW l \in Leaders, ws[l] # None, Joining(down'[ws[l]])
               PROVE  NowhereIn(ws[l], up', down', answering')
    BY <1>9 DEF JoiningIsBlank
  <2>1. l \in Clients /\ ws[l] \in Ids
    BY <1>10 DEF Clients, Offerers
  <2>2. l # o
    BY <1>6 DEF w
  <2>3. ws[l] # w
    BY <1>4, <2>1, <2>2
  <2>4. NowhereIn(ws[l], up, down, answering)
    BY <2>1 DEF JoiningIsBlank
  <2>5. ASSUME NEW j \in Ids, j = ws[l]
        PROVE  NowhereIn(j, up', down', answering')
    BY <1>12, <2>3, <2>4, <2>5
  <2> QED BY <2>1, <2>5
<1>16. OffersAwaited'
  <2> SUFFICES ASSUME NEW p \in Offerers, ws[p] # None
               PROVE  NowhereIn(ws[p], up', down', answering') \/ Awaits(pc'[p], ws[p])
    BY <1>9 DEF OffersAwaited
  <2>1. CASE p = o
    BY <1>3, <2>1 DEF w
  <2>2. CASE p # o
    <3>1. ws[p] \in Ids /\ ws[p] # w /\ pc'[p] = pc[p]
      BY <1>3, <1>4, <1>10, <2>2 DEF Clients
    <3>2. NowhereIn(ws[p], up, down, answering) \/ Awaits(pc[p], ws[p])
      BY DEF OffersAwaited
    <3>3. ASSUME NEW j \in Ids, j = ws[p], NowhereIn(j, up, down, answering)
          PROVE  NowhereIn(j, up', down', answering')
      BY <1>12, <3>1, <3>3
    <3> QED BY <3>1, <3>2, <3>3
  <2> QED BY <2>1, <2>2
<1> QED BY <1>8, <1>13, <1>14, <1>15, <1>16

LEMMA LeaderJoinedKeeps ==
  ASSUME PeeringInv, NEW l \in Leaders, LeaderJoined(l)
  PROVE  PeeringInv'
<1> USE DEF PeeringInv
<1>1. /\ l \in Offerers /\ l \in Clients /\ ws[l] # None /\ down[ws[l]] # <<>>
      /\ JoinedMsg = Head(down[ws[l]])
      /\ down' = [down EXCEPT ![ws[l]] = Tail(@)]
      /\ UNCHANGED <<made, who, members, ws, answering>>
      /\ up' = [up EXCEPT ![ws[l]] = Append(up[ws[l]], OfferMsg(ws[l]))]
      /\ pc' = [pc EXCEPT ![l].signaling = "have-local-offer", ![l].offer = ws[l]]
  BY DEF LeaderJoined, Reads, Sends, Clients, Offerers, server, PeeringTypeOK
<1>2. NowhereIn(ws[l], up, down, answering)
  <2>1. Joining(down[ws[l]])
    BY <1>1, ReadLeaves DEF Joining
  <2> QED BY <1>1, <2>1 DEF JoiningIsBlank
<1> QED BY <1>1, <1>2, ReadLeaves, OfferedInv

LEMMA BrowserOffersKeeps ==
  ASSUME PeeringInv, NEW b \in Browsers, BrowserOffers(b)
  PROVE  PeeringInv'
<1> USE DEF PeeringInv
<1>1. /\ b \in Offerers /\ b \in Clients /\ b \notin Leaders
      /\ pc[b].signaling = "gathering"
      /\ UNCHANGED <<made, who, members, ws, down, answering>>
      /\ pc' = [pc EXCEPT ![b].signaling = "have-local-offer", ![b].offer = ws[b]]
      /\ IF ws[b] = None THEN up' = up
         ELSE up' = [up EXCEPT ![ws[b]] = Append(up[ws[b]], OfferMsg(ws[b]))]
  BY PeeringAssumption DEF BrowserOffers, Sends, Clients, Offerers, server, PeeringTypeOK
<1>2. \A i, g \in Ids : NoMore(down'[g], down[g], i)
  BY <1>1, SameQueue
<1>3. /\ down' \in [Ids -> Seq(Messages)] /\ DownsGood'
      /\ \A g \in Ids : Joining(down'[g]) => Joining(down[g])
  BY <1>1 DEF PeeringTypeOK, DownsGood
<1>4. CASE ws[b] # None
  <2>1. NowhereIn(ws[b], up, down, answering)
    BY <1>1, <1>4 DEF OffersAwaited, Awaits
  <2> QED BY <1>1, <1>2, <1>3, <1>4, <2>1, OfferedInv
<1>5. CASE ws[b] = None
  <2>1. PeeringTypeOK'
    <3>1. pc' \in [Offerers -> PeerConnections]
      <4>1. pc \in [Offerers -> PeerConnections] /\ ws[b] \in Ids \cup {None}
        BY <1>1 DEF PeeringTypeOK
      <4> QED BY <1>1, <4>1 DEF PeerConnections
    <3> QED BY <1>1, <1>5, <3>1 DEF PeeringTypeOK
  <2>2. Kept
    BY <1>1, <1>5, <1>2, SameQueue, LosingKept
  <2>3. \A o \in Offerers, i \in Ids : ws[o] = i => pc'[o] = pc[o]
    BY <1>1, <1>5, PeeringAssumption DEF PeeringTypeOK, Ids
  <2>4. \A o \in Offerers, i \in Ids : ws[o] = i /\ Awaits(pc[o], i) => Awaits(pc'[o], i)
    BY <2>3
  <2>5. \A c \in Clients : ws'[c] \in {ws[c], None}
    BY <1>1
  <2> QED BY <1>1, <1>3, <2>1, <2>2, <2>4, <2>5, KeptInv
<1> QED BY <1>4, <1>5

-----------------------------------------------------------------------------
(* The theorem                                                             *)

LEMMA PeeringInvInit ==
  ASSUME PeeringInit
  PROVE  PeeringInv
<1> USE DEF PeeringInit
<1>1. None \notin Ids /\ 0 \in 0..MaxConns
  BY PeeringAssumption DEF Ids
<1>2. PeeringTypeOK
  <2>1. NewPeerConnection \in PeerConnections
    BY DEF NewPeerConnection, PeerConnections
  <2> QED BY <1>1, <2>1, EmptySeq DEF PeeringTypeOK
<1>3. \A i \in Ids : NowhereIn(i, up, down, answering)
  BY <1>1, EmptyQueue DEF NowhereIn
<1>4. \A i \in Ids : InOnePlace(i, up, down, answering)
  BY <1>1, EmptyQueue DEF InOnePlace
<1>5. DownsGood
  BY EmptyQueue DEF DownsGood
<1>6. ConnsOwned /\ JoiningIsBlank /\ OffersAwaited
  BY DEF ConnsOwned, JoiningIsBlank, OffersAwaited, Clients, Offerers
<1> QED BY <1>2, <1>3, <1>4, <1>5, <1>6 DEF PeeringInv, FutureIsBlank, OffersInOnePlace

LEMMA PeeringInvKept ==
  ASSUME PeeringInv, [PeeringNext]_peeringVars
  PROVE  PeeringInv'
<1>1. CASE UNCHANGED peeringVars
  BY <1>1 DEF peeringVars, PeeringInv, PeeringTypeOK, ConnsOwned, FutureIsBlank,
     OffersInOnePlace, DownsGood, JoiningIsBlank, OffersAwaited
<1>2. CASE PeeringNext
  <2>1. ASSUME NEW c \in Clients, Connects(c) \/ LosesWebsocket(c) \/ Restarts(c)
        PROVE  PeeringInv'
    BY <2>1, ConnectsKeeps, LosesWebsocketKeeps, RestartsKeeps
  <2>2. ASSUME NEW l \in Leaders, LeaderJoined(l)
        PROVE  PeeringInv'
    BY <2>2, LeaderJoinedKeeps
  <2>3. ASSUME NEW b \in Browsers, BrowserJoined(b) \/ BrowserOffers(b)
        PROVE  PeeringInv'
    BY <2>3, BrowserJoinedKeeps, BrowserOffersKeeps
  <2>4. ASSUME NEW o \in Offerers, TakesAnswer(o)
        PROVE  PeeringInv'
    BY <2>4, TakesAnswerKeeps
  <2>5. ASSUME TakesOffer \/ Answers
        PROVE  PeeringInv'
    BY <2>5, TakesOfferKeeps, AnswersKeeps
  <2>6. ASSUME NEW i \in Ids, Relays(i) \/ RelayFails(i) \/ Notices(i)
        PROVE  PeeringInv'
    BY <2>6, RelaysKeeps, RelayFailsKeeps, NoticesKeeps
  <2> QED BY <1>2, <2>1, <2>2, <2>3, <2>4, <2>5, <2>6 DEF PeeringNext
<1> QED BY <1>1, <1>2

LEMMA PeeringInvExpects ==
  ASSUME PeeringInv
  PROVE  AnswerIsExpected
<1> USE DEF PeeringInv
<1> SUFFICES ASSUME NEW o \in Offerers, ws[o] # None, NEW n \in DOMAIN down[ws[o]],
                    down[ws[o]][n].type = "webrtc.answer"
             PROVE  /\ pc[o].signaling = "have-local-offer"
                    /\ down[ws[o]][n] = AnswerMsg(pc[o].offer)
                    /\ \A k \in 1..(n - 1) : down[ws[o]][k].type # "webrtc.answer"
  BY DEF AnswerIsExpected
<1> DEFINE w == ws[o]
           q == down[w]
<1>1. w \in Ids /\ q \in Seq(Messages) /\ GoodDown(q, w)
  BY DEF PeeringTypeOK, Clients, DownsGood
<1>2. q[n] = AnswerMsg(w) /\ Carries(q[n], w)
  BY <1>1, MessageFacts DEF GoodDown
<1>3. Awaits(pc[o], w)
  BY <1>1, <1>2 DEF OffersAwaited, NowhereIn, Silent
<1>4. ASSUME NEW k \in 1..(n - 1), q[k].type = "webrtc.answer"
      PROVE  FALSE
  <2>1. DOMAIN q = 1..Len(q) /\ Len(q) \in Nat
    BY <1>1, LenProperties
  <2>2. k \in DOMAIN q /\ k # n
    BY <2>1
  <2>3. Carries(q[k], w)
    BY <1>1, <1>4, <2>2, MessageFacts DEF GoodDown
  <2>4. Alone(q, w)
    BY <1>1 DEF OffersInOnePlace, InOnePlace
  <2> QED BY <1>2, <2>2, <2>3, <2>4 DEF Alone
<1> QED BY <1>2, <1>3, <1>4 DEF Awaits

\* However websockets are lost, processes restarted and messages relayed or not: an answer
\* on its way to a leader gateway or a page is the one its pc waits for, and the only one.
THEOREM AnswersExpected == PeeringSpec => []AnswerIsExpected
<1>1. PeeringInit => PeeringInv
  BY PeeringInvInit
<1>2. PeeringInv /\ [PeeringNext]_peeringVars => PeeringInv'
  BY PeeringInvKept
<1>3. PeeringInv => AnswerIsExpected
  BY PeeringInvExpects
<1> QED BY <1>1, <1>2, <1>3, PTL DEF PeeringSpec
=============================================================================
