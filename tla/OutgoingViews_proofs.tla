------------------------- MODULE OutgoingViews_proofs -------------------------
(***************************************************************************)
(* More proofs about OutgoingStream: the contact list the server has, the  *)
(* connection the UI shows, and what an envelope can be lost to.           *)
(*                                                                         *)
(* The first two are about the last word of a queue: the list or the       *)
(* report that counts is the last one under way, or the one that arrived.  *)
(***************************************************************************)
EXTENDS OutgoingStream_proofs

-----------------------------------------------------------------------------
(* The list under way *)

\* Somebody who has list a has list b once the frames of q have arrived.
Carries(q, a, b) ==
    IF Listing(q)
    THEN \A i \in DOMAIN q :
            /\ q[i].kind = "subscribe"
            /\ \A j \in DOMAIN q : j > i => q[j].kind # "subscribe"
            => q[i].arg = b
    ELSE a = b

\* A frame is put behind the others: a list becomes the last one.
LEMMA CarriesAppend ==
    ASSUME NEW q \in Seq(Frames), NEW f \in Frames, NEW a, NEW b
    PROVE  /\ f.kind = "subscribe" => Carries(Append(q, f), a, f.arg)
           /\ f.kind # "subscribe" /\ Carries(q, a, b)
                => Carries(Append(q, f), a, b)
           /\ Listing(Append(q, f)) <=> Listing(q) \/ f.kind = "subscribe"
<1> DEFINE r == Append(q, f)
<1>1. /\ DOMAIN r = 1..(Len(q) + 1) /\ DOMAIN q = 1..Len(q) /\ Len(q) \in Nat
      /\ \A i \in 1..Len(q) : r[i] = q[i]
      /\ r[Len(q) + 1] = f
  BY QueueTypes
<1> HIDE DEF r
<1>2. Listing(r) <=> Listing(q) \/ f.kind = "subscribe"
  BY <1>1 DEF Listing
<1>3. f.kind = "subscribe" => Carries(r, a, f.arg)
  BY <1>1, <1>2 DEF Carries
<1>4. ASSUME f.kind # "subscribe", Carries(q, a, b) PROVE Carries(r, a, b)
  <2>1. CASE ~Listing(q)
    BY <1>2, <1>4, <2>1 DEF Carries
  <2>2. CASE Listing(q)
    <3> SUFFICES ASSUME NEW i \in DOMAIN r, r[i].kind = "subscribe",
                        \A j \in DOMAIN r : j > i => r[j].kind # "subscribe"
                 PROVE  r[i].arg = b
      BY <1>2, <2>2 DEF Carries
    <3>1. i \in DOMAIN q /\ r[i] = q[i]
      BY <1>1, <1>4
    <3>2. \A j \in DOMAIN q : j > i => q[j].kind # "subscribe"
      BY <1>1
    <3> QED
      BY <1>4, <2>2, <3>1, <3>2 DEF Carries
  <2> QED
    BY <2>1, <2>2
<1> QED
  BY <1>2, <1>3, <1>4 DEF r

\* The first frame arrives.
LEMMA CarriesTail ==
    ASSUME NEW q \in Seq(Frames), q # <<>>, NEW a, NEW b, Carries(q, a, b)
    PROVE  Carries(Tail(q),
                   IF Head(q).kind = "subscribe" THEN Head(q).arg ELSE a, b)
<1> DEFINE t == Tail(q)
           f == Head(q)
<1>1. /\ DOMAIN q = 1..Len(q) /\ Len(q) \in Nat /\ Len(q) > 0 /\ f = q[1]
      /\ DOMAIN t = 1..(Len(q) - 1)
      /\ \A i \in 1..(Len(q) - 1) : t[i] = q[i + 1]
  BY QueueTypes
<1> HIDE DEF t, f
<1>2. \A i \in DOMAIN q : i # 1 => i - 1 \in DOMAIN t /\ t[i - 1] = q[i]
  BY <1>1
<1>3. Listing(q) <=> Listing(t) \/ f.kind = "subscribe"
  <2>1. Listing(t) => Listing(q)
    <3> SUFFICES ASSUME NEW i \in DOMAIN t, t[i].kind = "subscribe"
                 PROVE  Listing(q)
      BY DEF Listing
    <3>1. i + 1 \in DOMAIN q /\ q[i + 1].kind = "subscribe"
      BY <1>1
    <3> QED
      BY <3>1 DEF Listing
  <2>2. f.kind = "subscribe" => Listing(q)
    BY <1>1 DEF Listing
  <2>3. Listing(q) => Listing(t) \/ f.kind = "subscribe"
    BY <1>1, <1>2 DEF Listing
  <2> QED
    BY <2>1, <2>2, <2>3
<1>4. CASE Listing(t)
  <2> SUFFICES ASSUME NEW i \in DOMAIN t, t[i].kind = "subscribe",
                      \A j \in DOMAIN t : j > i => t[j].kind # "subscribe"
               PROVE  t[i].arg = b
    BY <1>4 DEF Carries, t, f
  <2>1. i + 1 \in DOMAIN q /\ q[i + 1] = t[i]
    BY <1>1
  <2>2. ASSUME NEW j \in DOMAIN q, j > i + 1 PROVE q[j].kind # "subscribe"
    <3>1. j - 1 \in DOMAIN t /\ t[j - 1] = q[j] /\ j - 1 > i
      BY <1>1, <1>2, <2>2
    <3> QED
      BY <3>1
  <2> QED
    BY <1>3, <1>4, <2>1, <2>2 DEF Carries
<1>5. CASE ~Listing(t) /\ f.kind = "subscribe"
  <2>1. \A j \in DOMAIN q : j > 1 => q[j].kind # "subscribe"
    BY <1>1, <1>2, <1>5 DEF Listing
  <2>2. f.arg = b
    BY <1>1, <1>3, <1>5, <2>1 DEF Carries
  <2> QED
    BY <1>5, <2>2 DEF Carries, t, f
<1>6. CASE ~Listing(t) /\ f.kind # "subscribe"
  BY <1>3, <1>6 DEF Carries, t, f
<1> QED
  BY <1>4, <1>5, <1>6

LEMMA CarriesNothing == \A a : Carries(<<>>, a, a)
BY DEF Carries, Listing

LEMMA ListingOne == \A f \in Frames : Listing(<<f>>) <=> f.kind = "subscribe"
<1>1. \A f \in Frames : DOMAIN <<f>> = {1} /\ <<f>>[1] = f
  OBVIOUS
<1> QED
  BY <1>1 DEF Listing

\* The lists of run_worker: the commands lead to the newest list, the frames
\* of a connection to the one the worker remembers.
ListOnTheWay ==
    /\ ~Closed => Carries(cmds, subscribed, taken)
    /\ pump => IF Listing(hand) THEN Head(hand).arg = subscribed
               ELSE Carries(outbox, serverList, subscribed)

LEMMA LeaveKeepsList == ASSUME Leave PROVE ListOnTheWay'
BY DEF Leave, Drop, ListOnTheWay, Closed

LEMMA TakeOfflineKeepsList ==
    ASSUME TypeOK, Shape, ListOnTheWay, NEW then, TakeOffline(then),
           phase \in {"connect", "sleep"}
    PROVE  ListOnTheWay'
<1> DEFINE c == Head(cmds)
<1>1. CASE Leave
  BY <1>1, LeaveKeepsList
<1>2. CASE ~Leave
  <2>1. /\ cmds # <<>> /\ cmds' = Tail(cmds)
        /\ subscribed' = IF c.kind = "subscribe" THEN c.arg ELSE subscribed
        /\ taken' = taken /\ pump' = pump
    BY <1>2 DEF TakeOffline, conn, callers
  <2>2. ~pump /\ ~Closed
    BY DEF Shape, Closed
  <2>3. Carries(cmds', subscribed', taken')
    BY <2>1, <2>2, CarriesTail DEF ListOnTheWay, TypeOK
  <2> QED
    BY <2>1, <2>2, <2>3 DEF ListOnTheWay
<1> QED
  BY <1>1, <1>2

LEMMA TrySendKeepsList ==
    ASSUME TypeOK, ListOnTheWay, NEW f \in Frames, TrySend(f),
           UNCHANGED <<worker, conn>>,
           \/ f.kind # "subscribe" /\ taken' = taken
           \/ /\ f.kind = "subscribe"
              /\ taken' = IF Room THEN f.arg ELSE taken
    PROVE  ListOnTheWay'
<1>1. UNCHANGED <<phase, hand, subscribed, pump, outbox, serverList>>
  BY DEF worker, conn
<1>2. CASE Room
  <2>1. cmds' = Append(cmds, f) /\ ~Closed
    BY <1>2 DEF TrySend, Room
  <2>2. Carries(cmds', subscribed', taken')
    BY <1>1, <1>2, <2>1, CarriesAppend DEF ListOnTheWay, TypeOK
  <2> QED
    BY <1>1, <2>2 DEF ListOnTheWay
<1>3. CASE ~Room
  BY <1>1, <1>3 DEF TrySend, ListOnTheWay, Closed
<1> QED
  BY <1>2, <1>3

LEMMA HandedKeepsList ==
    ASSUME TypeOK, Shape, ListOnTheWay, Handed
    PROVE  ListOnTheWay'
<1> DEFINE f == Head(hand)
<1>1. /\ hand # <<>> /\ outbox' = Append(outbox, f) /\ hand' = <<>>
      /\ UNCHANGED <<cmds, subscribed, taken, serverList, pump>> /\ pump
      /\ phase' \in {phase, "live"} /\ (phase' # phase => phase = "hail")
  BY DEF Handed, callers
<1>2. f \in Frames /\ hand = <<f>>
  BY <1>1, QueueTypes, Single DEF TypeOK
<1> HIDE DEF f
<1>3. ~Closed' => Carries(cmds', subscribed', taken')
  BY <1>1 DEF ListOnTheWay, Closed
<1>4. Carries(outbox', serverList, subscribed)
  <2>1. CASE f.kind = "subscribe"
    <3>1. f.arg = subscribed
      BY <1>1, <1>2, <2>1, ListingOne DEF ListOnTheWay, f
    <3> QED
      BY <1>1, <1>2, <2>1, <3>1, CarriesAppend DEF TypeOK
  <2>2. CASE f.kind # "subscribe"
    BY <1>1, <1>2, <2>2, ListingOne, CarriesAppend DEF ListOnTheWay, TypeOK
  <2> QED
    BY <2>1, <2>2
<1>5. ~Listing(hand')
  BY <1>1 DEF Listing
<1> QED
  BY <1>1, <1>3, <1>4, <1>5 DEF ListOnTheWay

LEMMA TakeLiveKeepsList ==
    ASSUME TypeOK, ListOnTheWay, TakeLive
    PROVE  ListOnTheWay'
<1> DEFINE c == Head(cmds)
<1>1. CASE Leave
  BY <1>1, LeaveKeepsList
<1>2. CASE ~Leave
  <2>1. /\ cmds # <<>> /\ cmds' = Tail(cmds) /\ hand' = <<c>> /\ hand = <<>>
        /\ subscribed' = IF c.kind = "subscribe" THEN c.arg ELSE subscribed
        /\ UNCHANGED <<phase, taken, pump, outbox, serverList>>
        /\ phase = "live"
    BY <1>2 DEF TakeLive, Idle, conn, callers
  <2>2. c \in Frames
    BY <2>1, QueueTypes DEF TypeOK
  <2>3. Carries(cmds', subscribed', taken')
    BY <2>1, CarriesTail DEF ListOnTheWay, TypeOK, Closed
  <2>4. Listing(hand') <=> c.kind = "subscribe"
    BY <2>1, <2>2, ListingOne
  <2>5. Head(hand') = c
    BY <2>1
  <2>6. ~Listing(hand)
    BY <2>1 DEF Listing
  <2> QED
    BY <2>1, <2>3, <2>4, <2>5, <2>6 DEF ListOnTheWay
<1> QED
  BY <1>1, <1>2

LEMMA PumpSendKeepsList ==
    ASSUME TypeOK, ListOnTheWay, PumpSend
    PROVE  ListOnTheWay'
<1>1. /\ pump /\ outbox # <<>> /\ outbox' = Tail(outbox)
      /\ serverList' = IF Head(outbox).kind = "subscribe"
                       THEN Head(outbox).arg ELSE serverList
      /\ UNCHANGED <<phase, hand, cmds, subscribed, taken, pump>>
  BY DEF PumpSend, worker, callers
<1>2. Carries(outbox, serverList, subscribed)
        => Carries(outbox', serverList', subscribed)
  BY <1>1, CarriesTail DEF TypeOK
<1> QED
  BY <1>1, <1>2 DEF ListOnTheWay, Closed

\* Steps that put no list into the hand and take none out of it.
LEMMA PlainKeepsList ==
    ASSUME TypeOK, Shape, ListOnTheWay,
           UNCHANGED <<cmds, subscribed, taken>>, Closed => Closed',
           \/ ~pump'
           \/ /\ UNCHANGED <<pump, outbox, serverList>>
              /\ hand' = hand \/ (hand = <<>> /\ ~Listing(hand'))
    PROVE  ListOnTheWay'
<1>1. hand = <<>> => ~Listing(hand)
  BY DEF Listing
<1> QED
  BY <1>1 DEF ListOnTheWay, Closed

LEMMA OpenedKeepsList ==
    ASSUME Shape, ListOnTheWay, Opened
    PROVE  ListOnTheWay'
<1>1. /\ phase = "opening" /\ phase' = "flush" /\ serverList' = subscribed
      /\ UNCHANGED <<cmds, hand, subscribed, outbox, taken>>
  BY DEF Opened, callers
<1>2. hand = <<>> /\ outbox = <<>>
  BY <1>1 DEF Shape
<1>3. ~Listing(hand') /\ Carries(outbox', serverList', subscribed')
  BY <1>1, <1>2, CarriesNothing DEF Listing
<1> QED
  BY <1>1, <1>3 DEF ListOnTheWay, Closed

LEMMA ListStep ==
    ASSUME TypeOK, Shape, ListOnTheWay, [Next]_vars
    PROVE  ListOnTheWay'
<1> DEFINE Plain ==
              /\ UNCHANGED <<cmds, subscribed, taken>>
              /\ Closed => Closed'
              /\ \/ ~pump'
                 \/ /\ UNCHANGED <<pump, outbox, serverList>>
                    /\ hand' = hand \/ (hand = <<>> /\ ~Listing(hand'))
<1>0. ASSUME Plain PROVE ListOnTheWay'
  BY <1>0, PlainKeepsList
<1>1. CASE SendEnvelope
  <2>1. submitted' \in Envs
    BY <1>1, OutgoingAssumption DEF SendEnvelope, TypeOK, Envs
  <2> QED
    BY <1>1, <2>1, FrameTypes, TrySendKeepsList DEF SendEnvelope, Frame
<1>2. CASE ListChanged
  <2>1. list' \in Lists
    BY <1>2, OutgoingAssumption DEF ListChanged, TypeOK, Lists
  <2> QED
    BY <1>2, <2>1, FrameTypes, TrySendKeepsList DEF ListChanged, Frame
<1>3. CASE Logout
  BY <1>3, FrameTypes, TrySendKeepsList DEF Logout, Frame
<1>4. CASE Connect \/ Wake
  <2>1. CASE TakeOffline("opening") \/ TakeOffline("connect")
    BY <1>4, <2>1, TakeOfflineKeepsList DEF Connect, Wake
  <2>2. CASE ~(TakeOffline("opening") \/ TakeOffline("connect"))
    BY <1>0, <1>4, <2>2 DEF Connect, Wake, conn, callers, Closed
  <2> QED
    BY <2>1, <2>2
<1>5. CASE Opened
  BY <1>5, OpenedKeepsList
<1>6. CASE FlushNext
  <2>1. /\ hand = <<>> /\ hand' = <<Head(pending)>> /\ pending # <<>>
        /\ Plain \/ Listing(hand')
    BY <1>6 DEF FlushNext, conn, callers, Closed
  <2>2. Head(pending) \in Frames /\ Head(pending).kind = "send"
    BY <2>1, QueueTypes DEF TypeOK
  <2> QED
    BY <1>0, <2>1, <2>2, ListingOne
<1>7. CASE Greet \/ HeartbeatTick
  <2>1. Heartbeat \in Frames /\ Heartbeat.kind # "subscribe"
    BY FrameTypes DEF Heartbeat, Frame
  <2>2. ~Listing(<<Heartbeat>>)
    BY <2>1, ListingOne
  <2>3. CASE Greet
    <3>1. hand = <<>>
      BY <2>3 DEF Greet, Shape
    <3> QED
      BY <1>0, <2>2, <2>3, <3>1 DEF Greet, conn, callers, Closed
  <2>4. CASE HeartbeatTick
    BY <1>0, <2>2, <2>4 DEF HeartbeatTick, Idle, conn, callers, Closed
  <2> QED
    BY <1>7, <2>3, <2>4
<1>8. CASE Handed
  BY <1>8, HandedKeepsList
<1>9. CASE HandFailed
  <2>1. phase \in {"flush", "hail", "live"}
    BY <1>9 DEF HandFailed, Shape
  <2> QED
    BY <1>0, <1>9, <2>1 DEF HandFailed, conn, callers, Closed
<1>10. CASE TakeLive
  BY <1>10, TakeLiveKeepsList
<1>11. CASE Hangup \/ LinkLost
  BY <1>0, <1>11 DEF Hangup, LinkLost, Drop, worker, callers, Closed
<1>12. CASE PumpSend
  BY <1>12, PumpSendKeepsList
<1>13. CASE OpenFailed \/ Refused \/ Flushed \/ StreamEnded \/ Announce \/ Exit
  BY <1>0, <1>13 DEF OpenFailed, Refused, Flushed, StreamEnded, Announce, Exit,
     Idle, conn, callers, Closed
<1>14. CASE DispatchIncoming \/ Relay \/ UNCHANGED vars
  BY <1>0, <1>14 DEF DispatchIncoming, Relay, worker, conn, callers, vars,
     Closed
<1> QED
  BY <1>1, <1>2, <1>3, <1>4, <1>5, <1>6, <1>7, <1>8, <1>9, <1>10, <1>11,
     <1>12, <1>13, <1>14 DEF Next, Worker

\* With no list under way the server has the newest one the command channel
\* accepted, whether run_worker took it while connecting, sleeping or live,
\* for any capacities and any number of lists.
THEOREM OutgoingSubscriptionCurrent == Spec => []SubscriptionCurrent
<1>1. Init => ListOnTheWay
  BY CarriesNothing DEF Init, ListOnTheWay
<1>2. TypeOK /\ Shape /\ ListOnTheWay /\ [Next]_vars => ListOnTheWay'
  BY ListStep
<1>3. ListOnTheWay => SubscriptionCurrent
  BY DEF ListOnTheWay, SubscriptionCurrent, Carries
<1> QED
  BY <1>1, <1>2, <1>3, OutgoingInv, PTL DEF Spec

-----------------------------------------------------------------------------
(* The report under way *)

States == Reports \ {"auth", "message"}

News(q) == \E i \in DOMAIN q : q[i] \in States

\* A UI that shows s shows x once the events of q have reached it.
Tells(q, s, x) ==
    IF News(q)
    THEN \A i \in DOMAIN q :
            /\ q[i] \in States
            /\ \A j \in DOMAIN q : j > i => q[j] \notin States
            => q[i] = x
    ELSE s = x

LEMMA EventTypes ==
    /\ \A q \in Seq(Reports) : DOMAIN q = 1..Len(q) /\ Len(q) \in Nat
    /\ \A q \in Seq(Reports), e \in Reports :
          /\ DOMAIN Append(q, e) = 1..(Len(q) + 1)
          /\ \A i \in 1..Len(q) : Append(q, e)[i] = q[i]
          /\ Append(q, e)[Len(q) + 1] = e
    /\ \A q \in Seq(Reports) : q # <<>> =>
          /\ Head(q) = q[1] /\ Len(q) > 0 /\ Head(q) \in Reports
          /\ DOMAIN Tail(q) = 1..(Len(q) - 1)
          /\ \A i \in 1..(Len(q) - 1) : Tail(q)[i] = q[i + 1]
<1>1. \A q \in Seq(Reports) : DOMAIN q = 1..Len(q) /\ Len(q) \in Nat
  BY LenProperties
<1>2. \A q \in Seq(Reports), e \in Reports :
          /\ DOMAIN Append(q, e) = 1..(Len(q) + 1)
          /\ \A i \in 1..Len(q) : Append(q, e)[i] = q[i]
          /\ Append(q, e)[Len(q) + 1] = e
  BY <1>1, AppendProperties
<1>3. \A q \in Seq(Reports) : q # <<>> =>
          /\ Head(q) = q[1] /\ Len(q) > 0 /\ Head(q) \in Reports
          /\ DOMAIN Tail(q) = 1..(Len(q) - 1)
          /\ \A i \in 1..(Len(q) - 1) : Tail(q)[i] = q[i + 1]
  BY <1>1, HeadTailProperties, EmptySeq
<1> QED
  BY <1>1, <1>2, <1>3

\* A report joins the queue: a state becomes the last word, the rest is silent.
LEMMA TellsAppend ==
    ASSUME NEW q \in Seq(Reports), NEW e \in Reports, NEW s, NEW x
    PROVE  /\ e \in States => Tells(Append(q, e), s, e)
           /\ e \notin States /\ Tells(q, s, x) => Tells(Append(q, e), s, x)
<1> DEFINE r == Append(q, e)
<1>1. /\ DOMAIN r = 1..(Len(q) + 1) /\ DOMAIN q = 1..Len(q) /\ Len(q) \in Nat
      /\ \A i \in 1..Len(q) : r[i] = q[i]
      /\ r[Len(q) + 1] = e
  BY EventTypes
<1> HIDE DEF r
<1>2. News(r) <=> News(q) \/ e \in States
  BY <1>1 DEF News
<1>3. e \in States => Tells(r, s, e)
  BY <1>1, <1>2 DEF Tells
<1>4. ASSUME e \notin States, Tells(q, s, x) PROVE Tells(r, s, x)
  <2>1. CASE ~News(q)
    BY <1>2, <1>4, <2>1 DEF Tells
  <2>2. CASE News(q)
    <3> SUFFICES ASSUME NEW i \in DOMAIN r, r[i] \in States,
                        \A j \in DOMAIN r : j > i => r[j] \notin States
                 PROVE  r[i] = x
      BY <1>2, <2>2 DEF Tells
    <3>1. i \in DOMAIN q /\ r[i] = q[i]
      BY <1>1, <1>4
    <3>2. \A j \in DOMAIN q : j > i => q[j] \notin States
      BY <1>1
    <3> QED
      BY <1>4, <2>2, <3>1, <3>2 DEF Tells
  <2> QED
    BY <2>1, <2>2
<1> QED
  BY <1>3, <1>4 DEF r

\* The relay passes the first report on.
LEMMA TellsTail ==
    ASSUME NEW q \in Seq(Reports), q # <<>>, NEW s, NEW x, Tells(q, s, x)
    PROVE  Tells(Tail(q), IF Head(q) \in States THEN Head(q) ELSE s, x)
<1> DEFINE t == Tail(q)
           e == Head(q)
<1>1. /\ DOMAIN q = 1..Len(q) /\ Len(q) \in Nat /\ Len(q) > 0 /\ e = q[1]
      /\ DOMAIN t = 1..(Len(q) - 1)
      /\ \A i \in 1..(Len(q) - 1) : t[i] = q[i + 1]
  BY EventTypes
<1> HIDE DEF t, e
<1>2. \A i \in DOMAIN q : i # 1 => i - 1 \in DOMAIN t /\ t[i - 1] = q[i]
  BY <1>1
<1>3. News(q) <=> News(t) \/ e \in States
  <2>1. News(t) => News(q)
    <3> SUFFICES ASSUME NEW i \in DOMAIN t, t[i] \in States
                 PROVE  News(q)
      BY DEF News
    <3>1. i + 1 \in DOMAIN q /\ q[i + 1] \in States
      BY <1>1
    <3> QED
      BY <3>1 DEF News
  <2>2. e \in States => News(q)
    BY <1>1 DEF News
  <2>3. News(q) => News(t) \/ e \in States
    BY <1>1, <1>2 DEF News
  <2> QED
    BY <2>1, <2>2, <2>3
<1>4. CASE News(t)
  <2> SUFFICES ASSUME NEW i \in DOMAIN t, t[i] \in States,
                      \A j \in DOMAIN t : j > i => t[j] \notin States
               PROVE  t[i] = x
    BY <1>4 DEF Tells, t, e
  <2>1. i + 1 \in DOMAIN q /\ q[i + 1] = t[i]
    BY <1>1
  <2>2. ASSUME NEW j \in DOMAIN q, j > i + 1 PROVE q[j] \notin States
    <3>1. j - 1 \in DOMAIN t /\ t[j - 1] = q[j] /\ j - 1 > i
      BY <1>1, <1>2, <2>2
    <3> QED
      BY <3>1
  <2> QED
    BY <1>3, <1>4, <2>1, <2>2 DEF Tells
<1>5. CASE ~News(t) /\ e \in States
  <2>1. \A j \in DOMAIN q : j > 1 => q[j] \notin States
    BY <1>1, <1>2, <1>5 DEF News
  <2>2. e = x
    BY <1>1, <1>3, <1>5, <2>1 DEF Tells
  <2> QED
    BY <1>5, <2>2 DEF Tells, t, e
<1>6. CASE ~News(t) /\ e \notin States
  BY <1>3, <1>6 DEF Tells, t, e
<1> QED
  BY <1>4, <1>5, <1>6

\* What run_worker has told the UI, or is about to, fits where it stands.
Told ==
    /\ phase \in {"hail", "live", "hangup"} => Tells(events, shown, "connected")
    /\ phase = "sleep" => Tells(events, shown, "reconnecting")
    /\ phase = "exited" => Tells(events, shown, "disconnected")

\* Steps without a report that enter no phase with something to tell.
LEMMA SilentKeepsTold ==
    ASSUME Told, UNCHANGED <<events, shown>>,
           \/ phase' = phase
           \/ phase' \notin {"hail", "live", "hangup", "sleep", "exited"}
           \/ phase \in {"hail", "live"} /\ phase' \in {"live", "hangup"}
    PROVE  Told'
BY DEF Told

\* The report of the phase that is entered.
LEMMA ReportKeepsTold ==
    ASSUME TypeOK, NEW e \in States, Report(e),
           phase' \in {"hail", "live", "hangup"} => e = "connected",
           phase' = "sleep" => e = "reconnecting",
           phase' = "exited" => e = "disconnected"
    PROVE  Told'
<1>1. Tells(Append(events, e), shown, e)
  BY TellsAppend DEF TypeOK, Reports, States
<1>2. events' = Append(events, e) /\ shown' = shown
  BY DEF Report
<1> QED
  BY <1>1, <1>2 DEF Told

LEMMA MessageKeepsTold ==
    ASSUME TypeOK, Told, Report("message"), phase' = phase
    PROVE  Told'
<1>1. \A x : Tells(events, shown, x) => Tells(Append(events, "message"), shown, x)
  BY TellsAppend DEF TypeOK, Reports, States
<1>2. events' = Append(events, "message") /\ shown' = shown
  BY DEF Report
<1> QED
  BY <1>1, <1>2 DEF Told

LEMMA RelayKeepsTold == ASSUME TypeOK, Told, Relay PROVE Told'
<1>1. events \in Seq(Reports) /\ events # <<>> /\ events' = Tail(events)
      /\ phase' = phase
  BY DEF TypeOK, Reports, Relay, worker
<1>2. Head(events) \in Reports
  BY <1>1, EventTypes
<1>3. shown' = IF Head(events) \in States THEN Head(events) ELSE shown
  BY <1>2 DEF Relay, States
<1>4. \A x : Tells(events, shown, x) => Tells(events', shown', x)
  BY <1>1, <1>3, TellsTail
<1> QED
  BY <1>1, <1>4 DEF Told

LEMMA ToldStep ==
    ASSUME TypeOK, Shape, Told, [Next]_vars
    PROVE  Told'
<1> USE DEF report, States, Reports
<1>1. CASE SendEnvelope \/ ListChanged \/ Logout
  BY <1>1, SilentKeepsTold DEF SendEnvelope, ListChanged, Logout, worker
<1>2. CASE Leave
  BY <1>2, SilentKeepsTold DEF Leave
<1>3. CASE Connect \/ Wake
  BY <1>2, <1>3, SilentKeepsTold DEF Connect, Wake, TakeOffline
<1>4. CASE Opened \/ OpenFailed \/ FlushNext \/ Flushed \/ StreamEnded
  BY <1>4, SilentKeepsTold
     DEF Opened, OpenFailed, FlushNext, Flushed, StreamEnded, Idle
<1>5. CASE Refused
  BY <1>5 DEF Refused, Report, Told
<1>6. CASE Greet \/ Announce \/ Exit
  BY <1>6, ReportKeepsTold DEF Greet, Announce, Exit
<1>7. CASE Hangup
  BY <1>7, ReportKeepsTold DEF Hangup
<1>8. CASE Handed \/ HandFailed
  <2>1. phase \in {"flush", "hail", "live"}
    BY <1>8 DEF Handed, HandFailed, Shape
  <2> QED
    BY <1>8, <2>1, SilentKeepsTold DEF Handed, HandFailed
<1>9. CASE TakeLive
  BY <1>2, <1>9, SilentKeepsTold DEF TakeLive
<1>10. CASE HeartbeatTick \/ PumpSend \/ LinkLost \/ UNCHANGED vars
  BY <1>10, SilentKeepsTold DEF HeartbeatTick, PumpSend, LinkLost, worker, vars
<1>11. CASE DispatchIncoming
  BY <1>11, MessageKeepsTold DEF DispatchIncoming, worker
<1>12. CASE Relay
  BY <1>12, RelayKeepsTold
<1> QED
  BY <1>1, <1>3, <1>4, <1>5, <1>6, <1>7, <1>8, <1>9, <1>10, <1>11, <1>12
     DEF Next, Worker

\* Once the relay has passed every report on, the UI shows the state
\* run_worker is in, however slow the relay was, for any channel capacity.
THEOREM OutgoingStatusTruthful == Spec => []StatusTruthful
<1>1. Init => Told
  BY DEF Init, Told
<1>2. TypeOK /\ Shape /\ Told /\ [Next]_vars => Told'
  BY ToldStep
<1>3. Told => StatusTruthful
  BY DEF Told, StatusTruthful, Tells, News
<1> QED
  BY <1>1, <1>2, <1>3, OutgoingInv, PTL DEF Spec

-----------------------------------------------------------------------------
(* What a lost envelope was lost to *)

Lost == Queued \ (Queued' \cup delivered')

Excused ==
    \/ Lost = {}
    \/ phase' = "leaving"
    \/ ~pump' /\ Lost \subseteq EnvsIn(outbox)
    \/ ~pump' /\ phase = "flush" /\ Lost = EnvsIn(hand)
    \/ Len(pending) = PendingCap /\ Lost = EnvsIn(<<Head(pending)>>)

\* push_pending gives up nothing, or the oldest envelope of a full buffer.
LEMMA KeepLoses ==
    ASSUME NEW q \in Seq(Frames), Len(q) <= PendingCap,
           \A i \in DOMAIN q : q[i].kind = "send",
           NEW f \in Frames, f.kind = "send"
    PROVE  \/ EnvsIn(Keep(q, f)) = EnvsIn(q) \cup EnvsIn(<<f>>)
           \/ /\ Len(q) = PendingCap
              /\ EnvsIn(q) \cup EnvsIn(<<f>>)
                    = EnvsIn(<<Head(q)>>) \cup EnvsIn(Keep(q, f))
              /\ \E a : EnvsIn(<<Head(q)>>) = {a}
<1>1. CASE Len(q) < PendingCap
  <2>1. Keep(q, f) = Append(q, f)
    BY <1>1, QueueTypes, OutgoingAssumption DEF Keep
  <2> QED
    BY <2>1, EnvsOfAppend
<1>2. CASE Len(q) = PendingCap
  <2>1. q # <<>> /\ Tail(q) \in Seq(Frames) /\ Head(q) \in Frames
    BY <1>2, QueueTypes, OutgoingAssumption
  <2>2. Head(q).kind = "send"
    BY <1>2, QueueTypes, OutgoingAssumption
  <2>3. Keep(q, f) = Append(Tail(q), f)
    BY <1>2, OutgoingAssumption DEF Keep
  <2>4. EnvsIn(Keep(q, f)) = EnvsIn(Tail(q)) \cup EnvsIn(<<f>>)
    BY <2>1, <2>3, EnvsOfAppend
  <2>5. EnvsIn(q) = EnvsIn(<<Head(q)>>) \cup EnvsIn(Tail(q))
    BY <2>1, EnvsOfTail
  <2>6. EnvsIn(<<Head(q)>>) = {Head(q).arg}
    BY <2>1, <2>2, EnvsOfOne
  <2> QED
    BY <1>2, <2>4, <2>5, <2>6
<1>3. Len(q) < PendingCap \/ Len(q) = PendingCap
  BY QueueTypes, OutgoingAssumption
<1> QED
  BY <1>1, <1>2, <1>3, Zenon

\* Steps after which every envelope still stands in a queue.
LEMMA NoneLost ==
    ASSUME EnvsIn(outbox) \subseteq Queued' \cup delivered',
           EnvsIn(hand) \subseteq Queued', EnvsIn(pending) \subseteq Queued',
           EnvsIn(cmds) \subseteq Queued'
    PROVE  Excused
BY DEF Excused, Lost, Queued

LEMMA SendKeepsAll ==
    ASSUME TypeOK, NEW f \in Frames, TrySend(f),
           UNCHANGED <<outbox, hand, pending>>
    PROVE  Excused
<1>1. EnvsIn(Append(cmds, f)) = EnvsIn(cmds) \cup EnvsIn(<<f>>)
  BY EnvsOfAppend DEF TypeOK
<1>2. EnvsIn(cmds) \subseteq EnvsIn(cmds')
  BY <1>1 DEF TrySend
<1> QED
  BY <1>2, NoneLost DEF Queued

LEMMA TakeOfflineExcused ==
    ASSUME TypeOK, NEW then, TakeOffline(then)
    PROVE  Excused
<1> DEFINE c == Head(cmds)
           k == Keep(pending, c)
<1>1. CASE Leave
  BY <1>1 DEF Leave, Excused
<1>2. CASE ~Leave
  <2>1. /\ cmds # <<>> /\ cmds' = Tail(cmds)
        /\ pending' = IF c.kind = "send" THEN k ELSE pending
        /\ UNCHANGED <<hand, outbox, delivered>>
    BY <1>2 DEF TakeOffline, conn
  <2>2. c \in Frames
    BY <2>1, QueueTypes DEF TypeOK
  <2>3. EnvsIn(cmds) = EnvsIn(<<c>>) \cup EnvsIn(cmds')
    BY <2>1, EnvsOfTail DEF TypeOK
  <2>4. CASE c.kind # "send"
    <3>1. EnvsIn(<<c>>) = {}
      BY <2>2, <2>4, EnvsOfOne
    <3> QED
      BY <2>1, <2>3, <2>4, <3>1, NoneLost DEF Queued
  <2>5. CASE c.kind = "send"
    <3>1. pending' = k
      BY <2>1, <2>5
    <3>2. \/ EnvsIn(k) = EnvsIn(pending) \cup EnvsIn(<<c>>)
          \/ /\ Len(pending) = PendingCap
             /\ EnvsIn(pending) \cup EnvsIn(<<c>>)
                    = EnvsIn(<<Head(pending)>>) \cup EnvsIn(k)
             /\ \E a : EnvsIn(<<Head(pending)>>) = {a}
      BY <2>2, <2>5, KeepLoses DEF TypeOK
    <3> HIDE DEF c, k
    <3>3. CASE EnvsIn(k) = EnvsIn(pending) \cup EnvsIn(<<c>>)
      BY <2>1, <2>3, <3>1, <3>3, NoneLost DEF Queued
    <3>4. CASE /\ Len(pending) = PendingCap
               /\ EnvsIn(pending) \cup EnvsIn(<<c>>)
                    = EnvsIn(<<Head(pending)>>) \cup EnvsIn(k)
               /\ \E a : EnvsIn(<<Head(pending)>>) = {a}
      <4>1. Lost \subseteq EnvsIn(<<Head(pending)>>)
        BY <2>1, <2>3, <3>1, <3>4 DEF Lost, Queued
      <4>2. Lost = {} \/ Lost = EnvsIn(<<Head(pending)>>)
        BY <3>4, <4>1
      <4> QED
        BY <3>4, <4>2 DEF Excused
    <3> QED
      BY <3>2, <3>3, <3>4
  <2> QED
    BY <2>4, <2>5
<1> QED
  BY <1>1, <1>2

LEMMA FlushNextExcused == ASSUME TypeOK, FlushNext PROVE Excused
<1>1. /\ hand = <<>> /\ pending # <<>>
      /\ hand' = <<Head(pending)>> /\ pending' = Tail(pending)
      /\ UNCHANGED <<cmds, outbox, delivered>>
  BY DEF FlushNext, conn
<1>2. EnvsIn(pending) = EnvsIn(hand') \cup EnvsIn(pending')
  BY <1>1, EnvsOfTail DEF TypeOK
<1> QED
  BY <1>1, <1>2, EnvsOfEmpty, NoneLost DEF Queued

LEMMA HandedExcused == ASSUME TypeOK, Handed PROVE Excused
<1> DEFINE f == Head(hand)
<1>1. /\ hand # <<>> /\ outbox' = Append(outbox, f) /\ hand' = <<>>
      /\ UNCHANGED <<cmds, pending, delivered>>
  BY DEF Handed
<1>2. f \in Frames /\ hand = <<f>>
  BY <1>1, QueueTypes, Single DEF TypeOK
<1>3. EnvsIn(outbox') = EnvsIn(outbox) \cup EnvsIn(hand)
  BY <1>1, <1>2, EnvsOfAppend DEF TypeOK
<1> QED
  BY <1>1, <1>3, NoneLost DEF Queued

\* The flush gives up the envelope whose hand-over failed; the live loop puts
\* it back into the buffer.
LEMMA HandFailedExcused == ASSUME TypeOK, Shape, HandFailed PROVE Excused
<1> DEFINE f == Head(hand)
           k == Keep(pending, f)
<1>1. /\ hand # <<>> /\ hand' = <<>> /\ ~pump /\ pump' = pump
      /\ UNCHANGED <<cmds, outbox, delivered>>
      /\ pending' = IF phase = "live" /\ f.kind = "send" THEN k ELSE pending
  BY DEF HandFailed, conn
<1>2. f \in Frames /\ hand = <<f>>
  BY <1>1, QueueTypes, Single DEF TypeOK
<1>3. EnvsIn(hand) = IF f.kind = "send" THEN {f.arg} ELSE {}
  BY <1>2, EnvsOfOne
<1>4. CASE f.kind # "send"
  BY <1>1, <1>3, <1>4, NoneLost DEF Queued
<1>5. CASE f.kind = "send" /\ phase = "live"
  <2>1. pending = <<>>
    BY <1>5 DEF Shape
  <2>2. Len(pending) < PendingCap
    BY <2>1, QueueTypes, OutgoingAssumption
  <2>3. k = Append(pending, f)
    BY <2>2, QueueTypes, OutgoingAssumption DEF Keep, TypeOK
  <2>4. EnvsIn(pending') = EnvsIn(pending) \cup EnvsIn(hand)
    BY <1>1, <1>2, <1>5, <2>3, EnvsOfAppend DEF TypeOK
  <2> QED
    BY <1>1, <2>4, NoneLost DEF Queued
<1>6. CASE f.kind = "send" /\ phase # "live"
  <2>1. phase = "flush"
    BY <1>1, <1>2, <1>6 DEF Shape, Heartbeat, Frame
  <2>2. Lost \subseteq EnvsIn(hand)
    BY <1>1, <1>6 DEF Lost, Queued
  <2>3. Lost = {} \/ Lost = EnvsIn(hand)
    BY <1>3, <1>6, <2>2
  <2> QED
    BY <1>1, <2>1, <2>3 DEF Excused
<1> QED
  BY <1>4, <1>5, <1>6

LEMMA TakeLiveExcused == ASSUME TypeOK, TakeLive PROVE Excused
<1>1. CASE Leave
  BY <1>1 DEF Leave, Excused
<1>2. CASE ~Leave
  <2>1. /\ cmds # <<>> /\ cmds' = Tail(cmds) /\ hand' = <<Head(cmds)>>
        /\ hand = <<>> /\ UNCHANGED <<pending, outbox, delivered>>
    BY <1>2 DEF TakeLive, Idle, conn
  <2>2. EnvsIn(cmds) = EnvsIn(hand') \cup EnvsIn(cmds')
    BY <2>1, EnvsOfTail DEF TypeOK
  <2> QED
    BY <2>1, <2>2, EnvsOfEmpty, NoneLost DEF Queued
<1> QED
  BY <1>1, <1>2

LEMMA PumpSendExcused == ASSUME TypeOK, PumpSend PROVE Excused
<1> DEFINE f == Head(outbox)
<1>1. /\ outbox # <<>> /\ outbox' = Tail(outbox)
      /\ delivered' = IF f.kind = "send" THEN delivered \cup {f.arg}
                      ELSE delivered
      /\ UNCHANGED <<cmds, hand, pending>>
  BY DEF PumpSend, worker
<1>2. EnvsIn(outbox) = EnvsIn(<<f>>) \cup EnvsIn(outbox')
  BY <1>1, EnvsOfTail DEF TypeOK
<1>3. f \in Frames
  BY <1>1, QueueTypes DEF TypeOK
<1>4. EnvsIn(<<f>>) \subseteq delivered'
  BY <1>1, <1>3, EnvsOfOne
<1> QED
  BY <1>1, <1>2, <1>4, NoneLost DEF Queued

\* The connection is given up with what its frame channel held.
LEMMA DropExcused ==
    ASSUME ~pump', UNCHANGED <<cmds, hand, pending>>
    PROVE  Excused
BY DEF Excused, Lost, Queued

\* Steps that leave the queues alone, but for a heartbeat.
LEMMA PlainExcused ==
    ASSUME UNCHANGED <<cmds, pending, outbox>>, hand' = hand \/ hand = <<>>
    PROVE  Excused
BY EnvsOfEmpty, NoneLost DEF Queued

LEMMA LossStep ==
    ASSUME TypeOK, Shape, Next
    PROVE  Excused
<1> USE DEF conn, worker
<1>1. CASE SendEnvelope
  <2>1. submitted' \in Envs
    BY <1>1, OutgoingAssumption DEF SendEnvelope, TypeOK, Envs
  <2> QED
    BY <1>1, <2>1, FrameTypes, SendKeepsAll DEF SendEnvelope
<1>2. CASE ListChanged
  <2>1. list' \in Lists
    BY <1>2, OutgoingAssumption DEF ListChanged, TypeOK, Lists
  <2> QED
    BY <1>2, <2>1, FrameTypes, SendKeepsAll DEF ListChanged
<1>3. CASE Logout
  BY <1>3, FrameTypes, SendKeepsAll DEF Logout
<1>4. CASE Connect
  BY <1>4, TakeOfflineExcused, PlainExcused DEF Connect
<1>5. CASE Wake
  BY <1>5, TakeOfflineExcused, PlainExcused DEF Wake
<1>6. CASE FlushNext
  BY <1>6, FlushNextExcused
<1>7. CASE Handed
  BY <1>7, HandedExcused
<1>8. CASE HandFailed
  BY <1>8, HandFailedExcused
<1>9. CASE TakeLive
  BY <1>9, TakeLiveExcused
<1>10. CASE PumpSend
  BY <1>10, PumpSendExcused
<1>11. CASE Hangup \/ LinkLost
  BY <1>11, DropExcused DEF Hangup, LinkLost, Drop
<1>12. CASE Greet \/ HeartbeatTick
  BY <1>12, PlainExcused DEF Greet, HeartbeatTick, Idle, Shape
<1>13. CASE Opened \/ OpenFailed \/ Refused \/ Flushed \/ StreamEnded
  BY <1>13, PlainExcused DEF Opened, OpenFailed, Refused, Flushed, StreamEnded
<1>14. CASE DispatchIncoming \/ Announce \/ Exit \/ Relay
  BY <1>14, PlainExcused DEF DispatchIncoming, Announce, Exit, Relay
<1> QED
  BY <1>1, <1>2, <1>3, <1>4, <1>5, <1>6, <1>7, <1>8, <1>9, <1>10, <1>11,
     <1>12, <1>13, <1>14 DEF Next, Worker

\* An envelope the client holds is given up only with a broken connection, by
\* a full buffer (the oldest) or at exit, for any capacities: being offline or
\* a failed send in the live loop of run_worker costs none.
THEOREM OutgoingLossNeedsCause == Spec => LossNeedsCause
<1>1. TypeOK /\ Shape /\ [Next]_vars =>
         [LET lost == Queued \ (Queued' \cup delivered') IN
             \/ lost = {}
             \/ phase' = "leaving"
             \/ ~pump' /\ lost \subseteq EnvsIn(outbox)
             \/ ~pump' /\ phase = "flush" /\ lost = EnvsIn(hand)
             \/ Len(pending) = PendingCap /\ lost = EnvsIn(<<Head(pending)>>)]_vars
  BY LossStep DEF Excused, Lost
<1> QED
  BY <1>1, OutgoingInv, PTL DEF Spec, LossNeedsCause
=============================================================================
