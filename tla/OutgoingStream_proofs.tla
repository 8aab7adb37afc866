------------------------ MODULE OutgoingStream_proofs ------------------------
(***************************************************************************)
(* Proofs about OutgoingStream: its types, the order of the envelopes, the *)
(* list the server has, and that it implements Outbox.                     *)
(***************************************************************************)
EXTENDS OutgoingStream, SequenceTheorems, TLAPS

Reports == {"connected", "disconnected", "reconnecting", "auth", "message"}

-----------------------------------------------------------------------------
(* Queues of frames *)

LEMMA FrameTypes ==
    /\ \A k \in Envs : Frame("send", k) \in Frames
    /\ \A v \in Lists : Frame("subscribe", v) \in Frames
    /\ Heartbeat \in Frames /\ Frame("shutdown", 0) \in Frames
    /\ \A f \in Frames : /\ f.kind = "send" => f.arg \in Envs
                         /\ f.kind = "subscribe" => f.arg \in Lists
BY DEF Frame, Frames, Heartbeat

\* Taking from, adding to and forming a queue.
LEMMA QueueTypes ==
    /\ \A s \in Seq(Frames) : Len(s) \in Nat /\ DOMAIN s = 1..Len(s)
    /\ \A s \in Seq(Frames) : s # <<>> =>
          /\ Head(s) \in Frames /\ Head(s) = s[1] /\ Len(s) > 0
          /\ Tail(s) \in Seq(Frames) /\ Len(Tail(s)) = Len(s) - 1
          /\ \A i \in 1..Len(Tail(s)) : Tail(s)[i] = s[i + 1]
    /\ \A s \in Seq(Frames), f \in Frames :
          /\ Append(s, f) \in Seq(Frames) /\ Len(Append(s, f)) = Len(s) + 1
          /\ \A i \in 1..Len(s) : Append(s, f)[i] = s[i]
          /\ Append(s, f)[Len(s) + 1] = f
    /\ \A f \in Frames : /\ <<f>> \in Seq(Frames) /\ Len(<<f>>) = 1
                         /\ <<f>>[1] = f /\ <<f>> # <<>>
    /\ <<>> \in Seq(Frames) /\ Len(<<>>) = 0
<1>1. \A s \in Seq(Frames) : s # <<>> =>
          /\ Head(s) \in Frames /\ Head(s) = s[1] /\ Len(s) > 0
          /\ Tail(s) \in Seq(Frames) /\ Len(Tail(s)) = Len(s) - 1
          /\ \A i \in 1..Len(Tail(s)) : Tail(s)[i] = s[i + 1]
  BY HeadTailProperties, EmptySeq
<1>2. \A s \in Seq(Frames), f \in Frames :
          /\ Append(s, f) \in Seq(Frames) /\ Len(Append(s, f)) = Len(s) + 1
          /\ \A i \in 1..Len(s) : Append(s, f)[i] = s[i]
          /\ Append(s, f)[Len(s) + 1] = f
  BY AppendProperties
<1>3. \A s \in Seq(Frames) : Len(s) \in Nat /\ DOMAIN s = 1..Len(s)
  BY LenProperties
<1> QED
  BY <1>1, <1>2, <1>3

LEMMA Single ==
    ASSUME NEW s \in Seq(Frames), s # <<>>, Len(s) <= 1
    PROVE  s = <<Head(s)>>
<1>1. Len(s) = 1 /\ Head(s) = s[1] /\ Head(s) \in Frames
  <2>1. Len(s) \in Nat /\ Len(s) > 0
    BY QueueTypes
  <2>2. Head(s) = s[1]
    BY QueueTypes
  <2>3. Head(s) \in Frames
    BY QueueTypes
  <2>4. \A n \in Nat : n > 0 /\ n <= 1 => n = 1
    OBVIOUS
  <2>5. Len(s) = 1
    BY <2>1, <2>4, Zenon
  <2> QED
    BY <2>2, <2>3, <2>5
<1> DEFINE t == <<Head(s)>>
<1>2. t \in Seq(Frames) /\ Len(t) = 1 /\ t[1] = s[1]
  BY <1>1, QueueTypes
<1> HIDE DEF t
<1>3. s = t
  BY <1>1, <1>2, SeqEqual
<1> QED
  BY <1>3 DEF t

LEMMA ReportTypes ==
    /\ \A s \in Seq(Reports) : s # <<>> => /\ Head(s) \in Reports
                                           /\ Tail(s) \in Seq(Reports)
                                           /\ Len(Tail(s)) = Len(s) - 1
    /\ \A s \in Seq(Reports) : Len(s) \in Nat
    /\ \A s \in Seq(Reports), e \in Reports :
          Append(s, e) \in Seq(Reports) /\ Len(Append(s, e)) = Len(s) + 1
    /\ <<>> \in Seq(Reports) /\ Len(<<>>) = 0
<1>1. \A s \in Seq(Reports) : s # <<>> => /\ Head(s) \in Reports
                                           /\ Tail(s) \in Seq(Reports)
                                           /\ Len(Tail(s)) = Len(s) - 1
  BY HeadTailProperties
<1> QED
  BY <1>1

\* The envelopes of a queue that grows or shrinks by one frame.
LEMMA EnvsOfEmpty == EnvsIn(<<>>) = {} /\ Sorted(<<>>)
BY DEF EnvsIn, Sorted

LEMMA EnvsOfOne ==
    ASSUME NEW f \in Frames
    PROVE  /\ EnvsIn(<<f>>) = IF f.kind = "send" THEN {f.arg} ELSE {}
           /\ Sorted(<<f>>)
<1>1. DOMAIN <<f>> = {1} /\ <<f>>[1] = f
  OBVIOUS
<1> QED
  BY <1>1 DEF EnvsIn, Sorted

LEMMA EnvsOfAppend ==
    ASSUME NEW q \in Seq(Frames), NEW f \in Frames
    PROVE  EnvsIn(Append(q, f)) = EnvsIn(q) \cup EnvsIn(<<f>>)
<1> DEFINE r == Append(q, f)
<1>1. /\ r \in Seq(Frames) /\ Len(r) = Len(q) + 1 /\ Len(q) \in Nat
      /\ \A i \in 1..Len(q) : r[i] = q[i]
      /\ r[Len(q) + 1] = f
  BY QueueTypes
<1>2. DOMAIN r = DOMAIN q \cup {Len(q) + 1} /\ DOMAIN q = 1..Len(q)
  BY <1>1, QueueTypes
<1> HIDE DEF r
<1>3. EnvsIn(r) = EnvsIn(q) \cup (IF f.kind = "send" THEN {f.arg} ELSE {})
  BY <1>1, <1>2 DEF EnvsIn
<1> QED
  BY <1>3, EnvsOfOne DEF r

LEMMA EnvsOfTail ==
    ASSUME NEW q \in Seq(Frames), q # <<>>
    PROVE  EnvsIn(q) = EnvsIn(<<Head(q)>>) \cup EnvsIn(Tail(q))
<1> DEFINE t == Tail(q)
           h == Head(q)
<1>1. /\ t \in Seq(Frames) /\ Len(t) = Len(q) - 1 /\ Len(q) \in Nat
      /\ Len(q) > 0 /\ h = q[1] /\ h \in Frames
      /\ \A i \in 1..Len(t) : t[i] = q[i + 1]
  BY QueueTypes
<1>2. DOMAIN q = 1..Len(q) /\ DOMAIN t = 1..Len(t)
  BY <1>1, QueueTypes
<1>3. EnvsIn(<<h>>) = IF h.kind = "send" THEN {h.arg} ELSE {}
  BY <1>1, EnvsOfOne
<1> HIDE DEF t, h
<1>4. \A i \in 1..Len(q) : i = 1 \/ (i - 1 \in 1..Len(t) /\ t[i - 1] = q[i])
  BY <1>1
<1>5. EnvsIn(q) \subseteq EnvsIn(<<h>>) \cup EnvsIn(t)
  <2> SUFFICES ASSUME NEW i \in 1..Len(q), q[i].kind = "send"
               PROVE  q[i].arg \in EnvsIn(<<h>>) \cup EnvsIn(t)
    BY <1>2 DEF EnvsIn
  <2>1. CASE i = 1
    BY <2>1, <1>1, <1>3
  <2>2. CASE i - 1 \in 1..Len(t) /\ t[i - 1] = q[i]
    BY <2>2, <1>2 DEF EnvsIn
  <2> QED
    BY <2>1, <2>2, <1>4
<1>6. EnvsIn(t) \subseteq EnvsIn(q)
  <2> SUFFICES ASSUME NEW i \in 1..Len(t), t[i].kind = "send"
               PROVE  t[i].arg \in EnvsIn(q)
    BY <1>2 DEF EnvsIn
  <2>1. i + 1 \in 1..Len(q) /\ q[i + 1] = t[i]
    BY <1>1
  <2> QED
    BY <2>1, <1>2 DEF EnvsIn
<1>7. EnvsIn(<<h>>) \subseteq EnvsIn(q)
  BY <1>1, <1>2, <1>3 DEF EnvsIn
<1> QED
  BY <1>5, <1>6, <1>7 DEF t, h

LEMMA SortedAppend ==
    ASSUME NEW q \in Seq(Frames), NEW f \in Frames, Sorted(q),
           Before(q, <<f>>)
    PROVE  Sorted(Append(q, f))
<1> DEFINE r == Append(q, f)
<1>1. /\ Len(r) = Len(q) + 1 /\ Len(q) \in Nat /\ DOMAIN r = 1..Len(r)
      /\ DOMAIN q = 1..Len(q)
      /\ \A i \in 1..Len(q) : r[i] = q[i]
      /\ r[Len(q) + 1] = f
  BY QueueTypes
<1>2. f.kind = "send" => \A i \in DOMAIN q :
                            q[i].kind = "send" => q[i].arg < f.arg
  BY EnvsOfOne DEF Before, EnvsIn
<1> HIDE DEF r
<1>3. Sorted(r)
  BY <1>1, <1>2 DEF Sorted
<1> QED
  BY <1>3 DEF r

LEMMA SortedTail ==
    ASSUME NEW q \in Seq(Frames), q # <<>>, Sorted(q)
    PROVE  Sorted(Tail(q)) /\ Before(<<Head(q)>>, Tail(q))
<1> DEFINE t == Tail(q)
           h == Head(q)
<1>1. /\ t \in Seq(Frames) /\ Len(t) = Len(q) - 1 /\ Len(q) \in Nat
      /\ Len(q) > 0 /\ h = q[1] /\ h \in Frames
      /\ \A i \in 1..Len(t) : t[i] = q[i + 1]
      /\ DOMAIN q = 1..Len(q)
  BY QueueTypes
<1>2. DOMAIN t = 1..Len(t)
  BY <1>1, QueueTypes
<1>3. EnvsIn(<<h>>) = IF h.kind = "send" THEN {h.arg} ELSE {}
  BY <1>1, EnvsOfOne
<1> HIDE DEF t, h
<1>4. Sorted(t)
  <2> SUFFICES ASSUME NEW i \in 1..Len(t), NEW j \in 1..Len(t), i < j,
                      t[i].kind = "send", t[j].kind = "send"
               PROVE  t[i].arg < t[j].arg
    BY <1>2 DEF Sorted
  <2>1. /\ i + 1 \in 1..Len(q) /\ j + 1 \in 1..Len(q) /\ i + 1 < j + 1
        /\ q[i + 1] = t[i] /\ q[j + 1] = t[j]
    BY <1>1
  <2> QED
    BY <1>1, <2>1 DEF Sorted
<1>5. Before(<<h>>, t)
  <2> SUFFICES ASSUME NEW i \in 1..Len(t), t[i].kind = "send",
                      h.kind = "send"
               PROVE  h.arg < t[i].arg
    BY <1>2, <1>3 DEF Before, EnvsIn
  <2>1. i + 1 \in 1..Len(q) /\ 1 \in 1..Len(q) /\ 1 < i + 1
    BY <1>1
  <2> QED
    BY <1>1, <2>1 DEF Sorted
<1> QED
  BY <1>4, <1>5 DEF t, h
\* push_pending keeps the buffer within its bound and in order, and at most
\* forgets its oldest envelope.
LEMMA KeepFacts ==
    ASSUME NEW q \in Seq(Frames), Len(q) <= PendingCap,
           \A i \in DOMAIN q : q[i].kind = "send",
           NEW f \in Frames, f.kind = "send"
    PROVE  /\ Keep(q, f) \in Seq(Frames) /\ Len(Keep(q, f)) <= PendingCap
           /\ \A i \in DOMAIN Keep(q, f) : Keep(q, f)[i].kind = "send"
           /\ EnvsIn(Keep(q, f)) \subseteq EnvsIn(q) \cup EnvsIn(<<f>>)
           /\ Sorted(q) /\ Before(q, <<f>>) => Sorted(Keep(q, f))
<1> DEFINE base == IF Len(q) >= PendingCap THEN Tail(q) ELSE q
<1> USE OutgoingAssumption
<1>1. Len(q) >= PendingCap => q # <<>>
  BY QueueTypes
<1>2. /\ base \in Seq(Frames) /\ Len(base) < PendingCap
      /\ \A i \in DOMAIN base : base[i].kind = "send"
      /\ EnvsIn(base) \subseteq EnvsIn(q)
      /\ Sorted(q) => Sorted(base)
  <2>1. CASE Len(q) >= PendingCap
    <3> DEFINE t == Tail(q)
    <3>1. /\ t \in Seq(Frames) /\ Len(t) = Len(q) - 1 /\ Len(q) \in Nat
          /\ \A i \in 1..Len(t) : t[i] = q[i + 1]
          /\ DOMAIN q = 1..Len(q)
      BY <1>1, <2>1, QueueTypes
    <3>2. DOMAIN t = 1..Len(t)
      BY <3>1, QueueTypes
    <3>3. EnvsIn(t) \subseteq EnvsIn(q) /\ (Sorted(q) => Sorted(t))
      BY <1>1, <2>1, EnvsOfTail, SortedTail
    <3> HIDE DEF t
    <3>4. \A i \in DOMAIN t : t[i].kind = "send"
      <4> SUFFICES ASSUME NEW i \in 1..Len(t) PROVE t[i].kind = "send"
        BY <3>2
      <4>1. i + 1 \in DOMAIN q /\ t[i] = q[i + 1]
        BY <3>1
      <4> QED
        BY <4>1
    <3> QED
      BY <2>1, <3>1, <3>3, <3>4 DEF t
  <2>2. CASE ~(Len(q) >= PendingCap)
    BY <2>2, QueueTypes
  <2> QED
    BY <2>1, <2>2
<1>3. Keep(q, f) = Append(base, f)
  BY DEF Keep
<1> HIDE DEF base
<1>4. /\ Append(base, f) \in Seq(Frames) /\ Len(base) \in Nat
      /\ Len(Append(base, f)) = Len(base) + 1
      /\ \A i \in 1..Len(base) : Append(base, f)[i] = base[i]
      /\ Append(base, f)[Len(base) + 1] = f
      /\ DOMAIN base = 1..Len(base)
  BY <1>2, QueueTypes
<1>5. \A i \in DOMAIN Append(base, f) : Append(base, f)[i].kind = "send"
  <2>1. DOMAIN Append(base, f) = 1..(Len(base) + 1)
    BY <1>4, QueueTypes
  <2> QED
    BY <1>2, <1>4, <2>1
<1>6. EnvsIn(Append(base, f)) = EnvsIn(base) \cup EnvsIn(<<f>>)
  BY <1>2, EnvsOfAppend
<1>7. ASSUME Sorted(q), Before(q, <<f>>) PROVE Sorted(Append(base, f))
  <2>1. Before(base, <<f>>)
    BY <1>2, <1>7 DEF Before
  <2> QED
    BY <1>2, <1>7, <2>1, SortedAppend
<1>8. Len(Append(base, f)) <= PendingCap
  BY <1>2, <1>4
<1> QED
  BY <1>2, <1>3, <1>4, <1>5, <1>6, <1>7, <1>8

-----------------------------------------------------------------------------
(* Types *)

LEMMA LeaveTypes == ASSUME TypeOK, Leave PROVE TypeOK'
<1> USE OutgoingAssumption DEF Leave, Drop
<1>1. pump' \in BOOLEAN
  OBVIOUS
<1>2. /\ UNCHANGED <<subscribed, events, shown, list, loggedOut, submitted,
                     taken, delivered>>
  BY DEF report, callers
<1>3. /\ cmds' = <<>> /\ pending' = <<>> /\ hand' = <<>> /\ outbox' = <<>>
      /\ serverList' = 0 /\ phase' \in Phases
  BY DEF Phases
<1> HIDE DEF Leave
<1> QED
  BY <1>1, <1>2, <1>3, QueueTypes DEF TypeOK

LEMMA TakeOfflineTypes ==
    ASSUME TypeOK, NEW then \in Phases, TakeOffline(then)
    PROVE  TypeOK'
<1> DEFINE c == Head(cmds)
<1>1. /\ cmds # <<>> /\ c \in Frames
      /\ Tail(cmds) \in Seq(Frames) /\ Len(Tail(cmds)) <= CmdCap
  BY QueueTypes, OutgoingAssumption DEF TypeOK, TakeOffline
<1>2. CASE c.kind = "shutdown" /\ Leave
  BY <1>2, LeaveTypes
<1>3. CASE ~(c.kind = "shutdown" /\ Leave)
  <2>1. /\ cmds' = Tail(cmds)
        /\ pending' = IF c.kind = "send" THEN Keep(pending, c) ELSE pending
        /\ subscribed' = IF c.kind = "subscribe" THEN c.arg ELSE subscribed
        /\ phase' = then
        /\ UNCHANGED <<hand, pump, outbox, serverList, events, shown, list,
                       loggedOut, submitted, taken, delivered>>
    BY <1>3 DEF TakeOffline, conn, report, callers
  <2>2. /\ pending' \in Seq(Frames) /\ Len(pending') <= PendingCap
        /\ \A i \in DOMAIN pending' : pending'[i].kind = "send"
    BY <1>1, <2>1, KeepFacts DEF TypeOK
  <2>3. subscribed' \in Lists
    BY <1>1, <2>1, FrameTypes DEF TypeOK
  <2> HIDE DEF c
  <2> QED
    BY <1>1, <2>1, <2>2, <2>3 DEF TypeOK
<1> QED
  BY <1>2, <1>3

LEMMA HandFailedTypes ==
    ASSUME TypeOK, HandFailed
    PROVE  /\ pending' \in Seq(Frames) /\ Len(pending') <= PendingCap
           /\ \A i \in DOMAIN pending' : pending'[i].kind = "send"
<1> DEFINE f == Head(hand)
<1>1. f \in Frames
  BY QueueTypes DEF TypeOK, HandFailed
<1>2. \/ pending' = pending
      \/ pending' = Keep(pending, f) /\ f.kind = "send"
  BY DEF HandFailed
<1> HIDE DEF f
<1>3. /\ pending \in Seq(Frames) /\ Len(pending) <= PendingCap
      /\ \A i \in DOMAIN pending : pending[i].kind = "send"
  BY DEF TypeOK
<1>4. CASE pending' = pending
  BY <1>3, <1>4
<1>5. CASE pending' = Keep(pending, f) /\ f.kind = "send"
  <2> DEFINE k == Keep(pending, f)
  <2>1. /\ k \in Seq(Frames) /\ Len(k) <= PendingCap
        /\ \A i \in DOMAIN k : k[i].kind = "send"
    BY <1>1, <1>3, <1>5, KeepFacts
  <2>2. pending' = k
    BY <1>5
  <2> HIDE DEF k
  <2> QED
    BY <2>1, <2>2
<1> QED
  BY <1>2, <1>4, <1>5

\* Every variable keeps its type for every capacity and number of envelopes;
\* in particular no channel and no buffer exceeds its bound.
THEOREM OutgoingTypeCorrect == Spec => []TypeOK
<1> USE OutgoingAssumption
<1>1. Init => TypeOK
  <2> SUFFICES ASSUME Init PROVE TypeOK
    OBVIOUS
  <2>1. pump \in BOOLEAN /\ loggedOut \in BOOLEAN
    BY DEF Init
  <2>2. 1 \in Lists /\ phase \in Phases
    BY DEF Init, Lists, Phases
  <2>3. /\ cmds = <<>> /\ hand = <<>> /\ pending = <<>> /\ outbox = <<>>
        /\ events = <<>> /\ subscribed = 1 /\ list = 1 /\ taken = 1
        /\ serverList = 0 /\ submitted = 0 /\ delivered = {}
        /\ shown = "connected"
    BY DEF Init
  <2> QED
    BY <2>1, <2>2, <2>3 DEF TypeOK
<1>2. ASSUME TypeOK, [Next]_vars
      PROVE  TypeOK'
  <2> USE <1>2, QueueTypes, FrameTypes, ReportTypes
      DEF TypeOK, conn, worker, report, callers, Reports, Phases
  <2>1. CASE SendEnvelope
    <3>1. submitted' \in 0..MaxEnvs /\ submitted' \in Envs
      BY <2>1 DEF SendEnvelope, Envs
    <3>2. cmds' \in Seq(Frames) /\ Len(cmds') <= CmdCap
      BY <2>1, <3>1 DEF SendEnvelope, TrySend, Room
    <3> QED
      BY <2>1, <3>1, <3>2 DEF SendEnvelope
  <2>2. CASE ListChanged
    <3>1. list' \in Lists /\ taken' \in Lists
      BY <2>2 DEF ListChanged, Lists
    <3>2. cmds' \in Seq(Frames) /\ Len(cmds') <= CmdCap
      BY <2>2, <3>1 DEF ListChanged, TrySend, Room
    <3> QED
      BY <2>2, <3>1, <3>2 DEF ListChanged
  <2>3. CASE Logout
    BY <2>3 DEF Logout, TrySend, Room
  <2>4. CASE Connect
    <3>1. CASE TakeOffline("opening")
      BY <3>1, TakeOfflineTypes
    <3>2. CASE ~TakeOffline("opening")
      BY <2>4, <3>2 DEF Connect
    <3> QED
      BY <3>1, <3>2
  <2>5. CASE Opened
    <3>1. pump' \in BOOLEAN
      BY <2>5 DEF Opened
    <3>2. serverList' \in 0..MaxLists
      BY <2>5 DEF Opened, Lists
    <3>3. phase' \in Phases
      BY <2>5 DEF Opened
    <3>4. UNCHANGED <<cmds, hand, pending, subscribed, outbox, events, shown,
                      list, loggedOut, submitted, taken, delivered>>
      BY <2>5 DEF Opened
    <3> QED
      BY <3>1, <3>2, <3>3, <3>4
  <2>6. CASE OpenFailed
    BY <2>6 DEF OpenFailed
  <2>7. CASE Refused
    BY <2>7 DEF Refused, Report
  <2>8. CASE FlushNext
    BY <2>8 DEF FlushNext
  <2>9. CASE Flushed
    BY <2>9 DEF Flushed
  <2>10. CASE Greet
    BY <2>10 DEF Greet, Report
  <2>11. CASE Handed
    BY <2>11 DEF Handed
  <2>12. CASE HandFailed
    <3>1. UNCHANGED <<cmds, subscribed, pump, outbox, serverList, events,
                      shown, list, loggedOut, submitted, taken, delivered>>
      BY <2>12 DEF HandFailed
    <3>2. hand' = <<>> /\ phase' \in Phases
      BY <2>12 DEF HandFailed
    <3>3. /\ pending' \in Seq(Frames) /\ Len(pending') <= PendingCap
          /\ \A i \in DOMAIN pending' : pending'[i].kind = "send"
      BY <2>12, HandFailedTypes
    <3> QED
      BY <3>1, <3>2, <3>3
  <2>13. CASE TakeLive
    <3> DEFINE c == Head(cmds)
    <3>1. CASE Leave
      BY <3>1, LeaveTypes
    <3>2. CASE ~Leave
      <4>1. /\ cmds # <<>> /\ cmds' = Tail(cmds) /\ hand' = <<c>>
            /\ subscribed' = IF c.kind = "subscribe" THEN c.arg
                              ELSE subscribed
            /\ UNCHANGED <<phase, pending, pump, outbox, serverList, events,
                           shown, list, loggedOut, submitted, taken,
                           delivered>>
        BY <2>13, <3>2 DEF TakeLive
      <4>2. /\ c \in Frames /\ <<c>> \in Seq(Frames) /\ Len(<<c>>) = 1
            /\ Tail(cmds) \in Seq(Frames) /\ Len(Tail(cmds)) <= CmdCap
        BY <4>1
      <4>3. subscribed' \in Lists
        BY <4>1, <4>2
      <4> HIDE DEF c
      <4> QED
        BY <4>1, <4>2, <4>3
    <3> QED
      BY <3>1, <3>2
  <2>14. CASE HeartbeatTick
    BY <2>14 DEF HeartbeatTick, Idle
  <2>15. CASE DispatchIncoming
    BY <2>15 DEF DispatchIncoming, Report, Idle
  <2>16. CASE StreamEnded
    BY <2>16 DEF StreamEnded, Idle
  <2>17. CASE Hangup
    <3>1. pump' \in BOOLEAN
      BY <2>17 DEF Hangup, Drop
    <3>2. events' \in Seq(Reports) /\ Len(events') <= EventCap
      BY <2>17 DEF Hangup, Report
    <3>3. /\ phase' \in Phases /\ outbox' = <<>> /\ serverList' = 0
          /\ UNCHANGED <<cmds, hand, pending, subscribed, shown, list,
                         loggedOut, submitted, taken, delivered>>
      BY <2>17 DEF Hangup, Drop, Report
    <3> QED
      BY <3>1, <3>2, <3>3
  <2>18. CASE Announce
    BY <2>18 DEF Announce, Report
  <2>19. CASE Wake
    <3>1. CASE TakeOffline("connect")
      BY <3>1, TakeOfflineTypes
    <3>2. CASE ~TakeOffline("connect")
      BY <2>19, <3>2 DEF Wake
    <3> QED
      BY <3>1, <3>2
  <2>20. CASE Exit
    BY <2>20 DEF Exit, Report
  <2>21. CASE PumpSend
    <3> DEFINE f == Head(outbox)
    <3>1. /\ f \in Frames /\ Tail(outbox) \in Seq(Frames)
          /\ Len(Tail(outbox)) <= FrameCap /\ outbox' = Tail(outbox)
      BY <2>21 DEF PumpSend
    <3>2. UNCHANGED <<phase, cmds, hand, pending, subscribed, pump, events,
                      shown, list, loggedOut, submitted, taken>>
      BY <2>21 DEF PumpSend
    <3>3. delivered' \subseteq Envs
      BY <2>21, <3>1 DEF PumpSend
    <3>4. serverList' \in 0..MaxLists
      BY <2>21, <3>1 DEF PumpSend, Lists
    <3> QED
      BY <3>1, <3>2, <3>3, <3>4
  <2>22. CASE LinkLost
    <3>1. pump' \in BOOLEAN
      BY <2>22 DEF LinkLost, Drop
    <3>2. /\ outbox' = <<>> /\ serverList' = 0
          /\ UNCHANGED <<phase, cmds, hand, pending, subscribed, events,
                         shown, list, loggedOut, submitted, taken, delivered>>
      BY <2>22 DEF LinkLost, Drop
    <3> QED
      BY <3>1, <3>2
  <2>23. CASE Relay
    BY <2>23 DEF Relay
  <2>24. CASE UNCHANGED vars
    BY <2>24 DEF vars
  <2> QED
    BY <2>1, <2>2, <2>3, <2>4, <2>5, <2>6, <2>7, <2>8, <2>9, <2>10, <2>11, <2>12, <2>13, <2>14, <2>15, <2>16, <2>17, <2>18, <2>19, <2>20, <2>21, <2>22, <2>23, <2>24 DEF Next, Worker
<1> QED
  BY <1>1, <1>2, PTL DEF Spec
-----------------------------------------------------------------------------
(* Order *)

Ahead(A, B) == \A a \in A, b \in B : a < b

\* InOrder, of the sets of envelopes in the frame channel, the hand, the
\* buffer, the command channel and at the server, after n submissions.
Line(o, h, p, c, d, n) ==
    /\ Ahead(o, h) /\ Ahead(o, p) /\ Ahead(o, c)
    /\ Ahead(h, p) /\ Ahead(h, c) /\ Ahead(p, c)
    /\ Ahead(d, o \cup h \cup p \cup c)
    /\ \A k \in o \cup h \cup p \cup c \cup d : k <= n

\* Where frames can be in each phase.
Shape ==
    /\ hand # <<>> => phase \in {"flush", "hail", "live"}
    /\ phase = "hail" => hand = <<Heartbeat>>
    /\ phase = "flush" /\ hand # <<>> => Head(hand).kind = "send"
    /\ ~pump => outbox = <<>> /\ serverList = 0
    /\ pump => phase \in {"flush", "greet", "hail", "live", "hangup"}
    /\ pump /\ phase \in {"greet", "hail"} => pending = <<>>
    /\ phase = "live" => pending = <<>>

InLine ==
    /\ Sorted(outbox) /\ Sorted(pending) /\ Sorted(cmds)
    /\ Line(EnvsIn(outbox), EnvsIn(hand), EnvsIn(pending), EnvsIn(cmds),
            delivered, submitted)

LEMMA InOrderIsLine == InOrder <=> InLine
<1>1. /\ Before(outbox, hand) <=> Ahead(EnvsIn(outbox), EnvsIn(hand))
      /\ Before(outbox, pending) <=> Ahead(EnvsIn(outbox), EnvsIn(pending))
      /\ Before(outbox, cmds) <=> Ahead(EnvsIn(outbox), EnvsIn(cmds))
      /\ Before(hand, pending) <=> Ahead(EnvsIn(hand), EnvsIn(pending))
      /\ Before(hand, cmds) <=> Ahead(EnvsIn(hand), EnvsIn(cmds))
      /\ Before(pending, cmds) <=> Ahead(EnvsIn(pending), EnvsIn(cmds))
  BY DEF Before, Ahead
<1>2. (\A d \in delivered, k \in Queued : d < k) <=>
        Ahead(delivered, EnvsIn(outbox) \cup EnvsIn(hand) \cup EnvsIn(pending)
                           \cup EnvsIn(cmds))
  BY DEF Ahead, Queued
<1>3. Queued \cup delivered = EnvsIn(outbox) \cup EnvsIn(hand)
        \cup EnvsIn(pending) \cup EnvsIn(cmds) \cup delivered
  BY DEF Queued
<1> QED
  BY <1>1, <1>2, <1>3 DEF InOrder, InLine, Line

\* The ways a step may rearrange the line.
LEMMA LineMoves ==
    ASSUME NEW o, NEW h, NEW p, NEW c, NEW d, NEW n, Line(o, h, p, c, d, n)
    PROVE  /\ \A o2 \in SUBSET o, h2 \in SUBSET h, p2 \in SUBSET p,
                 c2 \in SUBSET c : Line(o2, h2, p2, c2, d, n)
           /\ \A x \in SUBSET c, y \in SUBSET c :
                 Ahead(x, y) => \A p2 \in SUBSET (p \cup x) :
                                   Line(o, h, p2, y, d, n)
           /\ \A x \in SUBSET c, y \in SUBSET c :
                 h = {} /\ p = {} /\ Ahead(x, y) => Line(o, x, {}, y, d, n)
           /\ \A x \in SUBSET p, y \in SUBSET p :
                 h = {} /\ Ahead(x, y) => Line(o, x, y, c, d, n)
           /\ Line(o \cup h, {}, p, c, d, n)
           /\ p = {} => \A p2 \in SUBSET h : Line(o, {}, p2, c, d, n)
           /\ \A x \in SUBSET o, y \in SUBSET o :
                 Ahead(x, y) => Line(y, h, p, c, d \cup x, n)
BY DEF Line, Ahead

LEMMA LineGrows ==
    ASSUME NEW n \in Nat, NEW o, NEW h, NEW p, NEW c, NEW d,
           o \cup h \cup p \cup c \cup d \subseteq Nat,
           Line(o, h, p, c, d, n)
    PROVE  /\ Line(o, h, p, c \cup {n + 1}, d, n + 1)
           /\ Line(o, h, p, c, d, n + 1)
BY DEF Line, Ahead

LEMMA EnvsTypes == \A q \in Seq(Frames) : EnvsIn(q) \subseteq Envs
BY FrameTypes, ElementOfSeq, QueueTypes DEF EnvsIn

LEMMA LeaveKeepsShape == ASSUME Leave PROVE Shape'
BY DEF Leave, Drop, Shape

LEMMA TakeOfflineKeepsShape ==
    ASSUME Shape, NEW then \in {"opening", "connect"},
           phase \in {"connect", "sleep"}, TakeOffline(then)
    PROVE  Shape'
<1>1. CASE Leave
  BY <1>1, LeaveKeepsShape
<1>2. CASE ~Leave
  BY <1>2 DEF TakeOffline, Shape, conn
<1> QED
  BY <1>1, <1>2

\* Every step keeps frames where the worker can use them.
LEMMA ShapeStep ==
    ASSUME TypeOK, Shape, [Next]_vars
    PROVE  Shape'
<1> USE QueueTypes, FrameTypes DEF Shape, conn, worker
<1>1. CASE SendEnvelope
  BY <1>1 DEF SendEnvelope
<1>2. CASE ListChanged
  BY <1>2 DEF ListChanged
<1>3. CASE Logout
  BY <1>3 DEF Logout
<1>4. CASE Connect
  <2>1. CASE TakeOffline("opening")
    BY <1>4, <2>1, TakeOfflineKeepsShape DEF Connect
  <2>2. CASE ~TakeOffline("opening")
    BY <1>4, <2>2 DEF Connect
  <2> QED
    BY <2>1, <2>2
<1>5. CASE Opened
  BY <1>5 DEF Opened
<1>6. CASE OpenFailed
  BY <1>6 DEF OpenFailed
<1>7. CASE Refused
  BY <1>7 DEF Refused
<1>8. CASE FlushNext
  <2>1. Head(pending).kind = "send" /\ Head(<<Head(pending)>>) = Head(pending)
    BY <1>8 DEF FlushNext, TypeOK
  <2> QED
    BY <1>8, <2>1 DEF FlushNext
<1>9. CASE Flushed
  BY <1>9 DEF Flushed
<1>10. CASE Greet
  BY <1>10 DEF Greet
<1>11. CASE Handed
  BY <1>11 DEF Handed
<1>12. CASE HandFailed
  BY <1>12 DEF HandFailed
<1>13. CASE TakeLive
  <2>1. CASE Leave
    BY <2>1, LeaveKeepsShape
  <2>2. CASE ~Leave
    BY <1>13, <2>2 DEF TakeLive, Idle
  <2> QED
    BY <2>1, <2>2
<1>14. CASE HeartbeatTick
  BY <1>14 DEF HeartbeatTick, Idle
<1>15. CASE DispatchIncoming
  BY <1>15 DEF DispatchIncoming, Idle
<1>16. CASE StreamEnded
  BY <1>16 DEF StreamEnded, Idle
<1>17. CASE Hangup
  BY <1>17 DEF Hangup, Drop
<1>18. CASE Announce
  BY <1>18 DEF Announce
<1>19. CASE Wake
  <2>1. CASE TakeOffline("connect")
    BY <1>19, <2>1, TakeOfflineKeepsShape DEF Wake
  <2>2. CASE ~TakeOffline("connect")
    BY <1>19, <2>2 DEF Wake
  <2> QED
    BY <2>1, <2>2
<1>20. CASE Exit
  BY <1>20 DEF Exit
<1>21. CASE PumpSend
  BY <1>21 DEF PumpSend
<1>22. CASE LinkLost
  BY <1>22 DEF LinkLost, Drop
<1>23. CASE Relay
  BY <1>23 DEF Relay
<1>24. CASE UNCHANGED vars
  BY <1>24 DEF vars
<1> QED
  BY <1>1, <1>2, <1>3, <1>4, <1>5, <1>6, <1>7, <1>8, <1>9, <1>10, <1>11, <1>12,
     <1>13, <1>14, <1>15, <1>16, <1>17, <1>18, <1>19, <1>20, <1>21, <1>22,
     <1>23, <1>24 DEF Next, Worker

\* Order, step by step.

LEMMA NextInOrder == InLine' => InOrder'
BY InOrderIsLine, PTL

LEMMA LeaveKeepsOrder ==
    ASSUME TypeOK, InLine, Leave
    PROVE  InLine'
<1>1. /\ EnvsIn(outbox') = {} /\ EnvsIn(hand') = {} /\ EnvsIn(pending') = {}
      /\ EnvsIn(cmds') = {}
      /\ Sorted(outbox') /\ Sorted(pending') /\ Sorted(cmds')
  BY EnvsOfEmpty DEF Leave, Drop
<1>2. delivered' = delivered /\ submitted' = submitted
  BY DEF Leave, callers
<1>3. Line({}, {}, {}, {}, delivered, submitted)
  BY LineMoves DEF InLine
<1> QED
  BY <1>1, <1>2, <1>3 DEF InLine

LEMMA TrySendKeepsOrder ==
    ASSUME TypeOK, InLine, NEW f \in Frames, TrySend(f),
           UNCHANGED <<outbox, hand, pending, delivered>>,
           \/ f.kind # "send" /\ submitted' = submitted
           \/ f.arg = submitted + 1 /\ submitted' = submitted + 1
    PROVE  InLine'
<1> DEFINE c == EnvsIn(cmds)
           n == submitted
<1>1. /\ Line(EnvsIn(outbox), EnvsIn(hand), EnvsIn(pending), c, delivered, n)
      /\ Sorted(outbox) /\ Sorted(pending) /\ Sorted(cmds)
  BY DEF InLine
<1>2. cmds \in Seq(Frames) /\ n \in Nat
  BY DEF TypeOK
<1>3. EnvsIn(outbox) \cup EnvsIn(hand) \cup EnvsIn(pending) \cup c
        \cup delivered \subseteq Nat
  <2>1. Envs \subseteq Nat
    BY DEF Envs
  <2>2. /\ EnvsIn(outbox) \subseteq Envs /\ EnvsIn(hand) \subseteq Envs
        /\ EnvsIn(pending) \subseteq Envs /\ c \subseteq Envs
        /\ delivered \subseteq Envs
    BY EnvsTypes DEF TypeOK
  <2> HIDE DEF c
  <2> QED
    BY <2>1, <2>2
<1>4. cmds' = cmds \/ cmds' = Append(cmds, f)
  BY DEF TrySend
<1>5. EnvsIn(Append(cmds, f)) = c \cup (IF f.kind = "send" THEN {f.arg} ELSE {})
  BY <1>2, EnvsOfAppend, EnvsOfOne
<1>6. \A k \in c : k <= n
  BY <1>1 DEF Line
<1>7. f.kind = "send" => submitted' = n + 1 /\ f.arg = n + 1
  OBVIOUS
<1>8. Before(cmds, <<f>>)
  <2>1. EnvsIn(<<f>>) = IF f.kind = "send" THEN {f.arg} ELSE {}
    BY EnvsOfOne
  <2>2. c \subseteq Nat
    BY <1>3
  <2> HIDE DEF n
  <2> QED
    BY <1>2, <1>6, <1>7, <2>1, <2>2 DEF Before
<1>9. Sorted(Append(cmds, f))
  BY <1>1, <1>2, <1>8, SortedAppend
<1> HIDE DEF c, n
<1>10. /\ Line(EnvsIn(outbox), EnvsIn(hand), EnvsIn(pending), c \cup {n + 1},
               delivered, n + 1)
       /\ Line(EnvsIn(outbox), EnvsIn(hand), EnvsIn(pending), c, delivered,
               n + 1)
  BY <1>1, <1>2, <1>3, LineGrows
<1>11. submitted' = n \/ submitted' = n + 1
  BY DEF n
<1>12. \/ EnvsIn(cmds') = c
       \/ EnvsIn(cmds') = c \cup {n + 1} /\ submitted' = n + 1
  <2>1. CASE cmds' = cmds
    BY <2>1 DEF c
  <2>2. CASE cmds' = Append(cmds, f)
    BY <1>5, <1>7, <2>2
  <2> QED
    BY <1>4, <2>1, <2>2
<1>13. Line(EnvsIn(outbox), EnvsIn(hand), EnvsIn(pending), EnvsIn(cmds'),
           delivered, submitted')
  BY <1>1, <1>10, <1>11, <1>12
<1>14. Sorted(cmds')
  BY <1>1, <1>4, <1>9
<1> QED
  BY <1>1, <1>13, <1>14 DEF InLine

LEMMA TakeOfflineKeepsOrder ==
    ASSUME TypeOK, InLine, NEW then, TakeOffline(then)
    PROVE  InLine'
<1> DEFINE c == Head(cmds)
           x == EnvsIn(<<c>>)
           y == EnvsIn(Tail(cmds))
<1>1. CASE Leave
  BY <1>1, LeaveKeepsOrder
<1>2. CASE ~Leave
  <2>1. /\ cmds # <<>> /\ cmds' = Tail(cmds)
        /\ pending' = IF c.kind = "send" THEN Keep(pending, c) ELSE pending
        /\ UNCHANGED <<hand, outbox, delivered, submitted>>
    BY <1>2 DEF TakeOffline, conn, callers
  <2>2. c \in Frames
    BY <2>1, QueueTypes DEF TypeOK
  <2>3. /\ Line(EnvsIn(outbox), EnvsIn(hand), EnvsIn(pending), EnvsIn(cmds),
                delivered, submitted)
        /\ Sorted(outbox) /\ Sorted(pending) /\ Sorted(cmds)
    BY DEF InLine
  <2>4. EnvsIn(cmds) = x \cup y
    BY <2>1, EnvsOfTail DEF TypeOK
  <2>5. Sorted(Tail(cmds)) /\ Ahead(x, y)
    BY <2>1, <2>3, SortedTail DEF TypeOK, Before, Ahead
  <2>6. Before(pending, <<c>>)
    BY <2>3, <2>4 DEF Before, Line, Ahead
  <2>7. /\ EnvsIn(pending') \subseteq EnvsIn(pending) \cup x
        /\ Sorted(pending')
    <3>1. CASE c.kind = "send"
      <4> DEFINE k == Keep(pending, c)
      <4>1. EnvsIn(k) \subseteq EnvsIn(pending) \cup x /\ Sorted(k)
        BY <2>2, <2>3, <2>6, <3>1, KeepFacts DEF TypeOK
      <4>2. pending' = k
        BY <2>1, <3>1
      <4> HIDE DEF k
      <4> QED
        BY <4>1, <4>2
    <3>2. CASE c.kind # "send"
      BY <2>1, <2>3, <3>2
    <3> QED
      BY <3>1, <3>2
  <2> HIDE DEF x, y
  <2>8. Line(EnvsIn(outbox), EnvsIn(hand), EnvsIn(pending'), y, delivered,
             submitted)
    <3>1. x \in SUBSET EnvsIn(cmds) /\ y \in SUBSET EnvsIn(cmds)
      BY <2>4
    <3>2. EnvsIn(pending') \in SUBSET (EnvsIn(pending) \cup x)
      BY <2>7
    <3> QED
      BY <2>3, <2>5, <3>1, <3>2, LineMoves
  <2> QED
    BY <2>1, <2>3, <2>5, <2>7, <2>8 DEF InLine, y
<1> QED
  BY <1>1, <1>2

LEMMA FlushNextKeepsOrder ==
    ASSUME TypeOK, InLine, FlushNext
    PROVE  InLine'
<1> DEFINE x == EnvsIn(<<Head(pending)>>)
           y == EnvsIn(Tail(pending))
<1>1. /\ hand = <<>> /\ pending # <<>>
      /\ hand' = <<Head(pending)>> /\ pending' = Tail(pending)
      /\ UNCHANGED <<cmds, outbox, delivered, submitted>>
  BY DEF FlushNext, conn, callers
<1>2. /\ Line(EnvsIn(outbox), EnvsIn(hand), EnvsIn(pending), EnvsIn(cmds),
              delivered, submitted)
      /\ Sorted(outbox) /\ Sorted(pending) /\ Sorted(cmds)
  BY DEF InLine
<1>3. EnvsIn(pending) = x \cup y
  BY <1>1, EnvsOfTail DEF TypeOK
<1>4. Sorted(Tail(pending)) /\ Ahead(x, y)
  BY <1>1, <1>2, SortedTail DEF TypeOK, Before, Ahead
<1>5. EnvsIn(hand) = {}
  BY <1>1, EnvsOfEmpty
<1> HIDE DEF x, y
<1>6. Line(EnvsIn(outbox), x, y, EnvsIn(cmds), delivered, submitted)
  BY <1>2, <1>3, <1>4, <1>5, LineMoves
<1> QED
  BY <1>1, <1>2, <1>4, <1>6 DEF InLine, x, y

LEMMA HandedKeepsOrder ==
    ASSUME TypeOK, InLine, Handed
    PROVE  InLine'
<1> DEFINE f == Head(hand)
<1>1. /\ hand # <<>> /\ outbox' = Append(outbox, f) /\ hand' = <<>>
      /\ UNCHANGED <<cmds, pending, delivered, submitted>>
  BY DEF Handed, callers
<1>2. /\ Line(EnvsIn(outbox), EnvsIn(hand), EnvsIn(pending), EnvsIn(cmds),
              delivered, submitted)
      /\ Sorted(outbox) /\ Sorted(pending) /\ Sorted(cmds)
  BY DEF InLine
<1>3. f \in Frames /\ hand = <<f>>
  BY <1>1, QueueTypes, Single DEF TypeOK
<1>4. EnvsIn(outbox') = EnvsIn(outbox) \cup EnvsIn(hand)
  BY <1>1, <1>3, EnvsOfAppend DEF TypeOK
<1>5. Before(outbox, <<f>>)
  BY <1>2, <1>3 DEF Before, Line, Ahead
<1>6. Sorted(outbox')
  BY <1>1, <1>2, <1>3, <1>5, SortedAppend DEF TypeOK
<1>7. EnvsIn(hand') = {}
  BY <1>1, EnvsOfEmpty
<1>8. Line(EnvsIn(outbox) \cup EnvsIn(hand), {}, EnvsIn(pending), EnvsIn(cmds),
           delivered, submitted)
  BY <1>2, LineMoves
<1> QED
  BY <1>1, <1>2, <1>4, <1>6, <1>7, <1>8 DEF InLine

LEMMA HandFailedKeepsOrder ==
    ASSUME TypeOK, Shape, InLine, HandFailed
    PROVE  InLine'
<1> DEFINE f == Head(hand)
           k == Keep(pending, f)
<1>1. /\ hand # <<>> /\ hand' = <<>>
      /\ UNCHANGED <<cmds, outbox, delivered, submitted>>
      /\ \/ pending' = pending
         \/ phase = "live" /\ f.kind = "send" /\ pending' = k
  BY DEF HandFailed, conn, callers
<1>2. /\ Line(EnvsIn(outbox), EnvsIn(hand), EnvsIn(pending), EnvsIn(cmds),
              delivered, submitted)
      /\ Sorted(outbox) /\ Sorted(pending) /\ Sorted(cmds)
  BY DEF InLine
<1>3. f \in Frames /\ hand = <<f>>
  BY <1>1, QueueTypes, Single DEF TypeOK
<1>4. EnvsIn(hand') = {}
  BY <1>1, EnvsOfEmpty
<1>5. CASE pending' = pending
  <2>1. Line(EnvsIn(outbox), {}, EnvsIn(pending), EnvsIn(cmds), delivered,
             submitted)
    BY <1>2, LineMoves
  <2> QED
    BY <1>1, <1>2, <1>4, <1>5, <2>1 DEF InLine
<1>6. CASE phase = "live" /\ f.kind = "send" /\ pending' = k
  <2>1. pending = <<>> /\ EnvsIn(pending) = {}
    BY <1>6, EnvsOfEmpty DEF Shape
  <2>2. Before(pending, <<f>>)
    BY <2>1 DEF Before
  <2>3. EnvsIn(k) \subseteq EnvsIn(pending) \cup EnvsIn(<<f>>) /\ Sorted(k)
    BY <1>2, <1>3, <1>6, <2>2, KeepFacts DEF TypeOK
  <2> HIDE DEF k, f
  <2>4. EnvsIn(pending') \subseteq EnvsIn(hand) /\ Sorted(pending')
    BY <1>3, <1>6, <2>1, <2>3
  <2>5. Line(EnvsIn(outbox), {}, EnvsIn(pending'), EnvsIn(cmds), delivered,
             submitted)
    BY <1>2, <2>1, <2>4, LineMoves
  <2> QED
    BY <1>1, <1>2, <1>4, <2>4, <2>5 DEF InLine
<1> QED
  BY <1>1, <1>5, <1>6

\* The live loop has nothing buffered and nothing in hand when it takes.
LEMMA TakeLiveKeepsOrder ==
    ASSUME TypeOK, Shape, InLine, TakeLive
    PROVE  InLine'
<1> DEFINE x == EnvsIn(<<Head(cmds)>>)
           y == EnvsIn(Tail(cmds))
<1>1. CASE Leave
  BY <1>1, LeaveKeepsOrder
<1>2. CASE ~Leave
  <2>1. /\ cmds # <<>> /\ cmds' = Tail(cmds) /\ hand' = <<Head(cmds)>>
        /\ UNCHANGED <<pending, outbox, delivered, submitted>>
    BY <1>2 DEF TakeLive, conn, callers
  <2>2. /\ Line(EnvsIn(outbox), EnvsIn(hand), EnvsIn(pending), EnvsIn(cmds),
                delivered, submitted)
        /\ Sorted(outbox) /\ Sorted(pending) /\ Sorted(cmds)
    BY DEF InLine
  <2>3. EnvsIn(cmds) = x \cup y
    BY <2>1, EnvsOfTail DEF TypeOK
  <2>4. Sorted(Tail(cmds)) /\ Ahead(x, y)
    BY <2>1, <2>2, SortedTail DEF TypeOK, Before, Ahead
  <2>5. EnvsIn(hand) = {} /\ EnvsIn(pending) = {}
    BY EnvsOfEmpty DEF TakeLive, Idle, Shape
  <2> HIDE DEF x, y
  <2>6. Line(EnvsIn(outbox), x, {}, y, delivered, submitted)
    BY <2>2, <2>3, <2>4, <2>5, LineMoves
  <2> QED
    BY <2>1, <2>2, <2>4, <2>5, <2>6 DEF InLine, x, y
<1> QED
  BY <1>1, <1>2

LEMMA PumpSendKeepsOrder ==
    ASSUME TypeOK, InLine, PumpSend
    PROVE  InLine'
<1> DEFINE f == Head(outbox)
           x == EnvsIn(<<f>>)
           y == EnvsIn(Tail(outbox))
<1>1. /\ outbox # <<>> /\ outbox' = Tail(outbox)
      /\ delivered' = IF f.kind = "send" THEN delivered \cup {f.arg}
                      ELSE delivered
      /\ UNCHANGED <<cmds, hand, pending, submitted>>
  BY DEF PumpSend, worker, callers
<1>2. /\ Line(EnvsIn(outbox), EnvsIn(hand), EnvsIn(pending), EnvsIn(cmds),
              delivered, submitted)
      /\ Sorted(outbox) /\ Sorted(pending) /\ Sorted(cmds)
  BY DEF InLine
<1>3. EnvsIn(outbox) = x \cup y
  BY <1>1, EnvsOfTail DEF TypeOK
<1>4. Sorted(Tail(outbox)) /\ Ahead(x, y)
  BY <1>1, <1>2, SortedTail DEF TypeOK, Before, Ahead
<1>5. f \in Frames
  BY <1>1, QueueTypes DEF TypeOK
<1>6. delivered' = delivered \cup x
  BY <1>1, <1>5, EnvsOfOne
<1> HIDE DEF x, y
<1>7. Line(y, EnvsIn(hand), EnvsIn(pending), EnvsIn(cmds), delivered \cup x,
           submitted)
  BY <1>2, <1>3, <1>4, LineMoves
<1> QED
  BY <1>1, <1>2, <1>4, <1>6, <1>7 DEF InLine, y

\* A heartbeat is no envelope, and losing the channel loses some.
LEMMA PlainKeepsOrder ==
    ASSUME TypeOK, InLine,
           outbox' = outbox \/ outbox' = <<>>,
           hand' = hand \/ hand' = <<Heartbeat>>,
           UNCHANGED <<cmds, pending, delivered, submitted>>
    PROVE  InLine'
<1>1. /\ Line(EnvsIn(outbox), EnvsIn(hand), EnvsIn(pending), EnvsIn(cmds),
              delivered, submitted)
      /\ Sorted(outbox) /\ Sorted(pending) /\ Sorted(cmds)
  BY DEF InLine
<1>2. EnvsIn(<<Heartbeat>>) = {}
  BY FrameTypes, EnvsOfOne DEF Heartbeat, Frame
<1>3. EnvsIn(outbox') \subseteq EnvsIn(outbox) /\ EnvsIn(hand') \subseteq EnvsIn(hand)
  BY <1>2, EnvsOfEmpty
<1>4. Line(EnvsIn(outbox'), EnvsIn(hand'), EnvsIn(pending), EnvsIn(cmds),
           delivered, submitted)
  BY <1>1, <1>3, LineMoves
<1>5. Sorted(outbox')
  BY <1>1, EnvsOfEmpty
<1> QED
  BY <1>1, <1>4, <1>5 DEF InLine

\* Apart from submissions and writes to the server, a step may only give
\* envelopes up.
OnlyLoses == /\ Queued' \subseteq Queued
             /\ UNCHANGED <<submitted, delivered>>

LEMMA LeaveLoses == ASSUME Leave PROVE OnlyLoses
BY EnvsOfEmpty DEF Leave, Drop, callers, OnlyLoses, Queued

LEMMA PlainLoses ==
    ASSUME outbox' = outbox \/ outbox' = <<>>,
           hand' = hand \/ hand' = <<>> \/ hand' = <<Heartbeat>>,
           UNCHANGED <<cmds, pending, submitted, delivered>>
    PROVE  OnlyLoses
<1>1. EnvsIn(<<Heartbeat>>) = {} /\ EnvsIn(<<>>) = {}
  BY FrameTypes, EnvsOfOne, EnvsOfEmpty DEF Heartbeat, Frame
<1>2. EnvsIn(outbox') \subseteq EnvsIn(outbox) /\ EnvsIn(hand') \subseteq EnvsIn(hand)
  BY <1>1
<1> QED
  BY <1>2 DEF OnlyLoses, Queued

LEMMA TakeOfflineLoses ==
    ASSUME TypeOK, NEW then, TakeOffline(then)
    PROVE  OnlyLoses
<1> DEFINE c == Head(cmds)
           k == Keep(pending, c)
<1>1. CASE Leave
  BY <1>1, LeaveLoses
<1>2. CASE ~Leave
  <2>1. /\ cmds # <<>> /\ cmds' = Tail(cmds)
        /\ \/ pending' = pending
           \/ c.kind = "send" /\ pending' = k
        /\ UNCHANGED <<hand, outbox, delivered, submitted>>
    BY <1>2 DEF TakeOffline, conn, callers
  <2>2. c \in Frames
    BY <2>1, QueueTypes DEF TypeOK
  <2>3. EnvsIn(cmds) = EnvsIn(<<c>>) \cup EnvsIn(cmds')
    BY <2>1, EnvsOfTail DEF TypeOK
  <2>4. c.kind = "send" => EnvsIn(k) \subseteq EnvsIn(pending) \cup EnvsIn(<<c>>)
    BY <2>2, KeepFacts DEF TypeOK
  <2> HIDE DEF k, c
  <2>5. EnvsIn(pending') \subseteq EnvsIn(pending) \cup EnvsIn(<<c>>)
    BY <2>1, <2>4
  <2> QED
    BY <2>1, <2>3, <2>5 DEF OnlyLoses, Queued
<1> QED
  BY <1>1, <1>2

LEMMA FlushNextLoses == ASSUME TypeOK, FlushNext PROVE OnlyLoses
<1>1. /\ hand = <<>> /\ pending # <<>>
      /\ hand' = <<Head(pending)>> /\ pending' = Tail(pending)
      /\ UNCHANGED <<cmds, outbox, delivered, submitted>>
  BY DEF FlushNext, conn, callers
<1>2. EnvsIn(pending) = EnvsIn(hand') \cup EnvsIn(pending')
  BY <1>1, EnvsOfTail DEF TypeOK
<1> QED
  BY <1>1, <1>2 DEF OnlyLoses, Queued

LEMMA HandedLoses == ASSUME TypeOK, Handed PROVE OnlyLoses
<1> DEFINE f == Head(hand)
<1>1. /\ hand # <<>> /\ outbox' = Append(outbox, f) /\ hand' = <<>>
      /\ UNCHANGED <<cmds, pending, delivered, submitted>>
  BY DEF Handed, callers
<1>2. f \in Frames /\ hand = <<f>>
  BY <1>1, QueueTypes, Single DEF TypeOK
<1>3. EnvsIn(outbox') = EnvsIn(outbox) \cup EnvsIn(hand)
  BY <1>1, <1>2, EnvsOfAppend DEF TypeOK
<1>4. EnvsIn(hand') = {}
  BY <1>1, EnvsOfEmpty
<1> QED
  BY <1>1, <1>3, <1>4 DEF OnlyLoses, Queued

LEMMA HandFailedLoses == ASSUME TypeOK, HandFailed PROVE OnlyLoses
<1> DEFINE f == Head(hand)
           k == Keep(pending, f)
<1>1. /\ hand # <<>> /\ hand' = <<>>
      /\ UNCHANGED <<cmds, outbox, delivered, submitted>>
      /\ \/ pending' = pending
         \/ f.kind = "send" /\ pending' = k
  BY DEF HandFailed, conn, callers
<1>2. f \in Frames /\ hand = <<f>>
  BY <1>1, QueueTypes, Single DEF TypeOK
<1>3. f.kind = "send" => EnvsIn(k) \subseteq EnvsIn(pending) \cup EnvsIn(<<f>>)
  BY <1>2, KeepFacts DEF TypeOK
<1> HIDE DEF f, k
<1>4. EnvsIn(pending') \subseteq EnvsIn(pending) \cup EnvsIn(hand)
  BY <1>1, <1>2, <1>3
<1>5. EnvsIn(hand') = {}
  BY <1>1, EnvsOfEmpty
<1> QED
  BY <1>1, <1>4, <1>5 DEF OnlyLoses, Queued

LEMMA TakeLiveLoses == ASSUME TypeOK, TakeLive PROVE OnlyLoses
<1>1. CASE Leave
  BY <1>1, LeaveLoses
<1>2. CASE ~Leave
  <2>1. /\ cmds # <<>> /\ cmds' = Tail(cmds) /\ hand' = <<Head(cmds)>>
        /\ UNCHANGED <<pending, outbox, delivered, submitted>>
    BY <1>2 DEF TakeLive, conn, callers
  <2>2. EnvsIn(cmds) = EnvsIn(hand') \cup EnvsIn(cmds')
    BY <2>1, EnvsOfTail DEF TypeOK
  <2> QED
    BY <2>1, <2>2 DEF OnlyLoses, Queued
<1> QED
  BY <1>1, <1>2

\* The three kinds of step, with what they do to the order.
LEMMA StepKinds ==
    ASSUME TypeOK, Shape, InLine, [Next]_vars
    PROVE  InLine' /\ (SendEnvelope \/ PumpSend \/ OnlyLoses)
<1> DEFINE Plain == /\ outbox' = outbox \/ outbox' = <<>>
                    /\ hand' = hand \/ hand' = <<Heartbeat>>
                    /\ UNCHANGED <<cmds, pending, delivered, submitted>>
<1>1. CASE SendEnvelope
  <2>1. /\ submitted' = submitted + 1 /\ submitted' \in Envs
        /\ TrySend(Frame("send", submitted'))
        /\ UNCHANGED <<outbox, hand, pending, delivered>>
    <3>1. submitted' \in Envs
      BY <1>1, OutgoingAssumption DEF SendEnvelope, TypeOK, Envs
    <3> QED
      BY <1>1, <3>1 DEF SendEnvelope, worker, conn
  <2>2. /\ Frame("send", submitted') \in Frames
        /\ Frame("send", submitted').arg = submitted + 1
    BY <2>1, FrameTypes DEF Frame
  <2> QED
    BY <1>1, <2>1, <2>2, TrySendKeepsOrder
<1>2. CASE ListChanged
  <2> DEFINE f == Frame("subscribe", list')
  <2>1. /\ TrySend(f) /\ list' \in Lists
        /\ UNCHANGED <<outbox, hand, pending, delivered, submitted>>
    <3>1. list' \in Lists
      BY <1>2, OutgoingAssumption DEF ListChanged, TypeOK, Lists
    <3> QED
      BY <1>2, <3>1 DEF ListChanged, worker, conn
  <2>2. f \in Frames /\ f.kind # "send"
    BY <2>1, FrameTypes DEF Frame
  <2> HIDE DEF f
  <2>3. EnvsIn(<<f>>) = {}
    BY <2>2, EnvsOfOne
  <2>4. EnvsIn(Append(cmds, f)) = EnvsIn(cmds)
    <3>1. cmds \in Seq(Frames)
      BY DEF TypeOK
    <3>2. EnvsIn(Append(cmds, f)) = EnvsIn(cmds) \cup EnvsIn(<<f>>)
      BY <2>2, <3>1, EnvsOfAppend
    <3> QED
      BY <2>3, <3>2
  <2>5. EnvsIn(cmds') = EnvsIn(cmds)
    BY <2>1, <2>4 DEF TrySend
  <2>6. OnlyLoses
    BY <2>1, <2>5 DEF OnlyLoses, Queued
  <2> QED
    BY <2>1, <2>2, <2>6, TrySendKeepsOrder
<1>3. CASE Logout
  <2> DEFINE f == Frame("shutdown", 0)
  <2>1. /\ TrySend(f)
        /\ UNCHANGED <<outbox, hand, pending, delivered, submitted>>
    BY <1>3 DEF Logout, worker, conn
  <2>2. f \in Frames /\ f.kind # "send"
    BY FrameTypes DEF Frame
  <2> HIDE DEF f
  <2>3. EnvsIn(<<f>>) = {}
    BY <2>2, EnvsOfOne
  <2>4. EnvsIn(Append(cmds, f)) = EnvsIn(cmds)
    <3>1. cmds \in Seq(Frames)
      BY DEF TypeOK
    <3>2. EnvsIn(Append(cmds, f)) = EnvsIn(cmds) \cup EnvsIn(<<f>>)
      BY <2>2, <3>1, EnvsOfAppend
    <3> QED
      BY <2>3, <3>2
  <2>5. EnvsIn(cmds') = EnvsIn(cmds)
    BY <2>1, <2>4 DEF TrySend
  <2>6. OnlyLoses
    BY <2>1, <2>5 DEF OnlyLoses, Queued
  <2> QED
    BY <2>1, <2>2, <2>6, TrySendKeepsOrder
<1>4. CASE TakeOffline("opening") \/ TakeOffline("connect")
  BY <1>4, TakeOfflineKeepsOrder, TakeOfflineLoses
<1>5. CASE FlushNext
  BY <1>5, FlushNextKeepsOrder, FlushNextLoses
<1>6. CASE Handed
  BY <1>6, HandedKeepsOrder, HandedLoses
<1>7. CASE HandFailed
  BY <1>7, HandFailedKeepsOrder, HandFailedLoses
<1>8. CASE TakeLive
  BY <1>8, TakeLiveKeepsOrder, TakeLiveLoses
<1>9. CASE PumpSend
  BY <1>9, PumpSendKeepsOrder
<1>10. CASE Plain
  BY <1>10, PlainKeepsOrder, PlainLoses
<1>11. CASE \/ Connect /\ ~TakeOffline("opening")
            \/ Wake /\ ~TakeOffline("connect")
  BY <1>10, <1>11 DEF Connect, Wake, conn, callers
<1>12. CASE Opened \/ OpenFailed \/ Refused \/ Flushed
  BY <1>10, <1>12 DEF Opened, OpenFailed, Refused, Flushed, conn, callers
<1>13. CASE Greet \/ HeartbeatTick
  BY <1>10, <1>13 DEF Greet, HeartbeatTick, conn, callers
<1>14. CASE DispatchIncoming \/ StreamEnded \/ Announce \/ Exit
  BY <1>10, <1>14 DEF DispatchIncoming, StreamEnded, Announce, Exit, worker,
     conn, callers
<1>15. CASE Hangup \/ LinkLost \/ Relay
  BY <1>10, <1>15 DEF Hangup, LinkLost, Relay, Drop, worker, conn, callers
<1>16. CASE UNCHANGED vars
  BY <1>10, <1>16 DEF vars
<1> QED
  BY <1>1, <1>2, <1>3, <1>4, <1>5, <1>6, <1>7, <1>8, <1>9, <1>11, <1>12,
     <1>13, <1>14, <1>15, <1>16 DEF Next, Worker

LEMMA InitInv == Init => Shape /\ InLine
<1> SUFFICES ASSUME Init PROVE Shape /\ InLine
  OBVIOUS
<1>1. /\ EnvsIn(outbox) = {} /\ EnvsIn(hand) = {} /\ EnvsIn(pending) = {}
      /\ EnvsIn(cmds) = {} /\ Sorted(outbox) /\ Sorted(pending) /\ Sorted(cmds)
  BY EnvsOfEmpty DEF Init
<1>2. delivered = {}
  BY DEF Init
<1>3. InLine
  BY <1>1, <1>2 DEF InLine, Line, Ahead
<1>4. Shape
  BY DEF Init, Shape
<1> QED
  BY <1>3, <1>4

LEMMA OutgoingInv == Spec => [](TypeOK /\ Shape /\ InLine)
<1>1. TypeOK /\ (Shape /\ InLine) /\ [Next]_vars => Shape' /\ InLine'
  BY ShapeStep, StepKinds
<1> QED
  BY <1>1, InitInv, OutgoingTypeCorrect, PTL DEF Spec

\* The envelopes the client holds stay in the order of submission, behind
\* all that reached the server: push_pending, the flush and the hand-over to
\* a new connection never reorder or repeat one, for any capacities.
THEOREM OutgoingInOrder == Spec => []InOrder
BY OutgoingInv, InOrderIsLine, PTL

\* The live loop of run_worker runs with an empty buffer, even when the flush
\* before it failed half-way.
THEOREM OutgoingLiveMeansFlushed == Spec => []LiveMeansFlushed
<1>1. Shape => LiveMeansFlushed
  BY DEF Shape, LiveMeansFlushed
<1> QED
  BY <1>1, OutgoingInv, PTL

-----------------------------------------------------------------------------
(* The worker implements Outbox *)

LEMMA SubmitMaps ==
    ASSUME TypeOK, SendEnvelope
    PROVE  Ideal!Submit
<1> DEFINE f == Frame("send", submitted')
<1>1. /\ submitted < MaxEnvs /\ submitted' = submitted + 1
      /\ submitted' \in Envs /\ TrySend(f)
      /\ UNCHANGED <<outbox, hand, pending, delivered>>
  <2>1. submitted' \in Envs
    BY OutgoingAssumption DEF SendEnvelope, TypeOK, Envs
  <2> QED
    BY <2>1 DEF SendEnvelope, worker, conn
<1>2. f \in Frames /\ f.kind = "send" /\ f.arg = submitted'
  BY <1>1, FrameTypes DEF Frame
<1> HIDE DEF f
<1>3. EnvsIn(<<f>>) = {submitted'}
  BY <1>2, EnvsOfOne
<1>6. EnvsIn(Append(cmds, f)) = EnvsIn(cmds) \cup {submitted'}
  BY <1>2, <1>3, EnvsOfAppend DEF TypeOK
<1>4. EnvsIn(cmds') \in {EnvsIn(cmds), EnvsIn(cmds) \cup {submitted'}}
  BY <1>1, <1>6 DEF TrySend
<1>5. Queued' \in {Queued, Queued \cup {submitted'}}
  BY <1>1, <1>4 DEF Queued
<1> QED
  BY <1>1, <1>5 DEF Ideal!Submit

LEMMA DeliverMaps ==
    ASSUME TypeOK, InLine, PumpSend
    PROVE  Ideal!Lose \/ \E k \in 1..MaxEnvs : Ideal!Deliver(k)
<1> DEFINE f == Head(outbox)
           x == EnvsIn(<<f>>)
           y == EnvsIn(Tail(outbox))
           h == EnvsIn(hand)
           p == EnvsIn(pending)
           c == EnvsIn(cmds)
<1>1. /\ outbox # <<>> /\ outbox' = Tail(outbox)
      /\ delivered' = IF f.kind = "send" THEN delivered \cup {f.arg}
                      ELSE delivered
      /\ UNCHANGED <<cmds, hand, pending, submitted>>
  BY DEF PumpSend, worker, callers
<1>2. /\ Line(EnvsIn(outbox), h, p, c, delivered, submitted)
      /\ Sorted(outbox)
  BY DEF InLine
<1>3. EnvsIn(outbox) = x \cup y
  BY <1>1, EnvsOfTail DEF TypeOK
<1>4. Ahead(x, y)
  BY <1>1, <1>2, SortedTail DEF TypeOK, Before, Ahead
<1>5. f \in Frames
  BY <1>1, QueueTypes DEF TypeOK
<1>6. x = IF f.kind = "send" THEN {f.arg} ELSE {}
  BY <1>5, EnvsOfOne
<1>7. Queued = x \cup y \cup h \cup p \cup c /\ Queued' = y \cup h \cup p \cup c
  BY <1>1, <1>3 DEF Queued
<1>8. Queued \subseteq Envs
  BY EnvsTypes DEF Queued, TypeOK
<1>9. CASE f.kind # "send"
  BY <1>1, <1>6, <1>7, <1>9 DEF Ideal!Lose
<1>10. CASE f.kind = "send"
  <2> DEFINE k == f.arg
  <2>1. k \in Envs /\ x = {k} /\ delivered' = delivered \cup {k}
    BY <1>1, <1>5, <1>6, <1>10, FrameTypes
  <2> HIDE DEF k, x, y, h, p, c, f
  <2>2. \A j \in y \cup h \cup p \cup c : k < j
    BY <1>2, <1>3, <1>4, <2>1 DEF Line, Ahead
  <2>3. \A j \in delivered : j < k
    BY <1>2, <1>3, <2>1 DEF Line, Ahead
  <2>4. \A j \in Queued : k <= j
    BY <1>7, <1>8, <2>1, <2>2 DEF Envs
  <2>5. ~(k < k)
    BY <2>1 DEF Envs
  <2>6. k \in Queued /\ Queued' = Queued \ {k}
    BY <1>7, <2>1, <2>2, <2>5
  <2>7. submitted' = submitted
    BY <1>1
  <2>8. Ideal!Deliver(k)
    BY <2>1, <2>3, <2>4, <2>6, <2>7 DEF Ideal!Deliver
  <2> QED
    BY <2>1, <2>8 DEF Envs
<1> QED
  BY <1>9, <1>10

\* Seen from outside, run_worker, its buffer and the pump are an outbox that
\* writes envelopes in the order of submission, each at most once, and may
\* lose some.
THEOREM OutgoingImplementsOutbox == Spec => ImplementsOutbox
<1>1. Init => Ideal!Init
  BY EnvsOfEmpty DEF Init, Ideal!Init, Queued
<1>2. TypeOK /\ (Shape /\ InLine) /\ [Next]_vars => [Ideal!Next]_Ideal!vars
  <2> SUFFICES ASSUME TypeOK, Shape, InLine, [Next]_vars
               PROVE  [Ideal!Next]_Ideal!vars
    OBVIOUS
  <2>1. CASE SendEnvelope
    BY <2>1, SubmitMaps DEF Ideal!Next
  <2>2. CASE PumpSend
    BY <2>2, DeliverMaps DEF Ideal!Next
  <2>3. CASE OnlyLoses
    BY <2>3 DEF OnlyLoses, Ideal!Next, Ideal!Lose
  <2> QED
    BY <2>1, <2>2, <2>3, StepKinds
<1> QED
  BY <1>1, <1>2, OutgoingInv, PTL DEF Spec, Ideal!Spec, ImplementsOutbox
=============================================================================
