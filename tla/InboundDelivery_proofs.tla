------------------------ MODULE InboundDelivery_proofs ------------------------
(***************************************************************************)
(* Proofs about InboundDelivery: its types, and that the durable cursor    *)
(* never passes an entry the pipeline has not decided about.               *)
(***************************************************************************)
EXTENDS InboundDelivery, SequenceTheorems, TLAPS

Row == [id : Pos, text : Texts]

-----------------------------------------------------------------------------
(* Types *)

\* Taking from and adding to a queue of positions, and taking from todo.
LEMMA QueueTypes ==
    /\ \A s \in Seq(Pos) :
          s # <<>> => /\ Head(s) \in Pos /\ Tail(s) \in Seq(Pos)
                      /\ Len(Tail(s)) = Len(s) - 1
    /\ \A s \in Seq(Pos), k \in Pos :
          Append(s, k) \in Seq(Pos) /\ Len(Append(s, k)) = Len(s) + 1
    /\ \A s \in Seq(Pos) : Len(s) \in Nat
    /\ <<>> \in Seq(Pos) /\ Len(<<>>) = 0
<1>1. \A s \in Seq(Pos) :
          s # <<>> => /\ Head(s) \in Pos /\ Tail(s) \in Seq(Pos)
                      /\ Len(Tail(s)) = Len(s) - 1
  BY HeadTailProperties
<1> QED
  BY <1>1

LEMMA RowTypes ==
    /\ \A s \in Seq(Row) : s # <<>> => Head(s) \in Row /\ Tail(s) \in Seq(Row)
    /\ \A r \in Row : <<r>> \in Seq(Row)
    /\ \A r \in Row : r.id \in Pos /\ r.text \in Texts
    /\ <<>> \in Seq(Row)
<1>1. \A s \in Seq(Row) : s # <<>> => Head(s) \in Row /\ Tail(s) \in Seq(Row)
  BY HeadTailProperties
<1>2. \A r \in Row : r.id \in Pos /\ r.text \in Texts
  BY DEF Row
<1> QED
  BY <1>1, <1>2

LEMMA PosTypes == /\ \A k \in Pos : k \in 0..MaxLog /\ k \in Nat
                  /\ \A k \in 0..MaxLog : k + 1 \in 1..(MaxLog + 1)
                  /\ 0 \in 0..MaxLog /\ 1 \in 1..(MaxLog + 1)
BY InboundAssumption DEF Pos

\* What construct_core releases to the orchestrator is a sequence of rows, and
\* each of them was waiting.
LEMMA ReleasedRows ==
    ASSUME TypeOK, NEW c \in Contacts, waiting[c] # <<>>,
           NEW surfaced \in BOOLEAN, NEW t \in Texts
    PROVE  /\ Released(c, surfaced, t) \in Seq(Row)
           /\ \A i \in 1..Len(Released(c, surfaced, t)) :
                 \E j \in 1..Len(waiting[c]) :
                    Released(c, surfaced, t)[i].id = waiting[c][j]
<1> DEFINE w == waiting[c]
           kept == IF surfaced THEN w ELSE Tail(w)
           rows == [i \in 1..Len(kept) |-> [id |-> kept[i], text |-> t]]
<1>1. w \in Seq(Pos) /\ w # <<>>
  BY DEF TypeOK
<1>2. /\ Tail(w) \in Seq(Pos) /\ Len(w) \in Nat \ {0}
      /\ Len(Tail(w)) = Len(w) - 1
      /\ \A i \in 1..Len(Tail(w)) : Tail(w)[i] = w[i + 1]
  BY <1>1, HeadTailProperties, EmptySeq
<1>3. /\ kept \in Seq(Pos) /\ Len(kept) \in Nat
      /\ \A i \in 1..Len(kept) : \E j \in 1..Len(w) : kept[i] = w[j]
  BY <1>1, <1>2
<1>4. Released(c, surfaced, t) = rows
  BY DEF Released
<1> HIDE DEF w, kept
<1>5. \A i \in 1..Len(kept) : rows[i] \in Row /\ rows[i].id = kept[i]
  BY <1>3, ElementOfSeq DEF Row
<1>6. rows \in [1..Len(kept) -> Row]
  BY <1>5
<1> HIDE DEF rows
<1>7. rows \in Seq(Row) /\ Len(rows) = Len(kept)
  <2>1. rows \in Seq(Row)
    BY <1>3, <1>6, SeqDef
  <2> QED
    BY <2>1, <1>3, <1>6, LenProperties
<1>8. \A i \in 1..Len(rows) : \E j \in 1..Len(w) : rows[i].id = w[j]
  BY <1>3, <1>5, <1>7
<1> QED
  BY <1>4, <1>7, <1>8 DEF w

\* Every variable keeps its type, for every number of entries, contacts and
\* disturbances; in particular every id in a queue is one the server assigned
\* a position to, and the event channel never exceeds its capacity.
THEOREM TypeCorrect == Spec => []TypeOK
<1> USE InboundAssumption, QueueTypes, RowTypes, PosTypes
<1>1. Init => TypeOK
  <2> SUFFICES ASSUME Init PROVE TypeOK
    OBVIOUS
  <2>1. /\ waiting \in [Contacts -> Seq(Pos)]
        /\ established \in [Contacts -> Nat]
        /\ messages \in [Pos -> Texts \cup {NoText}]
    BY DEF Init, NoQueues, NoSessions
  <2>2. log \in Seq(EntryShapes) /\ Len(log) <= MaxLog
    BY DEF Init
  <2>3. link \in BOOLEAN
    BY DEF Init
  <2>4. /\ frames \in Seq(Pos) /\ events \in Seq(Pos) /\ cmds \in Seq(Pos)
        /\ Len(events) <= EventCap /\ todo \in Seq(Row)
    BY DEF Init
  <2>5. /\ phase \in {"down", "connect", "opening", "live", "backoff"}
        /\ since \in 0..MaxLog /\ next \in 1..(MaxLog + 1)
        /\ committed \in 0..MaxLog /\ cursor \in 0..MaxLog
        /\ resub \in SUBSET (0..MaxLog) /\ noted \in SUBSET Pos
        /\ step \in {"store", "commit"} /\ upsets \in 0..MaxUpsets
        /\ seen \in SUBSET Pos
    BY DEF Init
  <2> QED
    BY <2>1, <2>2, <2>3, <2>4, <2>5 DEF TypeOK, Row
<1>2. ASSUME TypeOK, [Next]_vars
      PROVE  TypeOK'
  <2> USE <1>2 DEF Row, TypeOK, stream, queues, tracker, core, actor,
                   disk
  <2>1. CASE Publish
    BY <2>1 DEF Publish
  <2>2. CASE Transmit
    <3>1. next \in Pos /\ next + 1 \in 1..(MaxLog + 1)
      BY <2>2 DEF Transmit, Pos
    <3> QED
      BY <2>2, <3>1 DEF Transmit
  <2>3. CASE LinkLost
    <3>1. link' \in BOOLEAN
      BY <2>3 DEF LinkLost
    <3>2. upsets' \in 0..MaxUpsets
      BY <2>3 DEF LinkLost, Upset
    <3>3. next' = 1
      BY <2>3 DEF LinkLost
    <3>4. UNCHANGED <<log, phase, since, frames, events, cmds, resub, noted,
                      committed, waiting, established, todo, step, messages,
                      cursor, seen>>
      BY <2>3 DEF LinkLost
    <3> QED
      BY <3>1, <3>2, <3>3, <3>4
  <2>4. CASE WorkerConnect
    BY <2>4 DEF WorkerConnect
  <2>5. CASE WorkerOpened
    BY <2>5 DEF WorkerOpened
  <2>6. CASE WorkerOpenFailed
    BY <2>6 DEF WorkerOpenFailed, Upset
  <2>7. CASE WorkerRetry
    BY <2>7 DEF WorkerRetry
  <2>8. CASE WorkerDispatch
    <3>1. /\ frames' = Tail(frames) /\ Head(frames) \in Pos
          /\ frames' \in Seq(Pos)
      BY <2>8 DEF WorkerDispatch
    <3>2. UNCHANGED <<log, phase, link, since, next, cmds, resub, noted,
                      committed, waiting, established, todo, step, messages,
                      cursor, upsets>>
      BY <2>8 DEF WorkerDispatch
    <3>3. events' \in Seq(Pos) /\ Len(events') <= EventCap
      <4>1. CASE events' = events
        BY <4>1
      <4>2. CASE Len(events) < EventCap /\ events' = Append(events, Head(frames))
        <5>1. /\ Append(events, Head(frames)) \in Seq(Pos)
              /\ Len(Append(events, Head(frames))) = Len(events) + 1
              /\ Len(events) \in Nat
          BY <3>1
        <5> QED
          BY <4>2, <5>1
      <4> QED
        BY <2>8, <4>1, <4>2 DEF WorkerDispatch
    <3>4. seen' \in SUBSET Pos
      BY <2>8, <3>1 DEF WorkerDispatch
    <3> QED
      BY <3>1, <3>2, <3>3, <3>4
  <2>9. CASE WorkerLeavesLive
    BY <2>9 DEF WorkerLeavesLive
  <2>10. CASE WorkerSubscribe
    <3>1. UNCHANGED <<log, link, since, events, cmds, noted, committed,
                      waiting, established, todo, step, messages, cursor,
                      upsets, seen>>
      BY <2>10 DEF WorkerSubscribe
    <3>2. resub' = {}
      BY <2>10 DEF WorkerSubscribe
    <3>3. /\ phase' \in {phase, "backoff", "connect"}
          /\ frames' \in {frames, <<>>}
      BY <2>10 DEF WorkerSubscribe
    <3>4. next' \in 1..(MaxLog + 1)
      BY <2>10 DEF WorkerSubscribe
    <3> QED
      BY <3>1, <3>2, <3>3, <3>4
  <2>11. CASE Resubscribe
    BY <2>11 DEF Resubscribe, Upset
  <2>12. CASE RelayMessage
    <3>1. /\ events # <<>> /\ events' = Tail(events)
          /\ cmds' = Append(cmds, Head(events))
          /\ UNCHANGED <<log, phase, since, link, next, frames, resub, noted,
                         committed, waiting, established, todo, step, messages,
                         cursor, upsets, seen>>
      BY <2>12 DEF RelayMessage, Relayed
    <3>2. /\ Head(events) \in Pos /\ events' \in Seq(Pos)
          /\ Len(events') = Len(events) - 1 /\ Len(events) \in Nat
      BY <3>1
    <3>3. cmds' \in Seq(Pos) /\ Len(events') <= EventCap
      BY <3>1, <3>2
    <3> QED
      BY <3>1, <3>2, <3>3
  <2>13. CASE RelayDrop
    BY <2>13 DEF RelayDrop, Relayed
  <2>14. CASE RelayAck
    BY <2>14 DEF RelayAck, Relayed, Note
  <2>15. CASE OrchDropStale
    <3>1. /\ cmds # <<>> /\ cmds' = Tail(cmds) /\ seen' = seen \cup {Head(cmds)}
          /\ step' \in {step, "store", "share"} /\ cursor' \in {cursor, Head(cmds)}
          /\ upsets' = upsets \/ (upsets < MaxUpsets /\ upsets' = upsets + 1)
          /\ UNCHANGED <<log, phase, since, link, next, frames, events, resub,
                         noted, committed, waiting, established, todo, messages>>
      BY <2>15 DEF OrchDropStale, TakeCommand, AdvanceCursor, Upset
    <3>2. Head(cmds) \in Pos /\ cmds' \in Seq(Pos)
      BY <3>1
    <3>3. seen' \in SUBSET Pos /\ cursor' \in 0..MaxLog /\ upsets' \in 0..MaxUpsets
      BY <3>1, <3>2
    <3> QED
      BY <3>1, <3>2, <3>3
  <2>16. CASE OrchDecrypt
    BY <2>16 DEF OrchDecrypt, TakeCommand, Idle, Note
  <2>17. CASE OrchQueue
    BY <2>17 DEF OrchQueue, TakeCommand, Idle, Note
  <2>18. CASE OrchIgnore
    BY <2>18 DEF OrchIgnore, TakeCommand, Idle, Note
  <2>19. CASE OrchStore
    BY <2>19 DEF OrchStore, Insert
  <2>20. CASE OrchStoreFails
    BY <2>20 DEF OrchStoreFails, Upset
  <2>21. CASE OrchCommit
    BY <2>21 DEF OrchCommit, AdvanceCursor
  <2>22. CASE OrchCommitFails
    BY <2>22 DEF OrchCommitFails, Upset
  <2>23. ASSUME NEW c \in Contacts, OrchInitResponder(c)
         PROVE  TypeOK'
    <3> PICK surfaced \in BOOLEAN, t \in Texts :
               todo' = Released(c, surfaced, t)
      BY <2>23 DEF OrchInitResponder
    <3>0. waiting[c] # <<>>
      BY <2>23 DEF OrchInitResponder
    <3>1. todo' \in Seq(Row)
      BY <1>2, <3>0, ReleasedRows, Zenon
    <3>2. waiting' \in [Contacts -> Seq(Pos)]
      BY <2>23 DEF OrchInitResponder
    <3>3. established' \in [Contacts -> Nat]
      BY <2>23 DEF OrchInitResponder
    <3>4. UNCHANGED <<log, phase, since, link, next, frames, events, cmds,
                      resub, noted, committed, step, messages, cursor,
                      upsets, seen>>
      BY <2>23 DEF OrchInitResponder
    <3> QED
      BY <3>1, <3>2, <3>3, <3>4
  <2>24. ASSUME NEW c \in Contacts, OrchInitInitiator(c)
         PROVE  TypeOK'
    BY <2>24 DEF OrchInitInitiator
  <2>25. ASSUME NEW c \in Contacts, OrchHealResponder(c)
         PROVE  TypeOK'
    <3> PICK surfaced \in BOOLEAN, t \in Texts :
               todo' = Released(c, surfaced, t)
      BY <2>25 DEF OrchHealResponder
    <3>0. waiting[c] # <<>>
      BY <2>25 DEF OrchHealResponder
    <3>1. todo' \in Seq(Row)
      BY <1>2, <3>0, ReleasedRows, Zenon
    <3>2. waiting' \in [Contacts -> Seq(Pos)]
      BY <2>25 DEF OrchHealResponder
    <3>3. established' \in [Contacts -> Nat]
      BY <2>25 DEF OrchHealResponder
    <3>4. UNCHANGED <<log, phase, since, link, next, frames, events, cmds,
                      resub, noted, committed, step, messages, cursor,
                      upsets, seen>>
      BY <2>25 DEF OrchHealResponder
    <3> QED
      BY <3>1, <3>2, <3>3, <3>4
  <2>26. ASSUME NEW c \in Contacts, OrchSessionEnds(c)
         PROVE  TypeOK'
    BY <2>26 DEF OrchSessionEnds
  <2>27. CASE Crash
    <3>1. upsets' \in 0..MaxUpsets
      BY <2>27 DEF Crash, Upset
    <3>2. /\ waiting' \in [Contacts -> Seq(Pos)]
          /\ established' \in [Contacts -> Nat]
      BY <2>27 DEF Crash, NoQueues, NoSessions
    <3>3. link' \in BOOLEAN
      BY <2>27 DEF Crash
    <3>4. /\ phase' = "down" /\ since' = 0 /\ next' = 1 /\ committed' = 0
          /\ frames' = <<>> /\ events' = <<>> /\ cmds' = <<>>
          /\ resub' = {} /\ noted' = {} /\ todo' = <<>> /\ step' = "store"
          /\ UNCHANGED <<log, messages, cursor, seen>>
      BY <2>27 DEF Crash
    <3> QED
      BY <3>1, <3>2, <3>3, <3>4
  <2>28. CASE Restart
    BY <2>28 DEF Restart
  <2>29. CASE UNCHANGED vars
    BY <2>29 DEF vars
  <2>30. CASE OrchShare
    BY <2>30 DEF OrchShare
  <2> QED
    BY <2>1, <2>2, <2>3, <2>4, <2>5, <2>6, <2>7, <2>8, <2>9, <2>10, <2>11,
       <2>12, <2>13, <2>14, <2>15, <2>16, <2>17, <2>18, <2>19, <2>20, <2>21,
       <2>22, <2>23, <2>24, <2>25, <2>26, <2>27, <2>28, <2>29, <2>30
       DEF Next, Worker, Relay, Command, Persist, Session
<1> QED
  BY <1>1, <1>2, PTL DEF Spec

-----------------------------------------------------------------------------
(* Queues without gaps *)

\* A queue stays contiguous when more entries are decided about.
LEMMA ContiguousMono ==
    ASSUME NEW q \in Seq(Pos), NEW S, NEW T, S \subseteq T, Contiguous(q, S)
    PROVE  Contiguous(q, T)
BY DEF Contiguous

LEMMA ContiguousEmpty ==
    ASSUME NEW S
    PROVE  Contiguous(<<>>, S) /\ Range(<<>>) = {}
BY DEF Contiguous, Range

\* Everything before the head of a contiguous queue is behind it, and what is
\* left is contiguous once the head is behind it too.
LEMMA ContiguousTail ==
    ASSUME NEW q \in Seq(Pos), q # <<>>, NEW S, Contiguous(q, S)
    PROVE  /\ \A k \in 1..(Head(q) - 1) : k \in S
           /\ Contiguous(Tail(q), S \cup {Head(q)})
           /\ Range(q) = Range(Tail(q)) \cup {Head(q)}
<1>1. /\ Head(q) = q[1] /\ Len(q) \in Nat \ {0}
      /\ Tail(q) \in Seq(Pos) /\ Len(Tail(q)) = Len(q) - 1
      /\ \A i \in 1..Len(Tail(q)) : Tail(q)[i] = q[i + 1]
      /\ DOMAIN q = 1..Len(q) /\ DOMAIN Tail(q) = 1..Len(Tail(q))
  BY HeadTailProperties, EmptySeq, LenProperties
<1>2. \A k \in 1..(Head(q) - 1) : k \in S
  BY <1>1 DEF Contiguous
<1>3. Contiguous(Tail(q), S \cup {Head(q)})
  <2>1. SUFFICES ASSUME NEW i \in 1..Len(Tail(q)),
                        NEW k \in 1..(Tail(q)[i] - 1),
                        k \notin S \cup {Head(q)}
                 PROVE  \E j \in 1..(i - 1) : Tail(q)[j] = k
    BY DEF Contiguous
  <2>2. i + 1 \in 1..Len(q) /\ k \in 1..(q[i + 1] - 1)
    BY <1>1
  <2>3. PICK j \in 1..((i + 1) - 1) : q[j] = k
    BY <2>1, <2>2 DEF Contiguous
  <2>4. j # 1
    BY <2>1, <2>3, <1>1
  <2>5. j - 1 \in 1..(i - 1) /\ j - 1 \in 1..Len(Tail(q))
    BY <2>3, <2>4, <1>1
  <2>6. Tail(q)[j - 1] = q[(j - 1) + 1]
    BY <2>5, <1>1
  <2>7. Tail(q)[j - 1] = k
    BY <2>6, <2>5, <2>3
  <2> QED
    BY <2>5, <2>7
<1>4. Range(q) = Range(Tail(q)) \cup {Head(q)}
  <2>1. ASSUME NEW i \in 1..Len(q)
        PROVE  q[i] \in Range(Tail(q)) \cup {Head(q)}
    <3>1. CASE i = 1
      BY <3>1, <1>1
    <3>2. CASE i # 1
      <4>1. i - 1 \in 1..Len(Tail(q)) /\ Tail(q)[i - 1] = q[i]
        BY <3>2, <1>1
      <4> QED
        BY <4>1, <1>1 DEF Range
    <3> QED
      BY <3>1, <3>2
  <2>2. ASSUME NEW i \in 1..Len(Tail(q))
        PROVE  Tail(q)[i] \in Range(q)
    <3>1. i + 1 \in 1..Len(q) /\ Tail(q)[i] = q[i + 1]
      BY <1>1
    <3> QED
      BY <3>1, <1>1 DEF Range
  <2>3. Head(q) \in Range(q)
    BY <1>1 DEF Range
  <2>4. Range(q) \subseteq Range(Tail(q)) \cup {Head(q)}
    BY <2>1, <1>1 DEF Range
  <2>5. Range(Tail(q)) \subseteq Range(q)
    BY <2>2, <1>1 DEF Range
  <2> QED
    BY <2>3, <2>4, <2>5
<1> QED
  BY <1>2, <1>3, <1>4

LEMMA HeadInRange ==
    \A q \in Seq(Pos) : q # <<>> => Head(q) \in Range(q)
<1>1. \A q \in Seq(Pos) : q # <<>> =>
          Head(q) = q[1] /\ Len(q) \in Nat \ {0} /\ DOMAIN q = 1..Len(q)
  BY HeadTailProperties, EmptySeq, LenProperties
<1> QED
  BY <1>1 DEF Range

\* An entry may join a queue when everything before it is behind or in it.
LEMMA ContiguousAppend ==
    ASSUME NEW q \in Seq(Pos), NEW e \in Pos, NEW S, Contiguous(q, S),
           \A k \in 1..(e - 1) : k \in S \cup Range(q)
    PROVE  /\ Contiguous(Append(q, e), S)
           /\ Range(Append(q, e)) = Range(q) \cup {e}
<1> DEFINE a == Append(q, e)
<1>1. /\ Len(q) \in Nat /\ a \in Seq(Pos) /\ Len(a) = Len(q) + 1
      /\ \A i \in 1..Len(q) : a[i] = q[i]
      /\ a[Len(q) + 1] = e
      /\ DOMAIN q = 1..Len(q) /\ DOMAIN a = 1..Len(a)
  BY LenProperties
<1> HIDE DEF a
<1>2. Contiguous(a, S)
  <2>1. SUFFICES ASSUME NEW i \in 1..Len(a), NEW k \in 1..(a[i] - 1), k \notin S
                 PROVE  \E j \in 1..(i - 1) : a[j] = k
    BY DEF Contiguous
  <2>2. CASE i \in 1..Len(q)
    <3>1. PICK j \in 1..(i - 1) : q[j] = k
      BY <2>1, <2>2, <1>1 DEF Contiguous
    <3> QED
      BY <3>1, <2>2, <1>1
  <2>3. CASE i = Len(q) + 1
    <3>1. k \in Range(q)
      BY <2>1, <2>3, <1>1
    <3>2. PICK j \in 1..Len(q) : q[j] = k
      BY <3>1, <1>1 DEF Range
    <3> QED
      BY <3>2, <2>3, <1>1
  <2> QED
    BY <2>2, <2>3, <1>1
<1>3. Range(a) = Range(q) \cup {e}
  <2>1. \A i \in 1..Len(a) : a[i] \in Range(q) \cup {e}
    BY <1>1 DEF Range
  <2>2. \A i \in 1..Len(q) : q[i] \in Range(a)
    <3>1. \A i \in 1..Len(q) : i \in DOMAIN a /\ a[i] = q[i]
      BY <1>1
    <3> QED
      BY <3>1 DEF Range
  <2>3. e \in Range(a)
    BY <1>1 DEF Range
  <2> QED
    BY <2>1, <2>2, <2>3, <1>1 DEF Range
<1> QED
  BY <1>2, <1>3 DEF a

-----------------------------------------------------------------------------
(* The pipeline is in order *)

\* A step that only decides about more entries and moves no resume point.
LEMMA ResumePointsKept ==
    ASSUME ResumePointsSettled, seen \subseteq seen',
           UNCHANGED <<cursor, committed, since, resub, todo, waiting>>
    PROVE  ResumePointsSettled'
BY DEF ResumePointsSettled, Settled

\* Taking a command settles it: everything before it was decided about.
LEMMA TakeSettles ==
    ASSUME TypeOK, InOrder, TakeCommand,
           UNCHANGED <<events, frames, next, link>>
    PROVE  /\ QueuesContiguous'
           /\ seen \subseteq seen'
           /\ \A j \in 1..Head(cmds) : j \in seen'
<1>1. /\ cmds \in Seq(Pos) /\ cmds # <<>> /\ cmds' = Tail(cmds)
      /\ seen' = seen \cup {Head(cmds)} /\ Head(cmds) \in Pos
  BY QueueTypes DEF TypeOK, TakeCommand
<1>2. /\ \A k \in 1..(Head(cmds) - 1) : k \in seen
      /\ Contiguous(cmds', seen')
      /\ Range(cmds) = Range(cmds') \cup {Head(cmds)}
  BY <1>1, ContiguousTail DEF InOrder, QueuesContiguous, AtOrch
<1>3. AtRelay' = AtRelay /\ AtWorker' = AtWorker /\ OnWire' = OnWire
  BY <1>1, <1>2 DEF AtRelay, AtWorker, OnWire, AtOrch
<1>4. QueuesContiguous'
  BY <1>2, <1>3 DEF InOrder, QueuesContiguous, AtOrch, Contiguous
<1>5. \A j \in 1..Head(cmds) : j \in seen'
  BY <1>1, <1>2, PosTypes
<1> QED
  BY <1>1, <1>4, <1>5

\* The relay takes an event and decides about it without queueing it.
LEMMA RelayDecides ==
    ASSUME TypeOK, InOrder, Relayed, seen' = seen \cup {Head(events)},
           UNCHANGED <<cmds, frames, next, link>>
    PROVE  QueuesContiguous'
<1>1. /\ events \in Seq(Pos) /\ events # <<>> /\ events' = Tail(events)
      /\ cmds \in Seq(Pos)
  BY DEF TypeOK, Relayed
<1>2. /\ Contiguous(events', AtRelay \cup {Head(events)})
      /\ Range(events) = Range(events') \cup {Head(events)}
  BY <1>1, ContiguousTail DEF InOrder, QueuesContiguous
<1>3. /\ AtRelay' = AtRelay \cup {Head(events)}
      /\ AtWorker' = AtWorker /\ OnWire' = OnWire
  BY <1>2 DEF AtRelay, AtWorker, OnWire, AtOrch
<1>4. Contiguous(cmds, seen')
  BY <1>1, ContiguousMono DEF InOrder, QueuesContiguous, AtOrch
<1> QED
  BY <1>2, <1>3, <1>4 DEF InOrder, QueuesContiguous, AtOrch, Contiguous

\* Losing the frames of a closed connection opens no gap: nothing is owed.
LEMMA ClosedQueues ==
    ASSUME InOrder, frames' = <<>>, next' = 1,
           UNCHANGED <<cmds, events, link, seen>>
    PROVE  QueuesContiguous'
BY ContiguousEmpty DEF InOrder, QueuesContiguous, Contiguous, AtWorker, AtRelay,
                       AtOrch

LEMMA InOrderStep ==
    ASSUME TypeOK, TypeOK', InOrder, [Next]_vars
    PROVE  InOrder'
<1> USE DEF stream, queues, tracker, core, actor, disk
<1> DEFINE SameQueues == UNCHANGED <<cmds, events, frames, next, link, seen>>
           SamePoints == UNCHANGED <<cursor, committed, since, resub, todo, waiting>>
<1>a. ASSUME SameQueues
      PROVE  QueuesContiguous'
  BY <1>a DEF InOrder, QueuesContiguous, Contiguous, OnWire, AtWorker,
             AtRelay, AtOrch
<1>b. ASSUME SamePoints, seen \subseteq seen'
      PROVE  ResumePointsSettled'
  BY <1>b, ResumePointsKept DEF InOrder
<1>1. CASE Publish
  BY <1>1, <1>a, <1>b DEF Publish, InOrder
<1>2. CASE Transmit
  <2>1. /\ next \in Pos /\ next' = next + 1 /\ frames' = Append(frames, next)
        /\ link /\ UNCHANGED <<cmds, events, link, seen>> /\ SamePoints
    BY <1>2 DEF Transmit, TypeOK, Pos
  <2>2. /\ Contiguous(frames', AtWorker)
        /\ Range(frames') = Range(frames) \cup {next}
    BY <2>1, ContiguousAppend DEF InOrder, QueuesContiguous, OnWire, TypeOK
  <2>3. AtRelay' = AtRelay /\ AtWorker' = AtWorker
        /\ OnWire' = OnWire \cup {next}
    BY <2>1, <2>2 DEF OnWire, AtWorker, AtRelay, AtOrch
  <2>4. \A k \in 1..(next' - 1) : k \in OnWire'
    BY <2>1, <2>3, PosTypes DEF InOrder, QueuesContiguous
  <2>5. QueuesContiguous'
    BY <2>1, <2>2, <2>3, <2>4 DEF InOrder, QueuesContiguous, Contiguous, AtOrch
  <2> QED
    BY <2>1, <2>5, <1>b DEF InOrder
<1>3. CASE LinkLost
  <2>1. next' = 1 /\ link' = FALSE /\ UNCHANGED <<cmds, events, frames, seen>> /\ SamePoints
    BY <1>3 DEF LinkLost
  <2>2. QueuesContiguous'
    BY <2>1 DEF InOrder, QueuesContiguous, Contiguous, OnWire, AtWorker,
               AtRelay, AtOrch
  <2> QED
    BY <2>1, <2>2, <1>b DEF InOrder
<1>4. CASE WorkerConnect
  <2>1. since' = committed /\ resub' = {} /\ SameQueues
        /\ UNCHANGED <<cursor, committed, todo, waiting>>
    BY <1>4 DEF WorkerConnect
  <2>2. ResumePointsSettled'
    BY <2>1 DEF InOrder, ResumePointsSettled, Settled
  <2> QED
    BY <2>1, <2>2, <1>a DEF InOrder
<1>5. CASE WorkerOpened
  <2>1. /\ since' = 0 /\ next' = since + 1 /\ frames' = <<>> /\ link'
        /\ UNCHANGED <<cmds, events, seen, cursor, committed, resub, todo,
                       waiting>>
    BY <1>5 DEF WorkerOpened
  <2>2. \A k \in 1..(next' - 1) : k \in seen
    BY <2>1 DEF InOrder, ResumePointsSettled, Settled, TypeOK
  <2>3. QueuesContiguous'
    BY <2>1, <2>2, ContiguousEmpty
       DEF InOrder, QueuesContiguous, Contiguous, OnWire, AtWorker, AtRelay,
           AtOrch
  <2>4. ResumePointsSettled'
    BY <2>1 DEF InOrder, ResumePointsSettled, Settled
  <2> QED
    BY <2>3, <2>4 DEF InOrder
<1>6. CASE WorkerOpenFailed
  <2>1. since' = 0 /\ SameQueues
        /\ UNCHANGED <<cursor, committed, resub, todo, waiting>>
    BY <1>6 DEF WorkerOpenFailed
  <2>2. ResumePointsSettled'
    BY <2>1 DEF InOrder, ResumePointsSettled, Settled
  <2> QED
    BY <2>1, <2>2, <1>a DEF InOrder
<1>7. CASE WorkerRetry
  BY <1>7, <1>a, <1>b DEF WorkerRetry, InOrder
<1>8. CASE WorkerDispatch
  <2>1. /\ frames \in Seq(Pos) /\ frames # <<>> /\ frames' = Tail(frames)
        /\ cmds \in Seq(Pos) /\ events \in Seq(Pos) /\ Head(frames) \in Pos
        /\ UNCHANGED <<cmds, next, link>> /\ SamePoints
    BY <1>8, QueueTypes DEF WorkerDispatch, TypeOK
  <2>2. /\ \A k \in 1..(Head(frames) - 1) : k \in AtWorker
        /\ Contiguous(frames', AtWorker \cup {Head(frames)})
        /\ Range(frames) = Range(frames') \cup {Head(frames)}
    BY <2>1, ContiguousTail DEF InOrder, QueuesContiguous
  <2>3. CASE seen' = seen \cup {Head(frames)} /\ events' = events
    <3>1. /\ AtWorker' = AtWorker \cup {Head(frames)} /\ OnWire' = OnWire
          /\ AtRelay \subseteq AtRelay'
      BY <2>1, <2>2, <2>3 DEF OnWire, AtWorker, AtRelay, AtOrch
    <3>2. Contiguous(cmds', AtOrch') /\ Contiguous(events', AtRelay')
      BY <2>1, <2>3, <3>1, ContiguousMono DEF InOrder, QueuesContiguous, AtOrch
    <3>3. QueuesContiguous'
      BY <2>1, <2>2, <3>1, <3>2 DEF InOrder, QueuesContiguous, Contiguous
    <3> QED
      BY <2>1, <2>3, <3>3, <1>b DEF InOrder
  <2>4. CASE seen' = seen /\ events' = Append(events, Head(frames))
    <3>1. /\ Contiguous(events', AtRelay)
          /\ Range(events') = Range(events) \cup {Head(frames)}
      BY <2>1, <2>2, <2>4, ContiguousAppend
         DEF InOrder, QueuesContiguous, AtWorker
    <3>2. /\ AtRelay' = AtRelay /\ OnWire' = OnWire
          /\ AtWorker' = AtWorker \cup {Head(frames)}
      BY <2>1, <2>2, <2>4, <3>1 DEF OnWire, AtWorker, AtRelay, AtOrch
    <3>3. QueuesContiguous'
      <4>1. Contiguous(cmds', AtOrch')
        BY <2>1, <2>4 DEF InOrder, QueuesContiguous, AtOrch, Contiguous
      <4>2. Contiguous(events', AtRelay') /\ Contiguous(frames', AtWorker')
        BY <2>2, <3>1, <3>2
      <4>3. \A k \in 1..(next' - 1) : k \in OnWire'
        BY <2>1, <3>2 DEF InOrder, QueuesContiguous
      <4>4. ~link' => next' = 1
        BY <2>1 DEF InOrder, QueuesContiguous
      <4> QED
        BY <4>1, <4>2, <4>3, <4>4 DEF QueuesContiguous
    <3> QED
      BY <2>1, <2>4, <3>3, <1>b DEF InOrder
  <2> QED
    BY <1>8, <2>3, <2>4 DEF WorkerDispatch
<1>9. CASE WorkerLeavesLive
  <2>1. frames' = <<>> /\ ~link /\ UNCHANGED <<cmds, events, link, next, seen>>
        /\ SamePoints
    BY <1>9 DEF WorkerLeavesLive
  <2>2. next' = 1
    BY <2>1 DEF InOrder, QueuesContiguous
  <2>3. QueuesContiguous'
    BY <2>1, <2>2, ContiguousEmpty, ClosedQueues
  <2> QED
    BY <2>1, <2>3, <1>b DEF InOrder
<1>10. CASE WorkerSubscribe
  <2>1. /\ resub' = {}
        /\ UNCHANGED <<cmds, events, link, seen, cursor, committed, since,
                       todo, waiting>>
    BY <1>10 DEF WorkerSubscribe
  <2>2. ResumePointsSettled'
    BY <2>1 DEF InOrder, ResumePointsSettled, Settled
  <2>3. PICK c \in resub :
          \/ link /\ next' \in {next, c + 1} /\ frames' = frames
          \/ ~link /\ next' = next /\ frames' = <<>>
          \/ next' = next /\ frames' = frames
    BY <1>10 DEF WorkerSubscribe
  <2>4. CASE next' = next /\ frames' = frames
    BY <2>1, <2>2, <2>4, <1>a DEF InOrder
  <2>5. CASE ~link /\ next' = next /\ frames' = <<>>
    <3>1. next' = 1
      BY <2>5 DEF InOrder, QueuesContiguous
    <3> QED
      BY <2>1, <2>2, <2>5, <3>1, ClosedQueues DEF InOrder
  <2>6. CASE link /\ next' = c + 1 /\ frames' = frames
    <3>1. \A k \in 1..(next' - 1) : k \in seen
      <4>1. c \in 0..MaxLog /\ Settled(c)
        BY DEF InOrder, ResumePointsSettled, TypeOK
      <4>2. next' - 1 = c
        BY <2>6, <4>1
      <4> QED
        BY <4>1, <4>2 DEF Settled
    <3>2. OnWire' = OnWire /\ seen \subseteq OnWire
      BY <2>1, <2>6 DEF OnWire, AtWorker, AtRelay, AtOrch
    <3>3. QueuesContiguous'
      BY <2>1, <2>6, <3>1, <3>2
         DEF InOrder, QueuesContiguous, Contiguous, AtWorker, AtRelay, AtOrch
    <3> QED
      BY <2>2, <3>3 DEF InOrder
  <2> QED
    BY <2>3, <2>4, <2>5, <2>6
<1>11. CASE Resubscribe
  <2>1. /\ resub' = {cursor} /\ SameQueues
        /\ UNCHANGED <<cursor, committed, since, todo, waiting>>
    BY <1>11 DEF Resubscribe
  <2>2. ResumePointsSettled'
    BY <2>1 DEF InOrder, ResumePointsSettled, Settled
  <2> QED
    BY <2>1, <2>2, <1>a DEF InOrder
<1>12. CASE RelayMessage
  <2>1. /\ events \in Seq(Pos) /\ events # <<>> /\ events' = Tail(events)
        /\ cmds \in Seq(Pos) /\ Head(events) \in Pos
        /\ cmds' = Append(cmds, Head(events))
        /\ UNCHANGED <<frames, next, link, seen>> /\ SamePoints
    BY <1>12, QueueTypes DEF RelayMessage, Relayed, TypeOK
  <2>2. /\ \A k \in 1..(Head(events) - 1) : k \in AtRelay
        /\ Contiguous(events', AtRelay \cup {Head(events)})
        /\ Range(events) = Range(events') \cup {Head(events)}
    BY <2>1, ContiguousTail DEF InOrder, QueuesContiguous
  <2>3. /\ Contiguous(cmds', AtOrch)
        /\ Range(cmds') = Range(cmds) \cup {Head(events)}
    BY <2>1, <2>2, ContiguousAppend DEF InOrder, QueuesContiguous, AtRelay
  <2>4. /\ AtRelay' = AtRelay \cup {Head(events)}
        /\ AtWorker' = AtWorker /\ OnWire' = OnWire
    BY <2>1, <2>2, <2>3 DEF OnWire, AtWorker, AtRelay, AtOrch
  <2>5. QueuesContiguous'
    <3>1. Contiguous(cmds', AtOrch')
      BY <2>1, <2>3 DEF AtOrch
    <3>2. Contiguous(events', AtRelay')
      BY <2>2, <2>4
    <3>3. Contiguous(frames', AtWorker') /\ \A k \in 1..(next' - 1) : k \in OnWire'
      BY <2>1, <2>4 DEF InOrder, QueuesContiguous, Contiguous
    <3>4. ~link' => next' = 1
      BY <2>1 DEF InOrder, QueuesContiguous
    <3> QED
      BY <3>1, <3>2, <3>3, <3>4 DEF QueuesContiguous
  <2> QED
    BY <2>1, <2>5, <1>b DEF InOrder
<1>13. CASE RelayDrop
  BY <1>13, <1>b, RelayDecides DEF RelayDrop, Relayed, InOrder
<1>14. CASE RelayAck
  BY <1>14, <1>b, RelayDecides DEF RelayAck, Relayed, InOrder
<1>15. CASE OrchDropStale
  <2>1. /\ TakeCommand /\ UNCHANGED <<events, frames, next, link>>
        /\ UNCHANGED <<since, resub, committed, todo, waiting>>
        /\ cursor' \in {cursor, Head(cmds)}
    BY <1>15 DEF OrchDropStale, AdvanceCursor
  <2>2. /\ QueuesContiguous' /\ seen \subseteq seen'
        /\ \A j \in 1..Head(cmds) : j \in seen'
    BY <2>1, TakeSettles
  <2>3. ResumePointsSettled'
    BY <2>1, <2>2 DEF InOrder, ResumePointsSettled, Settled
  <2> QED
    BY <2>2, <2>3 DEF InOrder
<1>16. CASE OrchDecrypt
  <2>1. /\ TakeCommand /\ UNCHANGED <<events, frames, next, link>>
        /\ UNCHANGED <<since, resub, cursor, committed, waiting>>
    BY <1>16 DEF OrchDecrypt
  <2>2. PICK t \in Texts : todo' = <<[id |-> Head(cmds), text |-> t]>>
    BY <1>16 DEF OrchDecrypt
  <2>3. /\ QueuesContiguous' /\ seen \subseteq seen'
        /\ \A j \in 1..Head(cmds) : j \in seen'
    BY <2>1, TakeSettles
  <2>4. \A i \in 1..Len(todo') : todo'[i].id = Head(cmds)
    BY <2>2
  <2>5. ResumePointsSettled'
    BY <2>1, <2>3, <2>4 DEF InOrder, ResumePointsSettled, Settled
  <2> QED
    BY <2>3, <2>5 DEF InOrder
<1>17. CASE OrchQueue
  <2>1. /\ TakeCommand /\ UNCHANGED <<events, frames, next, link>>
        /\ UNCHANGED <<since, resub, cursor, committed, todo>>
        /\ waiting' = [waiting EXCEPT ![log[Head(cmds)].from] =
                          Append(@, Head(cmds))]
    BY <1>17 DEF OrchQueue
  <2>2. /\ QueuesContiguous' /\ seen \subseteq seen'
        /\ \A j \in 1..Head(cmds) : j \in seen'
    BY <2>1, TakeSettles
  <2>3. ASSUME NEW c \in Contacts, NEW i \in 1..Len(waiting'[c])
        PROVE  \/ waiting'[c][i] = Head(cmds)
               \/ i \in 1..Len(waiting[c]) /\ waiting'[c][i] = waiting[c][i]
    <3>1. waiting \in [Contacts -> Seq(Pos)] /\ waiting[c] \in Seq(Pos)
      BY DEF TypeOK
    <3>2. waiting'[c] = waiting[c] \/ waiting'[c] = Append(waiting[c], Head(cmds))
      BY <2>1, <3>1
    <3> QED
      BY <2>3, <3>1, <3>2
  <2>4. ResumePointsSettled'
    BY <2>1, <2>2, <2>3 DEF InOrder, ResumePointsSettled, Settled
  <2> QED
    BY <2>2, <2>4 DEF InOrder
<1>18. CASE OrchIgnore
  <2>1. /\ TakeCommand /\ UNCHANGED <<events, frames, next, link>> /\ SamePoints
    BY <1>18 DEF OrchIgnore
  <2> QED
    BY <2>1, TakeSettles, <1>b DEF InOrder
<1>19. ASSUME NEW c \in Contacts, waiting[c] # <<>>,
              NEW surfaced \in BOOLEAN, NEW t \in Texts,
              todo' = Released(c, surfaced, t),
              waiting' = [waiting EXCEPT ![c] = <<>>],
              SameQueues, UNCHANGED <<cursor, committed, since, resub>>
       PROVE  InOrder'
  <2>1. \A i \in 1..Len(todo') : \E j \in 1..Len(waiting[c]) :
            todo'[i].id = waiting[c][j]
    BY <1>19, ReleasedRows
  <2>2. \A d \in Contacts : waiting'[d] \in {waiting[d], <<>>}
    BY <1>19 DEF TypeOK
  <2>3. \A i \in 1..Len(todo') : Settled(todo'[i].id)
    BY <2>1 DEF InOrder, ResumePointsSettled
  <2>4. \A d \in Contacts : \A i \in 1..Len(waiting'[d]) :
            Settled(waiting'[d][i])
    BY <2>2 DEF InOrder, ResumePointsSettled
  <2>5. ResumePointsSettled'
    BY <1>19, <2>3, <2>4 DEF InOrder, ResumePointsSettled, Settled
  <2> QED
    BY <1>19, <2>5, <1>a DEF InOrder
<1>20. ASSUME NEW c \in Contacts, Session(c)
       PROVE  InOrder'
  <2>1. CASE OrchInitResponder(c)
    <3>1. PICK surfaced \in BOOLEAN, t \in Texts :
              todo' = Released(c, surfaced, t)
      BY <2>1 DEF OrchInitResponder
    <3> QED
      BY <2>1, <3>1, <1>19 DEF OrchInitResponder
  <2>2. CASE OrchInitInitiator(c)
    BY <2>2, <1>a, <1>b DEF OrchInitInitiator, InOrder
  <2>3. CASE OrchHealResponder(c)
    <3>1. PICK surfaced \in BOOLEAN, t \in Texts :
              todo' = Released(c, surfaced, t)
      BY <2>3 DEF OrchHealResponder
    <3> QED
      BY <2>3, <3>1, <1>19 DEF OrchHealResponder
  <2>4. CASE OrchSessionEnds(c)
    BY <2>4, <1>a, <1>b DEF OrchSessionEnds, InOrder
  <2> QED
    BY <1>20, <2>1, <2>2, <2>3, <2>4 DEF Session
<1>21. CASE OrchStore
  BY <1>21, <1>a, <1>b DEF OrchStore, InOrder
<1>22. ASSUME todo # <<>>, todo' = Tail(todo), SameQueues,
              UNCHANGED <<since, resub, committed, waiting>>,
              cursor' \in {cursor, Head(todo).id}
       PROVE  InOrder'
  <2>1. /\ todo \in Seq(Row) /\ Len(todo) \in Nat \ {0} /\ Head(todo) = todo[1]
        /\ Len(todo') = Len(todo) - 1
        /\ \A i \in 1..Len(todo') : todo'[i] = todo[i + 1]
    BY <1>22, HeadTailProperties, EmptySeq DEF TypeOK, Row
  <2>2. Settled(Head(todo).id)
    BY <2>1 DEF InOrder, ResumePointsSettled
  <2>3. \A i \in 1..Len(todo') : Settled(todo'[i].id)
    BY <2>1 DEF InOrder, ResumePointsSettled
  <2>4. ResumePointsSettled'
    BY <1>22, <2>2, <2>3 DEF InOrder, ResumePointsSettled, Settled
  <2> QED
    BY <1>22, <2>4, <1>a DEF InOrder
<1>23. CASE OrchStoreFails
  BY <1>23, <1>22 DEF OrchStoreFails
<1>24. CASE OrchCommit
  BY <1>24, <1>22 DEF OrchCommit, AdvanceCursor
<1>25. CASE OrchCommitFails
  BY <1>25, <1>22 DEF OrchCommitFails
<1>26. CASE Crash
  <2>1. /\ next' = 1 /\ frames' = <<>> /\ events' = <<>> /\ cmds' = <<>>
        /\ since' = 0 /\ committed' = 0 /\ resub' = {} /\ todo' = <<>>
        /\ UNCHANGED <<cursor, seen>>
    BY <1>26 DEF Crash
  <2>2. waiting' \in {waiting, NoQueues}
    BY <1>26 DEF Crash
  <2>3. QueuesContiguous'
    BY <2>1 DEF QueuesContiguous, Contiguous
  <2>4. \A c \in Contacts : \A i \in 1..Len(waiting'[c]) :
            Settled(waiting'[c][i])
    BY <2>2 DEF InOrder, ResumePointsSettled, NoQueues
  <2>5. ResumePointsSettled'
    BY <2>1, <2>4 DEF InOrder, ResumePointsSettled, Settled
  <2> QED
    BY <2>3, <2>5 DEF InOrder
<1>27. CASE Restart
  <2>1. /\ committed' = cursor /\ SameQueues
        /\ UNCHANGED <<cursor, since, resub, todo, waiting>>
    BY <1>27 DEF Restart
  <2>2. ResumePointsSettled'
    BY <2>1 DEF InOrder, ResumePointsSettled, Settled
  <2> QED
    BY <2>1, <2>2, <1>a DEF InOrder
<1>28. CASE UNCHANGED vars
  BY <1>28, <1>a, <1>b DEF vars, InOrder
<1>29. CASE OrchShare
  <2>1. /\ committed' = cursor /\ SameQueues
        /\ UNCHANGED <<cursor, since, resub, todo, waiting>>
    BY <1>29 DEF OrchShare
  <2>2. ResumePointsSettled'
    BY <2>1 DEF InOrder, ResumePointsSettled, Settled
  <2> QED
    BY <2>1, <2>2, <1>a DEF InOrder
<1> QED
  BY <1>1, <1>2, <1>3, <1>4, <1>5, <1>6, <1>7, <1>8, <1>9, <1>10, <1>11,
     <1>12, <1>13, <1>14, <1>15, <1>16, <1>17, <1>18, <1>20, <1>21, <1>23,
     <1>24, <1>25, <1>26, <1>27, <1>28, <1>29
     DEF Next, Worker, Relay, Command, Persist

\* Every queue of the pipeline keeps the server's order without gaps, and no
\* cursor or resume point passes an undecided entry (CursorTracker,
\* run_worker, the relay task and the orchestrator loop together).
THEOREM InOrderAlways == Spec => []InOrder
<1>1. Init => InOrder
  <2> SUFFICES ASSUME Init PROVE InOrder
    OBVIOUS
  <2>1. QueuesContiguous
    BY DEF Init, QueuesContiguous, Contiguous
  <2>2. ResumePointsSettled
    BY DEF Init, ResumePointsSettled, Settled, NoQueues
  <2> QED
    BY <2>1, <2>2 DEF InOrder
<1>2. TypeOK /\ TypeOK' /\ InOrder /\ [Next]_vars => InOrder'
  BY InOrderStep
<1> QED
  BY <1>1, <1>2, TypeCorrect, PTL DEF Spec

\* The durable watermark never passes an entry the pipeline has not decided
\* about: neither a lost connection, a crash, a rewind, a resubscription nor
\* an out-of-order commit makes the client skip an entry of the server.
THEOREM NothingSkippedAlways == Spec => []NothingSkipped
<1>1. InOrder => NothingSkipped
  BY DEF InOrder, ResumePointsSettled, Settled, NothingSkipped
<1> QED
  BY <1>1, InOrderAlways, PTL

-----------------------------------------------------------------------------
(* The shared copy of the cursor *)

\* No subscription resumes past the cursor on disk, and the copy the worker
\* reads lags it only between the two statements of CursorTracker.persist: the
\* copy is set after, and only after, a write that moved the row.
THEOREM ResumeNeverAhead == Spec => []ResumeNotAhead
<1>1. Init => ResumeNotAhead
  BY DEF Init, ResumeNotAhead
<1>2. ASSUME TypeOK, ResumeNotAhead, [Next]_vars
      PROVE  ResumeNotAhead'
  <2> USE DEF stream, queues, tracker, core, actor, disk
  <2>0. /\ cursor \in Nat /\ committed \in Nat /\ since \in Nat
        /\ \A c \in resub : c \in Nat
        /\ \A k \in Pos : k \in Nat
    BY <1>2, InboundAssumption DEF TypeOK, Pos
  <2>a. ASSUME UNCHANGED <<cursor, committed, phase, step>>, since' \in {since, committed, 0},
               resub' \in {resub, {}, {cursor}}
        PROVE  ResumeNotAhead'
    BY <1>2, <2>0, <2>a DEF ResumeNotAhead
  <2>b. ASSUME NEW k \in Pos, AdvanceCursor(k), step # "share",
               UNCHANGED <<committed, phase, since, resub>>
        PROVE  ResumeNotAhead'
    BY <1>2, <2>0, <2>b DEF ResumeNotAhead, AdvanceCursor
  <2>1. CASE Publish \/ Transmit \/ LinkLost \/ Resubscribe
    BY <2>1, <2>a DEF Publish, Transmit, LinkLost, Resubscribe
  <2>2. CASE Worker
    <3>1. /\ UNCHANGED <<cursor, committed, step>> /\ since' \in {since, committed, 0}
          /\ resub' \in {resub, {}} /\ phase # "down"
      BY <2>2 DEF Worker, WorkerConnect, WorkerOpened, WorkerOpenFailed,
                  WorkerRetry, WorkerDispatch, WorkerLeavesLive, WorkerSubscribe
    <3> QED
      BY <1>2, <2>0, <3>1 DEF ResumeNotAhead
  <2>3. CASE Relay
    BY <2>3, <2>a DEF Relay, RelayMessage, RelayDrop, RelayAck
  <2>4. CASE OrchDropStale
    <3>1. cmds \in Seq(Pos) /\ cmds # <<>> /\ step = "store"
      BY <1>2, <2>4 DEF OrchDropStale, TakeCommand, Idle, TypeOK
    <3>2. Head(cmds) \in Pos
      BY <3>1, QueueTypes
    <3>3. /\ UNCHANGED <<committed, phase, since, resub>>
          /\ AdvanceCursor(Head(cmds)) \/ UNCHANGED <<cursor, step>>
      BY <2>4 DEF OrchDropStale
    <3> QED
      BY <3>1, <3>2, <3>3, <2>a, <2>b
  <2>5. CASE OrchDecrypt \/ OrchQueue \/ OrchIgnore
    BY <2>5, <2>a DEF OrchDecrypt, OrchQueue, OrchIgnore
  <2>6. CASE OrchCommit
    <3>1. todo \in Seq(Row) /\ todo # <<>> /\ step = "commit"
      BY <1>2, <2>6 DEF OrchCommit, TypeOK, Row
    <3>2. Head(todo).id \in Pos
      BY <3>1, RowTypes
    <3>3. /\ UNCHANGED <<committed, phase, since, resub>>
          /\ \/ AdvanceCursor(Head(todo).id)
             \/ step' = "store" /\ UNCHANGED cursor
      BY <2>6 DEF OrchCommit
    <3>4. CASE AdvanceCursor(Head(todo).id)
      BY <3>1, <3>2, <3>3, <3>4, <2>b
    <3>5. CASE step' = "store" /\ UNCHANGED cursor
      BY <1>2, <3>1, <3>3, <3>5 DEF ResumeNotAhead
    <3> QED
      BY <3>3, <3>4, <3>5
  <2>7. CASE OrchStore \/ OrchStoreFails \/ OrchCommitFails
    BY <1>2, <2>7 DEF ResumeNotAhead, OrchStore, OrchStoreFails, OrchCommitFails
  <2>8. CASE OrchShare \/ Crash \/ Restart
    BY <1>2, <2>0, <2>8 DEF ResumeNotAhead, OrchShare, Crash, Restart
  <2>9. CASE \E c \in Contacts : Session(c)
    BY <2>9, <2>a DEF Session, OrchInitResponder, OrchInitInitiator,
                OrchHealResponder, OrchSessionEnds
  <2>10. CASE UNCHANGED vars
    BY <2>10, <2>a DEF vars
  <2> QED
    BY <1>2, <2>1, <2>2, <2>3, <2>4, <2>5, <2>6, <2>7, <2>8, <2>9, <2>10
       DEF Next, Command, Persist
<1>3. TypeOK /\ ResumeNotAhead /\ [Next]_vars => ResumeNotAhead'
  BY <1>2
<1> QED
  BY <1>1, <1>3, TypeCorrect, PTL DEF Spec

-----------------------------------------------------------------------------
(* The pipeline implements the inbox *)

\* Everything in the pipeline, and everything decided about, is an entry the
\* server has logged.
OnlyLogged == OnWire \subseteq 1..Len(log)

LEMMA OnlyLoggedStep ==
    ASSUME TypeOK, InOrder, OnlyLogged, [Next]_vars
    PROVE  OnlyLogged'
<1> USE DEF stream, queues, tracker, core, actor, disk
<1>a. ASSUME OnWire' \subseteq OnWire, UNCHANGED log
      PROVE  OnlyLogged'
  BY <1>a DEF OnlyLogged
<1>b. ASSUME UNCHANGED <<seen, cmds, events, frames, log>>
      PROVE  OnlyLogged'
  BY <1>b DEF OnlyLogged, OnWire, AtWorker, AtRelay, AtOrch
<1>c. /\ Range(<<>>) = {} /\ frames \in Seq(Pos) /\ events \in Seq(Pos)
      /\ cmds \in Seq(Pos)
  BY ContiguousEmpty DEF TypeOK
<1>1. CASE Publish
  <2>1. Len(log') = Len(log) + 1 /\ Len(log) \in Nat
    BY <1>1 DEF Publish, TypeOK
  <2>2. UNCHANGED <<seen, cmds, events, frames>>
    BY <1>1 DEF Publish
  <2> QED
    BY <2>1, <2>2 DEF OnlyLogged, OnWire, AtWorker, AtRelay, AtOrch
<1>2. CASE Transmit
  <2>1. next \in Pos /\ next \in 1..Len(log)
    <3>1. next \in 1..(MaxLog + 1) /\ next <= Len(log) /\ Len(log) <= MaxLog
      BY <1>2 DEF Transmit, TypeOK
    <3>2. Len(log) \in Nat
      BY LenProperties DEF TypeOK
    <3> QED
      BY <3>1, <3>2, InboundAssumption DEF Pos
  <2>2. Range(frames') = Range(frames) \cup {next}
    <3>1. \A k \in 1..(next - 1) : k \in AtWorker \cup Range(frames)
      BY DEF InOrder, QueuesContiguous, OnWire
    <3> QED
      BY <1>2, <1>c, <2>1, <3>1, ContiguousAppend
         DEF Transmit, InOrder, QueuesContiguous
  <2>3. UNCHANGED <<seen, cmds, events, log>>
    BY <1>2 DEF Transmit
  <2> QED
    BY <2>1, <2>2, <2>3 DEF OnlyLogged, OnWire, AtWorker, AtRelay, AtOrch
<1>3. CASE WorkerDispatch
  <2>1. /\ frames # <<>> /\ frames' = Tail(frames) /\ Head(frames) \in Pos
        /\ UNCHANGED <<cmds, log>>
    BY <1>3, <1>c, QueueTypes DEF WorkerDispatch
  <2>2. /\ Range(frames) = Range(frames') \cup {Head(frames)}
        /\ \A k \in 1..(Head(frames) - 1) : k \in AtWorker
    BY <2>1, <1>c, ContiguousTail DEF InOrder, QueuesContiguous
  <2>3. CASE seen' = seen \cup {Head(frames)} /\ events' = events
    BY <2>1, <2>2, <2>3, <1>a DEF OnWire, AtWorker, AtRelay, AtOrch
  <2>4. CASE seen' = seen /\ events' = Append(events, Head(frames))
    <3>1. Range(events') = Range(events) \cup {Head(frames)}
      BY <2>1, <2>2, <2>4, <1>c, ContiguousAppend
         DEF InOrder, QueuesContiguous, AtWorker
    <3> QED
      BY <2>1, <2>2, <2>4, <3>1, <1>a DEF OnWire, AtWorker, AtRelay, AtOrch
  <2> QED
    BY <1>3, <2>3, <2>4 DEF WorkerDispatch
<1>4. CASE WorkerOpened \/ WorkerLeavesLive \/ WorkerSubscribe
  <2>1. /\ frames' \in {frames, <<>>}
        /\ UNCHANGED <<seen, cmds, events, log>>
    BY <1>4 DEF WorkerOpened, WorkerLeavesLive, WorkerSubscribe
  <2> QED
    BY <2>1, <1>a, <1>c DEF OnWire, AtWorker, AtRelay, AtOrch
<1>5. CASE Relay
  <2>1. /\ Relayed /\ Head(events) \in Pos /\ UNCHANGED <<frames, log>>
        /\ \/ seen' = seen /\ cmds' = Append(cmds, Head(events))
           \/ seen' = seen \cup {Head(events)} /\ cmds' = cmds
    BY <1>5, <1>c, QueueTypes
       DEF Relay, RelayMessage, RelayDrop, RelayAck, Relayed
  <2>2. /\ Range(events) = Range(events') \cup {Head(events)}
        /\ \A k \in 1..(Head(events) - 1) : k \in AtRelay
    BY <2>1, <1>c, ContiguousTail DEF InOrder, QueuesContiguous, Relayed
  <2>3. Range(Append(cmds, Head(events))) = Range(cmds) \cup {Head(events)}
    BY <2>1, <2>2, <1>c, ContiguousAppend
       DEF InOrder, QueuesContiguous, AtRelay
  <2> QED
    BY <2>1, <2>2, <2>3, <1>a DEF OnWire, AtWorker, AtRelay, AtOrch
<1>6. CASE Command
  <2>1. TakeCommand /\ UNCHANGED <<events, frames, log>>
    BY <1>6 DEF Command, OrchDropStale, OrchDecrypt, OrchQueue, OrchIgnore
  <2>2. Range(cmds) = Range(cmds') \cup {Head(cmds)}
    BY <2>1, <1>c, ContiguousTail DEF InOrder, QueuesContiguous, TakeCommand
  <2> QED
    BY <2>1, <2>2, <1>a DEF OnWire, AtWorker, AtRelay, AtOrch, TakeCommand
<1>7. CASE Crash
  <2>1. /\ frames' = <<>> /\ events' = <<>> /\ cmds' = <<>>
        /\ UNCHANGED <<seen, log>>
    BY <1>7 DEF Crash
  <2> QED
    BY <2>1, <1>a, <1>c DEF OnWire, AtWorker, AtRelay, AtOrch
<1>8. CASE \/ LinkLost \/ WorkerConnect \/ WorkerOpenFailed \/ WorkerRetry
           \/ Resubscribe \/ Restart
  BY <1>8, <1>b DEF LinkLost, WorkerConnect, WorkerOpenFailed, WorkerRetry,
                    Resubscribe, Restart
<1>9. CASE Persist
  BY <1>9, <1>b DEF Persist, OrchStore, OrchStoreFails, OrchCommit,
                    OrchCommitFails, OrchShare
<1>10. CASE \E c \in Contacts : Session(c)
  BY <1>10, <1>b DEF Session, OrchInitResponder, OrchInitInitiator,
                     OrchHealResponder, OrchSessionEnds
<1>11. CASE UNCHANGED vars
  BY <1>11, <1>b DEF vars
<1> QED
  BY <1>1, <1>2, <1>3, <1>4, <1>5, <1>6, <1>7, <1>8, <1>9, <1>10, <1>11
     DEF Next, Worker

\* Every step of the pipeline is a step of the inbox, or invisible there.
LEMMA StepImplements ==
    ASSUME TypeOK, InOrder, OnlyLogged, [Next]_vars
    PROVE  [Ideal!Next]_(Ideal!vars)
<1> USE DEF stream, queues, tracker, core, actor, disk
<1> DEFINE Quiet == UNCHANGED <<log, seen, messages, cursor>>
<1>a. ASSUME Quiet
      PROVE  UNCHANGED Ideal!vars
  BY <1>a DEF Ideal!vars
<1>b. ASSUME NEW k \in Pos, k \in OnWire, seen' = seen \cup {k},
             UNCHANGED <<log, messages, cursor>>
      PROVE  Ideal!Next
  <2>1. k \in 1..Len(log)
    BY <1>b DEF OnlyLogged
  <2>2. Ideal!Decide(k)
    BY <1>b, <2>1 DEF Ideal!Decide
  <2> QED
    BY <2>2 DEF Ideal!Next, Pos
<1>c. ASSUME NEW k \in Pos, k \in OnWire, \A j \in 1..k : j \in seen',
             seen' \in {seen, seen \cup {k}}, AdvanceCursor(k),
             UNCHANGED <<log, messages>>
      PROVE  Ideal!Next \/ UNCHANGED Ideal!vars
  <2>1. k \in 1..Len(log) /\ Len(log) \in Nat /\ cursor \in Nat
    BY <1>c, LenProperties DEF OnlyLogged, TypeOK
  <2>2. CASE k > cursor
    <3>1. Ideal!Advance(k)
      BY <1>c, <2>1, <2>2 DEF Ideal!Advance, AdvanceCursor
    <3> QED
      BY <3>1 DEF Ideal!Next, Pos
  <2>3. CASE ~(k > cursor)
    <3>1. cursor' = cursor
      BY <1>c, <2>3 DEF AdvanceCursor
    <3>2. CASE seen' = seen
      BY <1>c, <3>1, <3>2 DEF Ideal!vars
    <3>3. CASE seen' = seen \cup {k}
      BY <1>b, <1>c, <3>1, <3>3
    <3> QED
      BY <1>c, <3>2, <3>3
  <2> QED
    BY <2>2, <2>3
<1>d. ASSUME todo # <<>>
      PROVE  /\ Head(todo).id \in Pos /\ Head(todo).text \in Texts
             /\ \A j \in 1..Head(todo).id : j \in seen
             /\ Head(todo).id \in seen
  <2>1. /\ todo \in Seq(Row) /\ Len(todo) \in Nat \ {0} /\ Head(todo) = todo[1]
        /\ Head(todo) \in Row
    <3>1. todo \in Seq(Row)
      BY DEF TypeOK, Row
    <3> QED
      BY <1>d, <3>1, HeadTailProperties, EmptySeq
  <2>2. Settled(Head(todo).id)
    BY <2>1 DEF InOrder, ResumePointsSettled
  <2>3. Head(todo).id \in Pos /\ Head(todo).text \in Texts
    BY <2>1, RowTypes
  <2>4. Head(todo).id \in 1..Head(todo).id
    BY <2>3 DEF Pos
  <2> QED
    BY <2>2, <2>3, <2>4 DEF Settled
<1>e. /\ frames \in Seq(Pos) /\ events \in Seq(Pos) /\ cmds \in Seq(Pos)
      /\ \A q \in Seq(Pos) : q # <<>> => Head(q) \in Range(q)
  <2>1. \A q \in Seq(Pos) : q # <<>> => Head(q) \in Range(q)
    BY HeadInRange
  <2> QED
    BY <2>1 DEF TypeOK
<1>1. CASE Publish
  <2>1. /\ Len(log') = Len(log) + 1 /\ Len(log) < MaxLog
        /\ UNCHANGED <<seen, messages, cursor>>
    BY <1>1 DEF Publish, TypeOK
  <2>2. Ideal!Publish
    BY <2>1 DEF Ideal!Publish
  <2> QED
    BY <2>2 DEF Ideal!Next
<1>2. CASE \/ Transmit \/ LinkLost \/ WorkerConnect \/ WorkerOpened
           \/ WorkerOpenFailed \/ WorkerRetry \/ WorkerLeavesLive
           \/ WorkerSubscribe \/ Resubscribe \/ Crash \/ Restart
  BY <1>2, <1>a DEF Transmit, LinkLost, WorkerConnect, WorkerOpened,
                    WorkerOpenFailed, WorkerRetry, WorkerLeavesLive,
                    WorkerSubscribe, Resubscribe, Crash, Restart
<1>3. CASE WorkerDispatch
  <2>1. Head(frames) \in Pos /\ Head(frames) \in OnWire
    BY <1>3, <1>e, QueueTypes DEF WorkerDispatch, OnWire
  <2> QED
    BY <1>3, <2>1, <1>a, <1>b DEF WorkerDispatch
<1>4. CASE Relay
  <2>1. Head(events) \in Pos /\ Head(events) \in OnWire
    BY <1>4, <1>e, QueueTypes
       DEF Relay, RelayMessage, RelayDrop, RelayAck, Relayed, OnWire, AtWorker
  <2> QED
    BY <1>4, <2>1, <1>a, <1>b DEF Relay, RelayMessage, RelayDrop, RelayAck
<1>5. CASE Command
  <2>1. TakeCommand /\ UNCHANGED <<events, frames, next, link>>
        /\ UNCHANGED <<log, messages>>
    BY <1>5 DEF Command, OrchDropStale, OrchDecrypt, OrchQueue, OrchIgnore
  <2>2. Head(cmds) \in Pos /\ Head(cmds) \in OnWire
    BY <2>1, <1>e, QueueTypes DEF TakeCommand, OnWire, AtWorker, AtRelay
  <2>3. \A j \in 1..Head(cmds) : j \in seen'
    BY <2>1, TakeSettles
  <2>4. seen' = seen \cup {Head(cmds)}
    BY <2>1 DEF TakeCommand
  <2>5. AdvanceCursor(Head(cmds)) \/ UNCHANGED cursor
    BY <1>5 DEF Command, OrchDropStale, OrchDecrypt, OrchQueue, OrchIgnore
  <2> QED
    BY <2>1, <2>2, <2>3, <2>4, <2>5, <1>b, <1>c
<1>6. CASE OrchStore
  <2> DEFINE k == Head(todo).id
             t == Head(todo).text
  <2>1. /\ Insert(k, t) /\ UNCHANGED <<log, seen, cursor>>
        /\ k \in Pos /\ t \in Texts /\ k \in seen
    BY <1>6, <1>d DEF OrchStore
  <2> HIDE DEF k, t
  <2>2. CASE messages[k] = NoText
    <3>1. Ideal!Record(k, t)
      BY <2>1, <2>2 DEF Ideal!Record, Insert
    <3> QED
      BY <2>1, <3>1 DEF Ideal!Next, Pos
  <2>3. CASE messages[k] # NoText
    BY <2>1, <2>3, <1>a DEF Insert
  <2> QED
    BY <2>2, <2>3
<1>7. CASE OrchCommit
  <2>1. /\ todo # <<>> /\ UNCHANGED <<log, seen, messages>>
        /\ AdvanceCursor(Head(todo).id) \/ UNCHANGED cursor
    BY <1>7 DEF OrchCommit
  <2>2. /\ Head(todo).id \in Pos /\ Head(todo).id \in OnWire
        /\ \A j \in 1..Head(todo).id : j \in seen'
    BY <2>1, <1>d DEF OnWire, AtWorker, AtRelay, AtOrch
  <2> QED
    BY <2>1, <2>2, <1>a, <1>c
<1>8. CASE OrchStoreFails \/ OrchCommitFails \/ OrchShare
  BY <1>8, <1>a DEF OrchStoreFails, OrchCommitFails, OrchShare
<1>9. CASE \E c \in Contacts : Session(c)
  BY <1>9, <1>a DEF Session, OrchInitResponder, OrchInitInitiator,
                    OrchHealResponder, OrchSessionEnds
<1>10. CASE UNCHANGED vars
  BY <1>10, <1>a DEF vars
<1> QED
  BY <1>1, <1>2, <1>3, <1>4, <1>5, <1>6, <1>7, <1>8, <1>9, <1>10
     DEF Next, Worker, Persist

THEOREM OnlyLoggedAlways == Spec => []OnlyLogged
<1>1. Init => OnlyLogged
  BY DEF Init, OnlyLogged, OnWire, AtWorker, AtRelay, AtOrch, Range
<1>2. TypeOK /\ InOrder /\ OnlyLogged /\ [Next]_vars => OnlyLogged'
  BY OnlyLoggedStep
<1> QED
  BY <1>1, <1>2, TypeCorrect, InOrderAlways, PTL DEF Spec

\* The pipeline is an inbox: whatever is lost, repeated or restarted between
\* the server and the database, entries are recorded once and the watermark
\* moves forward onto an entry with nothing undecided before it.
THEOREM InboxImplemented == Spec => ImplementsInbox
<1>1. Init => Ideal!Init
  BY DEF Init, Ideal!Init, Pos
<1>2. TypeOK /\ InOrder /\ OnlyLogged /\ [Next]_vars => [Ideal!Next]_(Ideal!vars)
  BY StepImplements
<1> QED
  BY <1>1, <1>2, TypeCorrect, InOrderAlways, OnlyLoggedAlways, PTL
     DEF Spec, ImplementsInbox, Ideal!Spec

-----------------------------------------------------------------------------
(* The entry the cursor names *)

\* Between the halves of persist_inbound the row is in the table.
RowBeforeCommit ==
    step = "commit" => todo # <<>> /\ messages[Head(todo).id] # NoText

\* "Advanced only after durable persist": the stored cursor names an entry
\* whose row exists, or a replay-sensitive one, through every crash and failed
\* write (persist_inbound stores before it commits).
THEOREM CursorNamesAlways == Spec => []CursorNamesPersisted
<1> DEFINE Inv == CursorNamesPersisted /\ RowBeforeCommit
<1>1. Init => Inv
  BY DEF Init, CursorNamesPersisted, RowBeforeCommit
<1>2. ASSUME TypeOK, InOrder, OnlyLogged, CursorNamesPersisted,
             RowBeforeCommit, [Next]_vars
      PROVE  Inv'
  <2> USE DEF stream, queues, tracker, core, actor, disk
  <2>0. /\ messages \in [Pos -> Texts \cup {NoText}] /\ cursor \in 0..MaxLog
        /\ cursor > 0 => cursor \in Pos
    <3>1. messages \in [Pos -> Texts \cup {NoText}] /\ cursor \in 0..MaxLog
      BY <1>2 DEF TypeOK
    <3> QED
      BY <3>1, InboundAssumption DEF Pos
  <2>a. ASSUME UNCHANGED <<log, messages, cursor>>
        PROVE  CursorNamesPersisted'
    BY <1>2, <2>a DEF CursorNamesPersisted, Sensitive
  <2>b. ASSUME UNCHANGED <<messages, todo, step>>
        PROVE  RowBeforeCommit'
    BY <1>2, <2>b DEF RowBeforeCommit
  <2>c. ASSUME step' = "store"
        PROVE  RowBeforeCommit'
    BY <2>c DEF RowBeforeCommit
  <2>1. CASE Publish
    <3>1. PICK e \in Entries : log' = Append(log, e)
      BY <2>1 DEF Publish
    <3>2. cursor > 0 => cursor \in 1..Len(log)
      <4>1. cursor > 0 => cursor \in seen
        BY <1>2, <2>0 DEF InOrder, ResumePointsSettled, Settled
      <4> QED
        BY <1>2, <4>1 DEF OnlyLogged, OnWire, AtWorker, AtRelay, AtOrch
    <3>3. cursor > 0 => log'[cursor] = log[cursor]
      BY <1>2, <3>1, <3>2, AppendProperties
         DEF TypeOK
    <3>4. UNCHANGED <<messages, cursor, todo, step>>
      BY <2>1 DEF Publish
    <3>5. CursorNamesPersisted'
      BY <1>2, <3>3, <3>4 DEF CursorNamesPersisted, Sensitive
    <3> QED
      BY <3>4, <3>5, <2>b
  <2>2. CASE Transmit \/ LinkLost \/ Worker \/ Resubscribe \/ Relay \/ Restart
    <3>1. UNCHANGED <<log, messages, cursor, todo, step>>
      BY <2>2 DEF Transmit, LinkLost, Worker, WorkerConnect, WorkerOpened,
                  WorkerOpenFailed, WorkerRetry, WorkerDispatch,
                  WorkerLeavesLive, WorkerSubscribe, Resubscribe, Relay,
                  RelayMessage, RelayDrop, RelayAck, Restart
    <3> QED
      BY <3>1, <2>a, <2>b
  <2>3. CASE OrchDropStale
    <3>1. /\ Sensitive(Head(cmds)) /\ cursor' \in {cursor, Head(cmds)}
          /\ step' # "commit" /\ UNCHANGED <<log, messages>>
      BY <2>3 DEF OrchDropStale, StaleReplay, AdvanceCursor, TakeCommand, Idle
    <3>2. CursorNamesPersisted'
      BY <1>2, <3>1 DEF CursorNamesPersisted, Sensitive
    <3> QED
      BY <3>1, <3>2 DEF RowBeforeCommit
  <2>4. CASE OrchDecrypt \/ OrchQueue \/ OrchIgnore
    <3>1. todo = <<>> /\ UNCHANGED <<log, messages, cursor, step>>
      BY <2>4 DEF OrchDecrypt, OrchQueue, OrchIgnore, TakeCommand, Idle
    <3>2. step' # "commit"
      BY <1>2, <3>1 DEF RowBeforeCommit
    <3> QED
      BY <3>1, <3>2, <2>a DEF RowBeforeCommit
  <2>5. CASE \E c \in Contacts : Session(c)
    <3>1. todo = <<>> /\ UNCHANGED <<log, messages, cursor, step>>
      BY <2>5 DEF Session, OrchInitResponder, OrchInitInitiator,
                  OrchHealResponder, OrchSessionEnds, Idle
    <3>2. step' # "commit"
      BY <1>2, <3>1 DEF RowBeforeCommit
    <3> QED
      BY <3>1, <3>2, <2>a DEF RowBeforeCommit
  <2>6. CASE OrchStore
    <3>1. /\ todo # <<>> /\ UNCHANGED <<log, cursor, todo>>
          /\ Insert(Head(todo).id, Head(todo).text)
      BY <2>6 DEF OrchStore
    <3>2. Head(todo).id \in Pos /\ Head(todo).text \in Texts
      <4>1. todo \in Seq(Row)
        BY <1>2 DEF TypeOK, Row
      <4> QED
        BY <3>1, <4>1, RowTypes
    <3> DEFINE k == Head(todo).id
               t == Head(todo).text
    <3>3. t # NoText /\ messages' = IF messages[k] = NoText
                                   THEN [messages EXCEPT ![k] = t]
                                   ELSE messages
      BY <3>1, <3>2, InboundAssumption DEF Insert
    <3>4. k \in Pos /\ k = Head(todo).id
      BY <3>2
    <3> HIDE DEF k, t
    <3>5. /\ messages'[k] # NoText
          /\ \A j \in Pos : messages[j] # NoText => messages'[j] # NoText
      BY <2>0, <3>3, <3>4
    <3>6. CursorNamesPersisted'
      BY <1>2, <2>0, <3>1, <3>5 DEF CursorNamesPersisted, Sensitive
    <3>7. RowBeforeCommit'
      BY <3>1, <3>4, <3>5 DEF RowBeforeCommit
    <3> QED
      BY <3>6, <3>7
  <2>7. CASE OrchCommit
    <3>1. /\ step = "commit" /\ step' # "commit"
          /\ cursor' \in {cursor, Head(todo).id}
          /\ UNCHANGED <<log, messages>>
      BY <2>7 DEF OrchCommit, AdvanceCursor
    <3>2. messages[Head(todo).id] # NoText
      BY <1>2, <3>1 DEF RowBeforeCommit
    <3>3. CursorNamesPersisted'
      BY <1>2, <3>1, <3>2 DEF CursorNamesPersisted, Sensitive
    <3> QED
      BY <3>1, <3>3 DEF RowBeforeCommit
  <2>8. CASE OrchStoreFails \/ OrchCommitFails \/ OrchShare \/ Crash
    <3>1. step' = "store" /\ UNCHANGED <<log, messages, cursor>>
      BY <2>8 DEF OrchStoreFails, OrchCommitFails, OrchShare, Crash
    <3> QED
      BY <3>1, <2>a, <2>c
  <2>9. CASE UNCHANGED vars
    BY <2>9, <2>a, <2>b DEF vars
  <2> QED
    BY <1>2, <2>1, <2>2, <2>3, <2>4, <2>5, <2>6, <2>7, <2>8, <2>9
       DEF Next, Command, Persist
<1>3. Inv => CursorNamesPersisted
  OBVIOUS
<1>4. TypeOK /\ InOrder /\ OnlyLogged /\ Inv /\ [Next]_vars => Inv'
  BY <1>2
<1> QED
  BY <1>1, <1>3, <1>4, TypeCorrect, InOrderAlways, OnlyLoggedAlways, PTL
     DEF Spec

-----------------------------------------------------------------------------
(* Steps *)

\* save_stream_cursor's strictly-after test: no step moves the stored cursor
\* back, whatever order the commits come in.
THEOREM CursorNeverBack == Spec => CursorForward
<1>1. TypeOK /\ InOrder /\ OnlyLogged /\ [Next]_vars => [cursor' >= cursor]_vars
  <2> SUFFICES ASSUME TypeOK, InOrder, OnlyLogged, [Next]_vars
               PROVE  cursor' >= cursor
    OBVIOUS
  <2>1. [Ideal!Next]_(Ideal!vars)
    BY StepImplements
  <2>2. cursor \in Nat
    BY DEF TypeOK
  <2> QED
    BY <2>1, <2>2 DEF Ideal!Next, Ideal!vars, Ideal!Publish, Ideal!Decide,
                      Ideal!Record, Ideal!Advance
<1> QED
  BY <1>1, TypeCorrect, InOrderAlways, OnlyLoggedAlways, PTL
     DEF Spec, CursorForward

\* INSERT OR IGNORE: a redelivered entry never replaces the text stored for it.
THEOREM TextNeverReplaced == Spec => ReplayKeepsText
<1>1. TypeOK /\ InOrder /\ OnlyLogged /\ [Next]_vars =>
        \A k \in Pos : messages[k] # NoText => messages'[k] = messages[k]
  <2> SUFFICES ASSUME TypeOK, InOrder, OnlyLogged, [Next]_vars,
                      NEW k \in Pos, messages[k] # NoText
               PROVE  messages'[k] = messages[k]
    OBVIOUS
  <2>1. [Ideal!Next]_(Ideal!vars)
    BY StepImplements
  <2>2. messages \in [Pos -> Texts \cup {NoText}]
    BY DEF TypeOK
  <2> QED
    BY <2>1, <2>2 DEF Ideal!Next, Ideal!vars, Ideal!Publish, Ideal!Decide,
                      Ideal!Record, Ideal!Advance
<1> QED
  BY <1>1, TypeCorrect, InOrderAlways, OnlyLoggedAlways, PTL
     DEF Spec, ReplayKeepsText
=============================================================================
