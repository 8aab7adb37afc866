------------------------- MODULE ChatSessions_proofs -------------------------
(***************************************************************************)
(* Proofs about ChatSessions: its types, whom a composed text goes to,     *)
(* that the list and the open chat miss nothing the database holds, and    *)
(* that texts keep their order.                                            *)
(*                                                                         *)
(* Each property is strengthened by what it needs to know of the calls     *)
(* that are still to be made: of the dialogs, of the orchestrator's work,  *)
(* of the queues between the two.                                          *)
(***************************************************************************)
EXTENDS ChatSessions, QueueFacts, FiniteSetTheorems, WellFoundedInduction,
        TLAPS

-----------------------------------------------------------------------------
(* The inductive invariants.                                               *)

\* Queued texts have a receiver, whose session may have to be opened.
Addressed(q) == \A i \in DOMAIN q : q[i].what = "text" => q[i].arg.peer # None

Typed ==
    /\ TypeOK
    /\ Addressed(events) /\ Addressed(orch.fetching)
    /\ \A i \in DOMAIN orch.fetching : orch.fetching[i].what # "bundle"

\* The selection stands still while a chat has the focus, but for a second start.
Steady ==
    /\ ComposeReachesShown
    /\ ui.dialog # None => ui.focus = "list"
    /\ ui.sel = 0 /\ ~ui.replaced => ui.shown = None

\* Every message that will be stored will be shown after that.
ShownAfter(work) ==
    \A i \in DOMAIN work : work[i].what = "store" =>
        \E j \in DOMAIN work : j > i /\ work[j] = Show(work[i].arg)

Complete == OpenChatComplete /\ ShownAfter(orch.work)

\* The texts of a queue, and their order.
TextIds(q) == {q[i].arg.id : i \in {j \in DOMAIN q : q[j].what = "text"}}
Ascending(q) ==
    \A i, j \in DOMAIN q :
        i < j /\ q[i].what = "text" /\ q[j].what = "text"
            => q[i].arg.id < q[j].arg.id
Ahead(A, B) == \A a \in A, b \in B : a < b
SentIds == {sent[i].id : i \in DOMAIN sent}

\* Texts move from the event queue through the orchestrator's hands.
InHand == TextIds(orch.work) \cup TextIds(orch.fetching)
Upcoming == InHand \cup TextIds(events)

Queued ==
    /\ TextsInOrder /\ Ascending(orch.work) /\ Ascending(events)
    /\ Ahead(SentIds, Upcoming) /\ Ahead(InHand, TextIds(events))
    /\ \A n \in SentIds \cup Upcoming : n <= count.texts

-----------------------------------------------------------------------------
(* Queues that carry texts.                                                *)

\* The texts of a queue that grows or shrinks, and their order.
LEMMA TextsOfAppend ==
    ASSUME NEW S, NEW q \in Seq(S), NEW x \in S
    PROVE  /\ TextIds(Append(q, x))
                 = TextIds(q) \cup (IF x.what = "text" THEN {x.arg.id} ELSE {})
           /\ (Ascending(q) /\ (x.what = "text" => Ahead(TextIds(q), {x.arg.id})))
                 => Ascending(Append(q, x))
<1> DEFINE r == Append(q, x)
<1>1. /\ DOMAIN r = 1..(Len(q) + 1) /\ DOMAIN q = 1..Len(q) /\ Len(q) \in Nat
      /\ \A i \in 1..Len(q) : r[i] = q[i]
      /\ r[Len(q) + 1] = x
  BY QueueTypes
<1> HIDE DEF r
<1>2. TextIds(r) = TextIds(q) \cup (IF x.what = "text" THEN {x.arg.id} ELSE {})
  BY <1>1 DEF TextIds
<1>3. ASSUME Ascending(q), x.what = "text" => Ahead(TextIds(q), {x.arg.id})
      PROVE  Ascending(r)
  <2>1. x.what = "text" => \A i \in DOMAIN q :
                              q[i].what = "text" => q[i].arg.id < x.arg.id
    BY <1>3 DEF Ahead, TextIds
  <2> QED
    BY <1>1, <1>3, <2>1 DEF Ascending
<1> QED
  BY <1>2, <1>3 DEF r

LEMMA TextsOfTail ==
    ASSUME NEW S, NEW q \in Seq(S), q # <<>>
    PROVE  /\ TextIds(q) = TextIds(Tail(q)) \cup
                 (IF Head(q).what = "text" THEN {Head(q).arg.id} ELSE {})
           /\ Ascending(q) => /\ Ascending(Tail(q))
                              /\ Head(q).what = "text" =>
                                    Ahead({Head(q).arg.id}, TextIds(Tail(q)))
<1> DEFINE t == Tail(q)
           h == Head(q)
<1>1. /\ DOMAIN q = 1..Len(q) /\ Len(q) \in Nat /\ Len(q) > 0
      /\ h = q[1] /\ DOMAIN t = 1..(Len(q) - 1)
      /\ \A i \in 1..(Len(q) - 1) : t[i] = q[i + 1]
  BY QueueTypes
<1> HIDE DEF t, h
<1>2. \A i \in DOMAIN q : i = 1 \/ (i - 1 \in DOMAIN t /\ t[i - 1] = q[i])
  BY <1>1
<1>3. \A i \in DOMAIN t : i + 1 \in DOMAIN q /\ t[i] = q[i + 1] /\ 1 < i + 1
  BY <1>1
<1>4. 1 \in DOMAIN q
  BY <1>1
<1>5. TextIds(q) \subseteq TextIds(t) \cup (IF h.what = "text" THEN {h.arg.id} ELSE {})
  BY <1>1, <1>2 DEF TextIds
<1>6. TextIds(t) \cup (IF h.what = "text" THEN {h.arg.id} ELSE {}) \subseteq TextIds(q)
  BY <1>1, <1>3, <1>4 DEF TextIds
<1>7. ASSUME Ascending(q) PROVE Ascending(t)
  <2> SUFFICES ASSUME NEW i \in DOMAIN t, NEW j \in DOMAIN t, i < j,
                      t[i].what = "text", t[j].what = "text"
               PROVE  t[i].arg.id < t[j].arg.id
    BY DEF Ascending
  <2>1. i + 1 < j + 1
    BY <1>1
  <2> QED
    BY <1>3, <1>7, <2>1 DEF Ascending
<1>8. ASSUME Ascending(q), h.what = "text" PROVE Ahead({h.arg.id}, TextIds(t))
  BY <1>1, <1>3, <1>4, <1>8 DEF Ascending, Ahead, TextIds
<1> QED
  BY <1>5, <1>6, <1>7, <1>8 DEF t, h

-----------------------------------------------------------------------------
(* The contact list.                                                       *)

\* The database's contacts, listed.
LEMMA ListedInFull ==
    ASSUME NEW C \in SUBSET People, NEW known \in SetToSeqs(C)
    PROVE  /\ known \in Seq(People) /\ ToSet(known) = C
           /\ known # <<>> => 1 <= Len(known)
<1> DEFINE n == Cardinality(C)
<1>1. IsFiniteSet(C) /\ n \in Nat
  BY FS_Subset, FS_CardinalityType, ChatAssumption
<1>2. /\ known \in [1..n -> C]
      /\ \A i, j \in 1..n : i # j => known[i] # known[j]
  BY DEF SetToSeqs
<1>3. known \in Injection(1..n, C)
  BY <1>2 DEF Injection, IsInjective
<1>4. Cardinality(1..n) = n
  BY <1>1, FS_Interval
<1> HIDE DEF n
<1>5. known \in Surjection(1..n, C)
  BY <1>1, <1>3, <1>4, FS_Injection, n = Cardinality(C) DEF n
<1>6. \A c \in C : \E i \in 1..n : known[i] = c
  BY <1>5 DEF Surjection
<1>7. known \in Seq(People)
  BY <1>1, <1>2
<1>8. ToSet(known) = C
  BY <1>2, <1>6 DEF ToSet
<1>9. known # <<>> => 1 <= Len(known)
  BY <1>7, QueueTypes
<1> QED
  BY <1>7, <1>8, <1>9

\* ChatListPane::remove_at.
LEMMA RemoveAtFacts ==
    ASSUME NEW S, NEW s \in Seq(S), NEW i \in 1..Len(s)
    PROVE  /\ RemoveAt(s, i) \in Seq(S) /\ Len(RemoveAt(s, i)) = Len(s) - 1
           /\ ToSet(s) \ {s[i]} \subseteq ToSet(RemoveAt(s, i))
<1> DEFINE a == SubSeq(s, 1, i - 1)
           b == SubSeq(s, i + 1, Len(s))
           r == a \o b
<1>1. Len(s) \in Nat /\ DOMAIN s = 1..Len(s) /\ \A k \in 1..Len(s) : s[k] \in S
  BY QueueTypes
<1>2. /\ a \in Seq(S) /\ Len(a) = i - 1
      /\ \A k \in 1..(i - 1) : a[k] = s[k]
  BY <1>1, SubSeqProperties
<1>3. /\ b \in Seq(S) /\ Len(b) = Len(s) - i
      /\ \A k \in 1..(Len(s) - i) : b[k] = s[k + i]
  <2>1. \A k \in (i + 1)..Len(s) : s[k] \in S
    BY <1>1
  <2>2. i + 1 \in Int /\ Len(s) \in Int
    BY <1>1
  <2>3. /\ b \in Seq(S)
        /\ Len(b) = IF i + 1 <= Len(s) THEN Len(s) - (i + 1) + 1 ELSE 0
        /\ \A k \in 1..(Len(s) - (i + 1) + 1) : b[k] = s[i + 1 + k - 1]
    BY <2>1, <2>2, SubSeqProperties
  <2> HIDE DEF b
  <2>4. Len(b) = Len(s) - i
    <3>1. \A n \in Nat : \A k \in 1..n :
             (IF k + 1 <= n THEN n - (k + 1) + 1 ELSE 0) = n - k
      OBVIOUS
    <3> QED
      BY <1>1, <2>3, <3>1
  <2>5. ASSUME NEW k \in 1..(Len(s) - i) PROVE b[k] = s[k + i]
    <3>1. k \in 1..(Len(s) - (i + 1) + 1) /\ i + 1 + k - 1 = k + i
      BY <1>1
    <3> QED
      BY <2>3, <3>1
  <2> QED
    BY <2>3, <2>4, <2>5
<1> HIDE DEF a, b
<1>4. /\ r \in Seq(S) /\ Len(r) = Len(a) + Len(b)
      /\ \A k \in 1..(Len(a) + Len(b)) :
            r[k] = IF k <= Len(a) THEN a[k] ELSE b[k - Len(a)]
  BY <1>2, <1>3, ConcatProperties
<1> HIDE DEF r
<1>5. DOMAIN r = 1..(Len(s) - 1) /\ Len(r) = Len(s) - 1
  BY <1>1, <1>2, <1>3, <1>4, QueueTypes
<1>6. ASSUME NEW k \in 1..(i - 1) PROVE k \in DOMAIN r /\ r[k] = s[k]
  <2>1. k \in DOMAIN r /\ k \in 1..(Len(a) + Len(b)) /\ k <= Len(a)
    BY <1>1, <1>2, <1>3, <1>5
  <2> QED
    BY <1>2, <1>4, <2>1
<1>7. ASSUME NEW k \in (i + 1)..Len(s)
      PROVE  k - 1 \in DOMAIN r /\ r[k - 1] = s[k]
  <2>1. /\ k - 1 \in DOMAIN r /\ k - 1 \in 1..(Len(a) + Len(b))
        /\ ~(k - 1 <= Len(a))
    BY <1>1, <1>2, <1>3, <1>5
  <2>2. r[k - 1] = b[k - 1 - Len(a)]
    BY <1>4, <2>1
  <2>3. k - 1 - Len(a) = k - i /\ k - i \in 1..(Len(s) - i) /\ k - i + i = k
    BY <1>1, <1>2
  <2> QED
    BY <1>3, <2>1, <2>2, <2>3
<1>8. ASSUME NEW k \in 1..Len(s), s[k] # s[i] PROVE s[k] \in ToSet(r)
  <2>1. k \in 1..(i - 1) \/ k \in (i + 1)..Len(s)
    BY <1>1, <1>8
  <2> QED
    BY <1>6, <1>7, <2>1 DEF ToSet
<1>9. ToSet(s) \ {s[i]} \subseteq ToSet(r)
  BY <1>1, <1>8 DEF ToSet
<1>10. RemoveAt(s, i) = r
  BY DEF RemoveAt, r, a, b
<1> QED
  BY <1>4, <1>5, <1>9, <1>10

\* Who is on the list has a first entry.
LEMMA FirstEntry ==
    ASSUME NEW S, NEW s \in Seq(S), NEW c \in ToSet(s)
    PROVE  \E j \in DOMAIN s : s[j] = c /\ \A k \in 1..(j - 1) : s[k] # c
<1> DEFINE T == {j \in DOMAIN s : s[j] = c}
<1>1. DOMAIN s = 1..Len(s) /\ Len(s) \in Nat
  BY QueueTypes
<1>2. T \subseteq Nat /\ T # {}
  BY <1>1 DEF ToSet
<1> HIDE DEF T
<1>3. \E x \in T : \A y \in T : ~(<<y, x>> \in OpToRel(<, Nat))
  BY <1>2, WFMin, NatLessThanWellFounded
<1>4. PICK x \in T : \A y \in T : ~(y < x)
  BY <1>2, <1>3 DEF OpToRel
<1>5. x \in DOMAIN s /\ s[x] = c
  BY DEF T
<1>6. ASSUME NEW k \in 1..(x - 1) PROVE s[k] # c
  <2>1. k \in DOMAIN s /\ k < x
    BY <1>1, <1>5
  <2> QED
    BY <1>4, <2>1 DEF T
<1> QED
  BY <1>5, <1>6

LEMMA UnlistedFacts ==
    ASSUME TypeOK, NEW c \in People
    PROVE  LET l == Unlisted(c) IN
           /\ l.list \in Seq(People) /\ l.sel \in Nat
           /\ l.sel = 0 <=> l.list = <<>>
           /\ l.sel <= Len(l.list)
           /\ ToSet(ui.list) \ {c} \subseteq ToSet(l.list)
<1> DEFINE l == Unlisted(c)
           i == CHOOSE j \in DOMAIN ui.list :
                   ui.list[j] = c /\ \A k \in 1..(j - 1) : ui.list[k] # c
           rest == RemoveAt(ui.list, i)
<1>1. /\ ui.list \in Seq(People) /\ ui.sel \in Nat
      /\ ui.sel = 0 <=> ui.list = <<>>
      /\ ui.sel <= Len(ui.list)
  BY DEF TypeOK
<1>2. CASE c \notin ToSet(ui.list)
  BY <1>1, <1>2 DEF Unlisted
<1>3. CASE c \in ToSet(ui.list)
  <2>1. i \in DOMAIN ui.list /\ ui.list[i] = c
    BY <1>1, <1>3, FirstEntry
  <2>2. l = [list |-> rest, sel |-> IF i > Len(rest) THEN Len(rest) ELSE i]
    BY <1>3 DEF Unlisted
  <2> HIDE DEF i
  <2>3. i \in 1..Len(ui.list) /\ Len(ui.list) \in Nat
    BY <1>1, <2>1, QueueTypes
  <2>4. /\ rest \in Seq(People) /\ Len(rest) = Len(ui.list) - 1
        /\ ToSet(ui.list) \ {c} \subseteq ToSet(rest)
    BY <1>1, <2>1, <2>3, RemoveAtFacts
  <2> HIDE DEF rest, l
  <2>5. Len(rest) \in Nat /\ (rest = <<>> <=> Len(rest) = 0)
    <3>1. \A q \in Seq(People) : Len(q) \in Nat /\ (q = <<>> <=> Len(q) = 0)
      BY QueueTypes
    <3> QED
      BY <2>4, <3>1
  <2>6. l.list = rest /\ l.sel = IF i > Len(rest) THEN Len(rest) ELSE i
    BY <2>2
  <2>7. l.sel \in Nat /\ l.sel <= Len(rest) /\ (l.sel = 0 <=> Len(rest) = 0)
    BY <2>3, <2>4, <2>5, <2>6
  <2> QED
    BY <2>4, <2>5, <2>6, <2>7 DEF l
<1> QED
  BY <1>2, <1>3

-----------------------------------------------------------------------------
(* The orchestrator's work.                                                *)

LEMMA ItemTypes ==
    /\ \A m \in Inbounds : Store(m) \in Steps /\ Show(m) \in Steps
    /\ \A m \in Inbounds : Show(m) \in Notices /\ m.peer \in People
    /\ \A c \in People : Save(c) \in Steps /\ Open(c) \in Events /\ Bundle(c) \in Events
    /\ \A t \in Texts : Text(t) \in Steps /\ Text(t) \in Events
BY DEF Store, Show, Save, Open, Bundle, Text, Steps, Notices, Events, Tagged,
   Inbounds

\* The calls for a queue of messages: two for each.
LEMMA SurfacedFacts ==
    ASSUME NEW ms \in Seq(Inbounds)
    PROVE  /\ Surfaced(ms) \in Seq(Steps) /\ Len(Surfaced(ms)) = 2 * Len(ms)
           /\ \A k \in 1..(2 * Len(ms)) :
                 LET m == ms[(k + 1) \div 2] IN
                 /\ m \in Inbounds
                 /\ Surfaced(ms)[k] = IF k % 2 = 1 THEN Store(m) ELSE Show(m)
<1> DEFINE n == 2 * Len(ms)
           w == Surfaced(ms)
<1>1. Len(ms) \in Nat /\ n \in Nat /\ \A i \in 1..Len(ms) : ms[i] \in Inbounds
  BY QueueTypes
<1>2. ASSUME NEW k \in 1..n
      PROVE  LET m == ms[(k + 1) \div 2] IN
             /\ m \in Inbounds
             /\ w[k] = IF k % 2 = 1 THEN Store(m) ELSE Show(m)
  <2> DEFINE m == ms[(k + 1) \div 2]
  <2>1. (k + 1) \div 2 \in 1..Len(ms)
    BY <1>1
  <2>2. k % 2 = 1 \/ k % 2 = 0
    BY <1>1
  <2>3. w[k] = Surface(m)[2 - (k % 2)]
    BY DEF Surfaced
  <2> HIDE DEF m
  <2>4. Surface(m)[1] = Store(m) /\ Surface(m)[2] = Show(m)
    BY DEF Surface
  <2>5. k % 2 = 1 => 2 - (k % 2) = 1
    OBVIOUS
  <2>6. k % 2 = 0 => 2 - (k % 2) = 2
    OBVIOUS
  <2>7. m \in Inbounds
    BY <1>1, <2>1 DEF m
  <2> QED
    BY <2>2, <2>3, <2>4, <2>5, <2>6, <2>7 DEF m
<1>3. ASSUME NEW k \in 1..n PROVE w[k] \in Steps
  BY <1>2, ItemTypes
<1>4. w = [k \in 1..n |-> w[k]]
  BY DEF Surfaced
<1> HIDE DEF w, n
<1>5. w \in [1..n -> Steps]
  BY <1>3, <1>4
<1>6. w \in Seq(Steps) /\ Len(w) = n
  BY <1>1, <1>5
<1> QED
  BY <1>2, <1>6 DEF w, n

\* What InitSession and SessionInitCompleted leave to do: every message is
\* shown after it is stored, and the only text is the one that waited.
LEMMA EstablishedWork ==
    ASSUME NEW ms \in Seq(Inbounds), NEW c \in People, NEW then \in Seq(Steps),
           \A i \in DOMAIN then : then[i].what # "store"
    PROVE  LET w == Surfaced(ms) \o <<Save(c)>> \o then IN
           /\ w \in Seq(Steps) /\ ShownAfter(w)
           /\ TextIds(w) = TextIds(then)
           /\ Ascending(then) => Ascending(w)
<1> DEFINE n == 2 * Len(ms)
           u == Surfaced(ms)
           v == u \o <<Save(c)>>
           w == v \o then
<1>1. /\ u \in Seq(Steps) /\ Len(u) = n /\ n \in Nat
      /\ \A k \in 1..n : LET m == ms[(k + 1) \div 2] IN
            /\ m \in Inbounds
            /\ u[k] = IF k % 2 = 1 THEN Store(m) ELSE Show(m)
  BY SurfacedFacts, QueueTypes
<1>2. <<Save(c)>> \in Seq(Steps) /\ Len(<<Save(c)>>) = 1 /\ <<Save(c)>>[1] = Save(c)
  BY ItemTypes
<1> HIDE DEF u
<1>3. /\ v \in Seq(Steps) /\ Len(v) = n + 1
      /\ \A k \in 1..(n + 1) : v[k] = IF k <= n THEN u[k] ELSE Save(c)
  <2> DEFINE x == <<Save(c)>>
  <2> HIDE DEF x, n
  <2>3. /\ v \in Seq(Steps) /\ Len(v) = Len(u) + Len(x)
        /\ \A k \in 1..(Len(u) + Len(x)) :
              v[k] = IF k <= Len(u) THEN u[k] ELSE x[k - Len(u)]
    BY <1>1, <1>2, ConcatProperties DEF x
  <2> HIDE DEF v
  <2>1. /\ v \in Seq(Steps) /\ Len(v) = n + 1
        /\ \A k \in 1..(n + 1) :
              v[k] = IF k <= n THEN u[k] ELSE <<Save(c)>>[k - n]
    BY <1>1, <1>2, <2>3 DEF x
  <2>2. \A k \in 1..(n + 1) : ~(k <= n) => k - n = 1
    BY <1>1
  <2> QED
    BY <1>2, <2>1, <2>2
<1>4. Len(then) \in Nat /\ DOMAIN then = 1..Len(then)
  BY QueueTypes
<1> HIDE DEF v, n
<1>5. /\ w \in Seq(Steps) /\ Len(w) = n + 1 + Len(then)
      /\ \A k \in 1..(n + 1 + Len(then)) :
            w[k] = IF k <= n + 1 THEN v[k] ELSE then[k - (n + 1)]
  <2>1. /\ w \in Seq(Steps) /\ Len(w) = Len(v) + Len(then)
        /\ \A k \in 1..(Len(v) + Len(then)) :
              w[k] = IF k <= Len(v) THEN v[k] ELSE then[k - Len(v)]
    BY <1>3, ConcatProperties
  <2> HIDE DEF w
  <2> QED
    BY <1>3, <2>1
<1> HIDE DEF w
<1>6. DOMAIN w = 1..(n + 1 + Len(then))
  BY <1>5, QueueTypes
<1>7. ASSUME NEW k \in 1..(n + 1)
      PROVE  k \in DOMAIN w /\ w[k].what # "text"
             /\ (w[k].what = "store" => k <= n /\ w[k] = u[k])
  <2>1. k \in DOMAIN w /\ w[k] = v[k]
    BY <1>1, <1>4, <1>5, <1>6
  <2>2. v[k] = IF k <= n THEN u[k] ELSE Save(c)
    BY <1>3
  <2>3. k <= n => u[k].what \in {"store", "show"}
    BY <1>1 DEF Store, Show
  <2> QED
    BY <2>1, <2>2, <2>3 DEF Save
<1>8. \A k \in DOMAIN then : k + (n + 1) \in DOMAIN w /\ w[k + (n + 1)] = then[k]
                              /\ k + (n + 1) > n + 1
  <2> SUFFICES ASSUME NEW k \in DOMAIN then
               PROVE  k + (n + 1) \in DOMAIN w /\ w[k + (n + 1)] = then[k]
                         /\ k + (n + 1) > n + 1
    OBVIOUS
  <2>1. /\ k + (n + 1) \in 1..(n + 1 + Len(then)) /\ ~(k + (n + 1) <= n + 1)
        /\ (k + (n + 1)) - (n + 1) = k /\ k + (n + 1) > n + 1
    BY <1>1, <1>4
  <2> QED
    BY <1>5, <1>6, <2>1
<1>9. \A k \in DOMAIN w : k \in 1..(n + 1)
         \/ (k - (n + 1) \in DOMAIN then /\ w[k] = then[k - (n + 1)])
  <2> SUFFICES ASSUME NEW k \in DOMAIN w, k \notin 1..(n + 1)
               PROVE  k - (n + 1) \in DOMAIN then /\ w[k] = then[k - (n + 1)]
    OBVIOUS
  <2>1. k - (n + 1) \in DOMAIN then /\ ~(k <= n + 1)
    BY <1>1, <1>4, <1>6
  <2> QED
    BY <1>5, <1>6, <2>1
<1>10. ShownAfter(w)
  <2> SUFFICES ASSUME NEW i \in DOMAIN w, w[i].what = "store"
               PROVE  \E j \in DOMAIN w : j > i /\ w[j] = Show(w[i].arg)
    BY DEF ShownAfter
  <2>1. i \in 1..(n + 1)
    BY <1>9
  <2>2. i <= n /\ w[i] = u[i] /\ i \in 1..n
    BY <1>1, <1>7, <2>1
  <2> DEFINE m == ms[(i + 1) \div 2]
  <2>3. u[i] = IF i % 2 = 1 THEN Store(m) ELSE Show(m)
    BY <1>1, <2>2
  <2>4. i % 2 = 1 /\ w[i].arg = m
    BY <2>2, <2>3 DEF Store, Show
  <2> HIDE DEF m
  <2>5. i + 1 \in 1..n /\ (i + 1) % 2 # 1 /\ (i + 1 + 1) \div 2 = (i + 1) \div 2
    <3>1. Len(ms) \in Nat
      BY QueueTypes
    <3>2. \A a \in Nat : \A b \in 1..(2 * a) : b % 2 = 1 =>
             /\ b + 1 \in 1..(2 * a) /\ (b + 1) % 2 # 1
             /\ (b + 1 + 1) \div 2 = (b + 1) \div 2
      OBVIOUS
    <3> QED
      BY <2>2, <2>4, <3>1, <3>2 DEF n
  <2>6. u[i + 1] = Show(m)
    BY <1>1, <2>5 DEF m
  <2>7. i + 1 \in DOMAIN w /\ w[i + 1] = u[i + 1] /\ i + 1 > i
    <3>1. i + 1 \in 1..(n + 1) /\ i + 1 <= n /\ i + 1 \in 1..(n + 1 + Len(then))
      BY <1>1, <1>4, <2>5
    <3> QED
      BY <1>3, <1>5, <1>6, <3>1
  <2> QED
    BY <2>4, <2>6, <2>7
<1>11. TextIds(w) = TextIds(then)
  <2>1. TextIds(w) \subseteq TextIds(then)
    BY <1>7, <1>9 DEF TextIds
  <2>2. TextIds(then) \subseteq TextIds(w)
    BY <1>8 DEF TextIds
  <2> QED
    BY <2>1, <2>2
<1>12. ASSUME Ascending(then) PROVE Ascending(w)
  <2> SUFFICES ASSUME NEW i \in DOMAIN w, NEW j \in DOMAIN w, i < j,
                      w[i].what = "text", w[j].what = "text"
               PROVE  w[i].arg.id < w[j].arg.id
    BY DEF Ascending
  <2>1. /\ i - (n + 1) \in DOMAIN then /\ w[i] = then[i - (n + 1)]
        /\ j - (n + 1) \in DOMAIN then /\ w[j] = then[j - (n + 1)]
    BY <1>7, <1>9
  <2>2. i - (n + 1) < j - (n + 1)
    BY <1>1, <1>4, <1>6
  <2> QED
    BY <1>12, <2>1, <2>2 DEF Ascending
<1> QED
  BY <1>5, <1>10, <1>11, <1>12 DEF w, v, u

\* What a decrypted message, and a text with a session, leave to do.
LEMMA DecryptedWork ==
    ASSUME NEW m \in Inbounds, NEW c \in People
    PROVE  LET w == Surface(m) \o <<Save(c)>> IN
           /\ w \in Seq(Steps) /\ ShownAfter(w)
           /\ TextIds(w) = {} /\ Ascending(w)
<1> DEFINE u == Surface(m)
           x == <<Save(c)>>
           w == u \o x
<1>1. /\ u \in Seq(Steps) /\ Len(u) = 2 /\ u[1] = Store(m) /\ u[2] = Show(m)
      /\ x \in Seq(Steps) /\ Len(x) = 1 /\ x[1] = Save(c)
  BY ItemTypes DEF Surface
<1> HIDE DEF u, x
<1>6. /\ w \in Seq(Steps) /\ Len(w) = Len(u) + Len(x)
      /\ \A k \in 1..(Len(u) + Len(x)) :
            w[k] = IF k <= Len(u) THEN u[k] ELSE x[k - Len(u)]
  BY <1>1, ConcatProperties
<1> HIDE DEF w
<1>2. /\ w \in Seq(Steps) /\ DOMAIN w = {1, 2, 3}
      /\ w[1] = Store(m) /\ w[2] = Show(m) /\ w[3] = Save(c)
  <2>1. DOMAIN w = 1..3
    BY <1>1, <1>6, QueueTypes
  <2> QED
    BY <1>1, <1>6, <2>1
<1>3. w[1].what = "store" /\ w[1].arg = m /\ w[2].what = "show" /\ w[3].what = "save"
  BY <1>2 DEF Store, Show, Save
<1>4. ShownAfter(w)
  BY <1>2, <1>3 DEF ShownAfter
<1>5. TextIds(w) = {} /\ Ascending(w)
  BY <1>2, <1>3 DEF TextIds, Ascending
<1> QED
  BY <1>2, <1>4, <1>5 DEF w, u, x

LEMMA TextWork ==
    ASSUME NEW e \in Steps, e.what = "text", NEW c \in People
    PROVE  LET w == <<e, Save(c)>> IN
           /\ w \in Seq(Steps) /\ ShownAfter(w)
           /\ \A i \in DOMAIN w : w[i].what # "store"
           /\ TextIds(w) = {e.arg.id} /\ Ascending(w)
<1> DEFINE w == <<e, Save(c)>>
<1>1. w \in Seq(Steps) /\ DOMAIN w = {1, 2} /\ w[1] = e /\ w[2] = Save(c)
  BY ItemTypes
<1> HIDE DEF w
<1>2. w[2].what = "save"
  BY <1>1 DEF Save
<1>3. TextIds(w) = {e.arg.id}
  BY <1>1, <1>2 DEF TextIds
<1>4. Ascending(w) /\ ShownAfter(w) /\ \A i \in DOMAIN w : w[i].what # "store"
  BY <1>1, <1>2 DEF Ascending, ShownAfter
<1> QED
  BY <1>1, <1>3, <1>4 DEF w

LEMMA NothingToDo ==
    /\ <<>> \in Seq(Steps) /\ ShownAfter(<<>>) /\ TextIds(<<>>) = {}
    /\ Ascending(<<>>) /\ Addressed(<<>>)
    /\ \A i \in DOMAIN <<>> : <<>>[i].what \notin {"store", "bundle"}
BY DEF ShownAfter, TextIds, Ascending, Addressed

-----------------------------------------------------------------------------
(* Types.                                                                  *)

UiOK ==
    /\ ui \in [screen : {"main", "search"}, focus : {"list", "chat"},
               list : Seq(People), sel : Nat, dialog : People \cup {None},
               found : People \cup {None}, shown : People \cup {None},
               view : SUBSET (Inbounds \cup Texts), opened : People \cup {None},
               read : BOOLEAN, replaced : BOOLEAN]
    /\ ui.sel = 0 <=> ui.list = <<>>
    /\ ui.sel <= Len(ui.list)

OrchOK ==
    /\ orch \in [fetching : Seq(Events), work : Seq(Steps), session : SUBSET People,
                 waiting : [People -> Seq(Inbounds)], bundles : SUBSET People, second : BOOLEAN,
                 older : SUBSET Tagged({"store", "show"}, Inbounds)]
    /\ Len(orch.fetching) <= 1 /\ (orch.fetching # <<>> => orch.work = <<>>)
    /\ Addressed(orch.fetching)
    /\ \A i \in DOMAIN orch.fetching : orch.fetching[i].what # "bundle"

QueuesOK ==
    /\ lookups \subseteq Lookups /\ internal \in Seq(Notices)
    /\ events \in Seq(Events) /\ cmds \in Seq(Commands)
    /\ Addressed(events)

DiskOK ==
    /\ contacts \subseteq People /\ stored \subseteq Inbounds /\ keys \subseteq People
    /\ sent \in Seq(Texts)

CountOK ==
    count \in [texts : 0..MaxTexts, inbound : 0..MaxInbound,
               lookups : 0..MaxLookups, upsets : 0..MaxUpsets]

LEMMA TypedParts == Typed <=> UiOK /\ OrchOK /\ QueuesOK /\ DiskOK /\ CountOK
BY DEF Typed, TypeOK, UiOK, OrchOK, QueuesOK, DiskOK, CountOK

\* What a step leaves alone keeps its type.
LEMMA Untouched ==
    /\ UiOK /\ UNCHANGED ui => UiOK'
    /\ OrchOK /\ UNCHANGED orch => OrchOK'
    /\ QueuesOK /\ UNCHANGED <<lookups, internal, events, cmds>> => QueuesOK'
    /\ DiskOK /\ UNCHANGED <<contacts, stored, keys, sent>> => DiskOK'
    /\ CountOK /\ UNCHANGED count => CountOK'
<1>1. UiOK /\ UNCHANGED ui => UiOK'
  BY DEF UiOK
<1>2. OrchOK /\ UNCHANGED orch => OrchOK'
  BY DEF OrchOK
<1>3. QueuesOK /\ UNCHANGED <<lookups, internal, events, cmds>> => QueuesOK'
  BY DEF QueuesOK, Addressed
<1>4. DiskOK /\ UNCHANGED <<contacts, stored, keys, sent>> => DiskOK'
  BY DEF DiskOK
<1>5. CountOK /\ UNCHANGED count => CountOK'
  BY DEF CountOK
<1> QED
  BY <1>1, <1>2, <1>3, <1>4, <1>5

\* The uses of a bound.
LEMMA CountTypes ==
    ASSUME CountOK
    PROVE  /\ count.texts < MaxTexts /\ Count("texts") =>
                 CountOK' /\ count'.texts = count.texts + 1
           /\ count.inbound < MaxInbound /\ Count("inbound") =>
                 CountOK' /\ count'.texts = count.texts
           /\ count.lookups < MaxLookups /\ Count("lookups") =>
                 CountOK' /\ count'.texts = count.texts
           /\ Upset => CountOK' /\ count'.texts = count.texts
           /\ UNCHANGED count => CountOK' /\ count'.texts = count.texts
BY ChatAssumption DEF CountOK, Count, Upset

LEMMA AttemptTypes ==
    ASSUME CountOK, NEW next, NEW new, NEW old, Attempt(next, new, old)
    PROVE  /\ next = new \/ next = old
           /\ CountOK' /\ count'.texts = count.texts
BY CountTypes DEF Attempt

LEMMA AddressedFacts ==
    ASSUME NEW S, NEW q \in Seq(S), Addressed(q)
    PROVE  /\ q # <<>> => Addressed(Tail(q))
           /\ q # <<>> /\ Head(q).what = "text" => Head(q).arg.peer # None
           /\ \A x \in S : (x.what = "text" => x.arg.peer # None)
                              => Addressed(Append(q, x))
<1>1. CASE q # <<>>
  <2> DEFINE t == Tail(q)
  <2>1. /\ DOMAIN q = 1..Len(q) /\ Len(q) \in Nat /\ Len(q) > 0
        /\ Head(q) = q[1] /\ DOMAIN t = 1..(Len(q) - 1)
        /\ \A i \in 1..(Len(q) - 1) : t[i] = q[i + 1]
    BY <1>1, QueueTypes
  <2> HIDE DEF t
  <2>2. \A i \in DOMAIN t : i + 1 \in DOMAIN q /\ t[i] = q[i + 1]
    BY <2>1
  <2>3. Addressed(t)
    BY <2>2 DEF Addressed
  <2>4. 1 \in DOMAIN q
    BY <2>1
  <2> QED
    BY <2>1, <2>3, <2>4 DEF Addressed, t
<1>2. ASSUME NEW x \in S, x.what = "text" => x.arg.peer # None
      PROVE  Addressed(Append(q, x))
  <2> DEFINE r == Append(q, x)
  <2>1. /\ DOMAIN r = 1..(Len(q) + 1) /\ DOMAIN q = 1..Len(q) /\ Len(q) \in Nat
        /\ \A i \in 1..Len(q) : r[i] = q[i]
        /\ r[Len(q) + 1] = x
    BY QueueTypes
  <2> HIDE DEF r
  <2>2. Addressed(r)
    BY <1>2, <2>1 DEF Addressed
  <2> QED
    BY <2>2 DEF r
<1> QED
  BY <1>1, <1>2

\* The selected contact.
LEMMA SelectedTypes ==
    ASSUME UiOK
    PROVE  /\ Selected \in People \cup {None}
           /\ ui.sel # 0 => Selected \in People /\ Selected = ui.list[ui.sel]
           /\ ui.sel = 0 => Selected = None
<1>1. ui.sel \in Nat /\ ui.list \in Seq(People) /\ ui.sel <= Len(ui.list)
  BY DEF UiOK
<1>2. ui.sel # 0 => ui.sel \in DOMAIN ui.list
  BY <1>1, QueueTypes
<1>3. ui.sel # 0 => ui.list[ui.sel] \in People
  BY <1>1, <1>2, QueueTypes
<1> QED
  BY <1>3 DEF Selected

\* The App and the orchestrator as a start of the program makes them.
LEMMA FreshTypes ==
    ASSUME NEW C \in SUBSET People, NEW known \in SetToSeqs(C)
    PROVE  /\ Fresh(known) \in
                 [screen : {"main", "search"}, focus : {"list", "chat"},
                  list : Seq(People), sel : Nat, dialog : People \cup {None},
                  found : People \cup {None}, shown : People \cup {None},
                  view : SUBSET (Inbounds \cup Texts), opened : People \cup {None},
                  read : BOOLEAN, replaced : BOOLEAN]
           /\ Fresh(known).sel = 0 <=> Fresh(known).list = <<>>
           /\ Fresh(known).sel <= Len(Fresh(known).list)
<1>1. known \in Seq(People) /\ (known # <<>> => 1 <= Len(known)) /\ Len(<<>>) = 0
  BY ListedInFull, EmptySeq
<1> QED
  BY <1>1 DEF Fresh, First

LEMMA LoadedTypes ==
    ASSUME NEW material \in SUBSET People
    PROVE  /\ Loaded(material) \in
                 [fetching : Seq(Events), work : Seq(Steps), session : SUBSET People,
                  waiting : [People -> Seq(Inbounds)], bundles : SUBSET People, second : BOOLEAN,
                 older : SUBSET Tagged({"store", "show"}, Inbounds)]
           /\ Loaded(material).fetching = <<>> /\ Loaded(material).work = <<>>
           /\ Loaded(material).older = {}
<1>1. /\ <<>> \in Seq(Events) /\ <<>> \in Seq(Steps) /\ <<>> \in Seq(Inbounds)
  BY EmptySeq
<1> QED
  BY <1>1 DEF Loaded

\* What an older orchestrator has still to do changes nothing else.
LEMMA OlderTypes ==
    ASSUME OrchOK, NEW older \in SUBSET Tagged({"store", "show"}, Inbounds),
           orch' = [orch EXCEPT !.older = older]
    PROVE  /\ OrchOK' /\ orch'.older = older
           /\ orch'.fetching = orch.fetching /\ orch'.work = orch.work
<1>1. /\ orch' \in [fetching : Seq(Events), work : Seq(Steps), session : SUBSET People,
                 waiting : [People -> Seq(Inbounds)], bundles : SUBSET People, second : BOOLEAN,
                 older : SUBSET Tagged({"store", "show"}, Inbounds)]
      /\ orch'.older = older
      /\ orch'.fetching = orch.fetching /\ orch'.work = orch.work
  BY DEF OrchOK
<1> QED
  BY <1>1 DEF OrchOK

\* What a second start leaves to the orchestrator that runs already.
LEMMA SecondTypes ==
    ASSUME OrchOK, QueuesOK, NEW material \in SUBSET People
    PROVE  /\ Second(material) \in
                 [fetching : Seq(Events), work : Seq(Steps), session : SUBSET People,
                 waiting : [People -> Seq(Inbounds)], bundles : SUBSET People, second : BOOLEAN,
                 older : SUBSET Tagged({"store", "show"}, Inbounds)]
           /\ Second(material).fetching = <<>> /\ Second(material).work = <<>>
           /\ Second(material).older =
                 orch.older \cup {Store(m) : m \in Undecrypted \cup ToStore}
                    \cup {Show(m) : m \in ToShow}
<1> DEFINE older == orch.older \cup {Store(m) : m \in Undecrypted \cup ToStore}
                       \cup {Show(m) : m \in ToShow}
<1>1. Undecrypted \subseteq Inbounds
  <2>1. \A x \in ToSet(cmds) : x \in Commands
    BY QueueTypes DEF QueuesOK, ToSet
  <2>2. Args(ToSet(cmds), "inbound") \subseteq Inbounds
    BY <2>1 DEF Args, Commands, Tagged
  <2>3. ASSUME NEW c \in People PROVE ToSet(orch.waiting[c]) \subseteq Inbounds
    <3>1. orch.waiting[c] \in Seq(Inbounds)
      BY DEF OrchOK
    <3> QED
      BY <3>1, QueueTypes DEF ToSet
  <2> QED
    BY <2>2, <2>3 DEF Undecrypted
<1>2. ToStore \subseteq Inbounds /\ ToShow \subseteq Inbounds
  <2>1. \A x \in ToSet(orch.work) : x \in Steps
    BY QueueTypes DEF OrchOK, ToSet
  <2>2. \A x \in Steps : x.what \in {"store", "show"} => x.arg \in Inbounds
    BY DEF Steps, Tagged
  <2> QED
    BY <2>1, <2>2 DEF ToStore, ToShow, Args
<1>3. older \subseteq Tagged({"store", "show"}, Inbounds)
  BY <1>1, <1>2 DEF OrchOK, Store, Show, Tagged
<1>4. Second(material) = [Loaded(material) EXCEPT !.second = TRUE, !.older = older]
  BY DEF Second
<1> HIDE DEF older
<1>5. /\ Second(material) \in
            [fetching : Seq(Events), work : Seq(Steps), session : SUBSET People,
                 waiting : [People -> Seq(Inbounds)], bundles : SUBSET People, second : BOOLEAN,
                 older : SUBSET Tagged({"store", "show"}, Inbounds)]
      /\ Second(material).fetching = <<>> /\ Second(material).work = <<>>
      /\ Second(material).older = older
  BY <1>3, <1>4, LoadedTypes
<1> QED
  BY <1>5 DEF older

\* A session is opened.
LEMMA EstablishFacts ==
    ASSUME OrchOK, NEW c \in People, NEW then \in Seq(Steps),
           \A i \in DOMAIN then : then[i].what # "store",
           Establish(c, then)
    PROVE  /\ OrchOK' /\ orch'.fetching = <<>>
           /\ ShownAfter(orch'.work)
           /\ TextIds(orch'.work) = TextIds(then)
           /\ Ascending(then) => Ascending(orch'.work)
<1> DEFINE w == Surfaced(orch.waiting[c]) \o <<Save(c)>> \o then
<1>1. orch.waiting[c] \in Seq(Inbounds)
  BY DEF OrchOK
<1>2. /\ w \in Seq(Steps) /\ ShownAfter(w) /\ TextIds(w) = TextIds(then)
      /\ Ascending(then) => Ascending(w)
  BY <1>1, EstablishedWork
<1>3. orch' = [orch EXCEPT !.fetching = <<>>, !.session = @ \cup {c},
                  !.waiting[c] = <<>>, !.work = w]
  BY DEF Establish
<1> HIDE DEF w
<1>4. orch'.fetching = <<>> /\ orch'.work = w
  BY <1>3 DEF OrchOK
<1>5. /\ <<>> \in Seq(Events) /\ <<>> \in Seq(Inbounds) /\ Len(<<>>) = 0
  BY EmptySeq
<1>6. OrchOK'
  <2>1. orch' \in [fetching : Seq(Events), work : Seq(Steps),
                   session : SUBSET People, waiting : [People -> Seq(Inbounds)],
                   bundles : SUBSET People, second : BOOLEAN,
                 older : SUBSET Tagged({"store", "show"}, Inbounds)]
    BY <1>2, <1>3, <1>5 DEF OrchOK
  <2> QED
    BY <1>4, <1>5, <2>1, NothingToDo DEF OrchOK
<1> QED
  BY <1>2, <1>4, <1>6

\* A contact is added.
LEMMA FinishAddTypes ==
    ASSUME UiOK, QueuesOK, DiskOK, CountOK, NEW c \in People, FinishAdd(c)
    PROVE  /\ UiOK' /\ DiskOK' /\ CountOK'
           /\ events' \in Seq(Events) /\ Addressed(events')
<1>1. /\ ui' = [ui EXCEPT !.list = Append(@, c), !.sel = IF @ = 0 THEN 1 ELSE @,
                  !.found = None, !.screen = "main"]
      /\ events' = Append(events, Open(c))
      /\ UNCHANGED <<cmds, orch, stored, keys, sent>>
  BY DEF FinishAdd
<1>2. contacts' \in {contacts, contacts \cup {c}} /\ CountOK'
  BY AttemptTypes DEF FinishAdd
<1>3. /\ Append(ui.list, c) \in Seq(People)
      /\ Len(Append(ui.list, c)) = Len(ui.list) + 1 /\ Len(ui.list) \in Nat
      /\ Append(ui.list, c) # <<>>
  <2>1. ui.list \in Seq(People)
    BY DEF UiOK
  <2>2. /\ Append(ui.list, c) \in Seq(People) /\ Len(ui.list) \in Nat
        /\ Len(Append(ui.list, c)) = Len(ui.list) + 1
    BY <2>1, QueueTypes
  <2>3. Len(<<>>) = 0
    BY EmptySeq
  <2> QED
    BY <2>2, <2>3
<1>4. UiOK'
  <2>1. ui.sel \in Nat /\ ui.sel <= Len(ui.list)
    BY DEF UiOK
  <2>2. ui' \in [screen : {"main", "search"}, focus : {"list", "chat"},
               list : Seq(People), sel : Nat, dialog : People \cup {None},
               found : People \cup {None}, shown : People \cup {None},
               view : SUBSET (Inbounds \cup Texts), opened : People \cup {None},
               read : BOOLEAN, replaced : BOOLEAN]
    BY <1>1, <1>3 DEF UiOK
  <2>3. /\ ui'.list = Append(ui.list, c)
        /\ ui'.sel = IF ui.sel = 0 THEN 1 ELSE ui.sel
    BY <1>1 DEF UiOK
  <2>4. ui'.sel # 0 /\ ui'.sel <= Len(ui'.list) /\ ui'.list # <<>>
    BY <1>3, <2>1, <2>3
  <2> QED
    BY <2>2, <2>4 DEF UiOK
<1>5. Open(c) \in Events /\ Open(c).what # "text"
  BY ItemTypes DEF Open
<1>6. events' \in Seq(Events) /\ Addressed(events')
  BY <1>1, <1>5, QueueTypes, AddressedFacts DEF QueuesOK
<1> QED
  BY <1>1, <1>2, <1>4, <1>6 DEF DiskOK

\* A step of the orchestrator's work.
LEMMA WorkTypes ==
    ASSUME OrchOK, NEW what, Step(what)
    PROVE  /\ OrchOK' /\ orch.work \in Seq(Steps) /\ orch.work # <<>>
           /\ Head(orch.work) \in Steps /\ Head(orch.work).what = what
           /\ orch'.work = Tail(orch.work) /\ orch'.fetching = orch.fetching
           /\ orch.fetching = <<>>
<1>1. /\ orch.work \in Seq(Steps) /\ orch.work # <<>> /\ Head(orch.work).what = what
      /\ orch' = [orch EXCEPT !.work = Tail(orch.work)]
  BY DEF OrchOK, Step
<1>2. Head(orch.work) \in Steps /\ Tail(orch.work) \in Seq(Steps)
  BY <1>1, QueueTypes
<1> QED
  BY <1>1, <1>2 DEF OrchOK

\* Taking an event or a command: the orchestrator has nothing in hand.
LEMMA TakeTypes ==
    ASSUME OrchOK, QueuesOK
    PROVE  /\ Command => /\ cmds # <<>> /\ Head(cmds) \in Commands
                         /\ cmds' \in Seq(Commands) /\ Idle
           /\ \A what : NextEvent(what) =>
                 /\ events # <<>> /\ Head(events) \in Events /\ Idle
                 /\ Head(events).what = what
                 /\ events' \in Seq(Events) /\ Addressed(events')
                 /\ what = "text" => Head(events).arg.peer # None
<1>1. cmds \in Seq(Commands) /\ events \in Seq(Events) /\ Addressed(events)
  BY DEF QueuesOK
<1>2. cmds # <<>> => Head(cmds) \in Commands /\ Tail(cmds) \in Seq(Commands)
  BY <1>1, QueueTypes
<1>3. events # <<>> => Head(events) \in Events /\ Tail(events) \in Seq(Events)
  BY <1>1, QueueTypes
<1>4. events # <<>> => /\ Addressed(Tail(events))
                       /\ Head(events).what = "text" => Head(events).arg.peer # None
  BY <1>1, AddressedFacts
<1> QED
  BY <1>2, <1>3, <1>4 DEF Command, NextEvent

\* The keys of the user leave the orchestrator and the tables alone.
LEMMA UserTyped ==
    ASSUME UiOK, OrchOK, QueuesOK, DiskOK, CountOK, User
    PROVE  UiOK' /\ OrchOK' /\ QueuesOK' /\ DiskOK' /\ CountOK'
<1> USE DEF OnlyUi, queues, disk
<1>1. CASE MoveSelection
  <2>1. PICK i \in {ui.sel - 1, ui.sel + 1} \cap DOMAIN ui.list :
                ui' = [ui EXCEPT !.sel = i]
    BY <1>1 DEF MoveSelection
  <2>2. i \in Nat /\ i # 0 /\ i <= Len(ui.list) /\ ui.list # <<>>
    BY QueueTypes, EmptySeq DEF UiOK
  <2>3. UiOK'
    BY <2>1, <2>2 DEF UiOK
  <2> QED
    BY <1>1, <2>3 DEF MoveSelection, OrchOK, QueuesOK, DiskOK, CountOK
<1>2. CASE OpenChat
  <2>1. UNCHANGED <<lookups, internal, cmds, orch, contacts, stored, keys, sent>>
    BY <1>2 DEF OpenChat
  <2>2. CASE Selected = None
    <3>1. /\ UNCHANGED <<events, count>>
          /\ ui' = [ui EXCEPT !.focus = "chat"]
      BY <1>2, <2>2 DEF OpenChat
    <3> QED
      BY <2>1, <3>1 DEF UiOK, OrchOK, QueuesOK, DiskOK, CountOK
  <2>3. CASE Selected # None
    <3> DEFINE c == Selected
    <3>1. c \in People
      BY <2>3, SelectedTypes
    <3>2. /\ events' = Append(events, Open(c))
          /\ \E loaded \in {c, None} :
                /\ ui' = [ui EXCEPT !.focus = "chat", !.shown = c, !.opened = loaded,
                            !.replaced = FALSE, !.view = {m \in stored : m.peer = loaded}]
                /\ IF loaded = c THEN UNCHANGED count ELSE Upset
      BY <1>2, <2>3 DEF OpenChat
    <3> HIDE DEF c
    <3>3. UiOK' /\ CountOK'
      <4> PICK loaded \in {c, None} :
                /\ ui' = [ui EXCEPT !.focus = "chat", !.shown = c, !.opened = loaded,
                            !.replaced = FALSE, !.view = {m \in stored : m.peer = loaded}]
                /\ IF loaded = c THEN UNCHANGED count ELSE Upset
        BY <3>2
      <4> DEFINE rows == {m \in stored : m.peer = loaded}
      <4>1. rows \in SUBSET (Inbounds \cup Texts) /\ loaded \in People \cup {None}
        BY <3>1 DEF DiskOK
      <4>2. ui' = [ui EXCEPT !.focus = "chat", !.shown = c, !.opened = loaded,
                            !.replaced = FALSE, !.view = rows]
        OBVIOUS
      <4> HIDE DEF rows
      <4>3. UiOK'
        BY <3>1, <4>1, <4>2 DEF UiOK
      <4> QED
        BY <4>3, CountTypes
    <3>4. Open(c) \in Events /\ Open(c).what # "text"
      BY <3>1, ItemTypes DEF Open
    <3>5. events' \in Seq(Events) /\ Addressed(events')
      BY <3>2, <3>4, QueueTypes, AddressedFacts DEF QueuesOK
    <3> QED
      BY <2>1, <3>3, <3>5 DEF OrchOK, QueuesOK, DiskOK
  <2> QED
    BY <2>2, <2>3
<1>3. CASE LeaveChat \/ AskDelete \/ CancelDelete \/ OpenSearch \/ EditSearch
  <2>1. UiOK'
    BY <1>3, SelectedTypes
       DEF LeaveChat, AskDelete, CancelDelete, OpenSearch, EditSearch, UiOK
  <2> QED
    BY <1>3, <2>1 DEF LeaveChat, AskDelete, CancelDelete, OpenSearch, EditSearch,
       OrchOK, QueuesOK, DiskOK, CountOK
<1>4. CASE Send
  <2> DEFINE t == [kind |-> "sent", id |-> count.texts + 1, peer |-> Selected]
  <2>1. /\ count.texts < MaxTexts
        /\ events' = IF Selected = None THEN events ELSE Append(events, Text(t))
        /\ ui' = [ui EXCEPT !.view = @ \cup {t}]
        /\ Count("texts")
        /\ UNCHANGED <<lookups, internal, cmds, orch, contacts, stored, keys, sent>>
    BY <1>4 DEF Send
  <2>2. t \in Texts /\ t.peer = Selected
    BY <2>1, SelectedTypes, ChatAssumption DEF Texts, CountOK
  <2> HIDE DEF t
  <2>3. UiOK' /\ CountOK'
    <3>1. UiOK'
      BY <2>1, <2>2 DEF UiOK
    <3> QED
      BY <2>1, <3>1, CountTypes
  <2>4. Text(t) \in Events /\ Text(t).arg = t
    BY <2>2, ItemTypes DEF Text
  <2>5. events' \in Seq(Events) /\ Addressed(events')
    BY <2>1, <2>2, <2>4, QueueTypes, AddressedFacts DEF QueuesOK
  <2> QED
    BY <2>1, <2>3, <2>5 DEF OrchOK, QueuesOK, DiskOK
<1>5. CASE DeleteFails
  <2>1. /\ UNCHANGED <<lookups, internal, events, cmds, orch, keys, sent>>
        /\ ui' = [ui EXCEPT !.dialog = None]
        /\ contacts' \subseteq contacts /\ stored' \subseteq stored /\ Upset
    BY <1>5 DEF DeleteFails
  <2> QED
    BY <2>1, CountTypes DEF UiOK, OrchOK, QueuesOK, DiskOK
<1>6. CASE ConfirmDelete
  <2> DEFINE c == ui.dialog
             l == Unlisted(c)
             gone == c \notin ToSet(l.list)
             shown == IF ~gone THEN ui.shown
                      ELSE IF l.sel = 0 THEN None ELSE l.list[l.sel]
             f == [what |-> "forget", arg |-> c]
  <2>1. /\ contacts' = contacts \ {c} /\ keys' = keys \ {c}
        /\ stored' = {m \in stored : m.peer # c}
        /\ cmds' = Append(cmds, f)
        /\ ui' = [ui EXCEPT !.dialog = None, !.list = l.list, !.sel = l.sel,
                   !.view   = IF gone THEN {} ELSE ui.view,
                   !.opened = IF gone THEN None ELSE ui.opened,
                   !.shown  = shown]
        /\ UNCHANGED <<lookups, internal, events, orch, sent, count>>
    BY <1>6 DEF ConfirmDelete, UiOK
  <2>2. c \in People /\ f \in Commands
    BY <1>6 DEF ConfirmDelete, UiOK, Commands, Tagged
  <2>3. /\ l.list \in Seq(People) /\ l.sel \in Nat
        /\ l.sel = 0 <=> l.list = <<>>
        /\ l.sel <= Len(l.list)
    BY <2>2, UnlistedFacts DEF TypeOK, UiOK, OrchOK, QueuesOK, DiskOK, CountOK
  <2> HIDE DEF l, f
  <2>4. l.sel # 0 => l.list[l.sel] \in People
    BY <2>3, QueueTypes
  <2>5. shown \in People \cup {None}
    BY <2>4 DEF UiOK
  <2> HIDE DEF shown, gone, c
  <2>6. UiOK'
    BY <2>1, <2>3, <2>5 DEF UiOK
  <2>7. cmds' \in Seq(Commands)
    BY <2>1, <2>2, QueueTypes DEF QueuesOK
  <2> QED
    BY <2>1, <2>6, <2>7 DEF OrchOK, QueuesOK, DiskOK, CountOK
<1>7. CASE AddFound
  <2>1. ui.found \in People /\ FinishAdd(ui.found)
        /\ UNCHANGED <<lookups, internal, cmds, orch>>
    BY <1>7 DEF AddFound, FinishAdd, UiOK
  <2> QED
    BY <2>1, FinishAddTypes DEF OrchOK, QueuesOK
<1>8. CASE \E what \in {"search", "invite"}, c \in People : SubmitSearch(what, c)
  <2> PICK what \in {"search", "invite"}, c \in People : SubmitSearch(what, c)
    BY <1>8
  <2>1. [id |-> count.lookups + 1, what |-> what, who |-> c] \in Lookups
    BY ChatAssumption DEF SubmitSearch, CountOK, Lookups
  <2> QED
    BY <2>1, CountTypes DEF SubmitSearch, UiOK, OrchOK, QueuesOK, DiskOK
<1> QED
  BY <1>1, <1>2, <1>3, <1>4, <1>5, <1>6, <1>7, <1>8 DEF User

\* The server's answers, and what handle_internal makes of the queue.
LEMMA AnswersTyped ==
    ASSUME UiOK, OrchOK, QueuesOK, DiskOK, CountOK, Server \/ Internal
    PROVE  UiOK' /\ OrchOK' /\ QueuesOK' /\ DiskOK' /\ CountOK'
<1> USE DEF queues, disk
<1>1. internal \in Seq(Notices) /\ cmds \in Seq(Commands) /\ lookups \subseteq Lookups
  BY DEF QueuesOK
<1>2. ASSUME NEW c \in People, Arrive(c)
      PROVE  UiOK' /\ OrchOK' /\ QueuesOK' /\ DiskOK' /\ CountOK'
  <2> DEFINE m == [kind |-> "received", id |-> count.inbound + 1, peer |-> c]
  <2>1. /\ count.inbound < MaxInbound /\ Count("inbound")
        /\ \/ cmds' = Append(cmds, [what |-> "inbound", arg |-> m]) /\ UNCHANGED orch
           \/ orch' = [orch EXCEPT !.older = @ \cup {Store(m)}] /\ UNCHANGED cmds
        /\ UNCHANGED <<ui, lookups, internal, events, contacts, stored, keys, sent>>
    BY <1>2 DEF Arrive
  <2>2. m \in Inbounds
    BY <2>1, ChatAssumption DEF CountOK, Inbounds
  <2> HIDE DEF m
  <2>3. [what |-> "inbound", arg |-> m] \in Commands
    BY <2>2 DEF Commands, Tagged
  <2>4. cmds' \in Seq(Commands)
    <3>1. Append(cmds, [what |-> "inbound", arg |-> m]) \in Seq(Commands)
      BY <1>1, <2>3, QueueTypes
    <3> QED
      BY <1>1, <2>1, <3>1
  <2>5. OrchOK'
    <3>1. Store(m) \in Tagged({"store", "show"}, Inbounds)
      BY <2>2 DEF Store, Tagged
    <3>2. CASE UNCHANGED orch
      BY <3>2 DEF OrchOK
    <3>3. CASE orch' = [orch EXCEPT !.older = @ \cup {Store(m)}]
      <4> DEFINE older == orch.older \cup {Store(m)}
      <4>1. older \subseteq Tagged({"store", "show"}, Inbounds)
        BY <3>1 DEF OrchOK
      <4>2. orch' = [orch EXCEPT !.older = older]
        BY <3>3
      <4> HIDE DEF older
      <4> QED
        BY <4>1, <4>2, OlderTypes
    <3> QED
      BY <2>1, <3>2, <3>3
  <2> QED
    BY <2>1, <2>4, <2>5, CountTypes DEF UiOK, QueuesOK, DiskOK
<1>3. ASSUME NEW l \in lookups, LookupAnswers(l)
      PROVE  UiOK' /\ OrchOK' /\ QueuesOK' /\ DiskOK' /\ CountOK'
  <2>1. l.what \in {"search", "invite"} /\ l.who \in People
    BY <1>1 DEF Lookups
  <2>2. PICK who \in {l.who} \cup (IF l.what = "search" THEN {None} ELSE {}) :
            internal' = Append(internal, [what |-> l.what, arg |-> who])
    BY <1>3 DEF LookupAnswers
  <2>3. [what |-> l.what, arg |-> who] \in Notices
    BY <2>1, <2>2 DEF Notices, Tagged
  <2>4. internal' \in Seq(Notices)
    BY <1>1, <2>2, <2>3, QueueTypes
  <2>5. lookups' \subseteq Lookups
    BY <1>1, <1>3 DEF LookupAnswers
  <2> QED
    BY <1>3, <2>4, <2>5, Untouched DEF LookupAnswers, QueuesOK
<1>4. ASSUME NEW l \in lookups, LookupFails(l)
      PROVE  UiOK' /\ OrchOK' /\ QueuesOK' /\ DiskOK' /\ CountOK'
  <2>1. lookups' \subseteq Lookups
    BY <1>1, <1>4 DEF LookupFails
  <2> QED
    BY <1>4, <2>1, Untouched DEF LookupFails, QueuesOK
<1> DEFINE n == Head(internal)
<1>5. internal # <<>> => n \in Notices /\ Tail(internal) \in Seq(Notices)
  BY <1>1, QueueTypes
<1>6. internal # <<>> =>
         /\ n.what = "show" => n.arg \in Inbounds
         /\ n.what = "search" => n.arg \in People \cup {None}
         /\ n.what = "invite" => n.arg \in People
  BY <1>5 DEF Notices, Tagged
<1> HIDE DEF n
<1>7. CASE ShowMessage
  <2>1. ui' = [ui EXCEPT !.view = @ \cup {n.arg}] /\ n.arg \in Inbounds
        /\ internal' \in Seq(Notices)
    BY <1>5, <1>6, <1>7 DEF ShowMessage, n
  <2>2. UiOK'
    BY <2>1 DEF UiOK
  <2> QED
    BY <1>7, <2>1, <2>2 DEF ShowMessage, OrchOK, QueuesOK, DiskOK, CountOK
<1>8. CASE ShowFound
  <2>1. ui' = [ui EXCEPT !.found = n.arg] /\ n.arg \in People \cup {None}
        /\ internal' \in Seq(Notices)
    BY <1>5, <1>6, <1>8 DEF ShowFound, n
  <2>2. UiOK'
    BY <2>1 DEF UiOK
  <2> QED
    BY <1>8, <2>1, <2>2 DEF ShowFound, OrchOK, QueuesOK, DiskOK, CountOK
<1>9. CASE InviteAccepted
  <2>1. n.arg \in People /\ FinishAdd(n.arg) /\ internal' \in Seq(Notices)
        /\ UNCHANGED <<lookups, cmds, orch>>
    BY <1>5, <1>6, <1>9 DEF InviteAccepted, FinishAdd, n
  <2> QED
    BY <2>1, FinishAddTypes DEF OrchOK, QueuesOK
<1> QED
  BY <1>2, <1>3, <1>4, <1>7, <1>8, <1>9 DEF Server, Internal

\* The ways of putting the event or command in hand down, or of taking it up.
LEMMA HandTypes ==
    ASSUME OrchOK
    PROVE  /\ orch' = [orch EXCEPT !.fetching = <<>>] => OrchOK'
           /\ \A w \in Seq(Steps) :
                 Idle /\ orch' = [orch EXCEPT !.work = w] => OrchOK'
           /\ \A e \in Events :
                 /\ Idle /\ orch' = [orch EXCEPT !.fetching = <<e>>]
                 /\ e.what # "bundle" /\ (e.what = "text" => e.arg.peer # None)
                 => OrchOK'
<1> DEFINE Type == [fetching : Seq(Events), work : Seq(Steps),
                    session : SUBSET People, waiting : [People -> Seq(Inbounds)],
                    bundles : SUBSET People, second : BOOLEAN,
                 older : SUBSET Tagged({"store", "show"}, Inbounds)]
<1>0. orch \in Type
  BY DEF OrchOK
<1>1. ASSUME orch' = [orch EXCEPT !.fetching = <<>>] PROVE OrchOK'
  <2>1. orch' \in Type /\ orch'.fetching = <<>>
    BY <1>0, <1>1, EmptySeq
  <2> QED
    BY <2>1, NothingToDo, EmptySeq DEF OrchOK
<1>2. ASSUME NEW w \in Seq(Steps), Idle, orch' = [orch EXCEPT !.work = w]
      PROVE  OrchOK'
  <2>1. orch' \in Type /\ orch'.fetching = <<>>
    BY <1>0, <1>2 DEF Idle
  <2> QED
    BY <2>1, NothingToDo, EmptySeq DEF OrchOK
<1>3. ASSUME NEW e \in Events, Idle, orch' = [orch EXCEPT !.fetching = <<e>>],
             e.what # "bundle", e.what = "text" => e.arg.peer # None
      PROVE  OrchOK'
  <2>1. <<e>> \in Seq(Events) /\ Len(<<e>>) = 1 /\ DOMAIN <<e>> = {1} /\ <<e>>[1] = e
    OBVIOUS
  <2>2. orch' \in Type /\ orch'.fetching = <<e>> /\ orch'.work = <<>>
    BY <1>0, <1>3, <2>1 DEF Idle
  <2>3. Addressed(orch'.fetching)
    BY <1>3, <2>1, <2>2 DEF Addressed
  <2>4. \A i \in DOMAIN orch'.fetching : orch'.fetching[i].what # "bundle"
    BY <1>3, <2>1, <2>2
  <2> HIDE DEF Type
  <2>5. Len(orch'.fetching) <= 1
    BY <2>1, <2>2
  <2> QED
    BY <2>2, <2>3, <2>4, <2>5 DEF OrchOK, Type
<1> QED
  BY <1>1, <1>2, <1>3

LEMMA OrchestratorTyped ==
    ASSUME UiOK, OrchOK, QueuesOK, DiskOK, CountOK,
           Orchestrator \/ \E c \in People : BundleTask(c)
    PROVE  UiOK' /\ OrchOK' /\ QueuesOK' /\ DiskOK' /\ CountOK'
<1> USE DEF queues, disk
<1> DEFINE e == Head(events)
           d == Head(cmds)
<1>1. CASE ForgetContact
  <2>1. Command /\ d.what = "forget" /\ d \in Commands /\ cmds' \in Seq(Commands)
    BY <1>1, TakeTypes DEF ForgetContact
  <2>2. d.arg \in People
    BY <2>1 DEF Commands, Tagged
  <2>3. /\ orch' = [orch EXCEPT !.session = @ \ {d.arg}, !.waiting[d.arg] = <<>>]
        /\ Attempt(keys', keys \ {d.arg}, keys)
        /\ UNCHANGED <<ui, lookups, internal, events, contacts, stored, sent>>
    BY <1>1 DEF ForgetContact
  <2> HIDE DEF d
  <2>4. <<>> \in Seq(Inbounds)
    BY EmptySeq
  <2>5. OrchOK'
    BY <2>2, <2>3, <2>4 DEF OrchOK
  <2>6. keys' \in {keys, keys \ {d.arg}} /\ CountOK'
    BY <2>3, AttemptTypes
  <2> QED
    BY <2>1, <2>3, <2>5, <2>6 DEF UiOK, QueuesOK, DiskOK
<1>2. CASE StreamMessage
  <2>1. Command /\ d.what = "inbound" /\ d \in Commands /\ cmds' \in Seq(Commands)
        /\ orch.work = <<>> /\ orch.fetching = <<>>
    BY <1>2, TakeTypes DEF StreamMessage, Idle
  <2> DEFINE m == d.arg
  <2>2. m \in Inbounds /\ m.peer \in People
    BY <2>1 DEF Commands, Tagged, Inbounds
  <2>3. /\ orch' = IF m.peer \in orch.session
               THEN [orch EXCEPT !.work = Surface(m) \o <<Save(m.peer)>>]
               ELSE [orch EXCEPT !.waiting[m.peer] = Append(@, m),
                                 !.bundles = @ \cup {m.peer}]
        /\ UNCHANGED <<ui, lookups, internal, events, contacts, stored, keys, sent, count>>
    BY <1>2 DEF StreamMessage
  <2> HIDE DEF m
  <2>4. Surface(m) \o <<Save(m.peer)>> \in Seq(Steps)
    BY <2>2, DecryptedWork
  <2>5. Append(orch.waiting[m.peer], m) \in Seq(Inbounds)
    BY <2>2, QueueTypes DEF OrchOK
  <2>6. OrchOK'
    BY <2>1, <2>2, <2>3, <2>4, <2>5 DEF OrchOK
  <2> QED
    BY <2>1, <2>3, <2>6 DEF UiOK, QueuesOK, DiskOK, CountOK
<1>3. ASSUME NEW c \in People, BundleTask(c)
      PROVE  UiOK' /\ OrchOK' /\ QueuesOK' /\ DiskOK' /\ CountOK'
  <2>1. Bundle(c) \in Events /\ Bundle(c).what # "text"
    BY <1>3, ItemTypes DEF Bundle
  <2>2. Append(events, Bundle(c)) \in Seq(Events) /\ Addressed(Append(events, Bundle(c)))
    BY <2>1, QueueTypes, AddressedFacts DEF QueuesOK
  <2>3. OrchOK'
    BY <1>3 DEF BundleTask, OrchOK
  <2> QED
    BY <1>3, <2>2, <2>3 DEF BundleTask, UiOK, QueuesOK, DiskOK, CountOK
<1>4. CASE KeyBundleFetched \/ ActiveChatChanged \/ OutgoingMessage
  <2>1. /\ e \in Events /\ Idle
        /\ events' \in Seq(Events) /\ Addressed(events')
        /\ UNCHANGED <<ui, lookups, internal, cmds, contacts, stored, keys, sent, count>>
    BY <1>4, TakeTypes DEF KeyBundleFetched, ActiveChatChanged, OutgoingMessage
  <2>4. CASE KeyBundleFetched
    <3>1. e.what = "bundle" /\ e.arg \in People
      BY <2>1, <2>4 DEF KeyBundleFetched, NextEvent, Events, Tagged
    <3>2. OrchOK'
      <4>1. CASE UNCHANGED orch
        BY <4>1 DEF OrchOK
      <4>2. CASE Establish(e.arg, <<>>)
        BY <3>1, <4>2, NothingToDo, EstablishFacts
      <4> QED
        BY <2>4, <4>1, <4>2 DEF KeyBundleFetched
    <3> QED
      BY <2>1, <3>2 DEF UiOK, QueuesOK, DiskOK, CountOK
  <2>5. CASE ActiveChatChanged
    <3>1. e.what = "open"
      BY <2>5 DEF ActiveChatChanged, NextEvent
    <3>2. orch' = IF e.arg \in orch.session THEN orch
                  ELSE [orch EXCEPT !.fetching = <<e>>]
      BY <2>5 DEF ActiveChatChanged
    <3> HIDE DEF e
    <3>3. OrchOK'
      <4>1. CASE UNCHANGED orch
        BY <4>1 DEF OrchOK
      <4>2. CASE orch' = [orch EXCEPT !.fetching = <<e>>]
        BY <2>1, <3>1, <4>2, HandTypes DEF e
      <4> QED
        BY <3>2, <4>1, <4>2
    <3> QED
      BY <2>1, <3>3 DEF UiOK, QueuesOK, DiskOK, CountOK
  <2>6. CASE OutgoingMessage
    <3> DEFINE t == e.arg
    <3>1. e.what = "text" /\ t.peer # None
      BY <2>6, TakeTypes DEF OutgoingMessage, NextEvent
    <3>2. t \in Texts /\ t.peer \in People
      BY <2>1, <3>1 DEF Events, Tagged, Texts
    <3>3. orch' = IF t.peer \in orch.session
               THEN [orch EXCEPT !.work = <<Text(t), Save(t.peer)>>]
               ELSE [orch EXCEPT !.fetching = <<e>>]
      BY <2>6 DEF OutgoingMessage
    <3>4. <<Text(t), Save(t.peer)>> \in Seq(Steps)
      BY <3>2, ItemTypes
    <3> HIDE DEF e
    <3>5. OrchOK'
      <4>1. CASE orch' = [orch EXCEPT !.work = <<Text(t), Save(t.peer)>>]
        <5> HIDE DEF t
        <5> QED
          BY <2>1, <3>4, <4>1, HandTypes
      <4>2. CASE orch' = [orch EXCEPT !.fetching = <<e>>]
        BY <2>1, <3>1, <4>2, HandTypes DEF e
      <4> QED
        BY <3>3, <4>1, <4>2
    <3> QED
      BY <2>1, <3>5 DEF UiOK, QueuesOK, DiskOK, CountOK
  <2> QED
    BY <1>4, <2>4, <2>5, <2>6
<1>5. CASE FetchSucceeds
  <2> DEFINE f == Head(orch.fetching)
  <2>1. f \in Events /\ f = orch.fetching[1] /\ 1 \in DOMAIN orch.fetching
    BY <1>5, QueueTypes DEF FetchSucceeds, OrchOK
  <2>2. f.what # "bundle" /\ (f.what = "text" => f.arg.peer # None)
    BY <2>1 DEF OrchOK, Addressed
  <2>3. IF f.what = "open" THEN Establish(f.arg, <<>>)
        ELSE Establish(f.arg.peer, <<f, Save(f.arg.peer)>>)
    BY <1>5 DEF FetchSucceeds
  <2> HIDE DEF f
  <2>4. \/ f.what = "open" /\ f.arg \in People
        \/ f.what = "text" /\ f.arg \in Texts /\ f.arg.peer \in People /\ f \in Steps
    BY <2>1, <2>2 DEF Events, Tagged, Texts, Steps
  <2>5. OrchOK'
    <3>1. CASE f.what = "open"
      BY <2>3, <2>4, <3>1, NothingToDo, EstablishFacts
    <3>2. CASE f.what = "text"
      <4> DEFINE then == <<f, Save(f.arg.peer)>>
      <4>1. then \in Seq(Steps) /\ \A i \in DOMAIN then : then[i].what # "store"
        BY <2>4, <3>2, TextWork
      <4>2. Establish(f.arg.peer, then) /\ f.arg.peer \in People
        BY <2>3, <2>4, <3>2
      <4> HIDE DEF then
      <4> QED
        BY <4>1, <4>2, EstablishFacts
    <3> QED
      BY <2>4, <3>1, <3>2
  <2> QED
    BY <1>5, <2>5 DEF FetchSucceeds, UiOK, QueuesOK, DiskOK, CountOK
<1>6. CASE FetchFails
  <2>1. OrchOK'
    BY <1>6, HandTypes DEF FetchFails
  <2> QED
    BY <1>6, <2>1 DEF FetchFails, UiOK, QueuesOK, DiskOK, CountOK
<1> DEFINE h == Head(orch.work)
<1>7. CASE StoreInbound
  <2>1. OrchOK' /\ h \in Steps /\ h.what = "store"
    BY <1>7, WorkTypes DEF StoreInbound
  <2>2. h.arg \in Inbounds
    BY <2>1 DEF Steps, Tagged
  <2>3. stored' \in {stored, stored \cup {h.arg}} /\ CountOK'
    BY <1>7, AttemptTypes DEF StoreInbound
  <2> QED
    BY <1>7, <2>1, <2>2, <2>3 DEF StoreInbound, UiOK, QueuesOK, DiskOK
<1>8. CASE Notify
  <2>1. OrchOK' /\ h \in Steps /\ h.what = "show"
    BY <1>8, WorkTypes DEF Notify
  <2>2. h \in Notices
    BY <2>1 DEF Steps, Notices, Tagged
  <2>3. internal' \in Seq(Notices)
    BY <1>8, <2>2, QueueTypes DEF Notify, QueuesOK
  <2> QED
    BY <1>8, <2>1, <2>3 DEF Notify, UiOK, QueuesOK, DiskOK, CountOK
<1>9. CASE SaveSession
  <2>1. OrchOK' /\ h \in Steps /\ h.what = "save"
    BY <1>9, WorkTypes DEF SaveSession
  <2>2. h.arg \in People
    BY <2>1 DEF Steps, Tagged
  <2>3. keys' \in {keys, keys \cup {h.arg}} /\ CountOK'
    BY <1>9, AttemptTypes DEF SaveSession
  <2> QED
    BY <1>9, <2>1, <2>2, <2>3 DEF SaveSession, UiOK, QueuesOK, DiskOK
<1>10. CASE SendEncrypted
  <2>1. OrchOK' /\ h \in Steps /\ h.what = "text"
    BY <1>10, WorkTypes DEF SendEncrypted
  <2>2. h.arg \in Texts
    BY <2>1 DEF Steps, Tagged
  <2>3. sent' \in Seq(Texts)
    BY <1>10, <2>2, QueueTypes DEF SendEncrypted, DiskOK
  <2> QED
    BY <1>10, <2>1, <2>3 DEF SendEncrypted, UiOK, QueuesOK, DiskOK, CountOK
<1> QED
  BY <1>1, <1>2, <1>3, <1>4, <1>5, <1>6, <1>7, <1>8, <1>9, <1>10 DEF Orchestrator

LEMMA InitTyped == Init => Typed
<1> SUFFICES ASSUME Init PROVE UiOK /\ OrchOK /\ QueuesOK /\ DiskOK /\ CountOK
  BY TypedParts
<1>1. UiOK
  BY FreshTypes, ChatAssumption DEF Init, UiOK
<1>2. keys \in SUBSET People /\ contacts \subseteq People
  BY ChatAssumption DEF Init
<1>3. OrchOK
  <2>1. orch = Loaded(keys) /\ Len(<<>>) = 0
    BY EmptySeq DEF Init
  <2>2. orch.fetching = <<>> /\ orch.work = <<>>
    BY <1>2, <2>1, LoadedTypes
  <2> QED
    BY <1>2, <2>1, <2>2, LoadedTypes, NothingToDo DEF OrchOK
<1>4. QueuesOK
  BY NothingToDo, EmptySeq DEF Init, QueuesOK
<1>5. DiskOK
  BY <1>2, EmptySeq DEF Init, DiskOK
<1>6. CountOK
  BY ChatAssumption DEF Init, CountOK
<1> QED
  BY <1>1, <1>3, <1>4, <1>5, <1>6

\* An orchestrator that has just been made.
LEMMA StartedTypes ==
    ASSUME OrchOK, QueuesOK, NEW material \in SUBSET People,
           orch' = Loaded(material) \/ orch' = Second(material)
    PROVE  OrchOK' /\ orch'.fetching = <<>> /\ orch'.work = <<>>
<1>1. /\ orch'.fetching = <<>> /\ orch'.work = <<>>
      /\ orch' \in [fetching : Seq(Events), work : Seq(Steps), session : SUBSET People,
                 waiting : [People -> Seq(Inbounds)], bundles : SUBSET People, second : BOOLEAN,
                 older : SUBSET Tagged({"store", "show"}, Inbounds)]
  BY LoadedTypes, SecondTypes
<1>2. Len(orch'.fetching) <= 1
  BY <1>1, EmptySeq
<1>3. Addressed(orch'.fetching)
  BY <1>1, NothingToDo
<1>4. \A i \in DOMAIN orch'.fetching : orch'.fetching[i].what # "bundle"
  BY <1>1, NothingToDo
<1> QED
  BY <1>1, <1>2, <1>3, <1>4 DEF OrchOK

\* Whatever a start finds of the sessions, it is of known people.
LEMMA MaterialTypes ==
    ASSUME DiskOK
    PROVE  /\ \A material \in Material : contacts \cap material \in SUBSET People
           /\ {} \in SUBSET People
BY DEF DiskOK

LEMMA StartTyped ==
    ASSUME UiOK, OrchOK, QueuesOK, DiskOK, CountOK, Start
    PROVE  UiOK' /\ OrchOK' /\ QueuesOK' /\ DiskOK' /\ CountOK'
<1> USE DEF queues, disk
<1>1. CASE Restart
  <2>1. ASSUME \E known \in SetToSeqs(contacts), material \in Material :
                  ui' = Fresh(known) /\ orch' = Loaded(contacts \cap material)
        PROVE  UiOK' /\ OrchOK'
    <3> PICK known \in SetToSeqs(contacts), material \in Material :
                ui' = Fresh(known) /\ orch' = Loaded(contacts \cap material)
      BY <2>1
    <3>1. UiOK'
      BY FreshTypes DEF UiOK, DiskOK
    <3>2. contacts \cap material \in SUBSET People
      BY MaterialTypes
    <3>3. OrchOK'
      BY <3>2, StartedTypes
    <3> QED
      BY <3>1, <3>3
  <2>2. ASSUME ui' = [Fresh(<<>>) EXCEPT !.read = FALSE], orch' = Loaded({})
        PROVE  UiOK' /\ OrchOK'
    <3>1. <<>> \in Seq(People) /\ Len(<<>>) = 0
      BY EmptySeq
    <3>2. ui' = [Fresh(<<>>) EXCEPT !.read = FALSE]
      BY <2>2
    <3>4. /\ ui'.sel = 0 /\ ui'.list = <<>>
          /\ ui' \in [screen : {"main", "search"}, focus : {"list", "chat"},
               list : Seq(People), sel : Nat, dialog : People \cup {None},
               found : People \cup {None}, shown : People \cup {None},
               view : SUBSET (Inbounds \cup Texts), opened : People \cup {None},
               read : BOOLEAN, replaced : BOOLEAN]
      BY <3>1, <3>2 DEF Fresh, First
    <3>5. UiOK'
      BY <3>1, <3>4 DEF UiOK
    <3>3. OrchOK'
      BY <2>2, MaterialTypes, StartedTypes
    <3> QED
      BY <3>3, <3>5
  <2>3. UiOK' /\ OrchOK'
    BY <1>1, <2>1, <2>2 DEF Restart
  <2>4. QueuesOK'
    BY <1>1, NothingToDo, EmptySeq DEF Restart, QueuesOK
  <2> QED
    BY <1>1, <2>3, <2>4, CountTypes DEF Restart, DiskOK
<1>2. CASE SecondStart
  <2>1. ASSUME \E known \in SetToSeqs(contacts), material \in Material :
                  /\ ui' = [ui EXCEPT !.screen = "main", !.list = known, !.sel = First(known),
                              !.read = TRUE, !.replaced = ui.shown # None]
                  /\ orch' = Second(contacts \cap material)
        PROVE  UiOK' /\ OrchOK'
    <3> PICK known \in SetToSeqs(contacts), material \in Material :
                /\ ui' = [ui EXCEPT !.screen = "main", !.list = known, !.sel = First(known),
                            !.read = TRUE, !.replaced = ui.shown # None]
                /\ orch' = Second(contacts \cap material)
      BY <2>1
    <3>1. known \in Seq(People) /\ (known # <<>> => 1 <= Len(known)) /\ Len(<<>>) = 0
      BY ListedInFull, EmptySeq DEF DiskOK
    <3>2. First(known) \in Nat /\ (First(known) = 0 <=> known = <<>>) /\ First(known) <= Len(known)
      BY <3>1 DEF First
    <3>3. UiOK'
      BY <3>1, <3>2 DEF UiOK
    <3>4. contacts \cap material \in SUBSET People
      BY MaterialTypes
    <3>5. OrchOK'
      BY <3>4, StartedTypes
    <3> QED
      BY <3>3, <3>5
  <2>2. ASSUME ui' = [ui EXCEPT !.screen = "main"], orch' = Second({})
        PROVE  UiOK' /\ OrchOK'
    <3>1. UiOK'
      BY <2>2 DEF UiOK
    <3>2. OrchOK'
      BY <2>2, MaterialTypes, StartedTypes
    <3> QED
      BY <3>1, <3>2
  <2>3. UiOK' /\ OrchOK'
    BY <1>2, <2>1, <2>2 DEF SecondStart
  <2>4. QueuesOK'
    BY <1>2, NothingToDo, EmptySeq DEF SecondStart, QueuesOK
  <2> QED
    BY <1>2, <2>3, <2>4, CountTypes DEF SecondStart, DiskOK
<1>3. CASE SecondStartFails
  <2>1. UiOK'
    BY <1>3 DEF SecondStartFails, UiOK
  <2> QED
    BY <1>3, <2>1, CountTypes DEF SecondStartFails, OrchOK, QueuesOK, DiskOK
<1> QED
  BY <1>1, <1>2, <1>3 DEF Start

LEMMA OlderTyped ==
    ASSUME UiOK, OrchOK, QueuesOK, DiskOK, CountOK, NEW m,
           OlderStores(m) \/ OlderNotifies(m)
    PROVE  UiOK' /\ OrchOK' /\ QueuesOK' /\ DiskOK' /\ CountOK'
           /\ orch'.work = orch.work /\ orch'.fetching = orch.fetching
           /\ count'.texts = count.texts
<1> USE DEF queues, disk
<1>1. orch.older \subseteq Tagged({"store", "show"}, Inbounds)
  BY DEF OrchOK
<1>2. CASE OlderStores(m)
  <2>1. m \in Inbounds
    BY <1>1, <1>2 DEF OlderStores, Store, Tagged
  <2> DEFINE older == (orch.older \ {Store(m)}) \cup {Show(m)}
  <2>2. older \subseteq Tagged({"store", "show"}, Inbounds)
    BY <1>1, <2>1 DEF Show, Tagged
  <2>3. orch' = [orch EXCEPT !.older = older]
    BY <1>2 DEF OlderStores
  <2> HIDE DEF older
  <2>4. OrchOK' /\ orch'.work = orch.work /\ orch'.fetching = orch.fetching
    BY <2>2, <2>3, OlderTypes
  <2>5. stored' \in {stored, stored \cup {m}} /\ CountOK' /\ count'.texts = count.texts
    BY <1>2, AttemptTypes DEF OlderStores
  <2> QED
    BY <1>2, <2>1, <2>4, <2>5 DEF OlderStores, UiOK, QueuesOK, DiskOK
<1>3. CASE OlderNotifies(m)
  <2>1. Show(m) \in Notices
    BY <1>1, <1>3 DEF OlderNotifies, Show, Notices, Tagged
  <2>2. internal' \in Seq(Notices)
    BY <1>3, <2>1, QueueTypes DEF OlderNotifies, QueuesOK
  <2> DEFINE older == orch.older \ {Show(m)}
  <2>3. older \subseteq Tagged({"store", "show"}, Inbounds)
    BY <1>1
  <2>4. orch' = [orch EXCEPT !.older = older]
    BY <1>3 DEF OlderNotifies
  <2> HIDE DEF older
  <2>5. OrchOK' /\ orch'.work = orch.work /\ orch'.fetching = orch.fetching
    BY <2>3, <2>4, OlderTypes
  <2> QED
    BY <1>3, <2>2, <2>5 DEF OlderNotifies, UiOK, QueuesOK, DiskOK, CountOK
<1> QED
  BY <1>2, <1>3

\* The types of everything the UI and the orchestrator exchange, for any
\* number of contacts: a text that waits for a session has a receiver, and the
\* orchestrator waits for at most one bundle.
LEMMA TypedStep == Typed /\ [Next]_vars => Typed'
<1> SUFFICES ASSUME Typed, [Next]_vars
             PROVE  UiOK' /\ OrchOK' /\ QueuesOK' /\ DiskOK' /\ CountOK'
  BY TypedParts, PTL
<1>1. UiOK /\ OrchOK /\ QueuesOK /\ DiskOK /\ CountOK
  BY TypedParts
<1>2. CASE UNCHANGED vars
  BY <1>1, <1>2, Untouched DEF vars
<1> QED
  BY <1>1, <1>2, UserTyped, AnswersTyped, OrchestratorTyped, StartTyped, OlderTyped DEF Next

\* The types, and that a queued text has a receiver (OutgoingMessage is only
\* sent for a selected contact).
LEMMA ChatTyped == Spec => []Typed
BY InitTyped, TypedStep, PTL DEF Spec

\* What the screen, the orchestrator and the tables hold has its type, for any
\* contacts and any bounds: no handler of app.rs or orchestrator_task.rs leaves a
\* selection outside the list.
THEOREM ChatTypeCorrect == Spec => []TypeOK
<1>1. Typed => TypeOK
  BY DEF Typed
<1> QED
  BY <1>1, ChatTyped, PTL

-----------------------------------------------------------------------------
(* Whom a composed text goes to, and who is listed.                        *)

\* A contact is added: nobody leaves the list, and who is selected stays so.
LEMMA FinishAddFacts ==
    ASSUME Typed, NEW c \in People, FinishAdd(c)
    PROVE  /\ ui'.focus = ui.focus /\ ui'.dialog = ui.dialog
           /\ ui'.shown = ui.shown /\ ui'.sel # 0
           /\ ui'.view = ui.view /\ ui'.opened = ui.opened
           /\ ui'.read = ui.read /\ ui'.replaced = ui.replaced
           /\ ui.sel # 0 => Selected' = Selected
           /\ ToSet(ui'.list) = ToSet(ui.list) \cup {c}
           /\ contacts' \subseteq contacts \cup {c}
           /\ stored' = stored /\ orch' = orch /\ sent' = sent
           /\ events' = Append(events, Open(c)) /\ count'.texts = count.texts
<1>1. UiOK /\ CountOK
  BY TypedParts
<1>2. /\ ui' = [ui EXCEPT !.list = Append(@, c), !.sel = IF @ = 0 THEN 1 ELSE @,
                  !.found = None, !.screen = "main"]
      /\ events' = Append(events, Open(c))
      /\ UNCHANGED <<cmds, orch, stored, keys, sent>>
  BY DEF FinishAdd
<1>3. contacts' \in {contacts, contacts \cup {c}} /\ count'.texts = count.texts
  BY <1>1, AttemptTypes DEF FinishAdd
<1>4. /\ ui'.focus = ui.focus /\ ui'.dialog = ui.dialog /\ ui'.shown = ui.shown
      /\ ui'.view = ui.view /\ ui'.opened = ui.opened
      /\ ui'.read = ui.read /\ ui'.replaced = ui.replaced
      /\ ui'.list = Append(ui.list, c)
      /\ ui'.sel = IF ui.sel = 0 THEN 1 ELSE ui.sel
  BY <1>1, <1>2 DEF UiOK
<1>5. ui.list \in Seq(People) /\ ui.sel \in Nat /\ ui.sel <= Len(ui.list)
  BY <1>1 DEF UiOK
<1>6. ToSet(ui'.list) = ToSet(ui.list) \cup {c}
  BY <1>4, <1>5, ToSetFacts
<1>7. ASSUME ui.sel # 0 PROVE Selected' = Selected
  <2>1. ui.sel \in 1..Len(ui.list)
    BY <1>5, <1>7, QueueTypes
  <2>2. Append(ui.list, c)[ui.sel] = ui.list[ui.sel]
    BY <1>5, <2>1, QueueTypes
  <2> QED
    BY <1>4, <1>7, <2>2 DEF Selected
<1> QED
  BY <1>2, <1>3, <1>4, <1>5, <1>6, <1>7

LEMMA SteadyStep == Typed /\ Steady /\ [Next]_vars => Steady'
<1> SUFFICES ASSUME Typed, Steady, [Next]_vars PROVE Steady'
  OBVIOUS
<1> USE DEF OnlyUi, queues, disk
<1>1. UiOK
  BY TypedParts
<1>2. ASSUME ui' = ui PROVE Steady'
  BY <1>2 DEF Steady, ComposeReachesShown, Selected
<1>3. CASE MoveSelection
  <2>1. ui'.focus = "list" /\ ui'.dialog = None /\ ui.sel # 0 /\ ui'.sel # 0
    <3>1. ui.focus = "list" /\ ui.dialog = None /\ ui.sel # 0
      BY <1>3 DEF MoveSelection, MainKey
    <3>2. PICK i \in {ui.sel - 1, ui.sel + 1} \cap DOMAIN ui.list :
                  ui' = [ui EXCEPT !.sel = i]
      BY <1>3 DEF MoveSelection
    <3>3. i # 0
      BY <1>1, QueueTypes DEF UiOK
    <3> QED
      BY <1>1, <3>1, <3>2, <3>3 DEF UiOK
  <2> QED
    BY <2>1 DEF Steady, ComposeReachesShown
<1>4. CASE OpenChat
  <2>1. CASE Selected = None
    <3>1. ui' = [ui EXCEPT !.focus = "chat"] /\ ui.dialog = None
      BY <1>4, <2>1 DEF OpenChat, MainKey
    <3>2. ui.sel = 0
      BY <1>1, <2>1, SelectedTypes, ChatAssumption
    <3> QED
      BY <1>1, <3>1, <3>2 DEF Steady, ComposeReachesShown, UiOK
  <2>2. CASE Selected # None
    <3>1. /\ ui.dialog = None
          /\ \E loaded \in {Selected, None} :
                ui' = [ui EXCEPT !.focus = "chat", !.shown = Selected, !.opened = loaded,
                            !.replaced = FALSE, !.view = {m \in stored : m.peer = loaded}]
      BY <1>4, <2>2 DEF OpenChat, MainKey
    <3>2. /\ ui'.dialog = None /\ ui'.shown = Selected
          /\ ui'.list = ui.list /\ ui'.sel = ui.sel
      BY <1>1, <3>1 DEF UiOK
    <3>3. ui.sel # 0 /\ Selected' = Selected
      BY <1>1, <2>2, <3>2, SelectedTypes DEF Selected
    <3> QED
      BY <3>2, <3>3 DEF Steady, ComposeReachesShown
  <2> QED
    BY <2>1, <2>2
<1>5. CASE LeaveChat
  <2>1. ui' = [ui EXCEPT !.focus = "list"]
    BY <1>5 DEF LeaveChat
  <2> QED
    BY <1>1, <2>1 DEF Steady, ComposeReachesShown, UiOK
<1>6. ASSUME ui'.focus = ui.focus, ui'.shown = ui.shown, ui'.dialog \in {ui.dialog, None},
             ui'.list = ui.list, ui'.sel = ui.sel, ui'.replaced = ui.replaced
      PROVE  Steady'
  BY <1>6 DEF Steady, ComposeReachesShown, Selected
<1>7. CASE Send
  <2>1. ui' = [ui EXCEPT !.view = ui'.view]
    BY <1>1, <1>7 DEF Send, UiOK
  <2> QED
    BY <1>1, <1>6, <2>1 DEF UiOK
<1>8. CASE AskDelete
  <2>1. ui' = [ui EXCEPT !.dialog = Selected] /\ ui.focus = "list"
    BY <1>8 DEF AskDelete, MainKey
  <2> QED
    BY <1>1, <2>1 DEF Steady, ComposeReachesShown, UiOK
<1>9. CASE CancelDelete \/ DeleteFails
  <2>1. ui' = [ui EXCEPT !.dialog = None]
    BY <1>9 DEF CancelDelete, DeleteFails
  <2> QED
    BY <1>1, <1>6, <2>1 DEF UiOK
<1>10. CASE ConfirmDelete
  <2> DEFINE c == ui.dialog
             l == Unlisted(c)
             gone == c \notin ToSet(l.list)
             shown == IF ~gone THEN ui.shown
                      ELSE IF l.sel = 0 THEN None ELSE l.list[l.sel]
  <2>1. ui' = [ui EXCEPT !.dialog = None, !.list = l.list, !.sel = l.sel,
                   !.view   = IF gone THEN {} ELSE ui.view,
                   !.opened = IF gone THEN None ELSE ui.opened,
                   !.shown  = shown]
    BY <1>1, <1>10 DEF ConfirmDelete, UiOK
  <2>2. c \in People
    BY <1>1, <1>10 DEF ConfirmDelete, UiOK
  <2>3. l.list \in Seq(People) /\ (l.sel = 0 <=> l.list = <<>>)
    BY <2>2, UnlistedFacts DEF Typed
  <2>4. ui.focus = "list"
    BY <1>10 DEF ConfirmDelete, Steady
  <2> HIDE DEF l
  <2>5. l.sel = 0 => shown = None
    BY <2>3, ToSetFacts
  <2> HIDE DEF shown, gone, c
  <2>6. ui'.focus = "list" /\ ui'.dialog = None /\ ui'.sel = l.sel /\ ui'.shown = shown
    BY <1>1, <2>1, <2>4 DEF UiOK
  <2> QED
    BY <2>5, <2>6 DEF Steady, ComposeReachesShown
<1>11. CASE OpenSearch \/ EditSearch
  <2>1. \E s \in {"main", "search"} : ui' = [ui EXCEPT !.screen = s, !.found = None]
    BY <1>11 DEF OpenSearch, EditSearch
  <2> QED
    BY <1>1, <1>6, <2>1 DEF UiOK
<1>12. ASSUME NEW c \in People, FinishAdd(c) PROVE Steady'
  <2>1. /\ ui'.focus = ui.focus /\ ui'.dialog = ui.dialog
        /\ ui'.shown = ui.shown /\ ui'.sel # 0 /\ ui'.replaced = ui.replaced
        /\ ui.sel # 0 => Selected' = Selected
    BY <1>12, FinishAddFacts
  <2> QED
    BY <2>1 DEF Steady, ComposeReachesShown
<1>13. CASE AddFound
  <2>1. ui.found \in People /\ FinishAdd(ui.found)
    BY <1>1, <1>13 DEF AddFound, UiOK
  <2> QED
    BY <1>12, <2>1
<1>14. CASE InviteAccepted
  <2>1. internal \in Seq(Notices)
    BY TypedParts DEF QueuesOK
  <2>2. Head(internal).arg \in People /\ FinishAdd(Head(internal).arg)
    BY <1>14, <2>1, QueueTypes DEF InviteAccepted, Notices, Tagged
  <2> QED
    BY <1>12, <2>2
<1>15. CASE ShowMessage
  <2>1. ui' = [ui EXCEPT !.view = ui'.view]
    BY <1>1, <1>15 DEF ShowMessage, UiOK
  <2> QED
    BY <1>1, <1>6, <2>1 DEF UiOK
<1>16. CASE ShowFound
  <2>1. ui' = [ui EXCEPT !.found = Head(internal).arg]
    BY <1>16 DEF ShowFound
  <2> QED
    BY <1>1, <1>6, <2>1 DEF UiOK
<1>17. CASE Start
  <2>1. CASE Restart
    <3>1. ui'.shown = None /\ ui'.dialog = None
      <4>1. \A known : /\ Fresh(known).shown = None /\ Fresh(known).dialog = None
                       /\ [Fresh(known) EXCEPT !.read = FALSE].shown = None
                       /\ [Fresh(known) EXCEPT !.read = FALSE].dialog = None
        BY DEF Fresh
      <4> QED
        BY <2>1, <4>1 DEF Restart
    <3> QED
      BY <3>1 DEF Steady, ComposeReachesShown
  <2>2. CASE SecondStart
    <3>1. CASE \E known \in SetToSeqs(contacts) :
                  ui' = [ui EXCEPT !.screen = "main", !.list = known, !.sel = First(known),
                            !.read = TRUE, !.replaced = ui.shown # None]
      <4>1. /\ ui'.focus = ui.focus /\ ui'.dialog = ui.dialog /\ ui'.shown = ui.shown
            /\ ~ui'.replaced => ui.shown = None
        BY <1>1, <3>1 DEF UiOK
      <4> QED
        BY <4>1 DEF Steady, ComposeReachesShown
    <3>2. CASE ui' = [ui EXCEPT !.screen = "main"]
      BY <1>1, <1>6, <3>2 DEF UiOK
    <3> QED
      BY <2>2, <3>1, <3>2 DEF SecondStart
  <2>3. CASE SecondStartFails
    BY <1>1, <1>6, <2>3 DEF SecondStartFails, UiOK
  <2> QED
    BY <1>17, <2>1, <2>2, <2>3 DEF Start
<1>18. CASE Server
  <2>1. ui' = ui
    BY <1>18 DEF Server, Arrive, LookupAnswers, LookupFails
  <2> QED
    BY <1>2, <2>1
<1>19. CASE \/ Orchestrator \/ \E c \in People : BundleTask(c)
            \/ \E x \in orch.older : OlderStores(x.arg) \/ OlderNotifies(x.arg)
  <2>1. ui' = ui
    BY <1>19 DEF OlderStores, OlderNotifies, Orchestrator, BundleTask, ForgetContact, StreamMessage,
       KeyBundleFetched, ActiveChatChanged, OutgoingMessage, FetchSucceeds,
       FetchFails, StoreInbound, Notify, SaveSession, SendEncrypted
  <2> QED
    BY <1>2, <2>1
<1>20. CASE \E what \in {"search", "invite"}, c \in People : SubmitSearch(what, c)
  BY <1>2, <1>20 DEF SubmitSearch
<1>21. CASE UNCHANGED vars
  BY <1>2, <1>21 DEF vars
<1>22. CASE User
  BY <1>3, <1>4, <1>5, <1>7, <1>8, <1>9, <1>10, <1>11, <1>13, <1>20, <1>22 DEF User
<1>23. CASE Internal
  BY <1>14, <1>15, <1>16, <1>23 DEF Internal
<1> QED
  BY <1>17, <1>18, <1>19, <1>21, <1>22, <1>23 DEF Next

LEMMA InitSteady == Init => Steady
BY DEF Init, Fresh, Steady, ComposeReachesShown

\* What the user composes goes to the contact whose name the chat shows: no
\* invite, search result or deletion moves the selection under an open chat,
\* whatever number of starts and contacts there are; only a second start under
\* that very chat does (set_contacts, chat_list.rs).
THEOREM ChatComposeReachesShown == Spec => []ComposeReachesShown
<1>1. Steady => ComposeReachesShown
  BY DEF Steady
<1> QED
  BY <1>1, InitSteady, SteadyStep, ChatTyped, PTL DEF Spec

LEMMA ListedStep == Typed /\ StoredIsListed /\ [Next]_vars => StoredIsListed'
<1> SUFFICES ASSUME Typed, StoredIsListed, [Next]_vars PROVE StoredIsListed'
  OBVIOUS
<1> USE DEF OnlyUi, queues, disk
<1>1. UiOK /\ DiskOK
  BY TypedParts
<1>2. ASSUME ui'.list = ui.list, ui'.read = ui.read, contacts' \subseteq contacts
      PROVE  StoredIsListed'
  BY <1>2 DEF StoredIsListed
<1>3. ASSUME NEW c \in People, FinishAdd(c) PROVE StoredIsListed'
  BY <1>3, FinishAddFacts DEF StoredIsListed
<1>4. CASE AddFound
  <2>1. ui.found \in People /\ FinishAdd(ui.found)
    BY <1>1, <1>4 DEF AddFound, UiOK
  <2> QED
    BY <1>3, <2>1
<1>5. CASE InviteAccepted
  <2>1. internal \in Seq(Notices)
    BY TypedParts DEF QueuesOK
  <2>2. Head(internal).arg \in People /\ FinishAdd(Head(internal).arg)
    BY <1>5, <2>1, QueueTypes DEF InviteAccepted, Notices, Tagged
  <2> QED
    BY <1>3, <2>2
<1>6. CASE ConfirmDelete
  <2>1. ui.dialog \in People /\ contacts' = contacts \ {ui.dialog}
        /\ ui'.list = Unlisted(ui.dialog).list /\ ui'.read = ui.read
    BY <1>1, <1>6 DEF ConfirmDelete, UiOK
  <2>2. ToSet(ui.list) \ {ui.dialog} \subseteq ToSet(Unlisted(ui.dialog).list)
    BY <2>1, UnlistedFacts DEF Typed
  <2> QED
    BY <2>1, <2>2 DEF StoredIsListed
<1>7. CASE Start
  <2>1. contacts \in SUBSET People /\ contacts' = contacts
    BY <1>1, <1>7 DEF Start, Restart, SecondStart, SecondStartFails, DiskOK
  <2>2. CASE \E known \in SetToSeqs(contacts) : ui'.list = known
    BY <2>1, <2>2, ListedInFull DEF StoredIsListed
  <2>3. CASE ui' = [Fresh(<<>>) EXCEPT !.read = FALSE]
    BY <2>3 DEF Fresh, StoredIsListed
  <2>4. CASE ui' = [ui EXCEPT !.screen = "main"]
    BY <1>1, <1>2, <2>1, <2>4 DEF UiOK
  <2>5. \/ \E known \in SetToSeqs(contacts) : ui'.list = known
        \/ ui' = [Fresh(<<>>) EXCEPT !.read = FALSE]
        \/ ui' = [ui EXCEPT !.screen = "main"]
    <3>1. \A known : Fresh(known).list = known
      BY DEF Fresh
    <3>2. \A known : [ui EXCEPT !.screen = "main", !.list = known, !.sel = First(known),
                         !.read = TRUE, !.replaced = ui.shown # None].list = known
      BY <1>1 DEF UiOK
    <3> QED
      BY <1>7, <3>1, <3>2 DEF Start, Restart, SecondStart, SecondStartFails
  <2> QED
    BY <2>2, <2>3, <2>4, <2>5
<1>8. CASE \/ Server \/ Orchestrator \/ \E c \in People : BundleTask(c)
           \/ \E x \in orch.older : OlderStores(x.arg) \/ OlderNotifies(x.arg)
  <2>1. ui' = ui /\ contacts' = contacts
    BY <1>8 DEF OlderStores, OlderNotifies, Server, Arrive, LookupAnswers, LookupFails,
       Orchestrator, BundleTask, ForgetContact, StreamMessage,
       KeyBundleFetched, ActiveChatChanged, OutgoingMessage, FetchSucceeds,
       FetchFails, StoreInbound, Notify, SaveSession, SendEncrypted
  <2> QED
    BY <1>2, <2>1
<1>9. CASE ShowMessage \/ ShowFound
  BY <1>1, <1>2, <1>9 DEF ShowMessage, ShowFound, UiOK
<1>10. CASE UNCHANGED vars
  BY <1>2, <1>10 DEF vars
<1>11. CASE DeleteFails
  BY <1>1, <1>2, <1>11 DEF DeleteFails, UiOK
<1>12. CASE \E what \in {"search", "invite"}, c \in People : SubmitSearch(what, c)
  BY <1>2, <1>12 DEF SubmitSearch
<1>13. CASE \/ MoveSelection \/ OpenChat \/ LeaveChat \/ Send
            \/ AskDelete \/ CancelDelete \/ OpenSearch \/ EditSearch
  <2>1. ui'.list = ui.list /\ ui'.read = ui.read /\ contacts' = contacts
    BY <1>1, <1>13 DEF MoveSelection, OpenChat, LeaveChat, Send, AskDelete,
       CancelDelete, OpenSearch, EditSearch, UiOK
  <2> QED
    BY <1>2, <2>1
<1>14. CASE User
  BY <1>4, <1>6, <1>11, <1>12, <1>13, <1>14 DEF User
<1> QED
  BY <1>5, <1>7, <1>8, <1>9, <1>10, <1>14 DEF Next, Internal

LEMMA InitListed == Init => StoredIsListed
<1> SUFFICES ASSUME Init PROVE StoredIsListed
  OBVIOUS
<1>1. contacts \in SUBSET People /\ \E known \in SetToSeqs(contacts) : ui = Fresh(known)
  BY ChatAssumption DEF Init
<1> QED
  BY <1>1, ListedInFull DEF Fresh, StoredIsListed

\* Whatever statement of an addition or a deletion fails, and whatever restarts
\* come between, every contact of the database is on the list (confirm_delete and
\* the handlers that add a contact, app.rs).
THEOREM ChatStoredIsListed == Spec => []StoredIsListed
BY InitListed, ListedStep, ChatTyped, PTL DEF Spec

-----------------------------------------------------------------------------
(* That an open chat misses no stored message.                             *)

\* The messages on their way to the chat.
Older  == {x.arg : x \in orch.older}
Coming == Args(ToSet(internal) \cup ToSet(orch.work), "show") \cup Older

LEMMA ArgsFacts ==
    /\ \A A, B, tag : Args(A \cup B, tag) = Args(A, tag) \cup Args(B, tag)
    /\ \A x, tag : Args({x}, tag) = IF x.what = tag THEN {x.arg} ELSE {}
    /\ \A tag : Args({}, tag) = {}
<1>1. \A A, B, tag : Args(A \cup B, tag) = Args(A, tag) \cup Args(B, tag)
  BY DEF Args
<1>2. \A x, tag : Args({x}, tag) = IF x.what = tag THEN {x.arg} ELSE {}
  BY DEF Args
<1>3. \A tag : Args({}, tag) = {}
  BY DEF Args
<1> QED
  BY <1>1, <1>2, <1>3

\* What the messages on their way are when one of the queues changes.
LEMMA ArgsOfQueue ==
    ASSUME NEW S, NEW q \in Seq(S), NEW tag
    PROVE  /\ \A x \in S : Args(ToSet(Append(q, x)), tag)
                 = Args(ToSet(q), tag) \cup (IF x.what = tag THEN {x.arg} ELSE {})
           /\ q # <<>> => Args(ToSet(q), tag)
                 = Args(ToSet(Tail(q)), tag)
                     \cup (IF Head(q).what = tag THEN {Head(q).arg} ELSE {})
<1>1. ASSUME NEW x \in S
      PROVE  Args(ToSet(Append(q, x)), tag)
                 = Args(ToSet(q), tag) \cup (IF x.what = tag THEN {x.arg} ELSE {})
  <2>1. ToSet(Append(q, x)) = ToSet(q) \cup {x}
    BY ToSetFacts
  <2>2. Args(ToSet(q) \cup {x}, tag) = Args(ToSet(q), tag) \cup Args({x}, tag)
    BY ArgsFacts
  <2> QED
    BY <2>1, <2>2, ArgsFacts
<1>2. ASSUME q # <<>>
      PROVE  Args(ToSet(q), tag)
                 = Args(ToSet(Tail(q)), tag)
                     \cup (IF Head(q).what = tag THEN {Head(q).arg} ELSE {})
  <2>1. ToSet(q) = {Head(q)} \cup ToSet(Tail(q))
    BY <1>2, ToSetFacts
  <2>2. Args({Head(q)} \cup ToSet(Tail(q)), tag)
           = Args({Head(q)}, tag) \cup Args(ToSet(Tail(q)), tag)
    BY ArgsFacts
  <2> QED
    BY <2>1, <2>2, ArgsFacts
<1> QED
  BY <1>1, <1>2

LEMMA ShownAfterTail ==
    ASSUME NEW q \in Seq(Steps), q # <<>>, ShownAfter(q)
    PROVE  /\ ShownAfter(Tail(q))
           /\ Head(q).what = "store" => Head(q).arg \in Args(ToSet(Tail(q)), "show")
<1> DEFINE t == Tail(q)
<1>1. /\ DOMAIN q = 1..Len(q) /\ Len(q) \in Nat /\ Len(q) > 0
      /\ Head(q) = q[1] /\ DOMAIN t = 1..(Len(q) - 1)
      /\ \A i \in 1..(Len(q) - 1) : t[i] = q[i + 1]
  BY QueueTypes
<1> HIDE DEF t
<1>2. \A i \in DOMAIN q : i = 1 \/ (i - 1 \in DOMAIN t /\ t[i - 1] = q[i])
  BY <1>1
<1>3. \A i \in DOMAIN t : i + 1 \in DOMAIN q /\ t[i] = q[i + 1]
  BY <1>1
<1>4. ASSUME NEW i \in DOMAIN q, q[i].what = "store"
      PROVE  \E k \in DOMAIN t : k > i - 1 /\ t[k] = Show(q[i].arg)
  <2>1. PICK j \in DOMAIN q : j > i /\ q[j] = Show(q[i].arg)
    BY <1>4 DEF ShownAfter
  <2>2. j # 1 /\ j - 1 > i - 1
    BY <1>1, <2>1
  <2> QED
    BY <1>2, <2>1, <2>2
<1>5. ShownAfter(t)
  <2> SUFFICES ASSUME NEW i \in DOMAIN t, t[i].what = "store"
               PROVE  \E k \in DOMAIN t : k > i /\ t[k] = Show(t[i].arg)
    BY DEF ShownAfter
  <2>1. i + 1 \in DOMAIN q /\ t[i] = q[i + 1] /\ (i + 1) - 1 = i
    BY <1>1, <1>3
  <2> QED
    BY <1>4, <2>1
<1>6. ASSUME q[1].what = "store" PROVE q[1].arg \in Args(ToSet(t), "show")
  <2>1. PICK k \in DOMAIN t : t[k] = Show(q[1].arg)
    BY <1>1, <1>4, <1>6
  <2>2. t[k] \in ToSet(t) /\ t[k].what = "show" /\ t[k].arg = q[1].arg
    BY <2>1 DEF ToSet, Show
  <2> QED
    BY <2>2 DEF Args
<1> QED
  BY <1>1, <1>5, <1>6 DEF t

\* Most steps take nothing from the chat and nothing from what is coming.
LEMMA StillComplete ==
    ASSUME Typed, Complete, stored' \subseteq stored,
           ui'.opened \in {ui.opened, None},
           ui'.opened # None => ui.view \subseteq ui'.view,
           Coming \subseteq Coming' \cup ui'.view,
           ShownAfter(orch'.work)
    PROVE  Complete'
<1>1. \A m \in stored' : m.peer # None
  BY TypedParts, ItemTypes, ChatAssumption DEF DiskOK
<1>2. \A m \in stored : m.peer = ui.opened => m \in ui.view \/ m \in Coming
  BY DEF Complete, OpenChatComplete, Coming, Older
<1> SUFFICES ASSUME NEW m \in stored', m.peer = ui'.opened
             PROVE  m \in ui'.view \/ m \in Coming'
  BY DEF Complete, OpenChatComplete, Coming, Older
<1> QED
  BY <1>1, <1>2

LEMMA ComingTypes ==
    ASSUME Typed
    PROVE  /\ internal \in Seq(Notices) /\ orch.work \in Seq(Steps)
           /\ Coming = Args(ToSet(internal), "show") \cup Args(ToSet(orch.work), "show")
                          \cup Older
           /\ orch.work = <<>> => Coming = Args(ToSet(internal), "show") \cup Older
<1>1. internal \in Seq(Notices) /\ orch.work \in Seq(Steps)
  BY DEF Typed, TypeOK
<1>2. Coming = Args(ToSet(internal), "show") \cup Args(ToSet(orch.work), "show")
                  \cup Older
  BY ArgsFacts DEF Coming
<1>3. orch.work = <<>> => Args(ToSet(orch.work), "show") = {}
  BY ToSetFacts, ArgsFacts
<1> QED
  BY <1>1, <1>2, <1>3

\* The orchestrator turns to another event or command.
LEMMA TurnsTo ==
    ASSUME Typed, Complete, orch.work = <<>>, stored' = stored, ui' = ui,
           internal' = internal, Older' = Older, ShownAfter(orch'.work)
    PROVE  Complete'
<1>1. Coming = Args(ToSet(internal), "show") \cup Older
  BY ComingTypes
<1>2. Coming' = Args(ToSet(internal), "show") \cup Args(ToSet(orch'.work), "show")
                   \cup Older
  BY ArgsFacts DEF Coming
<1> QED
  BY <1>1, <1>2, StillComplete

LEMMA CompleteUser == Typed /\ Complete /\ User => Complete'
<1> SUFFICES ASSUME Typed, Complete, User PROVE Complete'
  OBVIOUS
<1> USE DEF OnlyUi, queues, disk
<1>1. UiOK /\ DiskOK /\ ShownAfter(orch.work)
  BY TypedParts DEF Complete
<1>2. ASSUME UNCHANGED <<internal, orch>>, stored' \subseteq stored,
             ui'.opened \in {ui.opened, None},
             ui'.opened # None => ui.view \subseteq ui'.view
      PROVE  Complete'
  BY <1>1, <1>2, StillComplete DEF Coming, Older
<1>3. CASE OpenChat /\ Selected # None
  <2>1. /\ UNCHANGED <<internal, orch, stored>>
        /\ \E loaded \in {Selected, None} :
                ui' = [ui EXCEPT !.focus = "chat", !.shown = Selected, !.opened = loaded,
                            !.replaced = FALSE, !.view = {m \in stored : m.peer = loaded}]
    BY <1>3 DEF OpenChat
  <2>2. ui'.view = {m \in stored : m.peer = ui'.opened}
    BY <1>1, <2>1 DEF UiOK
  <2> QED
    BY <1>1, <2>1, <2>2 DEF Complete, OpenChatComplete
<1>4. CASE ConfirmDelete
  <2> DEFINE gone == ui.dialog \notin ToSet(Unlisted(ui.dialog).list)
  <2>1. /\ UNCHANGED <<internal, orch>> /\ stored' \subseteq stored
        /\ ui'.view = IF gone THEN {} ELSE ui.view
        /\ ui'.opened = IF gone THEN None ELSE ui.opened
    BY <1>1, <1>4 DEF ConfirmDelete, UiOK
  <2> HIDE DEF gone
  <2> QED
    BY <1>2, <2>1
<1>5. CASE AddFound
  <2>1. ui.found \in People /\ FinishAdd(ui.found) /\ internal' = internal
    BY <1>1, <1>5 DEF AddFound, UiOK
  <2>2. /\ ui'.view = ui.view /\ ui'.opened = ui.opened
        /\ stored' = stored /\ orch' = orch
    BY <2>1, FinishAddFacts
  <2> QED
    BY <1>2, <2>1, <2>2
<1>6. CASE DeleteFails
  BY <1>1, <1>2, <1>6 DEF DeleteFails, UiOK
<1>7. CASE \E what \in {"search", "invite"}, c \in People : SubmitSearch(what, c)
  BY <1>2, <1>7 DEF SubmitSearch
<1>8. CASE \/ MoveSelection \/ (OpenChat /\ Selected = None) \/ LeaveChat \/ Send
           \/ AskDelete \/ CancelDelete \/ OpenSearch \/ EditSearch
  <2>1. UNCHANGED <<internal, orch, stored>> /\ ui'.opened = ui.opened
        /\ ui.view \subseteq ui'.view
    BY <1>1, <1>8 DEF MoveSelection, OpenChat, LeaveChat, Send, AskDelete,
       CancelDelete, OpenSearch, EditSearch, UiOK
  <2> QED
    BY <1>2, <2>1
<1> QED
  BY <1>3, <1>4, <1>5, <1>6, <1>7, <1>8 DEF User

LEMMA CompleteAnswers == Typed /\ Complete /\ (Server \/ Internal) => Complete'
<1> SUFFICES ASSUME Typed, Complete, Server \/ Internal PROVE Complete'
  OBVIOUS
<1> USE DEF queues, disk
<1>1. /\ UiOK /\ ShownAfter(orch.work) /\ lookups \subseteq Lookups
      /\ internal \in Seq(Notices)
  BY TypedParts DEF Complete, QueuesOK
<1>2. Coming = Args(ToSet(internal), "show") \cup Args(ToSet(orch.work), "show") \cup Older
  BY ComingTypes
<1>3. Coming' = Args(ToSet(internal'), "show") \cup Args(ToSet(orch'.work), "show") \cup Older'
  BY ArgsFacts DEF Coming
<1>4. ASSUME orch'.work = orch.work, Older \subseteq Older', stored' = stored, ui'.opened = ui.opened,
             ui.view \subseteq ui'.view,
             Args(ToSet(internal), "show")
                \subseteq Args(ToSet(internal'), "show") \cup ui'.view
      PROVE  Complete'
  BY <1>1, <1>2, <1>3, <1>4, StillComplete
<1>5. ASSUME NEW c \in People, Arrive(c) PROVE Complete'
  <2>1. \A x : orch' = [orch EXCEPT !.older = @ \cup {x}] =>
           orch'.work = orch.work /\ orch.older \subseteq orch'.older
    BY TypedParts DEF OrchOK
  <2>2. orch'.work = orch.work /\ orch.older \subseteq orch'.older
    BY <1>5, <2>1 DEF Arrive
  <2>3. Older \subseteq Older'
    BY <2>2 DEF Older
  <2> QED
    BY <1>4, <1>5, <2>2, <2>3 DEF Arrive
<1>6. ASSUME NEW l \in lookups, LookupAnswers(l) PROVE Complete'
  <2>1. l.what \in {"search", "invite"} /\ l.who \in People
    BY <1>1 DEF Lookups
  <2>2. PICK who \in {l.who} \cup (IF l.what = "search" THEN {None} ELSE {}) :
            internal' = Append(internal, [what |-> l.what, arg |-> who])
    BY <1>6 DEF LookupAnswers
  <2>3. [what |-> l.what, arg |-> who] \in Notices
    BY <2>1, <2>2 DEF Notices, Tagged
  <2>4. Args(ToSet(internal), "show") \subseteq Args(ToSet(internal'), "show")
    BY <1>1, <2>2, <2>3, ArgsOfQueue
  <2> QED
    BY <1>4, <1>6, <2>4 DEF LookupAnswers, Older
<1>7. ASSUME NEW l \in lookups, LookupFails(l) PROVE Complete'
  BY <1>4, <1>7 DEF LookupFails, Older
<1>8. internal # <<>> =>
         Args(ToSet(internal), "show") = Args(ToSet(Tail(internal)), "show")
            \cup (IF Head(internal).what = "show" THEN {Head(internal).arg} ELSE {})
  BY <1>1, ArgsOfQueue
<1>9. CASE ShowMessage
  <2>1. /\ internal # <<>> /\ internal' = Tail(internal)
        /\ ui'.view = ui.view \cup {Head(internal).arg} /\ ui'.opened = ui.opened
        /\ UNCHANGED <<orch, stored>>
    BY <1>1, <1>9 DEF ShowMessage, UiOK
  <2> QED
    BY <1>4, <1>8, <2>1 DEF Older
<1>10. CASE ShowFound
  <2>1. /\ internal # <<>> /\ internal' = Tail(internal) /\ Head(internal).what # "show"
        /\ ui'.view = ui.view /\ ui'.opened = ui.opened
        /\ UNCHANGED <<orch, stored>>
    BY <1>1, <1>10 DEF ShowFound, UiOK
  <2> QED
    BY <1>4, <1>8, <2>1 DEF Older
<1>11. CASE InviteAccepted
  <2>1. /\ internal # <<>> /\ internal' = Tail(internal) /\ Head(internal).what = "invite"
        /\ FinishAdd(Head(internal).arg)
    BY <1>11 DEF InviteAccepted
  <2>2. Head(internal).arg \in People
    BY <1>1, <2>1, QueueTypes DEF Notices, Tagged
  <2>3. /\ ui'.view = ui.view /\ ui'.opened = ui.opened
        /\ stored' = stored /\ orch' = orch
    BY <2>1, <2>2, FinishAddFacts
  <2> QED
    BY <1>4, <1>8, <2>1, <2>3 DEF Older
<1> QED
  BY <1>5, <1>6, <1>7, <1>9, <1>10, <1>11 DEF Server, Internal

\* The orchestrator the UI talks to leaves the older one alone.
LEMMA OlderStays ==
    ASSUME OrchOK, Orchestrator \/ \E c \in People : BundleTask(c)
    PROVE  orch'.older = orch.older
<1>1. \A c, then : Establish(c, then) => orch'.older = orch.older
  BY DEF Establish, OrchOK
<1>2. \A what : Step(what) => orch'.older = orch.older
  BY DEF Step, OrchOK
<1>3. CASE StoreInbound \/ Notify \/ SaveSession \/ SendEncrypted
  BY <1>2, <1>3 DEF StoreInbound, Notify, SaveSession, SendEncrypted
<1>4. CASE KeyBundleFetched \/ FetchSucceeds
  BY <1>1, <1>4 DEF KeyBundleFetched, FetchSucceeds
<1>5. CASE \/ ForgetContact \/ StreamMessage \/ ActiveChatChanged \/ OutgoingMessage
           \/ FetchFails \/ \E c \in People : BundleTask(c)
  BY <1>5 DEF ForgetContact, StreamMessage, ActiveChatChanged, OutgoingMessage,
     FetchFails, BundleTask, OrchOK
<1> QED
  BY <1>3, <1>4, <1>5 DEF Orchestrator

LEMMA CompleteOrchestrator ==
    Typed /\ Complete /\ (Orchestrator \/ \E c \in People : BundleTask(c)) => Complete'
<1> SUFFICES ASSUME Typed, Complete, Orchestrator \/ \E c \in People : BundleTask(c)
             PROVE  Complete'
  OBVIOUS
<1> USE DEF queues, disk
<1>1. UiOK /\ OrchOK /\ QueuesOK /\ ShownAfter(orch.work)
      /\ orch.work \in Seq(Steps) /\ internal \in Seq(Notices)
  BY TypedParts, ComingTypes DEF Complete
<1>0. Older' = Older
  BY <1>1, OlderStays DEF Older
<1>2. Coming = Args(ToSet(internal), "show") \cup Args(ToSet(orch.work), "show") \cup Older
  BY ComingTypes
<1>3. Coming' = Args(ToSet(internal'), "show") \cup Args(ToSet(orch'.work), "show") \cup Older
  BY <1>0, ArgsFacts DEF Coming
<1>4. ASSUME orch'.work = orch.work, UNCHANGED <<internal, stored, ui>> PROVE Complete'
  BY <1>1, <1>2, <1>3, <1>4, StillComplete
<1>5. CASE ForgetContact
  BY <1>1, <1>4, <1>5 DEF ForgetContact, OrchOK
<1>6. CASE \E c \in People : BundleTask(c)
  BY <1>1, <1>4, <1>6 DEF BundleTask, OrchOK
<1>7. CASE StreamMessage
  <2> DEFINE m == Head(cmds).arg
  <2>1. Head(cmds) \in Commands /\ orch.work = <<>> /\ Head(cmds).what = "inbound"
    BY <1>1, <1>7, TakeTypes DEF StreamMessage, Idle
  <2>2. m \in Inbounds /\ m.peer \in People
    BY <2>1 DEF Commands, Tagged, Inbounds
  <2>3. /\ orch' = IF m.peer \in orch.session
               THEN [orch EXCEPT !.work = Surface(m) \o <<Save(m.peer)>>]
               ELSE [orch EXCEPT !.waiting[m.peer] = Append(@, m),
                                 !.bundles = @ \cup {m.peer}]
        /\ UNCHANGED <<ui, internal, stored>>
    BY <1>7 DEF StreamMessage
  <2> HIDE DEF m
  <2> DEFINE w == Surface(m) \o <<Save(m.peer)>>
  <2>4. ShownAfter(w)
    BY <2>2, DecryptedWork
  <2> HIDE DEF w
  <2>5. orch'.work \in {w, orch.work}
    BY <1>1, <2>3 DEF OrchOK, w
  <2> QED
    BY <1>1, <2>1, <2>3, <2>4, <2>5, <1>0, TurnsTo
<1>8. CASE KeyBundleFetched
  <2>1. Head(events) \in Events /\ Head(events).what = "bundle" /\ orch.work = <<>>
        /\ UNCHANGED <<ui, internal, stored>>
    BY <1>1, <1>8, TakeTypes DEF KeyBundleFetched, Idle
  <2>2. Head(events).arg \in People
    BY <2>1 DEF Events, Tagged
  <2>3. ShownAfter(orch'.work)
    <3>1. CASE UNCHANGED orch
      BY <1>1, <3>1
    <3>2. CASE Establish(Head(events).arg, <<>>)
      BY <1>1, <2>2, <3>2, NothingToDo, EstablishFacts
    <3> QED
      BY <1>8, <3>1, <3>2 DEF KeyBundleFetched
  <2> QED
    BY <2>1, <2>3, <1>0, TurnsTo
<1>9. CASE ActiveChatChanged
  <2>1. orch'.work = orch.work
    BY <1>1, <1>9 DEF ActiveChatChanged, OrchOK
  <2> QED
    BY <1>4, <1>9, <2>1 DEF ActiveChatChanged
<1>10. CASE OutgoingMessage
  <2> DEFINE e == Head(events)
             w == <<Text(e.arg), Save(e.arg.peer)>>
  <2>1. /\ e \in Events /\ e.what = "text" /\ orch.work = <<>> /\ e.arg.peer # None
        /\ UNCHANGED <<ui, internal, stored>>
    BY <1>1, <1>10, TakeTypes DEF OutgoingMessage, Idle
  <2>2. e.arg \in Texts /\ e.arg.peer \in People
    BY <2>1 DEF Events, Tagged, Texts
  <2>3. Text(e.arg) \in Steps /\ Text(e.arg).what = "text"
    BY <2>2, ItemTypes DEF Text
  <2>4. orch'.work \in {w, orch.work}
    BY <1>1, <1>10 DEF OutgoingMessage, OrchOK
  <2> HIDE DEF e
  <2>5. ShownAfter(w)
    BY <2>2, <2>3, TextWork
  <2> HIDE DEF w
  <2> QED
    BY <1>1, <2>1, <2>4, <2>5, <1>0, TurnsTo
<1>11. CASE FetchSucceeds
  <2> DEFINE f == Head(orch.fetching)
  <2>1. f \in Events /\ f = orch.fetching[1] /\ 1 \in DOMAIN orch.fetching
    BY <1>1, <1>11, QueueTypes DEF FetchSucceeds, OrchOK
  <2>2. f.what # "bundle" /\ (f.what = "text" => f.arg.peer # None)
    BY <1>1, <2>1 DEF OrchOK, Addressed
  <2>3. IF f.what = "open" THEN Establish(f.arg, <<>>)
        ELSE Establish(f.arg.peer, <<f, Save(f.arg.peer)>>)
    BY <1>11 DEF FetchSucceeds
  <2>4. UNCHANGED <<ui, internal, stored>> /\ orch.work = <<>>
    BY <1>1, <1>11 DEF FetchSucceeds, OrchOK
  <2> HIDE DEF f
  <2>5. \/ f.what = "open" /\ f.arg \in People
        \/ f.what = "text" /\ f.arg.peer \in People /\ f \in Steps
    BY <2>1, <2>2 DEF Events, Tagged, Texts, Steps
  <2>6. CASE f.what = "open"
    BY <1>1, <2>3, <2>4, <2>5, <2>6, NothingToDo, EstablishFacts, <1>0, TurnsTo
  <2>7. CASE f.what = "text"
    <3> DEFINE then == <<f, Save(f.arg.peer)>>
    <3>1. then \in Seq(Steps) /\ \A i \in DOMAIN then : then[i].what # "store"
      BY <2>5, <2>7, TextWork
    <3>2. Establish(f.arg.peer, then) /\ f.arg.peer \in People
      BY <2>3, <2>5, <2>7
    <3> HIDE DEF then
    <3> QED
      BY <1>1, <2>4, <3>1, <3>2, EstablishFacts, <1>0, TurnsTo
  <2> QED
    BY <2>5, <2>6, <2>7
<1>12. CASE FetchFails
  BY <1>1, <1>4, <1>12 DEF FetchFails, OrchOK
<1> DEFINE h == Head(orch.work)
<1>13. orch.work # <<>> =>
         /\ ShownAfter(Tail(orch.work))
         /\ h.what = "store" => h.arg \in Args(ToSet(Tail(orch.work)), "show")
         /\ Args(ToSet(orch.work), "show") = Args(ToSet(Tail(orch.work)), "show")
               \cup (IF h.what = "show" THEN {h.arg} ELSE {})
  BY <1>1, ShownAfterTail, ArgsOfQueue
<1>14. CASE StoreInbound
  <2>1. /\ h.what = "store" /\ orch.work # <<>> /\ orch'.work = Tail(orch.work)
        /\ UNCHANGED <<ui, internal>>
    BY <1>1, <1>14, WorkTypes DEF StoreInbound
  <2>2. stored' \in {stored, stored \cup {h.arg}}
    BY <1>14 DEF StoreInbound, Attempt
  <2>3. Coming' = Coming /\ ShownAfter(orch'.work) /\ h.arg \in Coming
    BY <1>2, <1>3, <1>13, <2>1
  <2>4. \A m \in stored : m.peer = ui.opened => m \in ui.view \/ m \in Coming
    BY DEF Complete, OpenChatComplete, Coming, Older
  <2>5. \A m \in stored' : m.peer = ui'.opened => m \in ui'.view \/ m \in Coming'
    BY <2>1, <2>2, <2>3, <2>4
  <2> QED
    BY <2>3, <2>5 DEF Complete, OpenChatComplete, Coming, Older
<1>15. CASE Notify
  <2>1. /\ h.what = "show" /\ orch.work # <<>> /\ orch'.work = Tail(orch.work)
        /\ h \in Steps /\ internal' = Append(internal, h) /\ UNCHANGED <<ui, stored>>
    BY <1>1, <1>15, WorkTypes DEF Notify
  <2>2. h \in Notices
    BY <2>1 DEF Steps, Notices, Tagged
  <2> HIDE DEF h
  <2>3. Args(ToSet(internal'), "show") = Args(ToSet(internal), "show") \cup {h.arg}
    <3>1. Args(ToSet(Append(internal, h)), "show") = Args(ToSet(internal), "show")
             \cup (IF h.what = "show" THEN {h.arg} ELSE {})
      BY <1>1, <2>2, ArgsOfQueue
    <3> QED
      BY <2>1, <3>1
  <2>4. Coming' = Coming /\ ShownAfter(orch'.work)
    BY <1>2, <1>3, <1>13, <2>1, <2>3
  <2> QED
    BY <2>1, <2>4, StillComplete
<1>16. CASE SaveSession \/ SendEncrypted
  <2>1. /\ h.what # "show" /\ orch.work # <<>> /\ orch'.work = Tail(orch.work)
        /\ UNCHANGED <<ui, stored, internal>>
    BY <1>1, <1>16, WorkTypes DEF SaveSession, SendEncrypted
  <2>2. Coming' = Coming /\ ShownAfter(orch'.work)
    BY <1>2, <1>3, <1>13, <2>1
  <2> QED
    BY <2>1, <2>2, StillComplete
<1> QED
  BY <1>5, <1>6, <1>7, <1>8, <1>9, <1>10, <1>11, <1>12, <1>14, <1>15, <1>16
     DEF Orchestrator

\* A second start leaves what is not shown yet to the older orchestrator.
LEMMA CompleteStart == Typed /\ Complete /\ Start => Complete'
<1> SUFFICES ASSUME Typed, Complete, Start PROVE Complete'
  OBVIOUS
<1> USE DEF queues, disk
<1>1. UiOK /\ OrchOK /\ QueuesOK /\ DiskOK /\ ShownAfter(orch.work)
  BY TypedParts DEF Complete
<1>2. CASE Restart
  <2>1. ui'.opened = None
    <3>1. \A known : /\ Fresh(known).opened = None
                     /\ [Fresh(known) EXCEPT !.read = FALSE].opened = None
      BY DEF Fresh
    <3> QED
      BY <1>2, <3>1 DEF Restart
  <2>2. orch'.work = <<>>
    <3>1. \A material : Loaded(material).work = <<>>
      BY DEF Loaded
    <3> QED
      BY <1>2, <3>1 DEF Restart
  <2>3. stored' = stored
    BY <1>2 DEF Restart
  <2>4. \A m \in stored' : m.peer # None
    BY <1>1, <2>3, ItemTypes, ChatAssumption DEF DiskOK
  <2> QED
    BY <2>1, <2>2, <2>4, NothingToDo DEF Complete, OpenChatComplete
<1>3. CASE SecondStart
  <2>1. \E material \in SUBSET People : orch' = Second(material)
    BY <1>1, <1>3, MaterialTypes DEF SecondStart
  <2>2. /\ orch'.work = <<>>
        /\ orch'.older = orch.older \cup {Store(m) : m \in Undecrypted \cup ToStore}
                    \cup {Show(m) : m \in ToShow}
    BY <1>1, <2>1, SecondTypes
  <2>3. /\ UNCHANGED <<internal, stored>>
        /\ ui'.opened = ui.opened /\ ui'.view = ui.view
    <3>1. \A known : LET u == [ui EXCEPT !.screen = "main", !.list = known, !.sel = First(known),
                         !.read = TRUE, !.replaced = ui.shown # None]
                     IN  u.opened = ui.opened /\ u.view = ui.view
      BY <1>1 DEF UiOK
    <3>2. LET u == [ui EXCEPT !.screen = "main"]
          IN  u.opened = ui.opened /\ u.view = ui.view
      BY <1>1 DEF UiOK
    <3> QED
      BY <1>3, <3>1, <3>2 DEF SecondStart
  <2>4. \A m : Store(m).arg = m /\ Show(m).arg = m
    BY DEF Store, Show
  <2>5. Args(ToSet(orch.work), "show") = ToShow \cup (Args(ToSet(orch.work), "show") \cap ToStore)
    BY DEF ToShow
  <2>6. ASSUME NEW m \in Args(ToSet(orch.work), "show") PROVE m \in Older'
    <3>1. CASE m \in ToStore
      <4>1. Store(m) \in orch'.older /\ Store(m).arg = m
        BY <2>2, <2>4, <3>1
      <4> QED
        BY <4>1 DEF Older
    <3>2. CASE m \in ToShow
      <4>1. Show(m) \in orch'.older /\ Show(m).arg = m
        BY <2>2, <2>4, <3>2
      <4> QED
        BY <4>1 DEF Older
    <3> QED
      BY <2>5, <3>1, <3>2
  <2>7. Older \subseteq Older'
    BY <2>2 DEF Older
  <2>8. Coming = Args(ToSet(internal), "show") \cup Args(ToSet(orch.work), "show") \cup Older
    BY ComingTypes
  <2>9. Coming' = Args(ToSet(internal'), "show") \cup Args(ToSet(orch'.work), "show") \cup Older'
    BY ArgsFacts DEF Coming
  <2>10. ShownAfter(orch'.work)
    BY <2>2, NothingToDo
  <2> QED
    BY <2>3, <2>6, <2>7, <2>8, <2>9, <2>10, StillComplete
<1>4. CASE SecondStartFails
  <2>1. ui'.opened = ui.opened /\ ui'.view = ui.view
    BY <1>1, <1>4 DEF SecondStartFails, UiOK
  <2>2. UNCHANGED <<internal, orch, stored>>
    BY <1>4 DEF SecondStartFails
  <2> QED
    BY <1>1, <2>1, <2>2, StillComplete DEF Coming, Older
<1> QED
  BY <1>2, <1>3, <1>4 DEF Start

\* What an older orchestrator stores it shows after that.
LEMMA CompleteOlder ==
    ASSUME Typed, Complete, NEW m, OlderStores(m) \/ OlderNotifies(m)
    PROVE  Complete'
<1> USE DEF queues, disk
<1>1. /\ UiOK /\ OrchOK /\ QueuesOK /\ DiskOK /\ CountOK /\ ShownAfter(orch.work)
      /\ internal \in Seq(Notices)
  BY TypedParts DEF Complete, QueuesOK
<1>2. orch'.work = orch.work
  BY <1>1, OlderTyped
<1>3. Store(m).arg = m /\ Show(m).arg = m /\ Show(m).what = "show"
  BY DEF Store, Show
<1>4. Coming = Args(ToSet(internal), "show") \cup Args(ToSet(orch.work), "show") \cup Older
  BY ComingTypes
<1>5. Coming' = Args(ToSet(internal'), "show") \cup Args(ToSet(orch'.work), "show") \cup Older'
  BY ArgsFacts DEF Coming
<1>6. CASE OlderStores(m)
  <2>1. /\ orch'.older = (orch.older \ {Store(m)}) \cup {Show(m)}
        /\ UNCHANGED <<ui, internal>> /\ stored' \in {stored, stored \cup {m}}
    BY <1>1, <1>6 DEF OlderStores, Attempt, OrchOK
  <2>2. Older \subseteq Older' /\ m \in Older'
    BY <1>3, <2>1 DEF Older
  <2>3. Coming \subseteq Coming' /\ m \in Coming'
    BY <1>2, <1>4, <1>5, <2>1, <2>2
  <2>4. \A x \in stored : x.peer = ui.opened => x \in ui.view \/ x \in Coming
    BY DEF Complete, OpenChatComplete, Coming, Older
  <2>5. \A x \in stored' : x.peer = ui'.opened => x \in ui'.view \/ x \in Coming'
    BY <2>1, <2>3, <2>4
  <2> QED
    BY <1>1, <1>2, <2>5 DEF Complete, OpenChatComplete, Coming, Older
<1>7. CASE OlderNotifies(m)
  <2>1. /\ orch'.older = orch.older \ {Show(m)} /\ Show(m) \in orch.older
        /\ UNCHANGED <<ui, stored>> /\ internal' = Append(internal, Show(m))
    BY <1>1, <1>7 DEF OlderNotifies, OrchOK
  <2>2. Show(m) \in Notices
    <3>1. Show(m) \in Tagged({"store", "show"}, Inbounds)
      BY <1>1, <2>1 DEF OrchOK
    <3> QED
      BY <3>1 DEF Show, Tagged, Notices
  <2>3. Args(ToSet(internal'), "show") = Args(ToSet(internal), "show") \cup {m}
    <3>1. Args(ToSet(Append(internal, Show(m))), "show") = Args(ToSet(internal), "show")
             \cup (IF Show(m).what = "show" THEN {Show(m).arg} ELSE {})
      BY <1>1, <2>2, ArgsOfQueue
    <3> QED
      BY <1>3, <2>1, <3>1
  <2>4. Older \subseteq Older' \cup {m}
    BY <1>3, <2>1 DEF Older
  <2>5. Coming \subseteq Coming'
    BY <1>2, <1>4, <1>5, <2>3, <2>4
  <2> QED
    BY <1>1, <1>2, <2>1, <2>5, StillComplete
<1> QED
  BY <1>6, <1>7

LEMMA CompleteStep == Typed /\ Complete /\ [Next]_vars => Complete'
<1> SUFFICES ASSUME Typed, Complete, [Next]_vars PROVE Complete'
  OBVIOUS
<1>1. CASE UNCHANGED vars
  BY <1>1 DEF vars, Complete, OpenChatComplete
<1> QED
  BY <1>1, CompleteUser, CompleteAnswers, CompleteOrchestrator, CompleteStart,
     CompleteOlder DEF Next

LEMMA InitComplete == Init => Complete
BY NothingToDo DEF Init, Loaded, Complete, OpenChatComplete

\* Whatever the orchestrator persists while a chat is being opened, deleted or
\* opened again, the chat that is open shows it, or is about to.
THEOREM ChatOpenChatComplete == Spec => []OpenChatComplete
<1>1. Complete => OpenChatComplete
  BY DEF Complete
<1> QED
  BY <1>1, InitComplete, CompleteStep, ChatTyped, PTL DEF Spec

-----------------------------------------------------------------------------
(* The order of the texts.                                                 *)

LEMMA IdTypes ==
    ASSUME Typed
    PROVE  /\ SentIds \subseteq Nat /\ TextIds(events) \subseteq Nat
           /\ TextIds(orch.work) \subseteq Nat /\ TextIds(orch.fetching) \subseteq Nat
           /\ InHand \subseteq Nat /\ Upcoming \subseteq Nat /\ count.texts \in Nat
<1>1. \A t \in Texts : t.id \in Nat
  BY ChatAssumption DEF Texts
<1>2. sent \in Seq(Texts) /\ events \in Seq(Events) /\ orch.work \in Seq(Steps)
      /\ orch.fetching \in Seq(Events) /\ count.texts \in 0..MaxTexts
  BY DEF Typed, TypeOK
<1>3. SentIds \subseteq Nat
  BY <1>1, <1>2, QueueTypes DEF SentIds
<1>4. \A e \in Events \cup Steps : e.what = "text" => e.arg.id \in Nat
  BY <1>1 DEF Events, Steps, Tagged
<1>5. \A q \in Seq(Events) \cup Seq(Steps) : TextIds(q) \subseteq Nat
  BY <1>4, QueueTypes DEF TextIds
<1>6. TextIds(events) \subseteq Nat /\ TextIds(orch.work) \subseteq Nat
      /\ TextIds(orch.fetching) \subseteq Nat
  BY <1>2, <1>5
<1> QED
  BY <1>2, <1>3, <1>6, ChatAssumption DEF InHand, Upcoming

\* Most steps hand texts on, or give them up.
LEMMA StillQueued ==
    ASSUME Typed, Queued, sent' = sent, count'.texts = count.texts,
           Ascending(orch'.work), Ascending(events'),
           TextIds(events') \subseteq TextIds(events),
           \/ InHand' \subseteq InHand
           \/ /\ InHand' \subseteq TextIds(events)
              /\ Ahead(InHand', TextIds(events'))
    PROVE  Queued'
<1>1. TextsInOrder' /\ SentIds' = SentIds
  BY DEF Queued, TextsInOrder, SentIds
<1>2. Upcoming' \subseteq Upcoming
  BY DEF Upcoming
<1>3. Ahead(SentIds', Upcoming')
  BY <1>1, <1>2 DEF Queued, Ahead
<1>4. Ahead(InHand', TextIds(events'))
  BY DEF Queued, Ahead
<1>5. \A n \in SentIds' \cup Upcoming' : n <= count'.texts
  BY <1>1, <1>2 DEF Queued
<1> QED
  BY <1>1, <1>3, <1>4, <1>5 DEF Queued

\* ... or do not touch them, whatever else is queued.
LEMMA UntouchedTexts ==
    ASSUME Typed, Queued, sent' = sent, count'.texts = count.texts,
           orch'.work = orch.work, orch'.fetching = orch.fetching,
           \/ events' = events
           \/ \E e \in Events : events' = Append(events, e) /\ e.what # "text"
    PROVE  Queued'
<1>1. InHand' = InHand
  BY DEF InHand
<1>2. events \in Seq(Events) /\ Ascending(events) /\ Ascending(orch'.work)
  BY DEF Typed, TypeOK, Queued
<1>3. Ascending(events') /\ TextIds(events') = TextIds(events)
  <2>1. CASE events' = events
    BY <1>2, <2>1
  <2>2. CASE \E e \in Events : events' = Append(events, e) /\ e.what # "text"
    <3> PICK e \in Events : events' = Append(events, e) /\ e.what # "text"
      BY <2>2
    <3>1. TextIds(Append(events, e)) = TextIds(events)
      <4>1. TextIds(Append(events, e))
               = TextIds(events) \cup (IF e.what = "text" THEN {e.arg.id} ELSE {})
        BY <1>2, TextsOfAppend
      <4> QED
        BY <4>1
    <3>2. Ascending(Append(events, e))
      BY <1>2, TextsOfAppend
    <3> QED
      BY <3>1, <3>2
  <2> QED
    BY <2>1, <2>2
<1> QED
  BY <1>1, <1>2, <1>3, StillQueued

\* Send: the text is the last one.
LEMMA QueuedSend == Typed /\ Queued /\ Send => Queued'
<1> SUFFICES ASSUME Typed, Queued, Send PROVE Queued'
  OBVIOUS
<1> USE DEF queues, disk
<1> DEFINE t == [kind |-> "sent", id |-> count.texts + 1, peer |-> Selected]
<1>1. /\ count.texts < MaxTexts /\ Count("texts")
      /\ events' = IF Selected = None THEN events ELSE Append(events, Text(t))
      /\ UNCHANGED <<orch, sent>>
  BY DEF Send
<1>2. UiOK /\ CountOK /\ events \in Seq(Events)
  BY TypedParts DEF QueuesOK
<1>3. t \in Texts /\ t.id = count.texts + 1
  BY <1>1, <1>2, SelectedTypes, ChatAssumption DEF Texts, CountOK
<1>4. count'.texts = count.texts + 1
  BY <1>1, <1>2, CountTypes
<1> HIDE DEF t
<1>5. Text(t) \in Events /\ Text(t).what = "text" /\ Text(t).arg = t
  BY <1>3, ItemTypes DEF Text
<1>6. InHand' = InHand /\ SentIds' = SentIds /\ Ascending(orch'.work) /\ TextsInOrder'
  BY <1>1 DEF InHand, SentIds, Queued, TextsInOrder
<1>7. \A n \in SentIds \cup Upcoming : n < t.id
  BY <1>3, IdTypes DEF Queued
<1>8. TextIds(events') \subseteq TextIds(events) \cup {t.id} /\ Ascending(events')
  <2>1. Ahead(TextIds(events), {t.id}) /\ Ascending(events)
    BY <1>7 DEF Ahead, Upcoming, Queued
  <2> QED
    BY <1>1, <1>2, <1>5, <2>1, TextsOfAppend
<1>9. Ahead(SentIds', Upcoming') /\ Ahead(InHand', TextIds(events'))
  <2>1. Ahead(SentIds, Upcoming) /\ Ahead(InHand, TextIds(events))
    BY DEF Queued
  <2>2. Upcoming' \subseteq Upcoming \cup {t.id} /\ InHand \subseteq Upcoming
    BY <1>6, <1>8 DEF Upcoming
  <2>3. Ahead(SentIds', Upcoming')
    BY <1>6, <1>7, <2>1, <2>2 DEF Ahead
  <2>4. Ahead(InHand', TextIds(events'))
    BY <1>6, <1>7, <1>8, <2>1, <2>2 DEF Ahead
  <2> QED
    BY <2>3, <2>4
<1>10. \A n \in SentIds' \cup Upcoming' : n <= count'.texts
  <2>1. \A n \in SentIds' \cup Upcoming' : n \in SentIds \cup Upcoming \/ n = t.id
    BY <1>6, <1>8 DEF Upcoming
  <2>2. \A n \in SentIds \cup Upcoming : n <= count.texts /\ n \in Nat
    BY IdTypes DEF Queued
  <2> QED
    BY <1>3, <1>4, <2>1, <2>2, IdTypes
<1> QED
  BY <1>6, <1>8, <1>9, <1>10 DEF Queued

LEMMA QueuedUser == Typed /\ Queued /\ User => Queued'
<1> SUFFICES ASSUME Typed, Queued, User PROVE Queued'
  OBVIOUS
<1> USE DEF OnlyUi, queues, disk
<1>1. UiOK /\ CountOK
  BY TypedParts
<1>2. CASE OpenChat
  <2>1. UNCHANGED <<orch, sent>>
    BY <1>2 DEF OpenChat
  <2>2. CASE Selected = None
    <3>1. events' = events /\ count' = count
      BY <1>2, <2>2 DEF OpenChat
    <3> QED
      BY <2>1, <3>1, UntouchedTexts
  <2>3. CASE Selected # None
    <3>1. Selected \in People
      BY <1>1, <2>3, SelectedTypes
    <3>2. events' = Append(events, Open(Selected)) /\ (UNCHANGED count \/ Upset)
      BY <1>2, <2>3 DEF OpenChat
    <3>3. Open(Selected) \in Events /\ Open(Selected).what # "text"
      BY <3>1, ItemTypes DEF Open
    <3>4. count'.texts = count.texts
      BY <1>1, <3>2, CountTypes
    <3> QED
      BY <2>1, <3>2, <3>3, <3>4, UntouchedTexts
  <2> QED
    BY <2>2, <2>3
<1>3. CASE AddFound
  <2>1. ui.found \in People /\ FinishAdd(ui.found)
    BY <1>1, <1>3 DEF AddFound, UiOK
  <2>2. /\ orch' = orch /\ sent' = sent /\ count'.texts = count.texts
        /\ events' = Append(events, Open(ui.found))
    BY <2>1, FinishAddFacts
  <2>3. Open(ui.found) \in Events /\ Open(ui.found).what # "text"
    BY <2>1, ItemTypes DEF Open
  <2> QED
    BY <2>2, <2>3, UntouchedTexts
<1>4. CASE DeleteFails \/ \E what \in {"search", "invite"}, c \in People : SubmitSearch(what, c)
  <2>1. UNCHANGED <<orch, sent, events>> /\ count'.texts = count.texts
    BY <1>1, <1>4, CountTypes DEF DeleteFails, SubmitSearch
  <2> QED
    BY <2>1, UntouchedTexts
<1>5. CASE \/ MoveSelection \/ LeaveChat \/ AskDelete \/ CancelDelete
           \/ ConfirmDelete \/ OpenSearch \/ EditSearch
  <2>1. UNCHANGED <<orch, sent, events, count>>
    BY <1>5 DEF MoveSelection, LeaveChat, AskDelete, CancelDelete, ConfirmDelete,
       OpenSearch, EditSearch
  <2> QED
    BY <2>1, UntouchedTexts
<1> QED
  BY <1>2, <1>3, <1>4, <1>5, QueuedSend DEF User

LEMMA QueuedAnswers == Typed /\ Queued /\ (Server \/ Internal) => Queued'
<1> SUFFICES ASSUME Typed, Queued, Server \/ Internal PROVE Queued'
  OBVIOUS
<1> USE DEF queues, disk
<1>1. CountOK /\ internal \in Seq(Notices)
  BY TypedParts DEF QueuesOK
<1>2. CASE InviteAccepted
  <2> DEFINE c == Head(internal).arg
  <2>1. c \in People /\ FinishAdd(c)
    BY <1>1, <1>2, QueueTypes DEF InviteAccepted, Notices, Tagged
  <2> HIDE DEF c
  <2>2. /\ orch' = orch /\ sent' = sent /\ count'.texts = count.texts
        /\ events' = Append(events, Open(c))
    BY <2>1, FinishAddFacts
  <2>3. Open(c) \in Events /\ Open(c).what # "text"
    BY <2>1, ItemTypes DEF Open
  <2> QED
    BY <2>2, <2>3, UntouchedTexts
<1>3. CASE Server
  <2>1. UNCHANGED <<sent, events>> /\ count'.texts = count.texts
    BY <1>1, <1>3, CountTypes DEF Server, Arrive, LookupAnswers, LookupFails
  <2>2. \A x : orch' = [orch EXCEPT !.older = @ \cup {x}] =>
           orch'.work = orch.work /\ orch'.fetching = orch.fetching
    BY TypedParts DEF OrchOK
  <2>3. orch'.work = orch.work /\ orch'.fetching = orch.fetching
    BY <1>3, <2>2 DEF Server, Arrive, LookupAnswers, LookupFails
  <2> QED
    BY <2>1, <2>3, UntouchedTexts
<1>4. CASE ShowMessage \/ ShowFound
  BY <1>4, UntouchedTexts DEF ShowMessage, ShowFound
<1> QED
  BY <1>2, <1>3, <1>4 DEF Internal

LEMMA QueuedOrchestrator ==
    Typed /\ Queued /\ (Orchestrator \/ \E c \in People : BundleTask(c)) => Queued'
<1> SUFFICES ASSUME Typed, Queued, Orchestrator \/ \E c \in People : BundleTask(c)
             PROVE  Queued'
  OBVIOUS
<1> USE DEF queues, disk
<1>1. /\ OrchOK /\ QueuesOK /\ CountOK
      /\ orch.work \in Seq(Steps) /\ events \in Seq(Events)
  BY TypedParts, ComingTypes DEF QueuesOK
<1>2. Ascending(orch.work) /\ Ascending(events)
  BY DEF Queued
<1>3. CASE ForgetContact
  <2>1. /\ orch'.work = orch.work /\ orch'.fetching = orch.fetching
        /\ Attempt(keys', keys \ {Head(cmds).arg}, keys)
        /\ UNCHANGED <<events, sent>>
    BY <1>1, <1>3 DEF ForgetContact, OrchOK
  <2>2. count'.texts = count.texts
    BY <1>1, <2>1, AttemptTypes
  <2> QED
    BY <2>1, <2>2, UntouchedTexts
<1>4. CASE \E c \in People : BundleTask(c)
  <2> PICK c \in People : BundleTask(c)
    BY <1>4
  <2>1. Bundle(c) \in Events /\ Bundle(c).what # "text"
    BY ItemTypes DEF Bundle
  <2>2. /\ orch'.work = orch.work /\ orch'.fetching = orch.fetching
        /\ UNCHANGED <<count, sent>>
        /\ events' = events \/ events' = Append(events, Bundle(c))
    BY <1>1 DEF BundleTask, OrchOK
  <2> QED
    BY <2>1, <2>2, UntouchedTexts
<1>5. CASE StreamMessage
  <2> DEFINE m == Head(cmds).arg
             w == Surface(m) \o <<Save(m.peer)>>
  <2>1. Head(cmds) \in Commands /\ orch.work = <<>> /\ Head(cmds).what = "inbound"
    BY <1>1, <1>5, TakeTypes DEF StreamMessage, Idle
  <2>2. m \in Inbounds /\ m.peer \in People
    BY <2>1 DEF Commands, Tagged, Inbounds
  <2>3. /\ orch' = IF m.peer \in orch.session
               THEN [orch EXCEPT !.work = w]
               ELSE [orch EXCEPT !.waiting[m.peer] = Append(@, m),
                                 !.bundles = @ \cup {m.peer}]
        /\ UNCHANGED <<events, sent, count>>
    BY <1>5 DEF StreamMessage
  <2> HIDE DEF m
  <2>4. Ascending(w) /\ TextIds(w) = {}
    BY <2>2, DecryptedWork
  <2> HIDE DEF w
  <2>5. orch'.work \in {w, orch.work} /\ orch'.fetching = orch.fetching
    BY <1>1, <2>3 DEF OrchOK
  <2>6. InHand' \subseteq InHand /\ Ascending(orch'.work)
    BY <1>2, <2>4, <2>5 DEF InHand
  <2> QED
    BY <1>2, <2>3, <2>6, StillQueued
<1> DEFINE e == Head(events)
<1>6. events # <<>> =>
         /\ TextIds(events) = TextIds(Tail(events)) \cup
               (IF e.what = "text" THEN {e.arg.id} ELSE {})
         /\ Ascending(Tail(events))
         /\ e.what = "text" => Ahead({e.arg.id}, TextIds(Tail(events)))
  BY <1>1, <1>2, TextsOfTail
<1>7. CASE KeyBundleFetched
  <2>1. /\ e \in Events /\ e.what = "bundle" /\ events # <<>>
        /\ orch.work = <<>> /\ orch.fetching = <<>>
        /\ events' = Tail(events) /\ UNCHANGED <<sent, count>>
    BY <1>1, <1>7, TakeTypes DEF KeyBundleFetched, Idle, NextEvent
  <2>2. e.arg \in People
    BY <2>1 DEF Events, Tagged
  <2>3. Ascending(orch'.work) /\ InHand' \subseteq InHand
    <3>1. CASE UNCHANGED orch
      BY <1>2, <3>1 DEF InHand
    <3>2. CASE Establish(e.arg, <<>>)
      <4>1. /\ orch'.fetching = <<>> /\ TextIds(orch'.work) = {}
            /\ Ascending(orch'.work)
        BY <1>1, <2>2, <3>2, NothingToDo, EstablishFacts
      <4> QED
        BY <4>1, NothingToDo DEF InHand
    <3> QED
      BY <1>7, <3>1, <3>2 DEF KeyBundleFetched
  <2> QED
    BY <1>6, <2>1, <2>3, StillQueued
<1>8. CASE ActiveChatChanged
  <2>1. /\ e \in Events /\ e.what = "open" /\ events # <<>>
        /\ orch.work = <<>> /\ orch.fetching = <<>>
        /\ events' = Tail(events) /\ UNCHANGED <<sent, count>>
        /\ orch'.work = orch.work /\ orch'.fetching \in {orch.fetching, <<e>>}
    BY <1>1, <1>8, TakeTypes DEF ActiveChatChanged, Idle, NextEvent, OrchOK
  <2> HIDE DEF e
  <2>2. TextIds(<<e>>) = {}
    <3>1. DOMAIN <<e>> = {1} /\ <<e>>[1] = e
      OBVIOUS
    <3> QED
      BY <2>1, <3>1 DEF TextIds
  <2>3. InHand' \subseteq InHand
    BY <2>1, <2>2 DEF InHand
  <2> QED
    BY <1>2, <1>6, <2>1, <2>3, StillQueued
<1>9. CASE OutgoingMessage
  <2> DEFINE t == e.arg
             w == <<Text(t), Save(t.peer)>>
  <2>1. /\ e \in Events /\ e.what = "text" /\ events # <<>> /\ t.peer # None
        /\ orch.work = <<>> /\ orch.fetching = <<>>
        /\ events' = Tail(events) /\ UNCHANGED <<sent, count>>
    BY <1>1, <1>9, TakeTypes DEF OutgoingMessage, Idle, NextEvent
  <2>2. t \in Texts /\ t.peer \in People
    BY <2>1 DEF Events, Tagged, Texts
  <2>3. Text(t) \in Steps /\ Text(t).what = "text" /\ Text(t).arg = t
    BY <2>2, ItemTypes DEF Text
  <2>4. \/ orch'.work = w /\ orch'.fetching = orch.fetching
        \/ orch'.work = orch.work /\ orch'.fetching = <<e>>
    BY <1>1, <1>9 DEF OutgoingMessage, OrchOK
  <2>5. TextIds(w) = {t.id} /\ Ascending(w)
    BY <2>2, <2>3, TextWork
  <2> HIDE DEF w, e
  <2>6. TextIds(<<e>>) = {t.id}
    <3>1. DOMAIN <<e>> = {1} /\ <<e>>[1] = e
      OBVIOUS
    <3> QED
      BY <2>1, <3>1 DEF TextIds
  <2>7. InHand' = {t.id} /\ Ascending(orch'.work)
    BY <1>2, <2>1, <2>4, <2>5, <2>6, NothingToDo DEF InHand
  <2>8. InHand' \subseteq TextIds(events) /\ Ahead(InHand', TextIds(events'))
    BY <1>6, <2>1, <2>7
  <2> QED
    BY <1>6, <2>1, <2>7, <2>8, StillQueued
<1>10. CASE FetchSucceeds
  <2> DEFINE f == Head(orch.fetching)
  <2>1. f \in Events /\ f = orch.fetching[1] /\ 1 \in DOMAIN orch.fetching
    BY <1>1, <1>10, QueueTypes DEF FetchSucceeds, OrchOK
  <2>2. f.what # "bundle" /\ (f.what = "text" => f.arg.peer # None)
    BY <1>1, <2>1 DEF OrchOK, Addressed
  <2>3. IF f.what = "open" THEN Establish(f.arg, <<>>)
        ELSE Establish(f.arg.peer, <<f, Save(f.arg.peer)>>)
    BY <1>10 DEF FetchSucceeds
  <2>4. UNCHANGED <<events, sent, count>>
    BY <1>10 DEF FetchSucceeds
  <2> HIDE DEF f
  <2>5. \/ f.what = "open" /\ f.arg \in People
        \/ f.what = "text" /\ f.arg.peer \in People /\ f \in Steps
    BY <2>1, <2>2 DEF Events, Tagged, Texts, Steps
  <2>6. f.what = "text" => f.arg.id \in InHand
    BY <2>1 DEF InHand, TextIds
  <2>7. Ascending(orch'.work) /\ InHand' \subseteq InHand
    <3>1. CASE f.what = "open"
      <4>1. /\ orch'.fetching = <<>> /\ TextIds(orch'.work) = {}
            /\ Ascending(orch'.work)
        BY <1>1, <2>3, <2>5, <3>1, NothingToDo, EstablishFacts
      <4> QED
        BY <4>1, NothingToDo DEF InHand
    <3>2. CASE f.what = "text"
      <4> DEFINE then == <<f, Save(f.arg.peer)>>
      <4>1. /\ then \in Seq(Steps) /\ \A i \in DOMAIN then : then[i].what # "store"
            /\ TextIds(then) = {f.arg.id} /\ Ascending(then)
        BY <2>5, <3>2, TextWork
      <4>2. Establish(f.arg.peer, then) /\ f.arg.peer \in People
        BY <2>3, <2>5, <3>2
      <4> HIDE DEF then
      <4>3. /\ orch'.fetching = <<>> /\ TextIds(orch'.work) = {f.arg.id}
            /\ Ascending(orch'.work)
        BY <1>1, <4>1, <4>2, EstablishFacts
      <4> QED
        BY <2>6, <3>2, <4>3, NothingToDo DEF InHand
    <3> QED
      BY <2>5, <3>1, <3>2
  <2> QED
    BY <1>2, <2>4, <2>7, StillQueued
<1>11. CASE FetchFails
  <2>1. /\ orch'.work = orch.work /\ orch'.fetching = <<>>
        /\ UNCHANGED <<events, sent, count>>
    BY <1>1, <1>11 DEF FetchFails, OrchOK
  <2>2. InHand' \subseteq InHand
    BY <2>1, NothingToDo DEF InHand
  <2> QED
    BY <1>2, <2>1, <2>2, StillQueued
<1> DEFINE h == Head(orch.work)
<1>12. orch.work # <<>> =>
         /\ TextIds(orch.work) = TextIds(Tail(orch.work)) \cup
               (IF h.what = "text" THEN {h.arg.id} ELSE {})
         /\ Ascending(Tail(orch.work))
         /\ h.what = "text" => Ahead({h.arg.id}, TextIds(Tail(orch.work)))
  BY <1>1, <1>2, TextsOfTail
<1>13. CASE StoreInbound \/ Notify \/ SaveSession
  <2>1. /\ orch.work # <<>> /\ orch'.work = Tail(orch.work)
        /\ orch'.fetching = orch.fetching /\ UNCHANGED <<events, sent>>
    BY <1>1, <1>13, WorkTypes DEF StoreInbound, Notify, SaveSession
  <2>2. count'.texts = count.texts
    BY <1>1, <1>13, AttemptTypes DEF StoreInbound, Notify, SaveSession
  <2>3. InHand' \subseteq InHand /\ Ascending(orch'.work)
    BY <1>12, <2>1 DEF InHand
  <2> QED
    BY <1>2, <2>1, <2>2, <2>3, StillQueued
<1>14. CASE SendEncrypted
  <2> DEFINE t == h.arg
  <2>1. /\ orch.work # <<>> /\ orch'.work = Tail(orch.work) /\ orch.fetching = <<>>
        /\ orch'.fetching = <<>> /\ h \in Steps /\ h.what = "text"
        /\ sent' = Append(sent, t) /\ UNCHANGED <<events, count>>
    BY <1>1, <1>14, WorkTypes DEF SendEncrypted
  <2>2. t \in Texts /\ sent \in Seq(Texts)
    BY <2>1 DEF Steps, Tagged, Typed, TypeOK
  <2>3. /\ TextIds(orch.work) = TextIds(Tail(orch.work)) \cup {t.id}
        /\ Ascending(orch'.work) /\ Ahead({t.id}, TextIds(orch'.work))
    BY <1>12, <2>1
  <2> HIDE DEF t
  <2>4. InHand = TextIds(orch.work) /\ InHand' = TextIds(orch'.work)
    BY <2>1, NothingToDo DEF InHand
  <2>5. InHand = InHand' \cup {t.id} /\ Ahead({t.id}, InHand')
    BY <2>1, <2>3, <2>4
  <2>6. /\ DOMAIN sent' = 1..(Len(sent) + 1) /\ DOMAIN sent = 1..Len(sent)
        /\ Len(sent) \in Nat
        /\ \A i \in 1..Len(sent) : sent'[i] = sent[i]
        /\ sent'[Len(sent) + 1] = t
    BY <2>1, <2>2, QueueTypes
  <2>7. SentIds' = SentIds \cup {t.id}
    BY <2>6 DEF SentIds
  <2>8. /\ Ahead(SentIds, Upcoming) /\ Ahead(InHand, TextIds(events))
        /\ \A n \in SentIds \cup Upcoming : n <= count.texts
        /\ TextsInOrder
    BY DEF Queued
  <2>9. Upcoming = Upcoming' \cup {t.id}
    BY <2>1, <2>5 DEF Upcoming
  <2>10. TextsInOrder'
    <3>1. \A i \in 1..Len(sent) : sent[i].id < t.id
      BY <2>6, <2>8, <2>9 DEF Ahead, SentIds
    <3> SUFFICES ASSUME NEW i \in DOMAIN sent', NEW j \in DOMAIN sent', i < j
                 PROVE  sent'[i].id < sent'[j].id
      BY DEF TextsInOrder
    <3>2. i \in 1..Len(sent)
      BY <2>6
    <3>3. CASE j = Len(sent) + 1
      BY <2>6, <3>1, <3>2, <3>3
    <3>4. CASE j \in 1..Len(sent)
      BY <2>6, <2>8, <3>2, <3>4 DEF TextsInOrder
    <3> QED
      BY <2>6, <3>3, <3>4
  <2>11. Ahead({t.id}, Upcoming')
    BY <2>1, <2>5, <2>8 DEF Upcoming, Ahead
  <2>12. Ahead(SentIds', Upcoming')
    BY <2>7, <2>8, <2>9, <2>11 DEF Ahead
  <2>13. Ahead(InHand', TextIds(events'))
    BY <2>1, <2>5, <2>8 DEF Ahead
  <2>14. \A n \in SentIds' \cup Upcoming' : n <= count'.texts
    BY <2>1, <2>7, <2>8, <2>9
  <2>15. Ascending(events')
    BY <1>2, <2>1
  <2> QED
    BY <2>3, <2>10, <2>12, <2>13, <2>14, <2>15 DEF Queued
<1> QED
  BY <1>3, <1>4, <1>5, <1>7, <1>8, <1>9, <1>10, <1>11, <1>13, <1>14 DEF Orchestrator

LEMMA QueuedStep == Typed /\ Queued /\ [Next]_vars => Queued'
<1> SUFFICES ASSUME Typed, Queued, [Next]_vars PROVE Queued'
  OBVIOUS
<1>0. UiOK /\ OrchOK /\ QueuesOK /\ DiskOK /\ CountOK
  BY TypedParts
<1>1. CASE Restart \/ SecondStart
  <2>0. \E material \in SUBSET People : orch' = Loaded(material) \/ orch' = Second(material)
    BY <1>0, <1>1, MaterialTypes DEF Restart, SecondStart
  <2>1. /\ orch'.work = <<>> /\ orch'.fetching = <<>> /\ events' = <<>> /\ sent' = sent
        /\ Upset
    BY <1>0, <1>1, <2>0, StartedTypes DEF Restart, SecondStart
  <2>2. count'.texts = count.texts
    BY <2>1, TypedParts, CountTypes
  <2>3. Ascending(orch'.work) /\ Ascending(events') /\ InHand' = {} /\ TextIds(events') = {}
    BY <2>1, NothingToDo DEF InHand
  <2> QED
    BY <2>1, <2>2, <2>3, StillQueued
<1>2. CASE UNCHANGED vars
  BY <1>2, UntouchedTexts DEF vars
<1>3. CASE SecondStartFails
  <2>1. UNCHANGED <<orch, sent, events>> /\ count'.texts = count.texts
    BY <1>0, <1>3, CountTypes DEF SecondStartFails, queues
  <2> QED
    BY <2>1, UntouchedTexts
<1>4. ASSUME NEW m, OlderStores(m) \/ OlderNotifies(m) PROVE Queued'
  <2>1. /\ UNCHANGED <<sent, events>> /\ count'.texts = count.texts
        /\ orch'.work = orch.work /\ orch'.fetching = orch.fetching
    BY <1>0, <1>4, OlderTyped DEF OlderStores, OlderNotifies, queues, disk
  <2> QED
    BY <2>1, UntouchedTexts
<1> QED
  BY <1>1, <1>2, <1>3, <1>4, QueuedUser, QueuedAnswers, QueuedOrchestrator DEF Next, Start

LEMMA InitQueued == Init => Queued
<1> SUFFICES ASSUME Init PROVE Queued
  OBVIOUS
<1>1. /\ orch.work = <<>> /\ orch.fetching = <<>> /\ events = <<>> /\ sent = <<>>
  BY DEF Init, Loaded
<1>2. Upcoming = {} /\ InHand = {} /\ SentIds = {}
  BY <1>1, NothingToDo DEF InHand, Upcoming, SentIds
<1> QED
  BY <1>1, <1>2, NothingToDo DEF Queued, TextsInOrder, Ahead

\* Texts reach the core the UI talks to in the order they were composed and at
\* most once, however many sessions have to be opened for them, restarts and
\* second starts included.
THEOREM ChatTextsInOrder == Spec => []TextsInOrder
<1>1. Queued => TextsInOrder
  BY DEF Queued
<1> QED
  BY <1>1, InitQueued, QueuedStep, ChatTyped, PTL DEF Spec
=============================================================================
