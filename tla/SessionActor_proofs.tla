------------------------- MODULE SessionActor_proofs -------------------------
(***************************************************************************)
(* Proofs about SessionActor: its types, that an ended session's keys stay *)
(* on disk, that a chat's session starts with its ping, that InitSession   *)
(* is not undone in its cycle, and that no message is shown twice.         *)
(*                                                                         *)
(* All of them rest on how a handler unfolds: what may stand in its plan,  *)
(* which actions come last, when follow-ups can be there, and what an      *)
(* action that is still to be dispatched may rely on.                      *)
(***************************************************************************)
EXTENDS SessionActor, QueueFacts

-----------------------------------------------------------------------------
(* Types of the queues.                                                    *)

Items(kinds, args) == [kind : kinds, peer : Peers, arg : args]

Outs == [what : {"text"}, text : Texts] \cup [what : {"ping", "beat"}, text : {0}]
PingOut == [what |-> "ping", text |-> 0]

Commands == Items({"received"}, Arrivals) \cup Items({"forget"}, {None})
Events   == Items({"open", "timer", "bundle", "launched"}, {None})
              \cup Items({"out"}, Outs)
Opening  == Items({"open"}, {None}) \cup Items({"out"}, Outs)
Handled  == Items({"received"}, Arrivals) \cup Items({"away"}, {None}) \cup Events
Follows  == Items({"inited"}, {None}) \cup Items({"acked"}, Arrivals)
              \cup Items({"out"}, {PingOut}) \cup Items({"loaded"}, Sessions \cup {None})
Steps    == [do : {"cycle", "shallow"}, event : Handled]
              \cup [do : {"fetch", "ping", "require"}, event : Opening]
              \cup [do : {"forget"}, event : Items({"forget"}, {None})]
Actions  == Items({"show", "check", "rejoin"}, Arrivals)
              \cup Items({"save", "retry", "terminate", "fetch", "init", "beat",
                          "reinit", "unrow", "preview", "load"}, {None})
              \cup Items({"erase"}, {"session", "archive"})
              \cup Items({"heal"}, {"Initiator", "Responder"})
              \cup Items({"send"}, Outs)

Fates == {"none", "queued", "sent", "refused", "dropped", "lost"}

CoreOK ==
    /\ session \in [Peers -> Sessions \cup {None}]
    /\ pending \in [Peers -> Seq(Arrivals)]
    /\ healing \in [Peers -> Arrivals \cup {None}]

DiskOK ==
    /\ rows \in [Peers -> Sessions \cup {None}] /\ archive \in [Peers -> BOOLEAN]
    /\ ended \subseteq Peers

RestOK ==
    /\ fetches \in [Peers -> Nat] /\ retries \in [Peers -> Nat]
    /\ bubbles \in Seq(Arrivals) /\ previews \in Nat /\ fate \in [Texts -> Fates]
    /\ arrived \in 0..MaxIn /\ moves \in 0..MaxMoves /\ upsets \in 0..MaxUpsets
    /\ cmds \in Seq(Commands) /\ events \in Seq(Events)

CycleOK ==
    /\ plan \in Seq(Steps) /\ acts \in Seq(Actions) /\ follow \in Seq(Follows)
    /\ deep \in BOOLEAN /\ nested \in BOOLEAN /\ inited \subseteq Peers

Typed == CoreOK /\ DiskOK /\ RestOK /\ CycleOK

-----------------------------------------------------------------------------
(* How a handler unfolds.                                                  *)

\* The plan: a message is a handler of its own, a contact is forgotten after
\* its chat was left, a ping waits for the session of its chat, and what the
\* user or a timer sends comes last.
PlanShape(q) == \A i \in DOMAIN q :
    /\ q[i].event.kind = "received" => Len(q) = 1
    /\ q[i].do = "forget" => i = 1 \/ (i = 2 /\ q[1].event.kind = "away")
    /\ q[i].do = "ping" => i = 1 \/ q[i - 1].event = Act("bundle", q[i].event.peer)
    /\ q[i].do \in {"cycle", "shallow"} /\ q[i].event.kind = "out"
          /\ q[i].event.arg.what # "ping"
          => i = Len(q)

\* Actions that push follow-ups or await come last.
Plain == {"show", "save", "send"}
LastOnly(q) == \A i \in DOMAIN q : q[i].kind \notin Plain => i = Len(q)
Pushing == {"init", "heal", "reinit", "rejoin", "check", "load"}

\* The peer of the ping that comes next.
AwaitsPing(p) == plan # <<>> /\ Head(plan).do = "ping" /\ Head(plan).event.peer = p
PingNext == plan # <<>> /\ Head(plan).do = "ping"

\* What an action that is still to be dispatched relies on.
ActOK(a) ==
    /\ a.kind \in Pushing /\ ~nested => follow = <<>>
    /\ a.kind = "check" => ~nested /\ plan = <<>>
    /\ a.kind \in {"check", "init"} => inited = {}
    /\ a.kind = "send" /\ a.arg.what # "ping" => plan = <<>>
    /\ a.kind \in {"save", "send"} => Active(a.peer)
    /\ a.kind = "unrow" => archive[a.peer]
    /\ a.kind \in {"reinit", "rejoin"} => a.peer \notin inited
    /\ PingNext => AwaitsPing(a.peer)

FollowOK(f) ==
    /\ f.kind = "acked" => Len(follow) = 1 /\ acts = <<>> /\ plan = <<>> /\ inited = {}
    /\ f.kind = "inited" => Active(f.peer)
    /\ PingNext => AwaitsPing(f.peer)

Linked ==
    /\ \A a \in ToSet(acts) : ActOK(a)
    /\ \A f \in ToSet(follow) : FollowOK(f)
    /\ \A p \in inited : Active(p)
    /\ plan # <<>> /\ (Head(plan).do = "forget" \/ Head(plan).event.kind = "received")
          => acts = <<>> /\ follow = <<>>
    /\ plan # <<>> /\ Head(plan).do = "forget" => inited = {}
    /\ Len(follow) <= 2

Orderly == PlanShape(plan) /\ LastOnly(acts) /\ Linked

\* A new session of an opened chat has its ping ahead of it.
PingAhead(p) ==
    \/ AwaitsPing(p)
    \/ plan # <<>> /\ Head(plan) = Cycle(Ping(p), FALSE)
    \/ acts # <<>> /\ Head(acts) = Item("send", p, PingOut)
PingsAhead ==
    \A p \in Peers : session[p] # None /\ session[p].by = "open"
                        /\ session[p].first = "none" => PingAhead(p)
Pinged == PingFirst /\ PingsAhead

-----------------------------------------------------------------------------
(* Where a message is.                                                     *)

Ids(kind, q) == {x.arg.id : x \in {y \in ToSet(q) : y.kind = kind}}
MIds(q) == {m.id : m \in ToSet(q)}
InHand == {s.event.arg.id : s \in {x \in ToSet(plan) : x.event.kind = "received"}}
            \cup Ids("check", acts) \cup Ids("acked", follow)
Kept(p) == IF healing[p] = None THEN {} ELSE {healing[p].id}
Taken == Ids("show", acts) \cup Ids("rejoin", acts) \cup MIds(bubbles)
           \cup UNION {MIds(pending[p]) \cup Kept(p) : p \in Peers}
Ahead(A, B) == \A a \in A, b \in B : a < b

\* Ids appear in a queue at most once.
Distinct(q) == \A i, j \in DOMAIN q : q[i].id = q[j].id => i = j
DistinctOf(kind, q) ==
    \A i, j \in DOMAIN q : q[i].kind = kind /\ q[j].kind = kind
        /\ q[i].arg.id = q[j].arg.id => i = j
Ascending(q) ==
    \A i, j \in DOMAIN q : i < j /\ q[i].kind = "received" /\ q[j].kind = "received"
        => q[i].arg.id < q[j].arg.id

\* A message that waits for a session is nowhere else.
Apart ==
    /\ Ids("show", acts) \cap MIds(bubbles) = {}
    /\ \A p \in Peers :
          /\ MIds(pending[p]) \cap (Ids("show", acts) \cup MIds(bubbles)) = {}
          /\ \A q \in Peers \ {p} : MIds(pending[p]) \cap MIds(pending[q]) = {}

\* Messages are taken up in the order they came.
InTurn ==
    /\ Ascending(cmds)
    /\ Ahead(Taken, InHand \cup Ids("received", cmds))
    /\ Ahead(InHand, Ids("received", cmds))
    /\ \A n \in Taken \cup InHand \cup Ids("received", cmds) : n \in 1..arrived

\* The payload of a heal, if it still waits, is the first to wait.
First(m, q) == \A i \in DOMAIN q : q[i] = m => i = 1
HealsFirst ==
    /\ \A p \in Peers : First(healing[p], pending[p])
    /\ \A a \in ToSet(acts) : a.kind = "rejoin" => First(a.arg, pending[a.peer])

\* What waits to be shown, and what opens a session, is nowhere else.
Waits ==
    /\ SurfacedOnce /\ DistinctOf("show", acts)
    /\ \A p \in Peers : Distinct(pending[p])
    /\ Apart /\ HealsFirst

-----------------------------------------------------------------------------
(* What items are.                                                         *)

LEMMA Contents ==
    /\ \A x \in Actions :
          /\ x.peer \in Peers
          /\ x.kind \in {"show", "check", "rejoin"} => x.arg \in Arrivals
          /\ x.kind = "send" => x.arg \in Outs
    /\ \A x \in Handled \cup Follows :
          /\ x.peer \in Peers
          /\ x.kind \in {"received", "acked"} => x.arg \in Arrivals
          /\ x.kind = "out" => x.arg \in Outs
          /\ x.kind = "loaded" => x.arg \in Sessions \cup {None}
    /\ \A x \in Commands : x.kind = "received" => x.arg \in Arrivals
    /\ \A x \in Commands : x.peer \in Peers /\ x.kind \in {"received", "forget"}
    /\ \A x \in Outs : /\ x.what = "text" => x.text \in Texts
                       /\ x.what \in {"text", "ping", "beat"}
BY DEF Actions, Handled, Follows, Events, Commands, Items, Outs, PingOut

LEMMA NewActions ==
    ASSUME NEW p \in Peers
    PROVE  /\ \A kind \in {"save", "retry", "terminate", "fetch", "init", "beat",
                           "reinit", "unrow", "preview", "load"} : Act(kind, p) \in Actions
           /\ \A row \in {"session", "archive"} : Item("erase", p, row) \in Actions
           /\ \A kind \in {"show", "check", "rejoin"}, m \in Arrivals :
                 Item(kind, p, m) \in Actions
           /\ Item("heal", p, "Initiator") \in Actions
           /\ Item("heal", p, "Responder") \in Actions
           /\ \A x \in Outs : Item("send", p, x) \in Actions
           /\ \A kind, arg : /\ Item(kind, p, arg).kind = kind
                             /\ Item(kind, p, arg).peer = p
                             /\ Item(kind, p, arg).arg = arg
           /\ \A kind : Act(kind, p).kind = kind /\ Act(kind, p).peer = p
BY DEF Act, Item, Actions, Items

LEMMA NewEvents ==
    ASSUME NEW p \in Peers
    PROVE  /\ \A kind \in {"open", "timer", "bundle", "launched"} : Act(kind, p) \in Events
           /\ \A x \in Outs : Item("out", p, x) \in Events
           /\ Ping(p) \in Events /\ Ping(p) \in Follows /\ Ping(p).kind = "out"
           /\ Ping(p).peer = p /\ Ping(p).arg = PingOut /\ PingOut \in Outs
           /\ Act("inited", p) \in Follows /\ Act("inited", p).kind = "inited"
           /\ Act("inited", p).peer = p
           /\ \A m \in Arrivals : Item("acked", p, m) \in Follows
           /\ \A r \in Sessions \cup {None} : Item("loaded", p, r) \in Follows
           /\ Act("away", p) \in Handled
           /\ Act("forget", p) \in Commands
           /\ \A m \in Arrivals : Item("received", p, m) \in Commands
BY DEF Act, Item, Events, Follows, Handled, Commands, Items, Ping, PingOut, Outs

LEMMA Inclusions ==
    /\ Events \subseteq Handled /\ Opening \subseteq Events
    /\ \A x \in Commands : x.kind = "received" => x \in Handled
    /\ \A x \in Commands : x.kind = "forget" => x \in Items({"forget"}, {None})
BY DEF Handled, Events, Opening, Commands, Items

\* Batches of actions, as the core asks for them.
LEMMA Batches ==
    /\ <<>> \in Seq(Actions) /\ ToSet(<<>>) = {} /\ LastOnly(<<>>)
    /\ \A a \in Actions :
          <<a>> \in Seq(Actions) /\ ToSet(<<a>>) = {a} /\ LastOnly(<<a>>)
    /\ \A a, b \in Actions : a.kind \in Plain =>
          <<a, b>> \in Seq(Actions) /\ ToSet(<<a, b>>) = {a, b} /\ LastOnly(<<a, b>>)
<1>1. <<>> \in Seq(Actions) /\ ToSet(<<>>) = {} /\ LastOnly(<<>>)
  BY DEF ToSet, LastOnly
<1>2. ASSUME NEW a \in Actions
      PROVE  <<a>> \in Seq(Actions) /\ ToSet(<<a>>) = {a} /\ LastOnly(<<a>>)
  <2> DEFINE q == <<a>>
  <2>1. q \in Seq(Actions) /\ DOMAIN q = {1} /\ q[1] = a /\ Len(q) = 1
    OBVIOUS
  <2> HIDE DEF q
  <2>2. ToSet(q) = {a} /\ LastOnly(q)
    BY <2>1 DEF ToSet, LastOnly
  <2> QED
    BY <2>1, <2>2 DEF q
<1>3. ASSUME NEW a \in Actions, NEW b \in Actions, a.kind \in Plain
      PROVE  <<a, b>> \in Seq(Actions) /\ ToSet(<<a, b>>) = {a, b} /\ LastOnly(<<a, b>>)
  <2> DEFINE q == <<a, b>>
  <2>1. q \in Seq(Actions) /\ DOMAIN q = {1, 2} /\ q[1] = a /\ q[2] = b /\ Len(q) = 2
    OBVIOUS
  <2> HIDE DEF q
  <2>2. ToSet(q) = {a, b} /\ LastOnly(q)
    BY <1>3, <2>1 DEF ToSet, LastOnly
  <2> QED
    BY <2>1, <2>2 DEF q
<1> QED
  BY <1>1, <1>2, <1>3

\* The batch that drains the queue of a session.
LEMMA DrainBatch ==
    ASSUME NEW p \in Peers, NEW ms \in Seq(Arrivals)
    PROVE  LET r == <<Act("save", p)>> \o [i \in DOMAIN ms |-> Item("show", p, ms[i])] IN
           /\ r \in Seq(Actions) /\ LastOnly(r)
           /\ \A a \in ToSet(r) : /\ a.peer = p /\ a.kind \in {"save", "show"}
                                  /\ a.kind = "show" => a.arg \in ToSet(ms)
           /\ DOMAIN r = 1..(Len(ms) + 1) /\ r[1] = Act("save", p)
           /\ \A i \in DOMAIN r : i # 1 => /\ i - 1 \in DOMAIN ms
                                           /\ r[i] = Item("show", p, ms[i - 1])
<1> DEFINE q == [i \in DOMAIN ms |-> Item("show", p, ms[i])]
           s == Act("save", p)
           r == <<s>> \o q
<1>1. DOMAIN ms = 1..Len(ms) /\ Len(ms) \in Nat /\ \A i \in DOMAIN ms : ms[i] \in Arrivals
  BY QueueTypes
<1>2. /\ DOMAIN q = DOMAIN ms
      /\ \A i \in DOMAIN ms : q[i] = Item("show", p, ms[i]) /\ q[i] \in Actions
  BY <1>1, NewActions
<1>3. q \in [1..Len(ms) -> Actions]
  BY <1>1, <1>2
<1>4. q \in Seq(Actions) /\ Len(q) = Len(ms)
  BY <1>1, <1>3
<1>5. s \in Actions /\ s.kind = "save" /\ s.peer = p
  BY NewActions
<1> HIDE DEF q, s
<1>6. /\ r \in Seq(Actions) /\ DOMAIN r = 1..(Len(q) + 1) /\ r[1] = s
      /\ \A i \in DOMAIN r : i = 1 \/ (i - 1 \in DOMAIN q /\ r[i] = q[i - 1])
      /\ ToSet(r) = ToSet(q) \cup {s}
  BY <1>4, <1>5, ConsFacts
<1> HIDE DEF r
<1>7. \A a \in ToSet(q) : a.peer = p /\ a.kind = "show" /\ a.arg \in ToSet(ms)
  BY <1>2, NewActions DEF ToSet
<1>8. \A a \in ToSet(r) : /\ a.peer = p /\ a.kind \in {"save", "show"}
                          /\ a.kind = "show" => a.arg \in ToSet(ms)
  BY <1>5, <1>6, <1>7
<1>9. LastOnly(r)
  BY <1>8 DEF LastOnly, Plain, ToSet
<1> QED
  BY <1>2, <1>4, <1>6, <1>8, <1>9 DEF q, r, s

-----------------------------------------------------------------------------
(* What the core answers.                                                  *)

\* The actions of one event: all for its peer, and what each presupposes.
AskedFor(e, a) ==
    /\ a.peer = e.peer /\ a.kind \notin {"unrow", "reinit", "rejoin"}
    /\ a.kind = "check" => e.kind = "received"
    /\ a.kind = "init" => e.kind = "bundle"
    /\ a.kind = "send" => e.kind = "out" /\ a.arg = e.arg
    /\ a.kind \in {"save", "send"} => Active(e.peer)

LEMMA AskOne ==
    ASSUME NEW e \in Handled \cup Follows, NEW a \in Actions, AskedFor(e, a), Ask(<<a>>)
    PROVE  /\ acts' \in Seq(Actions) /\ LastOnly(acts')
           /\ \A b \in ToSet(acts') : AskedFor(e, b)
<1>1. <<a>> \in Seq(Actions) /\ ToSet(<<a>>) = {a} /\ LastOnly(<<a>>)
  BY Batches
<1> QED
  BY <1>1 DEF Ask

LEMMA AskTwo ==
    ASSUME NEW e \in Handled \cup Follows, NEW a \in Actions, NEW b \in Actions,
           a.kind \in Plain, AskedFor(e, a), AskedFor(e, b), Ask(<<a, b>>)
    PROVE  /\ acts' \in Seq(Actions) /\ LastOnly(acts')
           /\ \A x \in ToSet(acts') : AskedFor(e, x)
<1>1. <<a, b>> \in Seq(Actions) /\ ToSet(<<a, b>>) = {a, b} /\ LastOnly(<<a, b>>)
  BY Batches
<1> QED
  BY <1>1 DEF Ask

LEMMA AskNone ==
    ASSUME NEW e, Ask(<<>>)
    PROVE  /\ acts' \in Seq(Actions) /\ LastOnly(acts') /\ acts' = <<>>
           /\ \A x \in ToSet(acts') : AskedFor(e, x)
BY Batches DEF Ask

LEMMA IncomingFacts ==
    ASSUME CoreOK, NEW e \in Handled \cup Follows, e.kind \in {"received", "acked"},
           Incoming(e.peer, e.arg)
    PROVE  /\ CoreOK' /\ acts' \in Seq(Actions) /\ LastOnly(acts')
           /\ \A a \in ToSet(acts') : AskedFor(e, a)
           /\ \/ session' = session
              \/ /\ session' = [session EXCEPT ![e.peer] = None]
                 /\ \A a \in ToSet(acts') : a.kind \in {"terminate", "erase"}
<1> DEFINE p == e.peer
           m == e.arg
<1>1. p \in Peers /\ m \in Arrivals
  BY Contents
<1> HIDE DEF p, m
<1>2. Incoming(p, m) /\ p = e.peer
  BY DEF p, m
<1>3. Append(pending[p], m) \in Seq(Arrivals) /\ pending[p] \in Seq(Arrivals)
  BY <1>1, QueueTypes DEF CoreOK
<1> USE DEF core
<1>4. CASE Active(p) /\ Ask(<<Item("show", p, m), Act("save", p)>>) /\ UNCHANGED core
  <2> DEFINE a == Item("show", p, m)
             b == Act("save", p)
  <2>1. /\ a \in Actions /\ b \in Actions /\ a.kind = "show" /\ b.kind = "save"
        /\ a.peer = p /\ b.peer = p
    BY <1>1, NewActions
  <2> HIDE DEF a, b
  <2>2. a.kind \in Plain /\ AskedFor(e, a) /\ AskedFor(e, b)
    BY <1>2, <1>4, <2>1 DEF AskedFor, Plain
  <2>3. Ask(<<a, b>>)
    BY <1>4 DEF a, b
  <2> QED
    BY <1>4, <2>1, <2>2, <2>3, AskTwo DEF CoreOK
<1>10. CASE /\ Active(p) /\ Ask(<<Item("show", p, m), Act("preview", p)>>)
            /\ UNCHANGED core
  <2> DEFINE a == Item("show", p, m)
             b == Act("preview", p)
  <2>1. /\ a \in Actions /\ b \in Actions /\ a.kind = "show" /\ b.kind = "preview"
        /\ a.peer = p /\ b.peer = p
    BY <1>1, NewActions
  <2> HIDE DEF a, b
  <2>2. a.kind \in Plain /\ AskedFor(e, a) /\ AskedFor(e, b)
    BY <1>2, <1>10, <2>1 DEF AskedFor, Plain
  <2>3. Ask(<<a, b>>)
    BY <1>10 DEF a, b
  <2> QED
    BY <1>10, <2>1, <2>2, <2>3, AskTwo DEF CoreOK
<1>5. CASE Active(p) /\ Ask(<<Item("heal", p, "Initiator")>>) /\ UNCHANGED core
  <2> DEFINE a == Item("heal", p, "Initiator")
  <2>1. a \in Actions /\ a.kind = "heal" /\ a.peer = p
    BY <1>1, NewActions
  <2> HIDE DEF a
  <2>2. AskedFor(e, a) /\ Ask(<<a>>)
    BY <1>2, <1>5, <2>1 DEF AskedFor, a
  <2> QED
    BY <1>5, <2>1, <2>2, AskOne DEF CoreOK
<1>6. CASE /\ Active(p)
           /\ IF pending[p] = <<>>
              THEN /\ \E a \in {Item("heal", p, "Responder"), Act("retry", p)} : Ask(<<a>>)
                   /\ healing' = [healing EXCEPT ![p] = m]
              ELSE Ask(<<>>) /\ UNCHANGED healing
           /\ pending' = [pending EXCEPT ![p] = Append(@, m)]
           /\ UNCHANGED session
  <2>1. CoreOK'
    BY <1>1, <1>3, <1>6 DEF CoreOK
  <2>2. \A a \in {Item("heal", p, "Responder"), Act("retry", p)} :
           a \in Actions /\ a.kind \in {"heal", "retry"} /\ a.peer = p
    BY <1>1, NewActions
  <2>3. \A a \in {Item("heal", p, "Responder"), Act("retry", p)} : AskedFor(e, a)
    BY <1>2, <2>2 DEF AskedFor
  <2> QED
    BY <1>6, <2>1, <2>2, <2>3, AskOne, AskNone
<1>7. CASE /\ Active(p)
           /\ \E a \in {Act("terminate", p), Item("erase", p, "session")} : Ask(<<a>>)
           /\ session' = [session EXCEPT ![p] = None]
           /\ UNCHANGED <<pending, healing>>
  <2>0. PICK a \in {Act("terminate", p), Item("erase", p, "session")} : Ask(<<a>>)
    BY <1>7
  <2>1. a \in Actions /\ a.kind \in {"terminate", "erase"} /\ a.peer = p
    BY <1>1, NewActions
  <2>2. AskedFor(e, a) /\ Ask(<<a>>)
    BY <1>2, <2>0, <2>1 DEF AskedFor
  <2>3. CoreOK'
    BY <1>1, <1>7 DEF CoreOK
  <2>4. \A x \in ToSet(acts') : x.kind \in {"terminate", "erase"}
    BY <2>1, <2>2, Batches DEF Ask
  <2> QED
    BY <1>2, <1>7, <2>1, <2>2, <2>3, <2>4, AskOne
<1>8. CASE /\ ~Active(p) /\ \E a \in {Act("fetch", p), Act("load", p)} : Ask(<<a>>)
           /\ pending' = [pending EXCEPT ![p] = Append(@, m)]
           /\ UNCHANGED <<session, healing>>
  <2>0. PICK a \in {Act("fetch", p), Act("load", p)} : Ask(<<a>>)
    BY <1>8
  <2>1. a \in Actions /\ a.kind \in {"fetch", "load"} /\ a.peer = p
    BY <1>1, NewActions
  <2>2. AskedFor(e, a) /\ Ask(<<a>>)
    BY <1>2, <2>0, <2>1 DEF AskedFor
  <2>3. CoreOK'
    BY <1>1, <1>3, <1>8 DEF CoreOK
  <2> QED
    BY <1>8, <2>1, <2>2, <2>3, AskOne
<1>9. CASE Ask(<<>>) /\ UNCHANGED core
  BY <1>9, AskNone DEF CoreOK
<1> QED
  BY <1>2, <1>4, <1>10, <1>5, <1>6, <1>7, <1>8, <1>9 DEF Incoming

LEMMA DrainFacts ==
    ASSUME CoreOK, NEW e \in Handled \cup Follows, e.kind = "inited", Active(e.peer),
           Drain(e.peer)
    PROVE  /\ CoreOK' /\ acts' \in Seq(Actions) /\ LastOnly(acts')
           /\ \A a \in ToSet(acts') : AskedFor(e, a)
           /\ session' = session
<1> DEFINE p == e.peer
<1>1. p \in Peers
  BY Contents
<1> HIDE DEF p
<1>2. Drain(p) /\ p = e.peer /\ Active(p)
  BY DEF p
<1>3. session' = session /\ pending[p] \in Seq(Arrivals) /\ <<>> \in Seq(Arrivals)
  BY <1>1, <1>2 DEF Drain, CoreOK
<1>4. CASE /\ Ask(<<Act("save", p)>>
                    \o [i \in DOMAIN pending[p] |-> Item("show", p, pending[p][i])])
           /\ pending' = [pending EXCEPT ![p] = <<>>] /\ UNCHANGED healing
  <2>1. CoreOK'
    BY <1>1, <1>3, <1>4 DEF CoreOK
  <2>2. /\ acts' \in Seq(Actions) /\ LastOnly(acts')
        /\ \A a \in ToSet(acts') : a.peer = p /\ a.kind \in {"save", "show"}
    BY <1>1, <1>3, <1>4, DrainBatch DEF Ask
  <2> QED
    BY <1>2, <1>3, <2>1, <2>2 DEF AskedFor
<1> DEFINE s == Act("save", p)
<1>5. s \in Actions /\ s.kind = "save" /\ s.peer = p
  BY <1>1, NewActions
<1>6. ASSUME NEW role \in {"Initiator", "Responder"}
      PROVE  /\ Item("heal", p, role) \in Actions /\ Item("heal", p, role).kind = "heal"
             /\ Item("heal", p, role).peer = p
  BY <1>1, NewActions
<1> HIDE DEF s
<1>7. s.kind \in Plain /\ AskedFor(e, s)
  BY <1>2, <1>5 DEF AskedFor, Plain
<1>8. ASSUME NEW role \in {"Initiator", "Responder"},
             Ask(<<s, Item("heal", p, role)>>)
      PROVE  /\ acts' \in Seq(Actions) /\ LastOnly(acts')
             /\ \A a \in ToSet(acts') : AskedFor(e, a)
  <2> DEFINE b == Item("heal", p, role)
  <2>1. AskedFor(e, b)
    BY <1>2, <1>6 DEF AskedFor
  <2>2. b \in Actions
    BY <1>6
  <2> HIDE DEF b
  <2>3. Ask(<<s, b>>)
    BY <1>8 DEF b
  <2> QED
    BY <1>5, <1>7, <2>1, <2>2, <2>3, AskTwo
<1>9. CASE /\ pending[p] # <<>>
           /\ Ask(<<Act("save", p), Item("heal", p, "Initiator")>>)
           /\ pending' = [pending EXCEPT ![p] = <<>>] /\ UNCHANGED healing
  <2>1. CoreOK'
    BY <1>1, <1>3, <1>9 DEF CoreOK
  <2> QED
    BY <1>3, <1>8, <1>9, <2>1 DEF s
<1>10. CASE /\ pending[p] # <<>>
            /\ Ask(<<Act("save", p), Item("heal", p, "Responder")>>)
            /\ healing' = [healing EXCEPT ![p] = Head(pending[p])] /\ UNCHANGED pending
  <2>1. Head(pending[p]) \in Arrivals
    BY <1>3, <1>10, QueueTypes
  <2>2. CoreOK'
    BY <1>1, <1>3, <1>10, <2>1 DEF CoreOK
  <2> QED
    BY <1>3, <1>8, <1>10, <2>2 DEF s
<1> QED
  BY <1>2, <1>4, <1>9, <1>10 DEF Drain

\* An imported session is a session.
LEMMA RestoredTypes ==
    ASSUME NEW r \in Sessions \cup {None}
    PROVE  /\ Restored(r) \in Sessions \cup {None}
           /\ Restored(r) # None => Restored(r).by = "other"
<1>1. \A t \in Sessions : [t EXCEPT !.by = "other"] \in Sessions
  BY DEF Sessions
<1>2. \A t \in Sessions : [t EXCEPT !.by = "other"].by = "other"
  BY DEF Sessions
<1> QED
  BY <1>1, <1>2 DEF Restored

\* What handle_event does to the session, and what it asks for.
LEMMA CoreFacts ==
    ASSUME CoreOK, NEW e \in Handled \cup Follows, CoreHandles(e),
           e.kind = "inited" => Active(e.peer)
    PROVE  /\ CoreOK' /\ acts' \in Seq(Actions) /\ LastOnly(acts')
           /\ \A a \in ToSet(acts') : AskedFor(e, a)
           /\ \/ session' = session
              \/ /\ e.kind \in {"received", "acked"}
                 /\ session' = [session EXCEPT ![e.peer] = None]
                 /\ \A a \in ToSet(acts') : a.kind \in {"terminate", "erase"}
              \/ /\ e.kind = "loaded" /\ ~Active(e.peer)
                 /\ session' = [session EXCEPT ![e.peer] = Restored(e.arg)]
           /\ e.kind = "away" => acts' = <<>>
           /\ e.kind = "out" /\ Active(e.peer)
                 => acts' = <<Item("send", e.peer, e.arg), Act("save", e.peer)>>
<1> DEFINE p == e.peer
           Goal == /\ CoreOK' /\ acts' \in Seq(Actions) /\ LastOnly(acts')
                   /\ \A a \in ToSet(acts') : AskedFor(e, a)
                   /\ \/ session' = session
                      \/ /\ e.kind \in {"received", "acked"}
                         /\ session' = [session EXCEPT ![e.peer] = None]
                         /\ \A a \in ToSet(acts') : a.kind \in {"terminate", "erase"}
                      \/ /\ e.kind = "loaded" /\ ~Active(e.peer)
                         /\ session' = [session EXCEPT ![e.peer] = Restored(e.arg)]
                   /\ e.kind = "away" => acts' = <<>>
                   /\ e.kind = "out" /\ Active(e.peer)
                        => acts' = <<Item("send", e.peer, e.arg), Act("save", e.peer)>>
<1> USE DEF core
<1>1. p \in Peers
  BY Contents
<1>2. ASSUME UNCHANGED core, e.kind # "away", e.kind # "out",
             NEW a \in Actions, AskedFor(e, a), Ask(<<a>>)
      PROVE  Goal
  BY <1>2, AskOne DEF CoreOK
<1>3. ASSUME UNCHANGED core, Ask(<<>>), e.kind = "out" => ~Active(p)
      PROVE  Goal
  BY <1>3, AskNone DEF CoreOK
<1>4. CASE e.kind = "received" /\ Incoming(p, e.arg)
  BY <1>4, IncomingFacts
<1>5. CASE e.kind = "received" /\ Ask(<<Item("check", p, e.arg)>>) /\ UNCHANGED core
  <2> DEFINE a == Item("check", p, e.arg)
  <2>1. e.arg \in Arrivals
    BY <1>5, Contents
  <2>2. a \in Actions /\ a.kind = "check" /\ a.peer = p
    BY <1>1, <2>1, NewActions
  <2> HIDE DEF a
  <2>3. AskedFor(e, a) /\ Ask(<<a>>)
    BY <1>5, <2>2 DEF AskedFor, a
  <2> QED
    BY <1>2, <1>5, <2>2, <2>3
<1>6. CASE e.kind = "acked" /\ Incoming(p, e.arg)
  BY <1>6, IncomingFacts
<1>7. CASE e.kind = "inited" /\ Drain(p)
  BY <1>7, DrainFacts
<1>8. CASE /\ e.kind = "bundle" /\ Ask(IF Active(p) THEN <<>> ELSE <<Act("init", p)>>)
           /\ UNCHANGED core
  <2> DEFINE a == Act("init", p)
  <2>2. a \in Actions /\ a.kind = "init" /\ a.peer = p
    BY <1>1, NewActions
  <2> HIDE DEF a
  <2>3. AskedFor(e, a) /\ (Ask(<<>>) \/ Ask(<<a>>))
    BY <1>8, <2>2 DEF AskedFor, a
  <2> QED
    BY <1>2, <1>3, <1>8, <2>2, <2>3
<1>9. CASE /\ e.kind = "out"
           /\ Ask(IF Active(p) THEN <<Item("send", p, e.arg), Act("save", p)>> ELSE <<>>)
           /\ UNCHANGED core
  <2> DEFINE a == Item("send", p, e.arg)
             b == Act("save", p)
  <2>1. e.arg \in Outs
    BY <1>9, Contents
  <2>2. /\ a \in Actions /\ a.kind = "send" /\ a.peer = p /\ a.arg = e.arg
        /\ b \in Actions /\ b.kind = "save" /\ b.peer = p
    BY <1>1, <2>1, NewActions
  <2>3. CASE Active(p)
    <3> HIDE DEF a, b
    <3>1. a.kind \in Plain /\ AskedFor(e, a) /\ AskedFor(e, b) /\ Ask(<<a, b>>)
      BY <1>9, <2>2, <2>3 DEF AskedFor, Plain, a, b
    <3>2. acts' = <<a, b>>
      BY <3>1 DEF Ask
    <3>3. /\ acts' \in Seq(Actions) /\ LastOnly(acts')
          /\ \A x \in ToSet(acts') : AskedFor(e, x)
      BY <2>2, <3>1, AskTwo
    <3>4. CoreOK' /\ session' = session
      BY <1>9 DEF CoreOK
    <3> QED
      BY <1>9, <3>2, <3>3, <3>4 DEF a, b
  <2>4. CASE ~Active(p)
    BY <1>3, <1>9, <2>4
  <2> QED
    BY <2>3, <2>4
<1>10. CASE /\ e.kind = "launched"
            /\ Ask(IF healing[p] # None THEN <<Item("heal", p, "Responder")>> ELSE <<>>)
            /\ UNCHANGED core
  <2> DEFINE a == Item("heal", p, "Responder")
  <2>2. a \in Actions /\ a.kind = "heal" /\ a.peer = p
    BY <1>1, NewActions
  <2> HIDE DEF a
  <2>3. AskedFor(e, a) /\ (Ask(<<>>) \/ Ask(<<a>>))
    BY <1>10, <2>2 DEF AskedFor, a
  <2> QED
    BY <1>2, <1>3, <1>10, <2>2, <2>3
<1>11. CASE /\ e.kind = "timer"
            /\ \E a \in {Act("beat", p), Item("erase", p, "archive")} : Ask(<<a>>)
            /\ UNCHANGED core
  <2>1. PICK a \in {Act("beat", p), Item("erase", p, "archive")} : Ask(<<a>>)
    BY <1>11
  <2>2. a \in Actions /\ a.kind \in {"beat", "erase"} /\ a.peer = p
    BY <1>1, NewActions
  <2>3. AskedFor(e, a) /\ Ask(<<a>>)
    BY <1>11, <2>1, <2>2 DEF AskedFor
  <2> QED
    BY <1>2, <1>11, <2>2, <2>3
<1>14. CASE /\ e.kind = "loaded"
            /\ Ask(IF Active(p) \/ e.arg # None THEN <<>> ELSE <<Act("fetch", p)>>)
            /\ session' = IF Active(p) THEN session
                          ELSE [session EXCEPT ![p] = Restored(e.arg)]
            /\ UNCHANGED <<pending, healing>>
  <2> DEFINE a == Act("fetch", p)
  <2>1. Restored(e.arg) \in Sessions \cup {None}
    BY <1>14, Contents, RestoredTypes
  <2>2. a \in Actions /\ a.kind = "fetch" /\ a.peer = p
    BY <1>1, NewActions
  <2> HIDE DEF a
  <2>3. AskedFor(e, a) /\ (Ask(<<>>) \/ Ask(<<a>>))
    BY <1>14, <2>2 DEF AskedFor, a
  <2>4. CoreOK'
    BY <1>1, <1>14, <2>1 DEF CoreOK
  <2>5. /\ acts' \in Seq(Actions) /\ LastOnly(acts')
        /\ \A x \in ToSet(acts') : AskedFor(e, x)
    BY <2>2, <2>3, AskOne, AskNone
  <2> QED
    BY <1>14, <2>4, <2>5
<1>12. CASE e.kind \in {"open", "away"} /\ Ask(<<>>) /\ UNCHANGED core
  BY <1>3, <1>12
<1>13. Goal
  BY <1>4, <1>5, <1>6, <1>7, <1>8, <1>9, <1>10, <1>11, <1>12, <1>14 DEF CoreHandles
<1> QED
  BY <1>13

-----------------------------------------------------------------------------
(* Types.                                                                  *)

LEMMA Opened ==
    ASSUME CoreOK, NEW p \in Peers, NEW role \in {"initiator", "responder"},
           NEW by \in {"open", "heal", "other"}, Open(p, role, by)
    PROVE  /\ session' \in [Peers -> Sessions \cup {None}]
           /\ session'[p] = NewSession(role, by) /\ session'[p] # None
           /\ session'[p].by = by /\ session'[p].first = "none"
           /\ \A q \in Peers \ {p} : session'[q] = session[q]
           /\ \A q \in Peers : Active(q) => Active(q)'
<1>1. NewSession(role, by) \in Sessions
  BY DEF NewSession, Sessions
<1>2. session' = [session EXCEPT ![p] = NewSession(role, by)]
  BY DEF Open
<1>3. NewSession(role, by) # None
  BY <1>1, ActorAssumption
<1>4. NewSession(role, by).by = by /\ NewSession(role, by).first = "none"
  BY DEF NewSession
<1> HIDE DEF NewSession
<1> QED
  BY <1>1, <1>2, <1>3, <1>4 DEF CoreOK, Active

LEMMA UpsetTypes == ASSUME RestOK, Upset
                    PROVE  /\ upsets' \in 0..MaxUpsets /\ arrived' = arrived
                           /\ moves' = moves
BY ActorAssumption DEF RestOK, Upset

\* Taking the next action, with what may take its place.
LEMMA DoneTypes ==
    ASSUME CycleOK, acts # <<>>
    PROVE  /\ Head(acts) \in Actions /\ Head(acts) \in ToSet(acts) /\ Peer \in Peers
           /\ Tail(acts) \in Seq(Actions) /\ ToSet(Tail(acts)) \subseteq ToSet(acts)
           /\ \A a \in Actions : <<a>> \o Tail(acts) \in Seq(Actions)
           /\ <<>> \o Tail(acts) \in Seq(Actions)
           /\ LastOnly(acts) /\ Head(acts).kind \notin Plain => Tail(acts) = <<>>
           /\ LastOnly(acts) => LastOnly(Tail(acts))
<1> DEFINE t == Tail(acts)
<1>1. acts \in Seq(Actions)
  BY DEF CycleOK
<1>2. /\ DOMAIN acts = 1..Len(acts) /\ Len(acts) \in Nat /\ Len(acts) > 0
      /\ Head(acts) \in Actions /\ Head(acts) = acts[1]
      /\ t \in Seq(Actions) /\ DOMAIN t = 1..(Len(acts) - 1)
      /\ Len(t) = Len(acts) - 1
      /\ \A i \in 1..(Len(acts) - 1) : t[i] = acts[i + 1]
  BY <1>1, QueueTypes
<1>3. ToSet(acts) = {Head(acts)} \cup ToSet(t)
  BY <1>1, ToSetFacts
<1>4. Peer \in Peers
  BY <1>2, Contents DEF Peer
<1>5. \A a \in Actions : <<a>> \o t \in Seq(Actions)
  BY <1>2, ConsFacts
<1>6. <<>> \o t \in Seq(Actions)
  BY <1>2, Batches, ConcatProperties
<1>7. ASSUME LastOnly(acts), Head(acts).kind \notin Plain PROVE t = <<>>
  <2>1. Len(acts) = 1
    BY <1>2, <1>7 DEF LastOnly
  <2> QED
    BY <1>2, <2>1, EmptySeq
<1>8. ASSUME LastOnly(acts) PROVE LastOnly(t)
  <2> SUFFICES ASSUME NEW i \in DOMAIN t, t[i].kind \notin Plain PROVE i = Len(t)
    BY DEF LastOnly
  <2>1. i + 1 \in DOMAIN acts /\ acts[i + 1].kind \notin Plain
    BY <1>2
  <2>2. i + 1 = Len(acts)
    BY <1>8, <2>1 DEF LastOnly
  <2> QED
    BY <1>2, <2>2
<1> QED
  BY <1>2, <1>3, <1>4, <1>5, <1>6, <1>7, <1>8

\* What Push adds.
LEMMA PushTypes ==
    ASSUME CycleOK, NEW es \in Seq(Follows), Push(es)
    PROVE  /\ follow' \in Seq(Follows)
           /\ ToSet(follow') \subseteq ToSet(follow) \cup ToSet(es)
           /\ follow' = follow \/ (~nested /\ follow' = follow \o es)
<1>1. follow \o es \in Seq(Follows)
  BY ConcatProperties DEF CycleOK
<1> DEFINE r == follow \o es
<1>2. /\ Len(r) = Len(follow) + Len(es) /\ Len(follow) \in Nat /\ Len(es) \in Nat
      /\ \A i \in 1..(Len(follow) + Len(es)) :
            r[i] = IF i <= Len(follow) THEN follow[i] ELSE es[i - Len(follow)]
  BY ConcatProperties, QueueTypes DEF CycleOK
<1>3. /\ DOMAIN r = 1..Len(r) /\ DOMAIN follow = 1..Len(follow) /\ DOMAIN es = 1..Len(es)
  BY <1>1, QueueTypes DEF CycleOK
<1> HIDE DEF r
<1>4. \A i \in DOMAIN r : \/ i \in DOMAIN follow /\ r[i] = follow[i]
                          \/ i - Len(follow) \in DOMAIN es /\ r[i] = es[i - Len(follow)]
  BY <1>2, <1>3
<1>5. ToSet(r) \subseteq ToSet(follow) \cup ToSet(es)
  BY <1>4 DEF ToSet
<1> QED
  BY <1>1, <1>5 DEF Push, CycleOK, r

LEMMA PushedItems ==
    ASSUME NEW p \in Peers
    PROVE  /\ Completed(p) \in Seq(Follows) /\ ToSet(Completed(p)) = {Act("inited", p)}
           /\ Len(Completed(p)) = 1
           /\ Completed(p) \o <<Ping(p)>> \in Seq(Follows)
           /\ ToSet(Completed(p) \o <<Ping(p)>>) = {Act("inited", p), Ping(p)}
           /\ Len(Completed(p) \o <<Ping(p)>>) = 2
           /\ \A m \in Arrivals : LET q == <<Item("acked", p, m)>> IN
                 q \in Seq(Follows) /\ ToSet(q) = {Item("acked", p, m)} /\ Len(q) = 1
           /\ \A r \in Sessions \cup {None} : LET q == <<Item("loaded", p, r)>> IN
                 q \in Seq(Follows) /\ ToSet(q) = {Item("loaded", p, r)} /\ Len(q) = 1
<1> DEFINE a == Act("inited", p)
           b == Ping(p)
<1>1. a \in Follows /\ b \in Follows
  BY NewEvents
<1> HIDE DEF a, b
<1>2. ASSUME NEW x \in Follows
      PROVE  <<x>> \in Seq(Follows) /\ ToSet(<<x>>) = {x} /\ Len(<<x>>) = 1
  <2> DEFINE q == <<x>>
  <2>1. q \in Seq(Follows) /\ DOMAIN q = {1} /\ q[1] = x /\ Len(q) = 1
    OBVIOUS
  <2> HIDE DEF q
  <2>2. ToSet(q) = {x}
    BY <2>1 DEF ToSet
  <2> QED
    BY <2>1, <2>2 DEF q
<1>3. Completed(p) = <<a>>
  BY DEF Completed, a
<1>4. /\ <<a>> \o <<b>> \in Seq(Follows) /\ Len(<<a>> \o <<b>>) = 2
      /\ ToSet(<<a>> \o <<b>>) = {a, b}
  <2> DEFINE q == <<b>>
  <2>1. q \in Seq(Follows) /\ ToSet(q) = {b} /\ Len(q) = 1
    BY <1>1, <1>2
  <2> HIDE DEF q
  <2>2. LET r == <<a>> \o q IN
           /\ r \in Seq(Follows) /\ Len(r) = Len(q) + 1 /\ DOMAIN r = 1..(Len(q) + 1)
           /\ ToSet(r) = ToSet(q) \cup {a}
    <3>1. a \in Follows /\ q \in Seq(Follows)
      BY <1>1, <2>1
    <3> QED
      BY <3>1, ConsFacts, SMTT(30)
  <2>3. Len(<<a>> \o q) = 2
    BY <2>1, <2>2
  <2>4. ToSet(<<a>> \o q) = {a, b}
    BY <2>1, <2>2
  <2> QED
    BY <2>2, <2>3, <2>4 DEF q
<1>5. \A m \in Arrivals : Item("acked", p, m) \in Follows
  BY NewEvents
<1>6. \A r \in Sessions \cup {None} : Item("loaded", p, r) \in Follows
  BY NewEvents
<1> QED
  BY <1>1, <1>2, <1>3, <1>4, <1>5, <1>6 DEF a, b

\* The plans of the handlers.
LEMMA FourSteps ==
    ASSUME NEW S, NEW w \in S, NEW x \in S, NEW y \in S, NEW z \in S
    PROVE  LET q == <<w, x>> \o <<y>> \o <<z>> IN
           /\ q \in Seq(S) /\ Len(q) = 4 /\ DOMAIN q = 1..4
           /\ q[1] = w /\ q[2] = x /\ q[3] = y /\ q[4] = z
<1> DEFINE a == <<w, x>>
           b == <<y>>
           c == <<z>>
           u == a \o b
           q == u \o c
<1>1. /\ a \in Seq(S) /\ Len(a) = 2 /\ a[1] = w /\ a[2] = x
      /\ b \in Seq(S) /\ Len(b) = 1 /\ b[1] = y
      /\ c \in Seq(S) /\ Len(c) = 1 /\ c[1] = z
  OBVIOUS
<1> HIDE DEF a, b, c
<1>2. /\ u \in Seq(S) /\ Len(u) = Len(a) + Len(b)
      /\ \A i \in 1..(Len(a) + Len(b)) : u[i] = IF i <= Len(a) THEN a[i] ELSE b[i - Len(a)]
  BY <1>1, ConcatProperties
<1> HIDE DEF u
<1>3. u \in Seq(S) /\ Len(u) = 3 /\ u[1] = w /\ u[2] = x /\ u[3] = y
  BY <1>1, <1>2
<1>4. /\ q \in Seq(S) /\ Len(q) = Len(u) + Len(c)
      /\ \A i \in 1..(Len(u) + Len(c)) : q[i] = IF i <= Len(u) THEN u[i] ELSE c[i - Len(u)]
  BY <1>1, <1>3, ConcatProperties
<1> HIDE DEF q
<1>5. q \in Seq(S) /\ Len(q) = 4 /\ q[1] = w /\ q[2] = x /\ q[3] = y /\ q[4] = z
  BY <1>1, <1>3, <1>4
<1>6. DOMAIN q = 1..4
  BY <1>5, QueueTypes
<1> QED
  BY <1>5, <1>6 DEF q, u, a, b, c

LEMMA NewSteps ==
    /\ \A e \in Handled, d \in BOOLEAN :
          /\ Cycle(e, d) \in Steps /\ Cycle(e, d).event = e
          /\ Cycle(e, d).do = IF d THEN "cycle" ELSE "shallow"
    /\ \A e \in Opening, do \in {"fetch", "ping", "require"} :
          Todo(do, e) \in Steps /\ Todo(do, e).do = do /\ Todo(do, e).event = e
    /\ \A e \in Items({"forget"}, {None}) :
          /\ Todo("forget", e) \in Steps /\ Todo("forget", e).do = "forget"
          /\ Todo("forget", e).event = e
BY DEF Cycle, Todo, Steps

LEMMA StepContents ==
    \A s \in Steps :
       /\ s.do \in {"cycle", "shallow"} => s.event \in Handled
       /\ s.do \in {"fetch", "ping", "require"} => s.event \in Opening
       /\ s.do = "forget" => s.event \in Items({"forget"}, {None})
       /\ s.do \in {"cycle", "shallow", "fetch", "ping", "require", "forget"}
       /\ s.event.peer \in Peers
       /\ s.event.kind = "received" => s.do \in {"cycle", "shallow"}
       /\ s.event.kind = "forget" => s.do = "forget"
BY DEF Steps, Handled, Opening, Events, Items

LEMMA PreparedFacts ==
    ASSUME NEW e \in Events
    PROVE  \/ Prepared(e) = <<Cycle(e, TRUE)>>
           \/ /\ e \in Opening
              /\ Prepared(e) \in Seq(Steps) /\ Len(Prepared(e)) = 4
              /\ DOMAIN Prepared(e) = 1..4
              /\ Prepared(e)[1] = Todo("fetch", e)
              /\ Prepared(e)[2] = Cycle(Act("bundle", e.peer), TRUE)
              /\ Prepared(e)[3] \in {Todo("ping", e), Todo("require", e)}
              /\ Prepared(e)[4] = Cycle(e, TRUE)
<1>1. CASE ~(e.kind \in {"open", "out"} /\ ~Active(e.peer))
  BY <1>1 DEF Prepared
<1>2. CASE e.kind \in {"open", "out"} /\ ~Active(e.peer)
  <2>1. e \in Opening /\ e.peer \in Peers /\ e \in Handled
    BY <1>2, Contents, Inclusions DEF Events, Opening, Items
  <2>2. Act("bundle", e.peer) \in Handled
    BY <2>1, NewEvents, Inclusions
  <2>3. PICK t \in {Todo("ping", e), Todo("require", e)} :
           Prepared(e) = <<Todo("fetch", e), Cycle(Act("bundle", e.peer), TRUE)>>
                           \o <<t>> \o <<Cycle(e, TRUE)>>
    <3>1. CASE e.kind = "open" /\ pending[e.peer] = <<>>
      BY <1>2, <3>1 DEF Prepared
    <3>2. CASE ~(e.kind = "open" /\ pending[e.peer] = <<>>)
      BY <1>2, <3>2 DEF Prepared
    <3> QED
      BY <3>1, <3>2
  <2> DEFINE w == Todo("fetch", e)
             x == Cycle(Act("bundle", e.peer), TRUE)
             z == Cycle(e, TRUE)
  <2>4. w \in Steps /\ x \in Steps /\ t \in Steps /\ z \in Steps
    <3>1. w \in Steps /\ t \in Steps
      BY <2>1, <2>3, NewSteps
    <3>2. x \in Steps
      BY <2>2, NewSteps
    <3>3. z \in Steps
      BY <2>1, NewSteps
    <3> QED
      BY <3>1, <3>2, <3>3
  <2> HIDE DEF w, x, z
  <2>5. Prepared(e) = <<w, x>> \o <<t>> \o <<z>>
    BY <2>3 DEF w, x, z
  <2>6. /\ Prepared(e) \in Seq(Steps) /\ Len(Prepared(e)) = 4 /\ DOMAIN Prepared(e) = 1..4
        /\ Prepared(e)[1] = w /\ Prepared(e)[2] = x /\ Prepared(e)[3] = t
        /\ Prepared(e)[4] = z
    BY <2>4, <2>5, FourSteps
  <2> QED
    BY <2>1, <2>3, <2>6 DEF w, x, z
<1> QED
  BY <1>1, <1>2

LEMMA OneStep ==
    \A s \in Steps : /\ <<s>> \in Seq(Steps) /\ Len(<<s>>) = 1 /\ DOMAIN <<s>> = {1}
                     /\ <<s>>[1] = s /\ Head(<<s>>) = s /\ <<s>> # <<>>
OBVIOUS

LEMMA TwoSteps ==
    \A x, y \in Steps : /\ <<x, y>> \in Seq(Steps) /\ Len(<<x, y>>) = 2
                         /\ DOMAIN <<x, y>> = {1, 2}
                         /\ <<x, y>>[1] = x /\ <<x, y>>[2] = y /\ Head(<<x, y>>) = x
OBVIOUS

\* Taking the next step of the plan.
LEMMA PlanHead ==
    ASSUME CycleOK, plan # <<>>
    PROVE  /\ plan \in Seq(Steps) /\ Head(plan) \in Steps /\ Tail(plan) \in Seq(Steps)
           /\ DOMAIN plan = 1..Len(plan) /\ Len(plan) \in Nat /\ Len(plan) > 0
           /\ Head(plan) = plan[1]
           /\ DOMAIN Tail(plan) = 1..(Len(plan) - 1) /\ Len(Tail(plan)) = Len(plan) - 1
           /\ \A i \in 1..(Len(plan) - 1) : Tail(plan)[i] = plan[i + 1]
           /\ Tail(plan) # <<>> => /\ Len(plan) > 1 /\ Head(Tail(plan)) = plan[2]
                                   /\ 2 \in DOMAIN plan
<1>1. plan \in Seq(Steps)
  BY DEF CycleOK
<1>2. /\ Head(plan) \in Steps /\ Tail(plan) \in Seq(Steps)
      /\ DOMAIN plan = 1..Len(plan) /\ Len(plan) \in Nat /\ Len(plan) > 0
      /\ Head(plan) = plan[1]
      /\ DOMAIN Tail(plan) = 1..(Len(plan) - 1) /\ Len(Tail(plan)) = Len(plan) - 1
      /\ \A i \in 1..(Len(plan) - 1) : Tail(plan)[i] = plan[i + 1]
  BY <1>1, QueueTypes
<1>3. ASSUME Tail(plan) # <<>>
      PROVE  Len(plan) > 1 /\ Head(Tail(plan)) = plan[2] /\ 2 \in DOMAIN plan
  <2> DEFINE t == Tail(plan)
  <2>1. Head(t) = t[1] /\ Len(t) > 0
    BY <1>2, <1>3, QueueTypes
  <2>2. Len(plan) > 1
    BY <1>2, <2>1
  <2>3. t[1] = plan[1 + 1]
    BY <1>2, <2>2
  <2> QED
    BY <1>2, <2>1, <2>2, <2>3
<1> QED
  BY <1>1, <1>2, <1>3

\* What reaches the actor, and a crash.
LEMMA InputsTyped ==
    ASSUME Typed,
           \/ Crash
           \/ \E p \in Peers : \E body \in Bodies : Arrive(p, body)
           \/ \E p \in Peers : Move(p) \/ Fetched(p) \/ RetryDue(p)
           \/ \E p \in Peers : \E t \in Texts : Submit(p, t)
    PROVE  Typed'
<1> USE DEF queues, cycle, core, tasks, disk, notices, counts
<1>1. /\ CoreOK /\ DiskOK /\ RestOK /\ CycleOK
      /\ cmds \in Seq(Commands) /\ events \in Seq(Events)
  BY DEF Typed, RestOK
<1>2. ASSUME NEW p \in Peers, NEW body \in Bodies, Arrive(p, body) PROVE Typed'
  <2>1. arrived' = arrived + 1 /\ arrived' \in 1..MaxIn
    BY <1>1, <1>2, ActorAssumption DEF Arrive, RestOK
  <2> DEFINE m == [id |-> arrived', body |-> body]
  <2>2. m \in Arrivals
    BY <2>1 DEF Arrivals
  <2>3. Item("received", p, m) \in Commands
    BY <2>2, NewEvents
  <2> HIDE DEF m
  <2>4. cmds' = Append(cmds, Item("received", p, m))
    BY <1>2 DEF Arrive, m
  <2>5. cmds' \in Seq(Commands)
    BY <1>1, <2>3, <2>4, QueueTypes
  <2>6. arrived' \in 0..MaxIn
    BY <2>1
  <2>7. RestOK'
    BY <1>1, <1>2, <2>5, <2>6 DEF Arrive, RestOK
  <2> QED
    BY <1>1, <1>2, <2>7 DEF Arrive, Typed, CoreOK, DiskOK, CycleOK
<1>3. ASSUME NEW p \in Peers, Move(p) PROVE Typed'
  <2>1. moves' \in 0..MaxMoves
    BY <1>1, <1>3, ActorAssumption DEF Move, RestOK
  <2>2. /\ Append(events, Act("open", p)) \in Seq(Events)
        /\ Append(events, Act("timer", p)) \in Seq(Events)
        /\ Append(cmds, Act("forget", p)) \in Seq(Commands)
    BY <1>1, NewEvents, QueueTypes
  <2>3. cmds' \in Seq(Commands) /\ events' \in Seq(Events)
    BY <1>1, <1>3, <2>2 DEF Move
  <2>4. RestOK'
    BY <1>1, <1>3, <2>1, <2>3 DEF Move, RestOK
  <2> QED
    BY <1>1, <1>3, <2>4 DEF Move, Typed, CoreOK, DiskOK, CycleOK
<1>4. ASSUME NEW p \in Peers, Fetched(p) PROVE Typed'
  <2>1. fetches' \in [Peers -> Nat]
    BY <1>1, <1>4 DEF Fetched, RestOK
  <2>2. Append(events, Act("bundle", p)) \in Seq(Events)
    BY <1>1, NewEvents, QueueTypes
  <2>3. events' \in Seq(Events)
    BY <1>1, <1>4, <2>2 DEF Fetched
  <2>4. upsets' \in 0..MaxUpsets /\ arrived' = arrived /\ moves' = moves
    BY <1>1, <1>4, UpsetTypes DEF Fetched, RestOK
  <2>5. RestOK'
    BY <1>1, <1>4, <2>1, <2>3, <2>4 DEF Fetched, RestOK
  <2> QED
    BY <1>1, <1>4, <2>5 DEF Fetched, Typed, CoreOK, DiskOK, CycleOK
<1>5. ASSUME NEW p \in Peers, RetryDue(p) PROVE Typed'
  <2>1. retries' \in [Peers -> Nat]
    BY <1>1, <1>5 DEF RetryDue, RestOK
  <2>2. events' \in Seq(Events)
    BY <1>1, <1>5, NewEvents, QueueTypes DEF RetryDue
  <2>3. RestOK'
    BY <1>1, <1>5, <2>1, <2>2 DEF RetryDue, RestOK
  <2> QED
    BY <1>1, <1>5, <2>3 DEF RetryDue, Typed, CoreOK, DiskOK, CycleOK
<1>6. ASSUME NEW p \in Peers, NEW t \in Texts, Submit(p, t) PROVE Typed'
  <2> DEFINE x == [what |-> "text", text |-> t]
  <2>1. x \in Outs
    BY DEF Outs
  <2>2. Item("out", p, x) \in Events
    BY <2>1, NewEvents
  <2> HIDE DEF x
  <2>3. events' = Append(events, Item("out", p, x))
    BY <1>6 DEF Submit, x
  <2>4. events' \in Seq(Events)
    BY <1>1, <2>2, <2>3, QueueTypes
  <2>5. fate' \in [Texts -> Fates]
    BY <1>1, <1>6 DEF Submit, RestOK, Fates
  <2>6. RestOK'
    BY <1>1, <1>6, <2>4, <2>5 DEF Submit, RestOK
  <2> QED
    BY <1>1, <1>6, <2>6 DEF Submit, Typed, CoreOK, DiskOK, CycleOK
<1>7. CASE Crash
  <2>1. upsets' \in 0..MaxUpsets /\ arrived' = arrived /\ moves' = moves
    BY <1>1, <1>7, UpsetTypes DEF Crash
  <2>2. /\ <<>> \in Seq(Commands) /\ <<>> \in Seq(Events) /\ <<>> \in Seq(Steps)
        /\ <<>> \in Seq(Actions) /\ <<>> \in Seq(Follows) /\ <<>> \in Seq(Arrivals)
    BY EmptySeq
  <2>4. session' \in [Peers -> Sessions \cup {None}]
    BY <1>1, <1>7, RestoredTypes DEF Crash, DiskOK
  <2>5. fate' \in [Texts -> Fates]
    BY <1>1, <1>7 DEF Crash, RestOK, Fates
  <2>6. RestOK'
    BY <1>1, <1>7, <2>1, <2>2, <2>5 DEF Crash, RestOK
  <2>7. CoreOK'
    BY <1>7, <2>2, <2>4 DEF Crash, CoreOK
  <2>8. CycleOK'
    BY <1>1, <1>7, <2>2 DEF Crash, CycleOK
  <2> QED
    BY <1>1, <1>7, <2>6, <2>7, <2>8 DEF Crash, Typed, DiskOK
<1> QED
  BY <1>2, <1>3, <1>4, <1>5, <1>6, <1>7

LEMMA WithoutTypes ==
    ASSUME RestOK, NEW e \in Opening, WithoutSession(e)
    PROVE  plan' \in Seq(Steps) /\ fate' \in [Texts -> Fates]
<1>1. e \in Handled /\ e \in Handled \cup Follows
  BY Inclusions
<1>2. Cycle(e, TRUE) \in Steps
  BY <1>1, NewSteps
<1>3. plan' \in Seq(Steps)
  BY <1>2, OneStep, EmptySeq DEF WithoutSession
<1>4. e.kind = "out" /\ e.arg.what = "text" => e.arg.text \in Texts
  BY <1>1, Contents
<1>5. fate' \in [Texts -> Fates]
  BY <1>4 DEF WithoutSession, Refuse, RestOK, Fates
<1> QED
  BY <1>3, <1>5

\* The steps of a handler outside its cycles.
LEMMA PlanTyped ==
    ASSUME Typed, NextEvent \/ NextCommand \/ Establish \/ Established \/ Forget
    PROVE  Typed'
<1> USE DEF queues, cycle, core, tasks, disk, notices, counts
<1>1. /\ CoreOK /\ DiskOK /\ RestOK /\ CycleOK
      /\ cmds \in Seq(Commands) /\ events \in Seq(Events)
  BY DEF Typed, RestOK
<1>2. CASE NextEvent
  <2>1. Head(events) \in Events /\ events' \in Seq(Events)
    BY <1>1, <1>2, QueueTypes DEF NextEvent
  <2>2. Cycle(Head(events), TRUE) \in Steps
    BY <2>1, Inclusions, NewSteps
  <2>3. plan' \in Seq(Steps)
    BY <1>2, <2>1, <2>2, PreparedFacts, OneStep DEF NextEvent
  <2> QED
    BY <1>1, <1>2, <2>1, <2>3 DEF NextEvent, Typed, CoreOK, DiskOK, RestOK, CycleOK
<1>3. CASE NextCommand
  <2> DEFINE c == Head(cmds)
             a == Cycle(Act("away", c.peer), FALSE)
             f == Todo("forget", c)
  <2>1. c \in Commands /\ cmds' \in Seq(Commands)
    BY <1>1, <1>3, QueueTypes DEF NextCommand
  <2>2. c.kind = "forget" => a \in Steps /\ f \in Steps
    <3>1. c.peer \in Peers
      BY <2>1, Contents
    <3>2. Act("away", c.peer) \in Handled
      BY <3>1, NewEvents
    <3> QED
      BY <2>1, <3>2, NewSteps, Inclusions
  <2>3. c.kind # "forget" => Cycle(c, TRUE) \in Steps
    BY <2>1, Contents, Inclusions, NewSteps
  <2>4. plan' = IF c.kind = "forget" THEN <<a, f>> ELSE <<Cycle(c, TRUE)>>
    BY <1>3 DEF NextCommand
  <2> HIDE DEF a, f, c
  <2>5. plan' \in Seq(Steps)
    <3>1. CASE c.kind = "forget"
      BY <2>2, <2>4, <3>1, TwoSteps
    <3>2. CASE c.kind # "forget"
      BY <2>3, <2>4, <3>2, OneStep
    <3> QED
      BY <3>1, <3>2
  <2> QED
    BY <1>1, <1>3, <2>1, <2>5 DEF NextCommand, Typed, CoreOK, DiskOK, RestOK, CycleOK
<1>4. ASSUME plan' \in Seq(Steps), fate' \in [Texts -> Fates], upsets' \in 0..MaxUpsets,
             arrived' = arrived, moves' = moves,
             UNCHANGED <<queues, cycle, core, tasks, disk, notices, ended>>
      PROVE  Typed'
  BY <1>1, <1>4 DEF Typed, CoreOK, DiskOK, RestOK, CycleOK
<1> DEFINE h == Head(plan)
<1>5. plan # <<>> =>
         /\ Tail(plan) \in Seq(Steps)
         /\ h.do \in {"fetch", "ping", "require"} => h.event \in Opening
         /\ h.event.peer \in Peers
  BY <1>1, PlanHead, StepContents
<1>6. CASE Establish
  <2>1. plan # <<>> /\ h.event \in Opening
    BY <1>5, <1>6 DEF Establish, Doing, Between
  <2>2. CASE plan' = Tail(plan) /\ UNCHANGED <<counts, fate>>
    BY <1>1, <1>4, <1>5, <1>6, <2>1, <2>2 DEF Establish, RestOK
  <2>3. CASE Upset /\ WithoutSession(h.event)
    BY <1>1, <1>4, <1>6, <2>1, <2>3, UpsetTypes, WithoutTypes DEF Establish
  <2> QED
    BY <1>6, <2>2, <2>3 DEF Establish
<1>7. CASE Established
  <2>1. plan # <<>> /\ h.event \in Opening /\ h.event.peer \in Peers
    BY <1>5, <1>7 DEF Established, Doing, Between
  <2>2. CASE WithoutSession(h.event)
    BY <1>1, <1>4, <1>7, <2>1, <2>2, WithoutTypes DEF Established, RestOK
  <2>3. CASE /\ plan' = IF h.do = "ping"
                        THEN <<Cycle(Ping(h.event.peer), FALSE)>> \o Tail(plan)
                        ELSE Tail(plan)
             /\ UNCHANGED fate
    <3>1. Cycle(Ping(h.event.peer), FALSE) \in Steps
      BY <2>1, NewEvents, Inclusions, NewSteps
    <3>2. plan' \in Seq(Steps)
      BY <1>5, <2>1, <2>3, <3>1, ConsFacts
    <3> QED
      BY <1>1, <1>4, <1>7, <2>3, <3>2 DEF Established, RestOK
  <2> QED
    BY <1>7, <2>2, <2>3 DEF Established
<1>8. CASE Forget
  <2>1. plan # <<>> /\ plan' \in Seq(Steps)
    BY <1>5, <1>8 DEF Forget, Doing, Between
  <2>2. <<>> \in Seq(Arrivals)
    BY EmptySeq
  <2>3. CoreOK' /\ DiskOK'
    BY <1>1, <1>8, <2>2 DEF Forget, CoreOK, DiskOK
  <2> QED
    BY <1>1, <1>8, <2>1, <2>3 DEF Forget, Typed, RestOK, CycleOK
<1> QED
  BY <1>2, <1>3, <1>6, <1>7, <1>8

\* Starting a cycle, and handling a follow-up.
LEMMA CycleEvents ==
    ASSUME Typed, Linked
    PROVE  /\ StartCycle => LET e == Head(plan).event IN
                 /\ plan # <<>> /\ acts = <<>> /\ follow = <<>>
                 /\ e \in Handled \cup Follows
                 /\ e.kind \notin {"inited", "acked", "loaded"}
                 /\ CoreHandles(e) /\ e.peer \in Peers
           /\ FollowUp => LET e == Head(follow) IN
                 /\ follow # <<>> /\ acts = <<>> /\ e \in ToSet(follow)
                 /\ e \in Handled \cup Follows /\ e.peer \in Peers
                 /\ e.kind \in {"inited", "acked", "out", "loaded"}
                 /\ e.kind = "out" => e = Ping(e.peer)
                 /\ FollowOK(e) /\ (e.kind = "inited" => Active(e.peer))
                 /\ CoreHandles(e)
<1>1. CycleOK
  BY DEF Typed
<1>2. ASSUME StartCycle
      PROVE  LET e == Head(plan).event IN
                 /\ plan # <<>> /\ acts = <<>> /\ follow = <<>>
                 /\ e \in Handled \cup Follows
                 /\ e.kind \notin {"inited", "acked", "loaded"}
                 /\ CoreHandles(e) /\ e.peer \in Peers
  <2>1. /\ plan # <<>> /\ acts = <<>> /\ follow = <<>> /\ CoreHandles(Head(plan).event)
        /\ Head(plan).do \in {"cycle", "shallow"}
    BY <1>2 DEF StartCycle, Doing, Between
  <2>2. Head(plan).event \in Handled
    BY <1>1, <2>1, PlanHead, StepContents
  <2>3. Head(plan).event.kind \notin {"inited", "acked", "loaded"}
    BY <2>2 DEF Handled, Events, Items
  <2> QED
    BY <2>1, <2>2, <2>3, Contents
<1>3. ASSUME FollowUp
      PROVE  LET e == Head(follow) IN
                 /\ follow # <<>> /\ acts = <<>> /\ e \in ToSet(follow)
                 /\ e \in Handled \cup Follows /\ e.peer \in Peers
                 /\ e.kind \in {"inited", "acked", "out", "loaded"}
                 /\ e.kind = "out" => e = Ping(e.peer)
                 /\ FollowOK(e) /\ (e.kind = "inited" => Active(e.peer))
                 /\ CoreHandles(e)
  <2>1. follow # <<>> /\ acts = <<>> /\ CoreHandles(Head(follow))
    BY <1>3 DEF FollowUp
  <2>2. Head(follow) \in Follows /\ Head(follow) \in ToSet(follow)
    <3>1. follow \in Seq(Follows)
      BY <1>1 DEF CycleOK
    <3> QED
      BY <2>1, <3>1, QueueTypes, ToSetFacts
  <2>3. /\ Head(follow).kind \in {"inited", "acked", "out", "loaded"}
        /\ Head(follow).kind = "out" => Head(follow) = Ping(Head(follow).peer)
    BY <2>2 DEF Follows, Items, Ping, PingOut, Item
  <2>4. FollowOK(Head(follow))
    BY <2>2 DEF Linked
  <2>5. Head(follow).kind = "inited" => Active(Head(follow).peer)
    BY <2>4 DEF FollowOK
  <2>6. Head(follow).peer \in Peers
    BY <2>2, Contents
  <2> QED
    BY <2>1, <2>2, <2>3, <2>4, <2>5, <2>6
<1> QED
  BY <1>2, <1>3

LEMMA CoreTyped ==
    ASSUME Typed, Linked, StartCycle \/ FollowUp
    PROVE  Typed'
<1> USE DEF queues, cycle, core, tasks, disk, notices, counts
<1>1. CoreOK /\ DiskOK /\ RestOK /\ CycleOK
  BY DEF Typed
<1>2. CASE StartCycle
  <2>1. CoreOK' /\ acts' \in Seq(Actions)
    BY <1>1, <1>2, CycleEvents, CoreFacts
  <2>2. plan' \in Seq(Steps)
    BY <1>1, <1>2, CycleEvents, PlanHead DEF StartCycle
  <2>3. CycleOK'
    BY <1>1, <1>2, <2>1, <2>2 DEF StartCycle, CycleOK
  <2> QED
    BY <1>1, <1>2, <2>1, <2>3 DEF StartCycle, Typed, DiskOK, RestOK
<1>3. CASE FollowUp
  <2>1. CoreOK' /\ acts' \in Seq(Actions)
    BY <1>1, <1>3, CycleEvents, CoreFacts
  <2>2. follow' \in Seq(Follows)
    <3>1. follow \in Seq(Follows) /\ follow # <<>> /\ follow' = Tail(follow)
      BY <1>1, <1>3 DEF FollowUp, CycleOK
    <3> QED
      BY <3>1, QueueTypes
  <2>3. CycleOK'
    BY <1>1, <1>3, <2>1, <2>2 DEF FollowUp, CycleOK
  <2> QED
    BY <1>1, <1>3, <2>1, <2>3 DEF FollowUp, Typed, DiskOK, RestOK
<1> QED
  BY <1>2, <1>3

\* What a heal becomes once it is compared with what the cycle has opened.
LEMMA HealFacts ==
    ASSUME Typed, Heal
    PROVE  /\ acts # <<>> /\ Head(acts).kind = "heal" /\ Peer \in Peers
           /\ \/ acts' = <<>> \o Tail(acts)
              \/ /\ Peer \notin inited /\ Act("reinit", Peer) \in Actions
                 /\ acts' = <<Act("reinit", Peer)>> \o Tail(acts)
              \/ /\ Peer \notin inited /\ healing[Peer] \in Arrivals
                 /\ Item("rejoin", Peer, healing[Peer]) \in Actions
                 /\ acts' = <<Item("rejoin", Peer, healing[Peer])>> \o Tail(acts)
                 /\ healing' = [healing EXCEPT ![Peer] = None]
           /\ healing' = healing \/ healing' = [healing EXCEPT ![Peer] = None]
<1> DEFINE wire == healing[Peer]
           stale == Peer \in inited
           wins == Head(acts).arg = "Initiator"
           more == IF stale THEN <<>>
                   ELSE IF wins THEN <<Act("reinit", Peer)>>
                   ELSE IF wire = None THEN <<>> ELSE <<Item("rejoin", Peer, wire)>>
<1>1. acts # <<>> /\ Head(acts).kind = "heal" /\ acts' = more \o Tail(acts)
      /\ healing' = IF stale \/ wins THEN healing ELSE [healing EXCEPT ![Peer] = None]
  BY DEF Heal, Next1
<1>2. Peer \in Peers
  BY <1>1, DoneTypes DEF Typed
<1>3. wire # None => wire \in Arrivals
  BY <1>2 DEF Typed, CoreOK
<1>4. Act("reinit", Peer) \in Actions
  BY <1>2, NewActions
<1>5. wire # None => Item("rejoin", Peer, wire) \in Actions
  BY <1>2, <1>3, NewActions
<1>6. CASE stale
  BY <1>1, <1>2, <1>6
<1>7. CASE ~stale /\ wins
  BY <1>1, <1>2, <1>4, <1>7
<1>8. CASE ~stale /\ ~wins /\ wire = None
  BY <1>1, <1>2, <1>8
<1>9. CASE ~stale /\ ~wins /\ wire # None
  BY <1>1, <1>2, <1>3, <1>5, <1>9
<1> QED
  BY <1>6, <1>7, <1>8, <1>9

LEMMA SurfaceTypes ==
    ASSUME RestOK, NEW m \in Arrivals, Surface(m)
    PROVE  /\ bubbles' \in Seq(Arrivals)
           /\ bubbles' = bubbles \/ bubbles' = Append(bubbles, m)
           /\ previews' = previews
BY QueueTypes DEF RestOK, Surface

LEMMA DispatchTyped ==
    ASSUME Typed, Linked, Dispatch
    PROVE  Typed'
<1> USE DEF queues, cycle, core, tasks, disk, notices, counts
<1> DEFINE a == Head(acts)
<1>1. CoreOK /\ DiskOK /\ RestOK /\ CycleOK
  BY DEF Typed
<1>2. acts # <<>>
  BY DEF Dispatch, InitResponder, InitInitiator, InitFails, Heal, HealInitiator,
         HealResponder, Show, Preview, Save, Erase, Load, SendOut, Spawn, CheckAck, Beat,
         Terminate, DeleteRow, Next1
<1>3. /\ a \in Actions /\ a \in ToSet(acts) /\ Peer \in Peers
      /\ Tail(acts) \in Seq(Actions) /\ Peer = a.peer
  BY <1>1, <1>2, DoneTypes DEF Peer
<1>4. ActOK(a)
  BY <1>3 DEF Linked
<1>5. /\ Upset => /\ upsets' \in 0..MaxUpsets /\ arrived' = arrived
                  /\ moves' = moves
      /\ UNCHANGED counts => /\ upsets' \in 0..MaxUpsets /\ arrived' = arrived
                             /\ moves' = moves
  BY <1>1, UpsetTypes DEF RestOK
\* Every dispatched action leaves most of the state alone.
<1>6. ASSUME UNCHANGED <<cmds, plan, deep, nested>>,
             acts' \in Seq(Actions), follow' \in Seq(Follows), inited' \subseteq Peers,
             events' \in Seq(Events), bubbles' \in Seq(Arrivals), previews' \in Nat,
             fetches' \in [Peers -> Nat], retries' \in [Peers -> Nat],
             fate' \in [Texts -> Fates],
             upsets' \in 0..MaxUpsets, arrived' = arrived, moves' = moves, CoreOK', DiskOK'
      PROVE  Typed'
  BY <1>1, <1>6 DEF Typed, RestOK, CycleOK
<1>7. /\ acts' = Tail(acts) => acts' \in Seq(Actions)
      /\ UNCHANGED core => CoreOK'
      /\ UNCHANGED disk /\ ended' = ended => DiskOK'
      /\ UNCHANGED follow => follow' \in Seq(Follows)
      /\ UNCHANGED events => events' \in Seq(Events)
      /\ UNCHANGED bubbles => bubbles' \in Seq(Arrivals)
      /\ UNCHANGED previews => previews' \in Nat
      /\ UNCHANGED tasks => fetches' \in [Peers -> Nat] /\ retries' \in [Peers -> Nat]
      /\ UNCHANGED fate => fate' \in [Texts -> Fates]
      /\ UNCHANGED inited => inited' \subseteq Peers
  BY <1>1, <1>3 DEF CoreOK, DiskOK, RestOK, CycleOK
<1>8. CASE InitResponder
  <2>1. pending[Peer] \in Seq(Arrivals) /\ pending[Peer] # <<>>
    BY <1>1, <1>3, <1>8 DEF InitResponder, CoreOK
  <2>2. Head(pending[Peer]) \in Arrivals /\ Tail(pending[Peer]) \in Seq(Arrivals)
    BY <2>1, QueueTypes
  <2>3. session' \in [Peers -> Sessions \cup {None}]
    BY <1>1, <1>3, <1>8, Opened DEF InitResponder
  <2>4. CoreOK'
    BY <1>1, <1>3, <1>8, <2>2, <2>3 DEF InitResponder, CoreOK
  <2>5. bubbles' \in Seq(Arrivals) /\ previews' = previews
    BY <1>1, <1>8, <2>2, SurfaceTypes DEF InitResponder
  <2>6. follow' \in Seq(Follows)
    BY <1>1, <1>3, <1>8, PushTypes, PushedItems DEF InitResponder
  <2>7. inited' \subseteq Peers
    BY <1>1, <1>3, <1>8 DEF InitResponder, CycleOK
  <2> QED
    BY <1>5, <1>6, <1>7, <1>8, <2>4, <2>5, <2>6, <2>7 DEF InitResponder, Done
<1>9. CASE InitInitiator
  <2>1. session' \in [Peers -> Sessions \cup {None}]
    BY <1>1, <1>3, <1>9, Opened DEF InitInitiator
  <2>2. CoreOK'
    BY <1>1, <1>9, <2>1 DEF InitInitiator, CoreOK
  <2>3. follow' \in Seq(Follows)
    BY <1>1, <1>3, <1>9, PushTypes, PushedItems DEF InitInitiator
  <2>4. inited' \subseteq Peers
    BY <1>1, <1>3, <1>9 DEF InitInitiator, CycleOK
  <2>5. upsets' \in 0..MaxUpsets /\ arrived' = arrived /\ moves' = moves
    BY <1>5, <1>9 DEF InitInitiator
  <2> QED
    BY <1>6, <1>7, <1>9, <2>2, <2>3, <2>4, <2>5 DEF InitInitiator, Done
<1>10. CASE InitFails
  BY <1>5, <1>6, <1>7, <1>10 DEF InitFails, Done
<1>11. CASE Heal
  <2>1. acts' \in Seq(Actions)
    BY <1>1, <1>2, <1>11, HealFacts, DoneTypes
  <2>2. CoreOK'
    BY <1>1, <1>3, <1>11, HealFacts DEF Heal, CoreOK
  <2> QED
    BY <1>5, <1>6, <1>7, <1>11, <2>1, <2>2 DEF Heal
<1>12. CASE HealInitiator
  <2>1. CASE /\ Open(Peer, "initiator", "heal")
             /\ Push(Completed(Peer) \o <<Ping(Peer)>>)
             /\ UNCHANGED counts
    <3>1. session' \in [Peers -> Sessions \cup {None}]
      BY <1>1, <1>3, <2>1, Opened
    <3>2. CoreOK'
      BY <1>1, <1>12, <3>1 DEF HealInitiator, CoreOK
    <3>3. follow' \in Seq(Follows)
      BY <1>1, <1>3, <2>1, PushTypes, PushedItems
    <3> QED
      BY <1>5, <1>6, <1>7, <1>12, <2>1, <3>2, <3>3 DEF HealInitiator, Done
  <2>2. CASE Upset /\ UNCHANGED <<session, follow>>
    BY <1>5, <1>6, <1>7, <1>12, <2>2 DEF HealInitiator, Done
  <2> QED
    BY <1>12, <2>1, <2>2 DEF HealInitiator
<1>13. CASE HealResponder
  <2> DEFINE m == a.arg
             opens == \E i \in DOMAIN pending[Peer] : pending[Peer][i] = m
  <2>1. m \in Arrivals /\ pending[Peer] \in Seq(Arrivals)
    BY <1>1, <1>3, <1>13, Contents DEF HealResponder, Next1, CoreOK
  <2>2. CASE /\ opens
             /\ Open(Peer, "responder", "heal")
             /\ pending' = [pending EXCEPT ![Peer] = Tail(@)]
             /\ Surface(m)
             /\ Push(Completed(Peer))
             /\ UNCHANGED counts
    <3>1. pending[Peer] # <<>>
      BY <2>2
    <3>2. Tail(pending[Peer]) \in Seq(Arrivals)
      BY <2>1, <3>1, QueueTypes
    <3>3. session' \in [Peers -> Sessions \cup {None}]
      BY <1>1, <1>3, <2>2, Opened
    <3>4. CoreOK'
      BY <1>1, <1>13, <2>2, <3>2, <3>3 DEF HealResponder, CoreOK
    <3>5. bubbles' \in Seq(Arrivals) /\ previews' = previews
      BY <1>1, <2>1, <2>2, SurfaceTypes
    <3>6. follow' \in Seq(Follows)
      BY <1>1, <1>3, <2>2, PushTypes, PushedItems
    <3> QED
      BY <1>5, <1>6, <1>7, <1>13, <2>2, <3>4, <3>5, <3>6 DEF HealResponder, Done
  <2>3. CASE /\ IF opens THEN Upset ELSE UNCHANGED counts
             /\ UNCHANGED <<session, pending, notices, follow>>
    BY <1>5, <1>6, <1>7, <1>13, <2>3 DEF HealResponder, Done
  <2> QED
    BY <1>13, <2>2, <2>3 DEF HealResponder
<1>14. CASE Show
  <2>1. a.arg \in Arrivals
    BY <1>3, <1>14, Contents DEF Show, Next1
  <2>2. bubbles' \in Seq(Arrivals)
    BY <1>1, <1>14, <2>1, QueueTypes DEF Show, RestOK
  <2> QED
    BY <1>5, <1>6, <1>7, <1>14, <2>2 DEF Show, Done
<1>15. CASE Save
  <2>1. DiskOK'
    BY <1>1, <1>3, <1>15 DEF Save, DiskOK, CoreOK
  <2>2. upsets' \in 0..MaxUpsets /\ arrived' = arrived /\ moves' = moves
    BY <1>5, <1>15 DEF Save
  <2> QED
    BY <1>6, <1>7, <1>15, <2>1, <2>2 DEF Save, Done
<1>16. CASE SendOut
  <2> DEFINE x == a.arg
  <2>1. x \in Outs /\ Active(Peer)
    BY <1>3, <1>4, <1>16, Contents DEF SendOut, Next1, ActOK
  <2>2. x.what \in {"text", "ping", "beat"} /\ (x.what = "text" => x.text \in Texts)
    BY <2>1, Contents
  <2>3. session[Peer] \in Sessions
    BY <1>1, <1>3, <2>1 DEF CoreOK, Active
  <2> HIDE DEF x
  <2>4. /\ session' = IF session[Peer].first = "none"
                      THEN [session EXCEPT ![Peer].first = x.what] ELSE session
        /\ \E how \in {"sent", "dropped"} :
              fate' = IF x.what = "text" THEN [fate EXCEPT ![x.text] = how] ELSE fate
        /\ UNCHANGED counts \/ Upset
    BY <1>16 DEF SendOut, x
  <2>5. [session[Peer] EXCEPT !.first = x.what] \in Sessions
    BY <2>2, <2>3 DEF Sessions
  <2>6. session' \in [Peers -> Sessions \cup {None}]
    BY <1>1, <1>3, <2>4, <2>5 DEF CoreOK
  <2>7. CoreOK'
    BY <1>1, <1>16, <2>6 DEF SendOut, CoreOK
  <2>8. fate' \in [Texts -> Fates]
    BY <1>1, <2>2, <2>4 DEF RestOK, Fates
  <2>9. upsets' \in 0..MaxUpsets /\ arrived' = arrived /\ moves' = moves
    BY <1>5, <2>4
  <2> QED
    BY <1>6, <1>7, <1>16, <2>7, <2>8, <2>9 DEF SendOut, Done
<1>17. CASE Spawn
  <2>1. fetches' \in [Peers -> Nat] /\ retries' \in [Peers -> Nat]
    <3>1. fetches \in [Peers -> Nat] /\ retries \in [Peers -> Nat]
      BY <1>1 DEF RestOK
    <3>2. \/ fetches' = [fetches EXCEPT ![Peer] = @ + 1] /\ UNCHANGED retries
          \/ retries' = [retries EXCEPT ![Peer] = @ + 1] /\ UNCHANGED fetches
      BY <1>17 DEF Spawn
    <3>3. fetches[Peer] + 1 \in Nat /\ retries[Peer] + 1 \in Nat
      BY <1>3, <3>1
    <3>4. CASE fetches' = [fetches EXCEPT ![Peer] = @ + 1] /\ UNCHANGED retries
      BY <3>1, <3>3, <3>4
    <3>5. CASE retries' = [retries EXCEPT ![Peer] = @ + 1] /\ UNCHANGED fetches
      BY <3>1, <3>3, <3>5
    <3> QED
      BY <3>2, <3>4, <3>5
  <2> QED
    BY <1>5, <1>6, <1>7, <1>17, <2>1 DEF Spawn, Done
<1>18. CASE CheckAck
  <2>1. a.arg \in Arrivals
    BY <1>3, <1>18, Contents DEF CheckAck, Next1
  <2>2. follow' \in Seq(Follows)
    BY <1>1, <1>3, <1>18, <2>1, PushTypes, PushedItems DEF CheckAck
  <2> QED
    BY <1>5, <1>6, <1>7, <1>18, <2>2 DEF CheckAck, Done
<1>19. CASE Beat
  <2> DEFINE x == [what |-> "beat", text |-> 0]
  <2>1. x \in Outs
    BY DEF Outs
  <2> HIDE DEF x
  <2>2. events' = Append(events, Item("out", Peer, x))
    BY <1>19 DEF Beat, x
  <2>3. events' \in Seq(Events)
    BY <1>1, <1>3, <2>1, <2>2, NewEvents, QueueTypes DEF RestOK
  <2> QED
    BY <1>5, <1>6, <1>7, <1>19, <2>3 DEF Beat, Done
<1>20. CASE Terminate
  <2>1. DiskOK'
    BY <1>1, <1>3, <1>20 DEF Terminate, DiskOK
  <2>2. acts' \in Seq(Actions)
    <3>1. acts' = <<Act("unrow", Peer)>> \o Tail(acts) \/ acts' = Tail(acts)
      BY <1>20 DEF Terminate, Done
    <3>2. Act("unrow", Peer) \in Actions
      BY <1>3, NewActions
    <3> QED
      BY <1>1, <1>2, <1>3, <3>1, <3>2, DoneTypes
  <2>3. upsets' \in 0..MaxUpsets /\ arrived' = arrived /\ moves' = moves
    BY <1>5, <1>20 DEF Terminate
  <2> QED
    BY <1>6, <1>7, <1>20, <2>1, <2>2, <2>3 DEF Terminate
<1>21. CASE DeleteRow
  <2>1. DiskOK'
    BY <1>1, <1>3, <1>21 DEF DeleteRow, DiskOK
  <2>2. upsets' \in 0..MaxUpsets /\ arrived' = arrived /\ moves' = moves
    BY <1>5, <1>21 DEF DeleteRow
  <2> QED
    BY <1>6, <1>7, <1>21, <2>1, <2>2 DEF DeleteRow, Done
<1>22. CASE Preview
  <2>1. previews' \in Nat
    BY <1>1, <1>22 DEF Preview, RestOK
  <2> QED
    BY <1>5, <1>6, <1>7, <1>22, <2>1 DEF Preview, Done
<1>23. CASE Erase
  <2>1. /\ rows' = rows \/ rows' = [rows EXCEPT ![Peer] = None]
        /\ archive' = archive \/ archive' = [archive EXCEPT ![Peer] = FALSE]
        /\ ended' \subseteq ended
    BY <1>23 DEF Erase
  <2>2. DiskOK'
    BY <1>1, <1>3, <2>1 DEF DiskOK
  <2>3. upsets' \in 0..MaxUpsets /\ arrived' = arrived /\ moves' = moves
    BY <1>5, <1>23 DEF Erase
  <2> QED
    BY <1>6, <1>7, <1>23, <2>2, <2>3 DEF Erase, Done
<1>24. CASE Load
  <2>1. rows[Peer] \in Sessions \cup {None}
    BY <1>1, <1>3 DEF DiskOK
  <2>2. follow' \in Seq(Follows)
    BY <1>1, <1>3, <1>24, <2>1, PushTypes, PushedItems DEF Load
  <2> QED
    BY <1>5, <1>6, <1>7, <1>24, <2>2 DEF Load, Done
<1> QED
  BY <1>8, <1>9, <1>10, <1>11, <1>12, <1>13, <1>14, <1>15, <1>16, <1>17, <1>18, <1>19,
     <1>20, <1>21, <1>22, <1>23, <1>24 DEF Dispatch

LEMMA StepTyped == ASSUME Typed, Linked, [Next]_vars PROVE Typed'
<1>1. CASE UNCHANGED vars
  BY <1>1 DEF vars, Typed, CoreOK, DiskOK, RestOK, CycleOK
<1>2. CASE Next
  BY <1>2, InputsTyped, PlanTyped, CoreTyped, DispatchTyped DEF Next, Actor
<1> QED
  BY <1>1, <1>2

LEMMA InitTyped == Init => Typed /\ Orderly
<1> SUFFICES ASSUME Init PROVE Typed /\ Orderly
  OBVIOUS
<1>1. /\ <<>> \in Seq(Commands) /\ <<>> \in Seq(Events) /\ <<>> \in Seq(Steps)
      /\ <<>> \in Seq(Actions) /\ <<>> \in Seq(Follows) /\ <<>> \in Seq(Arrivals)
      /\ DOMAIN <<>> = {} /\ Len(<<>>) = 0
  BY EmptySeq
<1>2. CoreOK
  BY <1>1 DEF Init, CoreOK
<1>3. DiskOK /\ CycleOK
  BY <1>1 DEF Init, DiskOK, CycleOK
<1>4. RestOK
  BY <1>1, ActorAssumption DEF Init, RestOK, Fates
<1>5. ToSet(acts) = {} /\ ToSet(follow) = {}
  BY <1>1 DEF Init, ToSet
<1>6. PlanShape(plan) /\ LastOnly(acts)
  BY <1>1 DEF Init, PlanShape, LastOnly
<1>7. Linked
  BY <1>1, <1>5 DEF Init, Linked
<1> QED
  BY <1>2, <1>3, <1>4, <1>6, <1>7 DEF Typed, Orderly

-----------------------------------------------------------------------------
(* The plan keeps its shape.                                               *)

LEMMA ShapeTail ==
    ASSUME CycleOK, plan # <<>>, PlanShape(plan)
    PROVE  PlanShape(Tail(plan))
<1> DEFINE t == Tail(plan)
           n == Len(plan)
<1>1. /\ DOMAIN plan = 1..n /\ n \in Nat /\ DOMAIN t = 1..(n - 1) /\ Len(t) = n - 1
      /\ \A i \in 1..(n - 1) : t[i] = plan[i + 1]
  BY PlanHead
<1> HIDE DEF t, n
<1> SUFFICES PlanShape(t)
  BY DEF t
<1>2. ASSUME NEW i \in DOMAIN t
      PROVE  /\ t[i].event.kind = "received" => Len(t) = 1
             /\ t[i].do = "forget" => i = 1 \/ (i = 2 /\ t[1].event.kind = "away")
             /\ t[i].do = "ping" => i = 1 \/ t[i - 1].event = Act("bundle", t[i].event.peer)
             /\ t[i].do \in {"cycle", "shallow"} /\ t[i].event.kind = "out"
                   /\ t[i].event.arg.what # "ping"
                   => i = Len(t)
  <2>1. i \in 1..(n - 1) /\ i + 1 \in DOMAIN plan /\ t[i] = plan[i + 1] /\ i \in Nat
    BY <1>1, <1>2
  <2>2. /\ plan[i + 1].event.kind = "received" => n = 1
        /\ plan[i + 1].do = "forget" => i + 1 = 1 \/ i + 1 = 2
        /\ plan[i + 1].do = "ping"
              => i + 1 = 1 \/ plan[(i + 1) - 1].event = Act("bundle", plan[i + 1].event.peer)
        /\ plan[i + 1].do \in {"cycle", "shallow"} /\ plan[i + 1].event.kind = "out"
              /\ plan[i + 1].event.arg.what # "ping"
              => i + 1 = n
    BY <2>1 DEF PlanShape, n
  <2>3. t[i].event.kind = "received" => Len(t) = 1
    BY <1>1, <2>1, <2>2
  <2>4. t[i].do = "forget" => i = 1
    BY <2>1, <2>2
  <2>5. t[i].do = "ping" => i = 1 \/ t[i - 1].event = Act("bundle", t[i].event.peer)
    <3>1. i # 1 => i - 1 \in 1..(n - 1) /\ (i - 1) + 1 = i /\ (i + 1) - 1 = i
      BY <1>1, <2>1
    <3>2. i # 1 => t[i - 1] = plan[i]
      BY <1>1, <3>1
    <3> QED
      BY <2>1, <2>2, <3>1, <3>2
  <2>6. t[i].do \in {"cycle", "shallow"} /\ t[i].event.kind = "out"
           /\ t[i].event.arg.what # "ping"
           => i = Len(t)
    BY <1>1, <2>1, <2>2
  <2> QED
    BY <2>3, <2>4, <2>5, <2>6
<1> QED
  BY <1>2 DEF PlanShape

\* A ping in place of the step that called for it.
LEMMA ShapePing ==
    ASSUME CycleOK, Between, PlanShape(plan), Head(plan).do = "ping", NEW p \in Peers
    PROVE  PlanShape(<<Cycle(Ping(p), FALSE)>> \o Tail(plan))
<1> DEFINE t == Tail(plan)
           n == Len(plan)
           c == Cycle(Ping(p), FALSE)
           q == <<c>> \o t
<1>1. plan # <<>>
  BY DEF Between
<1>2. /\ DOMAIN plan = 1..n /\ n \in Nat /\ n > 0 /\ DOMAIN t = 1..(n - 1)
      /\ Len(t) = n - 1 /\ \A i \in 1..(n - 1) : t[i] = plan[i + 1]
      /\ t \in Seq(Steps) /\ plan[1] \in Steps /\ plan[1].do = "ping"
  BY <1>1, PlanHead
<1>3. Ping(p) \in Handled
  BY NewEvents, Inclusions
<1>4. c \in Steps /\ c.do = "shallow" /\ c.event = Ping(p)
  BY <1>3, NewSteps
<1> HIDE DEF t, n, c
<1>5. c.event.kind = "out" /\ c.event.arg.what = "ping"
  <2>1. c.event.kind = "out" /\ c.event.arg = PingOut
    BY <1>4, NewEvents
  <2> QED
    BY <2>1 DEF PingOut
<1>6. plan[1].event.kind \in {"open", "out"}
  BY <1>2, StepContents DEF Opening, Items
<1>7. /\ DOMAIN q = 1..(Len(t) + 1) /\ q[1] = c /\ Len(q) = Len(t) + 1
      /\ \A i \in DOMAIN q : i = 1 \/ (i - 1 \in DOMAIN t /\ q[i] = t[i - 1])
  BY <1>2, <1>4, ConsFacts
<1> HIDE DEF q
<1>8. DOMAIN q = DOMAIN plan /\ Len(q) = n
  BY <1>2, <1>7
<1>9. \A i \in DOMAIN q : i # 1 => q[i] = plan[i]
  <2> SUFFICES ASSUME NEW i \in DOMAIN q, i # 1 PROVE q[i] = plan[i]
    OBVIOUS
  <2>1. i - 1 \in DOMAIN t /\ q[i] = t[i - 1] /\ i \in Nat /\ (i - 1) + 1 = i
    BY <1>2, <1>7, <1>8
  <2> QED
    BY <1>2, <2>1
<1>10. ASSUME NEW i \in DOMAIN q
       PROVE  /\ q[i].event.kind = "received" => Len(q) = 1
              /\ q[i].do = "forget" => i = 1 \/ (i = 2 /\ q[1].event.kind = "away")
              /\ q[i].do = "ping" => i = 1 \/ q[i - 1].event = Act("bundle", q[i].event.peer)
              /\ q[i].do \in {"cycle", "shallow"} /\ q[i].event.kind = "out"
                    /\ q[i].event.arg.what # "ping"
                    => i = Len(q)
  <2>1. CASE i = 1
    BY <1>4, <1>5, <1>7, <2>1
  <2>2. CASE i # 1
    <3>1. q[i] = plan[i] /\ i \in DOMAIN plan /\ i \in Nat
      BY <1>2, <1>8, <1>9, <2>2
    <3>2. /\ plan[i].event.kind = "received" => n = 1
          /\ plan[i].do = "forget" => i = 2 /\ plan[1].event.kind = "away"
          /\ plan[i].do = "ping" => plan[i - 1].event = Act("bundle", plan[i].event.peer)
          /\ plan[i].do \in {"cycle", "shallow"} /\ plan[i].event.kind = "out"
                /\ plan[i].event.arg.what # "ping"
                => i = n
      BY <2>2, <3>1 DEF PlanShape, n
    <3>3. plan[i].do # "forget"
      BY <1>6, <3>2
    <3>4. plan[i].do = "ping" => q[i - 1].event = Act("bundle", q[i].event.peer)
      <4>1. i # 2 => i - 1 \in DOMAIN q /\ i - 1 # 1
        BY <1>2, <1>8, <2>2, <3>1
      <4>2. i # 2 => q[i - 1] = plan[i - 1]
        BY <1>9, <4>1
      <4>3. i = 2 => plan[i].do # "ping"
        <5>1. Act("bundle", plan[i].event.peer).kind = "bundle"
          BY DEF Act, Item
        <5> QED
          BY <1>6, <3>2, <5>1
      <4> QED
        BY <3>1, <3>2, <4>2, <4>3
    <3> QED
      BY <1>8, <3>1, <3>2, <3>3, <3>4
  <2> QED
    BY <2>1, <2>2
<1>11. PlanShape(q)
  BY <1>10 DEF PlanShape
<1> QED
  BY <1>11 DEF q, c, t

LEMMA ShapeOne == \A e \in Handled, d \in BOOLEAN : PlanShape(<<Cycle(e, d)>>)
<1> SUFFICES ASSUME NEW e \in Handled, NEW d \in BOOLEAN PROVE PlanShape(<<Cycle(e, d)>>)
  OBVIOUS
<1> DEFINE c == Cycle(e, d)
           q == <<c>>
<1>1. c \in Steps /\ c.do \in {"cycle", "shallow"}
  BY NewSteps
<1> HIDE DEF c
<1>2. DOMAIN q = {1} /\ Len(q) = 1 /\ q[1] = c
  BY <1>1, OneStep
<1> HIDE DEF q
<1>3. PlanShape(q)
  BY <1>1, <1>2 DEF PlanShape
<1> QED
  BY <1>3 DEF q, c

LEMMA ShapePrepared == ASSUME NEW e \in Events PROVE PlanShape(Prepared(e))
<1>1. CASE Prepared(e) = <<Cycle(e, TRUE)>>
  BY <1>1, ShapeOne, Inclusions
<1>2. CASE /\ e \in Opening
           /\ Prepared(e) \in Seq(Steps) /\ Len(Prepared(e)) = 4
           /\ DOMAIN Prepared(e) = 1..4
           /\ Prepared(e)[1] = Todo("fetch", e)
           /\ Prepared(e)[2] = Cycle(Act("bundle", e.peer), TRUE)
           /\ Prepared(e)[3] \in {Todo("ping", e), Todo("require", e)}
           /\ Prepared(e)[4] = Cycle(e, TRUE)
  <2> DEFINE q == Prepared(e)
  <2>1. e \in Handled /\ e.kind \in {"open", "out"} /\ Act("bundle", e.peer) \in Handled
    BY <1>2, Inclusions, Contents, NewEvents DEF Opening, Items
  <2>2. /\ DOMAIN q = 1..4 /\ Len(q) = 4
        /\ q[1].do = "fetch" /\ q[1].event = e
        /\ q[3].do \in {"ping", "require"} /\ q[3].event = e
    BY <1>2, NewSteps
  <2>3. /\ q[2].do = "cycle" /\ q[2].event = Act("bundle", e.peer)
        /\ q[4].do = "cycle" /\ q[4].event = e
    <3>1. \A x \in Handled : Cycle(x, TRUE).do = "cycle" /\ Cycle(x, TRUE).event = x
      BY NewSteps
    <3> QED
      BY <1>2, <2>1, <3>1
  <2>4. Act("bundle", e.peer).kind = "bundle"
    BY DEF Act, Item
  <2> HIDE DEF q
  <2>5. \A i \in DOMAIN q : i = 1 \/ i = 2 \/ i = 3 \/ i = 4
    BY <2>2
  <2>6. PlanShape(q)
    <3>1. \A i \in DOMAIN q : q[i].event.kind # "received" /\ q[i].do # "forget"
      BY <2>1, <2>2, <2>3, <2>4, <2>5
    <3>2. \A i \in DOMAIN q : q[i].do = "ping" => i = 3
      BY <2>2, <2>3, <2>5
    <3>3. q[3 - 1].event = Act("bundle", q[3].event.peer)
      BY <2>2, <2>3
    <3>4. \A i \in DOMAIN q : q[i].do \in {"cycle", "shallow"} /\ q[i].event.kind = "out"
                                 => i = 4
      BY <2>1, <2>2, <2>3, <2>4, <2>5
    <3> QED
      BY <2>2, <3>1, <3>2, <3>3, <3>4 DEF PlanShape
  <2> QED
    BY <2>6 DEF q
<1> QED
  BY <1>1, <1>2, PreparedFacts

\* The head of a plan's rest, by what it follows.
LEMMA SecondStep ==
    ASSUME CycleOK, plan # <<>>, PlanShape(plan), Tail(plan) # <<>>
    PROVE  LET h == Head(plan)  t == Head(Tail(plan)) IN
           /\ h.event.kind # "received" /\ t.event.kind # "received"
           /\ t.do = "forget" => h.event.kind = "away"
           /\ t.do = "ping" => h.event = Act("bundle", t.event.peer)
           /\ h.do \in {"cycle", "shallow"} /\ h.event.kind = "out"
                 => h.event.arg.what = "ping"
<1>1. /\ Len(plan) > 1 /\ Head(Tail(plan)) = plan[2] /\ 1 \in DOMAIN plan /\ 2 \in DOMAIN plan
      /\ Head(plan) = plan[1] /\ Len(plan) \in Nat /\ DOMAIN plan = 1..Len(plan)
  BY PlanHead
<1>2. /\ plan[1].event.kind = "received" => Len(plan) = 1
      /\ plan[2].event.kind = "received" => Len(plan) = 1
      /\ plan[2].do = "forget" => 2 = 1 \/ plan[1].event.kind = "away"
      /\ plan[2].do = "ping" => 2 = 1 \/ plan[2 - 1].event = Act("bundle", plan[2].event.peer)
      /\ plan[1].do \in {"cycle", "shallow"} /\ plan[1].event.kind = "out"
            /\ plan[1].event.arg.what # "ping"
            => 1 = Len(plan)
  BY <1>1 DEF PlanShape
<1>3. 2 - 1 = 1 /\ 2 # 1 /\ Len(plan) # 1
  BY <1>1
<1> QED
  BY <1>1, <1>2, <1>3

LEMMA WithoutShape ==
    ASSUME NEW e \in Opening, WithoutSession(e)
    PROVE  /\ PlanShape(plan')
           /\ plan' # <<>> => Head(plan').do = "cycle" /\ Head(plan').event = e
<1>1. e \in Handled
  BY Inclusions
<1>2. PlanShape(<<>>)
  BY EmptySeq DEF PlanShape
<1>3. Cycle(e, TRUE) \in Steps /\ Cycle(e, TRUE).do = "cycle" /\ Cycle(e, TRUE).event = e
  BY <1>1, NewSteps
<1>4. plan' = <<Cycle(e, TRUE)>> \/ plan' = <<>>
  BY DEF WithoutSession
<1>5. PlanShape(plan')
  BY <1>1, <1>2, <1>4, ShapeOne
<1>6. plan' # <<>> => Head(plan') = Cycle(e, TRUE)
  BY <1>3, <1>4, OneStep
<1> QED
  BY <1>3, <1>5, <1>6

LEMMA PlanOrder == ASSUME Typed, PlanShape(plan), [Next]_vars PROVE PlanShape(plan')
<1> USE DEF queues, cycle, core, tasks, disk, notices, counts
<1>1. /\ CycleOK /\ cmds \in Seq(Commands) /\ events \in Seq(Events)
  BY DEF Typed, RestOK
<1>2. PlanShape(<<>>)
  BY EmptySeq DEF PlanShape
<1>3. CASE NextEvent
  <2>1. Head(events) \in Events
    BY <1>1, <1>3, QueueTypes DEF NextEvent
  <2> QED
    BY <1>3, <2>1, ShapePrepared DEF NextEvent
<1>4. CASE NextCommand
  <2> DEFINE c == Head(cmds)
             a == Cycle(Act("away", c.peer), FALSE)
             f == Todo("forget", c)
  <2>1. c \in Commands
    BY <1>1, <1>4, QueueTypes DEF NextCommand
  <2>2. plan' = IF c.kind = "forget" THEN <<a, f>> ELSE <<Cycle(c, TRUE)>>
    BY <1>4 DEF NextCommand
  <2>3. CASE c.kind = "forget"
    <3>1. Act("away", c.peer) \in Handled /\ c.peer \in Peers
      BY <2>1, Contents, NewEvents
    <3>2. a \in Steps /\ a.event = Act("away", c.peer) /\ a.do = "shallow"
      BY <3>1, NewSteps
    <3>3. f \in Steps /\ f.do = "forget" /\ f.event = c
      BY <2>1, <2>3, Inclusions, NewSteps
    <3>4. Act("away", c.peer).kind = "away"
      BY DEF Act, Item
    <3> DEFINE q == <<a, f>>
    <3> HIDE DEF a, f, c
    <3>5. DOMAIN q = {1, 2} /\ Len(q) = 2 /\ q[1] = a /\ q[2] = f
      BY <3>2, <3>3, TwoSteps
    <3> HIDE DEF q
    <3>6. PlanShape(q)
      BY <2>3, <3>2, <3>3, <3>4, <3>5 DEF PlanShape
    <3> QED
      BY <2>2, <2>3, <3>6 DEF q
  <2>4. CASE c.kind # "forget"
    <3>1. c \in Handled
      BY <2>1, <2>4, Contents, Inclusions
    <3> QED
      BY <2>2, <2>4, <3>1, ShapeOne
  <2> QED
    BY <2>3, <2>4
<1>5. plan # <<>> => PlanShape(Tail(plan))
  BY <1>1, ShapeTail
<1>6. CASE Establish \/ Established
  <2>1. plan # <<>> /\ Head(plan).event \in Opening /\ Head(plan).event.peer \in Peers
    BY <1>1, <1>6, PlanHead, StepContents DEF Establish, Established, Doing, Between
  <2>2. CASE WithoutSession(Head(plan).event)
    BY <2>1, <2>2, WithoutShape
  <2>3. CASE plan' = Tail(plan)
    BY <1>5, <2>1, <2>3
  <2>4. CASE /\ Head(plan).do = "ping" /\ Between
             /\ plan' = <<Cycle(Ping(Head(plan).event.peer), FALSE)>> \o Tail(plan)
    BY <1>1, <2>1, <2>4, ShapePing
  <2> QED
    BY <1>6, <2>2, <2>3, <2>4 DEF Establish, Established, Doing
<1>7. CASE Forget \/ StartCycle
  BY <1>5, <1>7 DEF Forget, StartCycle, Doing, Between
<1>8. CASE Crash
  BY <1>2, <1>8 DEF Crash
<1>9. CASE \/ FollowUp \/ Dispatch
           \/ \E p \in Peers : \E body \in Bodies : Arrive(p, body)
           \/ \E p \in Peers : Move(p) \/ Fetched(p) \/ RetryDue(p)
           \/ \E p \in Peers : \E t \in Texts : Submit(p, t)
           \/ UNCHANGED vars
  <2>1. plan' = plan
    BY <1>9 DEF FollowUp, Dispatch, InitResponder, InitInitiator, InitFails, Heal,
       HealInitiator, HealResponder, Show, Preview, Save, Erase, Load, SendOut, Spawn,
       CheckAck, Beat, Terminate, DeleteRow, Arrive, Move, Fetched, RetryDue, Submit, vars
  <2> QED
    BY <2>1
<1> QED
  BY <1>3, <1>4, <1>6, <1>7, <1>8, <1>9 DEF Next, Actor

-----------------------------------------------------------------------------
(* What the actions rely on stays true.                                    *)

\* Nothing of the cycle is left.
LEMMA LinkedIdle ==
    ASSUME acts' = <<>>, follow' = <<>>, \A p \in inited' : Active(p)',
           plan' # <<>> /\ Head(plan').do = "forget" => inited' = {}
    PROVE  Linked'
<1>1. ToSet(<<>>) = {} /\ Len(<<>>) = 0
  BY EmptySeq DEF ToSet
<1> QED
  BY <1>1 DEF Linked

\* A step that leaves the cycle as it is.
LEMMA LinkedKept ==
    ASSUME Linked, UNCHANGED <<plan, acts, follow, nested, inited, session, archive>>
    PROVE  Linked'
BY DEF Linked, ActOK, FollowOK, Active, PingNext, AwaitsPing

\* The next action is done with, and nothing was pushed.
LEMMA LinkedDone ==
    ASSUME CycleOK, Linked, acts # <<>>, acts' = Tail(acts),
           UNCHANGED <<plan, follow, nested, inited>>,
           \A p \in Peers : Active(p) => Active(p)',
           \A p \in Peers : archive[p] => archive'[p]
    PROVE  Linked'
<1>1. ToSet(acts') \subseteq ToSet(acts) /\ ToSet(acts) \subseteq Actions
  BY DoneTypes, QueueTypes DEF CycleOK, ToSet
<1>2. ASSUME NEW a \in ToSet(acts') PROVE ActOK(a)'
  <2>1. ActOK(a) /\ a.peer \in Peers
    BY <1>1, <1>2, Contents DEF Linked
  <2> QED
    BY <2>1 DEF ActOK, PingNext, AwaitsPing
<1>3. ASSUME NEW f \in ToSet(follow') PROVE FollowOK(f)'
  <2>1. f \in ToSet(follow) /\ FollowOK(f)
    BY <1>3 DEF Linked
  <2>2. f.peer \in Peers
    BY <2>1, Contents, QueueTypes DEF CycleOK, ToSet
  <2> QED
    BY <2>1, <2>2 DEF FollowOK, PingNext, AwaitsPing
<1>4. \A p \in inited' : Active(p)'
  BY DEF Linked, CycleOK
<1> QED
  BY <1>2, <1>3, <1>4 DEF Linked

\* An action that comes last is done with, and has pushed nothing.
LEMMA LinkedLast ==
    ASSUME Linked, acts' = <<>>, UNCHANGED <<plan, follow, nested, inited, session>>
    PROVE  Linked'
<1>1. ToSet(acts') = {}
  BY EmptySeq DEF ToSet
<1>2. ASSUME NEW f \in ToSet(follow') PROVE FollowOK(f)'
  BY <1>2 DEF Linked, FollowOK, PingNext, AwaitsPing, Active
<1>3. \A p \in inited' : Active(p)'
  BY DEF Linked, Active
<1> QED
  BY <1>1, <1>2, <1>3 DEF Linked

\* An action that comes last is done with, and has pushed follow-ups.
LEMMA LinkedPushed ==
    ASSUME CycleOK, Linked, acts # <<>>, acts' = <<>>, NEW es \in Seq(Follows), Push(es),
           Len(es) <= 2, UNCHANGED <<plan, nested>>,
           ~nested => follow = <<>>,
           \A p \in Peers : Active(p) => Active(p)',
           \A p \in inited' : Active(p)',
           follow' = es => \A f \in ToSet(es) : FollowOK(f)'
    PROVE  Linked'
<1>1. ToSet(<<>>) = {} /\ <<>> \o es = es
  BY EmptySeq, ConcatEmptySeq DEF ToSet
<1>2. follow' = follow \/ follow' = es
  BY <1>1, PushTypes
<1>3. ASSUME follow' = follow, NEW f \in ToSet(follow) PROVE FollowOK(f)'
  <2>1. FollowOK(f) /\ f.peer \in Peers
    BY Contents, QueueTypes DEF Linked, CycleOK, ToSet
  <2> QED
    BY <2>1 DEF FollowOK, PingNext, AwaitsPing
<1>4. \A f \in ToSet(follow') : FollowOK(f)'
  BY <1>2, <1>3
<1>5. Len(follow') <= 2
  BY <1>2 DEF Linked
<1> QED
  BY <1>1, <1>4, <1>5 DEF Linked

\* An action that comes last leads to another.
LEMMA LinkedReplaced ==
    ASSUME CycleOK, Linked, acts # <<>>, Tail(acts) = <<>>, NEW a \in Actions,
           acts' = <<a>> \o Tail(acts), UNCHANGED <<plan, follow, nested, inited, session>>,
           ActOK(a)'
    PROVE  Linked' /\ LastOnly(acts')
<1> DEFINE q == <<a>>
<1>1. q \in Seq(Actions) /\ ToSet(q) = {a} /\ LastOnly(q)
  BY Batches
<1> HIDE DEF q
<1>2. q \o <<>> = q
  BY <1>1, ConcatEmptySeq
<1>3. acts' = q
  BY <1>2 DEF q
<1>4. ASSUME NEW f \in ToSet(follow') PROVE FollowOK(f)'
  BY <1>4 DEF Linked, FollowOK, PingNext, AwaitsPing, Active
<1>5. \A p \in inited' : Active(p)'
  BY DEF Linked, Active
<1> QED
  BY <1>1, <1>3, <1>4, <1>5 DEF Linked

\* The steps of a handler between its cycles, inputs, and a crash.
LEMMA QuietLinked ==
    ASSUME Typed, Orderly,
           \/ NextEvent \/ NextCommand \/ Establish \/ Established \/ Forget \/ Crash
           \/ \E p \in Peers : \E body \in Bodies : Arrive(p, body)
           \/ \E p \in Peers : Move(p) \/ Fetched(p) \/ RetryDue(p)
           \/ \E p \in Peers : \E t \in Texts : Submit(p, t)
           \/ UNCHANGED vars
    PROVE  Linked' /\ LastOnly(acts')
<1> USE DEF queues, cycle, core, tasks, disk, notices, counts
<1>1. /\ CycleOK /\ Linked /\ LastOnly(acts) /\ PlanShape(plan)
      /\ cmds \in Seq(Commands) /\ events \in Seq(Events)
  BY DEF Typed, RestOK, Orderly
<1>2. /\ \A p \in inited : Active(p)
      /\ plan # <<>> /\ Head(plan).do = "forget" => inited = {}
  BY <1>1 DEF Linked
<1>3. LastOnly(<<>>)
  BY Batches
<1>4. CASE NextEvent
  <2>1. Head(events) \in Events
    BY <1>1, <1>4, QueueTypes DEF NextEvent
  <2>2. Head(events) \in Handled
    BY <2>1, Inclusions
  <2>3. Head(plan').do \in {"cycle", "fetch"}
    <3> DEFINE e == Head(events)
    <3>1. plan' = Prepared(e)
      BY <1>4 DEF NextEvent
    <3> HIDE DEF e
    <3>2. e \in Events /\ e \in Handled
      BY <2>1, <2>2 DEF e
    <3>3. CASE plan' = <<Cycle(e, TRUE)>>
      <4>1. Head(plan') = Cycle(e, TRUE)
        BY <3>2, <3>3, NewSteps, OneStep
      <4> QED
        BY <4>1 DEF Cycle
    <3>4. CASE Len(plan') = 4 /\ plan' \in Seq(Steps) /\ plan'[1] = Todo("fetch", e)
      <4>1. Head(plan') = plan'[1]
        BY <3>4
      <4>2. Todo("fetch", e).do = "fetch"
        BY DEF Todo
      <4> QED
        BY <3>4, <4>1, <4>2
    <3>5. \/ plan' = <<Cycle(e, TRUE)>>
          \/ Len(plan') = 4 /\ plan' \in Seq(Steps) /\ plan'[1] = Todo("fetch", e)
      BY <3>1, <3>2, PreparedFacts
    <3> QED
      BY <3>3, <3>4, <3>5
  <2>4. acts = <<>> /\ follow = <<>> /\ UNCHANGED cycle /\ UNCHANGED session
    BY <1>4 DEF NextEvent, Idle
  <2>5. \A p \in inited' : Active(p)'
    BY <1>2, <2>4 DEF Active
  <2> QED
    BY <1>3, <2>3, <2>4, <2>5, LinkedIdle
<1>5. CASE NextCommand
  <2> DEFINE c == Head(cmds)
             a == Cycle(Act("away", c.peer), FALSE)
             f == Todo("forget", c)
  <2>1. c \in Commands
    BY <1>1, <1>5, QueueTypes DEF NextCommand
  <2>2. plan' = IF c.kind = "forget" THEN <<a, f>> ELSE <<Cycle(c, TRUE)>>
    BY <1>5 DEF NextCommand
  <2>3. Head(plan').do # "forget"
    <3>1. CASE c.kind = "forget"
      <4>1. a.do = "shallow"
        BY DEF Cycle
      <4> HIDE DEF a, f, c
      <4>2. Head(<<a, f>>) = a
        OBVIOUS
      <4> QED
        BY <2>2, <3>1, <4>1, <4>2
    <3>2. CASE c.kind # "forget"
      <4> DEFINE d == Cycle(c, TRUE)
      <4>1. d.do = "cycle"
        BY DEF Cycle
      <4> HIDE DEF d
      <4>2. Head(<<d>>) = d
        OBVIOUS
      <4> QED
        BY <2>2, <3>2, <4>1, <4>2 DEF d
    <3> QED
      BY <3>1, <3>2
  <2>4. acts = <<>> /\ follow = <<>> /\ UNCHANGED cycle /\ UNCHANGED session
    BY <1>5 DEF NextCommand, Idle
  <2>5. \A p \in inited' : Active(p)'
    BY <1>2, <2>4 DEF Active
  <2> HIDE DEF c, a, f
  <2> QED
    BY <1>3, <2>3, <2>4, <2>5, LinkedIdle
<1> DEFINE h == Head(plan)
<1>6. CASE Establish \/ Established
  <2>1. /\ plan # <<>> /\ acts = <<>> /\ follow = <<>> /\ UNCHANGED cycle
        /\ UNCHANGED session /\ h.do \in {"fetch", "ping", "require"}
    BY <1>6 DEF Establish, Established, Doing, Between
  <2>2. h.event \in Opening /\ h.event.peer \in Peers
    BY <1>1, <2>1, PlanHead, StepContents
  <2>3. h.event.kind \in {"open", "out"}
    BY <2>2 DEF Opening, Items
  <2>4. plan' # <<>> => Head(plan').do # "forget"
    <3>1. CASE WithoutSession(h.event)
      BY <2>2, <3>1, WithoutShape
    <3>2. CASE plan' = Tail(plan)
      BY <1>1, <2>1, <2>3, <3>2, SecondStep
    <3>3. CASE plan' = <<Cycle(Ping(h.event.peer), FALSE)>> \o Tail(plan)
      <4> DEFINE d == Cycle(Ping(h.event.peer), FALSE)
      <4>1. d \in Steps /\ d.do = "shallow"
        BY <2>2, NewEvents, Inclusions, NewSteps
      <4> HIDE DEF d
      <4>2. Tail(plan) \in Seq(Steps)
        BY <1>1, <2>1, PlanHead
      <4>3. Head(<<d>> \o Tail(plan)) = d
        BY <4>1, <4>2, ConsFacts
      <4> QED
        BY <3>3, <4>1, <4>3 DEF d
    <3> QED
      BY <1>6, <3>1, <3>2, <3>3 DEF Establish, Established
  <2>5. \A p \in inited' : Active(p)'
    BY <1>2, <2>1 DEF Active
  <2> QED
    BY <1>3, <2>1, <2>4, <2>5, LinkedIdle
<1>7. CASE Forget
  <2>1. /\ plan # <<>> /\ acts = <<>> /\ follow = <<>> /\ UNCHANGED cycle
        /\ h.do = "forget"
    BY <1>7 DEF Forget, Doing, Between
  <2>2. inited = {}
    BY <1>2, <2>1
  <2> QED
    BY <1>3, <2>1, <2>2, LinkedIdle
<1>8. CASE Crash
  BY <1>3, <1>8, LinkedIdle DEF Crash
<1>9. CASE \/ \E p \in Peers : \E body \in Bodies : Arrive(p, body)
           \/ \E p \in Peers : Move(p) \/ Fetched(p) \/ RetryDue(p)
           \/ \E p \in Peers : \E t \in Texts : Submit(p, t)
           \/ UNCHANGED vars
  <2>1. UNCHANGED <<plan, acts, follow, nested, inited, session, archive>>
    BY <1>9 DEF Arrive, Move, Fetched, RetryDue, Submit, vars
  <2>2. LastOnly(acts')
    BY <1>1, <2>1
  <2> QED
    BY <1>1, <2>1, <2>2, LinkedKept
<1> QED
  BY <1>4, <1>5, <1>6, <1>7, <1>8, <1>9

\* What the core asks for can be relied on.
LEMMA CoreLinked ==
    ASSUME Typed, Orderly, StartCycle \/ FollowUp
    PROVE  Linked' /\ LastOnly(acts')
<1> USE DEF queues, cycle, core, tasks, disk, notices, counts
<1>1. /\ CycleOK /\ CoreOK /\ Linked /\ PlanShape(plan)
  BY DEF Typed, Orderly
<1>2. ASSUME NEW e \in Handled \cup Follows, CoreHandles(e),
             e.kind = "inited" => Active(e.peer)
      PROVE  /\ LastOnly(acts')
             /\ \A a \in ToSet(acts') : AskedFor(e, a)
             /\ \A a \in ToSet(acts') : a.kind \in {"save", "send"} => Active(a.peer)'
             /\ e.kind \notin {"received", "acked"} =>
                   \A p \in Peers : Active(p) => Active(p)'
  <2>1. /\ LastOnly(acts')
        /\ \A a \in ToSet(acts') : AskedFor(e, a)
        /\ \/ session' = session
           \/ /\ e.kind \in {"received", "acked"}
              /\ session' = [session EXCEPT ![e.peer] = None]
              /\ \A a \in ToSet(acts') : a.kind \in {"terminate", "erase"}
           \/ /\ e.kind = "loaded" /\ ~Active(e.peer)
              /\ session' = [session EXCEPT ![e.peer] = Restored(e.arg)]
    BY <1>1, <1>2, CoreFacts
  <2>2. \A a \in ToSet(acts') : a.kind \in {"save", "send"} => Active(a.peer)'
    <3>1. CASE session' = session
      BY <2>1, <3>1 DEF AskedFor, Active
    <3>2. CASE \A a \in ToSet(acts') : a.kind \in {"terminate", "erase"}
      BY <3>2
    <3>3. CASE ~Active(e.peer)
      BY <2>1, <3>3 DEF AskedFor
    <3> QED
      BY <2>1, <3>1, <3>2, <3>3
  <2>3. ASSUME e.kind \notin {"received", "acked"}, NEW p \in Peers, Active(p)
        PROVE  Active(p)'
    <3>1. CASE session' = session
      BY <2>3, <3>1 DEF Active
    <3>2. CASE ~Active(e.peer) /\ session' = [session EXCEPT ![e.peer] = Restored(e.arg)]
      <4>1. p # e.peer
        BY <2>3, <3>2
      <4>2. session'[p] = session[p]
        BY <1>1, <3>2, <4>1 DEF CoreOK
      <4> QED
        BY <2>3, <4>2 DEF Active
    <3> QED
      BY <2>1, <2>3, <3>1, <3>2
  <2> QED
    BY <2>1, <2>2, <2>3
<1>3. CASE StartCycle
  <2> DEFINE h == Head(plan)
             e == h.event
  <2>1. /\ plan # <<>> /\ acts = <<>> /\ follow = <<>> /\ CoreHandles(e)
        /\ e \in Handled \cup Follows /\ e.kind \notin {"inited", "acked", "loaded"}
        /\ e.peer \in Peers
    BY <1>1, <1>3, CycleEvents DEF Typed
  <2>2. /\ h.do \in {"cycle", "shallow"} /\ nested' = FALSE /\ inited' = {}
        /\ plan' = Tail(plan) /\ follow' = follow
    BY <1>3 DEF StartCycle, Doing
  <2>3. /\ LastOnly(acts')
        /\ \A a \in ToSet(acts') : AskedFor(e, a)
        /\ \A a \in ToSet(acts') : a.kind \in {"save", "send"} => Active(a.peer)'
    BY <1>2, <2>1
  <2>4. e.kind = "away" => acts' = <<>>
    BY <1>1, <2>1, CoreFacts
  <2>5. plan' # <<>> =>
          /\ e.kind # "received" /\ Head(plan').event.kind # "received"
          /\ Head(plan').do = "forget" => e.kind = "away"
          /\ Head(plan').do = "ping" => e = Act("bundle", Head(plan').event.peer)
          /\ e.kind = "out" => e.arg.what = "ping"
    BY <1>1, <2>1, <2>2, SecondStep
  <2>6. \A p : Act("bundle", p).peer = p
    BY DEF Act, Item
  <2> HIDE DEF e, h
  <2>7. PingNext' => Head(plan').event.peer = e.peer
    BY <2>5, <2>6 DEF PingNext
  <2>8. ASSUME NEW a \in ToSet(acts') PROVE ActOK(a)'
    <3>1. AskedFor(e, a) /\ (a.kind \in {"save", "send"} => Active(a.peer)')
      BY <2>3, <2>8
    <3>2. a.kind \in Pushing /\ ~nested' => follow' = <<>>
      BY <2>1, <2>2
    <3>3. a.kind = "check" => ~nested' /\ plan' = <<>>
      BY <2>2, <2>5, <3>1 DEF AskedFor
    <3>4. a.kind = "send" /\ a.arg.what # "ping" => plan' = <<>>
      BY <2>5, <3>1 DEF AskedFor
    <3>5. a.kind \notin {"unrow", "reinit", "rejoin"}
      BY <3>1 DEF AskedFor
    <3>6. PingNext' => AwaitsPing(a.peer)'
      BY <2>7, <3>1 DEF AskedFor, AwaitsPing, PingNext
    <3> QED
      BY <2>2, <3>1, <3>2, <3>3, <3>4, <3>5, <3>6 DEF ActOK
  <2>9. ToSet(<<>>) = {} /\ Len(<<>>) = 0
    BY EmptySeq DEF ToSet
  <2> QED
    BY <2>1, <2>2, <2>3, <2>4, <2>5, <2>8, <2>9 DEF Linked
<1>4. CASE FollowUp
  <2> DEFINE e == Head(follow)
  <2>1. /\ follow # <<>> /\ acts = <<>> /\ CoreHandles(e)
        /\ e \in Handled \cup Follows /\ e.kind \in {"inited", "acked", "out", "loaded"}
        /\ e.kind = "out" => e = Ping(e.peer)
        /\ e.kind = "inited" => Active(e.peer)
        /\ FollowOK(e) /\ e.peer \in Peers
    BY <1>1, <1>4, CycleEvents DEF Typed
  <2>2. /\ nested' = TRUE /\ inited' = inited /\ plan' = plan /\ follow' = Tail(follow)
    BY <1>4 DEF FollowUp
  <2>3. /\ LastOnly(acts')
        /\ \A a \in ToSet(acts') : AskedFor(e, a)
        /\ \A a \in ToSet(acts') : a.kind \in {"save", "send"} => Active(a.peer)'
        /\ e.kind # "acked" => \A p \in Peers : Active(p) => Active(p)'
    BY <1>2, <2>1
  <2>4. e.kind = "out" => e.arg.what = "ping"
    <3>1. e.kind = "out" => e.arg = PingOut
      BY <2>1, NewEvents
    <3> QED
      BY <3>1 DEF PingOut
  <2>5. PingNext => AwaitsPing(e.peer)
    BY <2>1 DEF FollowOK
  <2>6. /\ follow \in Seq(Follows) /\ Len(Tail(follow)) = Len(follow) - 1
        /\ ToSet(Tail(follow)) \subseteq ToSet(follow) /\ Len(follow) \in Nat
        /\ ToSet(follow) \subseteq Follows /\ ToSet(<<>>) = {}
        /\ Len(follow) = 1 => Tail(follow) = <<>>
    <3>1. follow \in Seq(Follows)
      BY <1>1 DEF CycleOK
    <3>2. ToSet(follow) = {Head(follow)} \cup ToSet(Tail(follow))
      BY <2>1, <3>1, ToSetFacts
    <3>3. Len(Tail(follow)) = Len(follow) - 1 /\ Len(follow) \in Nat
          /\ Tail(follow) \in Seq(Follows)
      BY <2>1, <3>1, QueueTypes
    <3>4. ASSUME Len(follow) = 1 PROVE Tail(follow) = <<>>
      <4> DEFINE t == Tail(follow)
      <4>1. Len(t) = 0 /\ t \in Seq(Follows)
        BY <3>3, <3>4
      <4> HIDE DEF t
      <4>2. t = <<>>
        BY <4>1, EmptySeq
      <4> QED
        BY <4>2 DEF t
    <3> QED
      BY <3>1, <3>2, <3>3, <3>4, QueueTypes, EmptySeq DEF ToSet
  <2> HIDE DEF e
  <2>7. e.kind = "acked" => follow' = <<>> /\ inited = {}
    BY <2>1, <2>2, <2>6 DEF FollowOK
  <2>8. ASSUME NEW a \in ToSet(acts') PROVE ActOK(a)'
    <3>1. AskedFor(e, a) /\ (a.kind \in {"save", "send"} => Active(a.peer)')
      BY <2>3, <2>8
    <3>2. a.kind \notin {"unrow", "reinit", "rejoin", "check", "init"}
      BY <2>1, <3>1 DEF AskedFor
    <3>3. a.kind = "send" => a.arg.what = "ping"
      BY <2>4, <3>1 DEF AskedFor
    <3>4. PingNext' => AwaitsPing(a.peer)'
      BY <2>2, <2>5, <3>1 DEF AskedFor, AwaitsPing, PingNext
    <3> QED
      BY <2>2, <3>1, <3>2, <3>3, <3>4 DEF ActOK
  <2>9. ASSUME NEW f \in ToSet(follow') PROVE FollowOK(f)'
    <3>1. f \in ToSet(follow) /\ FollowOK(f) /\ e.kind # "acked"
      BY <1>1, <2>2, <2>6, <2>7, <2>9 DEF Linked
    <3>2. f.kind # "acked"
      <4>1. Len(follow) # 1
        BY <2>2, <2>6, <2>9
      <4> QED
        BY <3>1, <4>1 DEF FollowOK
    <3>3. \A p \in Peers : Active(p) => Active(p)'
      BY <2>3, <3>1
    <3>4. f.peer \in Peers
      BY <2>6, <3>1, Contents
    <3> QED
      BY <2>2, <3>1, <3>2, <3>3, <3>4 DEF FollowOK, PingNext, AwaitsPing
  <2>10. \A p \in inited' : Active(p)'
    BY <1>1, <2>2, <2>3, <2>7 DEF Linked, CycleOK
  <2>11. Len(follow') <= 2
    BY <1>1, <2>2, <2>6 DEF Linked
  <2>12. plan' # <<>> => Head(plan').do # "forget" /\ Head(plan').event.kind # "received"
    BY <1>1, <2>1, <2>2 DEF Linked
  <2> QED
    BY <2>3, <2>8, <2>9, <2>10, <2>11, <2>12 DEF Linked
<1> QED
  BY <1>3, <1>4

\* An action takes away nothing that another relies on.
LEMMA DispatchLinked ==
    ASSUME Typed, Orderly, Dispatch
    PROVE  Linked' /\ LastOnly(acts')
<1> USE DEF queues, cycle, core, tasks, disk, notices, counts
<1> DEFINE a == Head(acts)
<1>1. CoreOK /\ DiskOK /\ RestOK /\ CycleOK /\ Linked /\ LastOnly(acts)
  BY DEF Typed, Orderly
<1>2. acts # <<>>
  BY DEF Dispatch, InitResponder, InitInitiator, InitFails, Heal, HealInitiator,
         HealResponder, Show, Preview, Save, Erase, Load, SendOut, Spawn, CheckAck, Beat,
         Terminate, DeleteRow, Next1
<1>3. /\ a \in Actions /\ a \in ToSet(acts) /\ Peer \in Peers /\ Peer = a.peer
      /\ LastOnly(Tail(acts)) /\ (a.kind \notin Plain => Tail(acts) = <<>>)
  BY <1>1, <1>2, DoneTypes DEF Peer
<1>4. PICK r \in Peers : r = Peer
  BY <1>3
<1>5. ActOK(a) /\ a.peer = r /\ \A p \in inited : Active(p)
  BY <1>1, <1>3, <1>4 DEF Linked
<1>6. /\ a.kind \in Pushing /\ ~nested => follow = <<>>
      /\ PingNext => AwaitsPing(r)
  BY <1>5 DEF ActOK
<1>7. /\ Completed(r) \in Seq(Follows) /\ Len(Completed(r)) <= 2
      /\ \A f \in ToSet(Completed(r)) : f.kind = "inited" /\ f.peer = r
  <2>1. Completed(r) \in Seq(Follows) /\ Len(Completed(r)) = 1
        /\ ToSet(Completed(r)) = {Act("inited", r)}
    BY PushedItems
  <2> QED
    BY <2>1, NewEvents
<1>8. LastOnly(<<>>)
  BY Batches
\* What InitSession and a heal push relies on the new session.
<1>9. ASSUME a.kind \in Pushing, a.kind \notin Plain, acts' = Tail(acts),
             NEW es \in Seq(Follows), Push(es), Len(es) <= 2,
             \A f \in ToSet(es) : f.kind \in {"inited", "out"} /\ f.peer = r,
             UNCHANGED <<plan, nested>>,
             \A p \in Peers : Active(p) => Active(p)', Active(r)',
             inited' \subseteq inited \cup {r}
      PROVE  Linked' /\ LastOnly(acts')
  <2>1. acts' = <<>> /\ (~nested => follow = <<>>)
    BY <1>3, <1>6, <1>9
  <2>2. \A p \in inited' : Active(p)'
    BY <1>1, <1>5, <1>9 DEF CycleOK
  <2>3. \A f \in ToSet(es) : FollowOK(f)'
    BY <1>6, <1>9 DEF FollowOK, PingNext, AwaitsPing
  <2> QED
    BY <1>1, <1>2, <1>8, <1>9, <2>1, <2>2, <2>3, LinkedPushed
\* Any action that pushes nothing.
<1>10. ASSUME acts' = Tail(acts), UNCHANGED <<plan, follow, nested, inited>>,
              \A p \in Peers : Active(p) => Active(p)',
              \A p \in Peers : archive[p] => archive'[p]
       PROVE  Linked' /\ LastOnly(acts')
  BY <1>1, <1>2, <1>3, <1>10, LinkedDone
<1>11. UNCHANGED session => \A p \in Peers : Active(p) => Active(p)'
  BY DEF Active
<1>12. ASSUME NEW role \in {"initiator", "responder"}, NEW by \in {"open", "heal", "other"},
              Open(r, role, by)
       PROVE  (\A p \in Peers : Active(p) => Active(p)') /\ Active(r)'
  <2>1. session'[r] # None /\ \A p \in Peers : Active(p) => Active(p)'
    BY <1>1, <1>12, Opened
  <2> QED
    BY <2>1 DEF Active
<1>13. CASE InitResponder
  <2>1. a.kind = "init" /\ Open(r, "responder", "other") /\ Push(Completed(r))
        /\ inited' = inited \cup {r} /\ acts' = Tail(acts) /\ UNCHANGED <<plan, nested>>
    BY <1>4, <1>13 DEF InitResponder, Next1, Done
  <2> QED
    BY <1>7, <1>9, <1>12, <2>1 DEF Pushing, Plain
<1>14. CASE InitInitiator
  <2>1. PICK by \in {"open", "other"} :
           a.kind = "init" /\ Open(r, "initiator", by) /\ Push(Completed(r))
           /\ inited' = inited \cup {r} /\ acts' = Tail(acts) /\ UNCHANGED <<plan, nested>>
    BY <1>4, <1>14 DEF InitInitiator, Next1, Done
  <2> QED
    BY <1>7, <1>9, <1>12, <2>1 DEF Pushing, Plain
<1>15. CASE InitFails \/ Show \/ Preview \/ Spawn \/ Beat
  BY <1>10, <1>11, <1>15 DEF InitFails, Show, Preview, Spawn, Beat, Done
\* Any action that comes last and pushes nothing.
<1>23. ASSUME a.kind \notin Plain, acts' = Tail(acts),
              UNCHANGED <<plan, follow, nested, inited, session>>
       PROVE  Linked' /\ LastOnly(acts')
  BY <1>1, <1>3, <1>8, <1>23, LinkedLast
<1>24. CASE Erase
  BY <1>23, <1>24 DEF Erase, Next1, Plain, Done
<1>25. CASE Load
  <2>1. /\ a.kind = "load" /\ acts' = Tail(acts)
        /\ UNCHANGED <<plan, nested, inited, session>>
        /\ Push(<<Item("loaded", r, rows[r])>>)
    BY <1>4, <1>25 DEF Load, Next1, Done
  <2>2. acts' = <<>> /\ (~nested => follow = <<>>)
    BY <1>3, <1>6, <2>1 DEF Plain, Pushing
  <2>3. PICK row \in Sessions \cup {None} : row = rows[r]
    BY <1>1 DEF DiskOK
  <2> DEFINE f == Item("loaded", r, row)
             es == <<f>>
  <2>4. es \in Seq(Follows) /\ ToSet(es) = {f} /\ Len(es) = 1
    BY PushedItems
  <2>5. f.kind = "loaded" /\ f.peer = r
    BY DEF Item
  <2>6. Push(es)
    BY <2>1, <2>3
  <2> HIDE DEF f, es
  <2>7. ASSUME NEW g \in ToSet(es) PROVE FollowOK(g)'
    <3>1. g.kind = "loaded" /\ g.peer = r
      BY <2>4, <2>5, <2>7
    <3> QED
      BY <1>6, <2>1, <3>1 DEF FollowOK, PingNext, AwaitsPing
  <2>8. (\A p \in inited' : Active(p)') /\ Len(es) <= 2
    BY <1>5, <2>1, <2>4 DEF Active
  <2>9. Linked'
    BY <1>1, <1>2, <1>11, <2>1, <2>2, <2>4, <2>6, <2>7, <2>8, LinkedPushed
  <2> QED
    BY <1>8, <2>2, <2>9
<1>16. CASE Save \/ DeleteRow
  BY <1>10, <1>11, <1>16 DEF Save, DeleteRow, Done
<1>17. CASE SendOut
  <2> DEFINE w == a.arg.what
  <2>1. a.kind = "send" /\ Active(r)
    BY <1>5, <1>17 DEF SendOut, Next1, ActOK
  <2>2. w \in {"ping", "text", "beat"} /\ session[r] \in Sessions
    BY <1>1, <1>3, <2>1, Contents DEF CoreOK, Active
  <2>3. [session[r] EXCEPT !.first = w] \in Sessions
    BY <2>2 DEF Sessions
  <2>4. [session[r] EXCEPT !.first = w] # None
    BY <2>3, ActorAssumption
  <2>5. /\ acts' = Tail(acts) /\ UNCHANGED <<plan, follow, nested, inited, archive>>
        /\ \/ session' = session
           \/ session' = [session EXCEPT ![r].first = w]
    BY <1>4, <1>17 DEF SendOut, Done
  <2> HIDE DEF w
  <2>6. \A p \in Peers : Active(p) => Active(p)'
    BY <1>1, <2>4, <2>5 DEF CoreOK, Active
  <2> QED
    BY <1>10, <2>5, <2>6
<1>18. CASE Heal
  <2>1. a.kind = "heal" /\ Tail(acts) = <<>>
    BY <1>3, <1>18 DEF Heal, Next1, Plain
  <2>2. (~nested => follow = <<>>) /\ UNCHANGED <<plan, follow, nested, inited, session, archive>>
    BY <1>6, <1>18, <2>1 DEF Heal, Pushing
  <2>3. ASSUME NEW b \in Actions, b.kind \in {"reinit", "rejoin"}, b.peer = r,
               r \notin inited, acts' = <<b>> \o Tail(acts)
        PROVE  Linked' /\ LastOnly(acts')
    <3>1. ActOK(b)'
      BY <1>6, <2>2, <2>3 DEF ActOK, PingNext, AwaitsPing
    <3> QED
      BY <1>1, <1>2, <2>1, <2>2, <2>3, <3>1, LinkedReplaced
  <2>4. CASE acts' = <<>> \o Tail(acts)
    <3>1. acts' = Tail(acts)
      BY <2>1, <2>4, EmptySeq, ConcatEmptySeq
    <3> QED
      BY <1>10, <1>11, <2>2, <3>1
  <2>5. CASE /\ r \notin inited /\ Act("reinit", r) \in Actions
             /\ acts' = <<Act("reinit", r)>> \o Tail(acts)
    <3> DEFINE b == Act("reinit", r)
    <3>1. b.kind = "reinit" /\ b.peer = r
      BY NewActions
    <3> HIDE DEF b
    <3>2. b \in Actions /\ acts' = <<b>> \o Tail(acts) /\ r \notin inited
      BY <2>5 DEF b
    <3> QED
      BY <2>3, <3>1, <3>2
  <2>6. CASE /\ r \notin inited /\ Item("rejoin", r, healing[r]) \in Actions
             /\ acts' = <<Item("rejoin", r, healing[r])>> \o Tail(acts)
    <3> DEFINE b == Item("rejoin", r, healing[r])
    <3>1. b.kind = "rejoin" /\ b.peer = r
      BY NewActions
    <3> HIDE DEF b
    <3>2. b \in Actions /\ acts' = <<b>> \o Tail(acts) /\ r \notin inited
      BY <2>6 DEF b
    <3> QED
      BY <2>3, <3>1, <3>2
  <2> QED
    BY <1>4, <1>18, <2>4, <2>5, <2>6, HealFacts
<1>19. CASE HealInitiator
  <2>1. /\ a.kind = "reinit" /\ acts' = Tail(acts)
        /\ UNCHANGED <<plan, nested, inited, archive>>
        /\ \/ Open(r, "initiator", "heal") /\ Push(Completed(r) \o <<Ping(r)>>)
           \/ UNCHANGED <<session, follow>>
    BY <1>4, <1>19 DEF HealInitiator, Next1, Done
  <2>2. CASE Open(r, "initiator", "heal") /\ Push(Completed(r) \o <<Ping(r)>>)
    <3> DEFINE es == Completed(r) \o <<Ping(r)>>
    <3>1. es \in Seq(Follows) /\ Len(es) = 2 /\ ToSet(es) = {Act("inited", r), Ping(r)}
      BY PushedItems
    <3>2. \A f \in {Act("inited", r), Ping(r)} : f.kind \in {"inited", "out"} /\ f.peer = r
      BY NewEvents
    <3> HIDE DEF es
    <3>3. Push(es) /\ Len(es) <= 2
      BY <2>2, <3>1 DEF es
    <3> QED
      BY <1>9, <1>12, <2>1, <2>2, <3>1, <3>2, <3>3 DEF Pushing, Plain
  <2>3. CASE UNCHANGED <<session, follow>>
    BY <1>10, <1>11, <2>1, <2>3
  <2> QED
    BY <2>1, <2>2, <2>3
<1>20. CASE HealResponder
  <2>1. /\ a.kind = "rejoin" /\ acts' = Tail(acts)
        /\ UNCHANGED <<plan, nested, inited, archive>>
        /\ \/ Open(r, "responder", "heal") /\ Push(Completed(r))
           \/ UNCHANGED <<session, follow>>
    BY <1>4, <1>20 DEF HealResponder, Next1, Done
  <2>2. CASE Open(r, "responder", "heal") /\ Push(Completed(r))
    BY <1>7, <1>9, <1>12, <2>1, <2>2 DEF Pushing, Plain
  <2>3. CASE UNCHANGED <<session, follow>>
    BY <1>10, <1>11, <2>1, <2>3
  <2> QED
    BY <2>1, <2>2, <2>3
<1>21. CASE CheckAck
  <2>1. /\ a.kind = "check" /\ acts' = Tail(acts)
        /\ UNCHANGED <<plan, nested, inited, session>>
        /\ Push(<<Item("acked", r, a.arg)>>)
    BY <1>4, <1>21 DEF CheckAck, Next1, Done
  <2>2. /\ acts' = <<>> /\ ~nested /\ plan = <<>> /\ inited = {}
        /\ follow = <<>>
    BY <1>3, <1>5, <2>1 DEF ActOK, Plain, Pushing
  <2>3. PICK m \in Arrivals : m = a.arg
    BY <1>3, <2>1, Contents
  <2> DEFINE f == Item("acked", r, m)
             es == <<f>>
  <2>4. es \in Seq(Follows) /\ ToSet(es) = {f} /\ Len(es) = 1
    BY PushedItems
  <2>5. f.kind = "acked" /\ f.peer = r
    BY DEF Item
  <2>6. Push(es)
    BY <2>1, <2>3
  <2> HIDE DEF f, es
  <2>7. ASSUME follow' = es, NEW g \in ToSet(es) PROVE FollowOK(g)'
    <3>1. g.kind = "acked" /\ Len(follow') = 1
      BY <2>4, <2>5, <2>7
    <3> QED
      BY <2>1, <2>2, <3>1 DEF FollowOK, PingNext
  <2>8. (\A p \in inited' : Active(p)') /\ Len(es) <= 2
    BY <2>1, <2>2, <2>4
  <2>9. Linked'
    BY <1>1, <1>2, <1>11, <2>1, <2>2, <2>4, <2>6, <2>7, <2>8, LinkedPushed
  <2> QED
    BY <1>8, <2>2, <2>9
<1>22. CASE Terminate
  <2>1. a.kind = "terminate" /\ Tail(acts) = <<>>
    BY <1>3, <1>22 DEF Terminate, Next1, Plain
  <2>2. UNCHANGED <<plan, follow, nested, inited, session>>
    BY <1>22 DEF Terminate
  <2>3. CASE /\ archive' = [archive EXCEPT ![r] = TRUE]
             /\ acts' = <<Act("unrow", r)>> \o Tail(acts)
    <3> DEFINE b == Act("unrow", r)
    <3>1. b \in Actions /\ b.kind = "unrow" /\ b.peer = r
      BY NewActions
    <3> HIDE DEF b
    <3>2. acts' = <<b>> \o Tail(acts)
      BY <2>3 DEF b
    <3>3. archive'[r]
      BY <1>1, <2>3 DEF DiskOK
    <3>4. ActOK(b)'
      BY <1>6, <2>2, <3>1, <3>3 DEF ActOK, PingNext, AwaitsPing, Pushing
    <3> QED
      BY <1>1, <1>2, <2>1, <2>2, <3>1, <3>2, <3>4, LinkedReplaced
  <2>4. CASE acts' = Tail(acts)
    BY <1>23, <2>1, <2>2, <2>4 DEF Plain
  <2> QED
    BY <1>4, <1>22, <2>3, <2>4 DEF Terminate, Done
<1> QED
  BY <1>13, <1>14, <1>15, <1>16, <1>17, <1>18, <1>19, <1>20, <1>21, <1>22, <1>24, <1>25
     DEF Dispatch

-----------------------------------------------------------------------------
(* The invariant the theorems rest on.                                     *)

Inv == Typed /\ Orderly

LEMMA StepInv == ASSUME Inv, [Next]_vars PROVE Inv'
<1>1. Typed /\ Orderly /\ Linked /\ PlanShape(plan)
  BY DEF Inv, Orderly
<1>2. Typed'
  BY <1>1, StepTyped
<1>3. PlanShape(plan')
  BY <1>1, PlanOrder
<1>4. Linked' /\ LastOnly(acts')
  BY <1>1, QuietLinked, CoreLinked, DispatchLinked DEF Next, Actor
<1> QED
  BY <1>2, <1>3, <1>4 DEF Inv, Orderly

LEMMA SpecInv == Spec => []Inv
<1>1. Init => Inv
  BY InitTyped DEF Inv
<1>2. Inv /\ [Next]_vars => Inv'
  BY StepInv
<1> QED
  BY <1>1, <1>2, PTL DEF Spec

\* The sessions, the queues of the core and of the actor, and the rows on disk
\* always hold what their types say, and at most two follow-ups wait
\* (orchestrator_task.rs: handle_command, dispatch).
THEOREM ActorTypeCorrect == Spec => []TypeOK
<1>1. Inv => TypeOK
  <2> SUFFICES ASSUME Typed, Linked PROVE TypeOK
    BY DEF Inv, Orderly
  <2>1. \A i \in DOMAIN bubbles : bubbles[i] \in Arrivals
    BY QueueTypes DEF Typed, RestOK
  <2> QED
    BY <2>1 DEF TypeOK, Typed, CoreOK, DiskOK, RestOK, CycleOK, Linked, Fates
<1> QED
  BY <1>1, SpecInv, PTL

\* What the disk holds of an ended session stays there: the archive is written
\* before the row is deleted, and a row that could not be archived goes only
\* with a save (apply_session_terminated, secure_save_or_delete).
LEMMA StepKept == ASSUME Inv, EndedIsKept, [Next]_vars PROVE EndedIsKept'
<1> USE DEF queues, cycle, core, tasks, disk, notices, counts
<1> DEFINE a == Head(acts)
<1>1. CoreOK /\ DiskOK /\ RestOK /\ CycleOK /\ Linked
  BY DEF Inv, Typed, Orderly
<1>2. acts # <<>> => /\ a \in Actions /\ a \in ToSet(acts) /\ Peer \in Peers
                     /\ Peer = a.peer /\ ActOK(a)
  BY <1>1, DoneTypes DEF Peer, Linked
<1>3. CASE Forget
  <2>1. PICK p \in Peers :
           /\ rows' = [rows EXCEPT ![p] = None] /\ archive' = [archive EXCEPT ![p] = FALSE]
           /\ ended' = ended \ {p}
    <3>1. plan # <<>>
      BY <1>3 DEF Forget, Doing, Between
    <3>2. Head(plan).event.peer \in Peers
      BY <1>1, <3>1, PlanHead, StepContents
    <3> QED
      BY <1>3, <3>2 DEF Forget
  <2> QED
    BY <1>1, <2>1 DEF DiskOK, EndedIsKept
<1>4. CASE Save
  <2>1. Peer \in Peers /\ session[Peer] # None /\ UNCHANGED archive /\ ended' \subseteq ended
    BY <1>2, <1>4 DEF Save, Next1, ActOK, Active
  <2>2. rows' = rows \/ rows' = [rows EXCEPT ![Peer] = session[Peer]]
    BY <1>4 DEF Save
  <2> QED
    BY <1>1, <2>1, <2>2 DEF DiskOK, EndedIsKept
<1>5. CASE Terminate
  <2>1. /\ Peer \in Peers /\ rows' = rows
        /\ ended' = IF rows[Peer] = None THEN ended ELSE ended \cup {Peer}
        /\ \/ archive' = [archive EXCEPT ![Peer] = TRUE]
           \/ archive' = [archive EXCEPT ![Peer] = @ /\ rows[Peer] = None]
    BY <1>2, <1>5 DEF Terminate, Next1
  <2> QED
    BY <1>1, <2>1 DEF DiskOK, EndedIsKept
<1>6. CASE DeleteRow
  <2>1. Peer \in Peers /\ archive[Peer] /\ UNCHANGED <<archive, ended>>
    BY <1>2, <1>6 DEF DeleteRow, Next1, ActOK
  <2>2. rows' = rows \/ rows' = [rows EXCEPT ![Peer] = None]
    BY <1>6 DEF DeleteRow
  <2> QED
    BY <1>1, <2>1, <2>2 DEF DiskOK, EndedIsKept
<1>7. CASE UNCHANGED <<rows, archive, ended>>
  BY <1>7 DEF EndedIsKept
<1>9. CASE Erase
  <2>1. PICK r \in Peers : r = Peer
    BY <1>2, <1>9 DEF Erase, Next1
  <2>2. CASE /\ \/ rows' = [rows EXCEPT ![r] = None] /\ UNCHANGED archive
                \/ archive' = [archive EXCEPT ![r] = FALSE] /\ UNCHANGED rows
             /\ ended' = IF rows'[r] = None /\ ~archive'[r] THEN ended \ {r} ELSE ended
    <3> SUFFICES ASSUME NEW p \in ended' PROVE rows'[p] # None \/ archive'[p]
      BY DEF EndedIsKept
    <3>1. p \in ended /\ p \in Peers
      BY <1>1, <2>2 DEF DiskOK
    <3>2. CASE p = r
      BY <2>2, <3>2
    <3>3. CASE p # r
      <4>1. rows'[p] = rows[p] /\ archive'[p] = archive[p]
        BY <1>1, <2>2, <3>1, <3>3 DEF DiskOK
      <4> QED
        BY <3>1, <4>1 DEF EndedIsKept
    <3> QED
      BY <3>2, <3>3
  <2>3. CASE UNCHANGED <<rows, archive, ended>>
    BY <1>7, <2>3
  <2> QED
    BY <1>9, <2>1, <2>2, <2>3 DEF Erase
<1>8. \/ Forget \/ Save \/ Erase \/ Terminate \/ DeleteRow \/ UNCHANGED <<rows, archive, ended>>
  BY DEF Next, Actor, Dispatch, NextEvent, NextCommand, Establish, Established, StartCycle,
     FollowUp, InitResponder, InitInitiator, InitFails, Heal, HealInitiator, HealResponder,
     Show, Preview, Load, SendOut, Spawn, CheckAck, Beat, Crash, Arrive, Move, Fetched,
     RetryDue, Submit, vars
<1> QED
  BY <1>3, <1>4, <1>5, <1>6, <1>7, <1>8, <1>9

\* What the disk holds of a session that the peer ends stays there, as a session
\* or as its archive, at every moment a crash can strike and whichever write
\* fails, until the contact is forgotten, the core deletes the last copy by an
\* empty save, or saves a new session over a row that could not be archived
\* (apply_session_terminated, secure_save_or_delete).
THEOREM ActorEndedIsKept == Spec => []EndedIsKept
<1>1. Init => EndedIsKept
  BY DEF Init, EndedIsKept
<1>2. Inv /\ EndedIsKept /\ [Next]_vars => EndedIsKept'
  BY StepKept
<1> QED
  BY <1>1, <1>2, SpecInv, PTL DEF Spec

\* No step replaces or ends a session that InitSession has opened in the cycle.
LEMMA StepNotOverwritten ==
    ASSUME Inv, [Next]_vars, NEW p \in inited, p \in inited'
    PROVE  session'[p] # None /\ session'[p].role = session[p].role
             /\ session'[p].by = session[p].by
<1> USE DEF queues, cycle, core, tasks, disk, notices, counts
<1> DEFINE a == Head(acts)
<1>1. CoreOK /\ DiskOK /\ RestOK /\ CycleOK /\ Linked /\ Typed
  BY DEF Inv, Typed, Orderly
<1>2. acts # <<>> => /\ a \in Actions /\ a \in ToSet(acts) /\ Peer \in Peers
                     /\ Peer = a.peer /\ ActOK(a)
  BY <1>1, DoneTypes DEF Peer, Linked
<1>3. p \in Peers /\ session[p] # None /\ session[p] \in Sessions
  BY <1>1 DEF CycleOK, CoreOK, Linked, Active
<1>4. CASE session'[p] = session[p]
  BY <1>3, <1>4
<1>5. CASE Forget
  <2>1. plan # <<>> /\ Head(plan).do = "forget"
    BY <1>5 DEF Forget, Doing, Between
  <2> QED
    BY <1>1, <2>1 DEF Linked
<1>6. CASE StartCycle \/ Crash
  BY <1>6 DEF StartCycle, Crash
<1>7. CASE FollowUp
  <2>1. /\ Head(follow) \in Handled \cup Follows /\ FollowOK(Head(follow))
        /\ CoreHandles(Head(follow))
        /\ Head(follow).kind \in {"inited", "acked", "out", "loaded"}
        /\ Head(follow).kind = "inited" => Active(Head(follow).peer)
    BY <1>1, <1>7, CycleEvents
  <2>2. Head(follow).kind # "acked"
    BY <2>1 DEF FollowOK
  <2>3. \/ session' = session
        \/ /\ ~Active(Head(follow).peer)
           /\ session' = [session EXCEPT ![Head(follow).peer] = Restored(Head(follow).arg)]
    BY <1>1, <2>1, <2>2, CoreFacts
  <2>4. CASE /\ ~Active(Head(follow).peer)
             /\ session' = [session EXCEPT ![Head(follow).peer] = Restored(Head(follow).arg)]
    <3>1. Head(follow).peer # p
      BY <1>3, <2>4 DEF Active
    <3>2. session'[p] = session[p]
      BY <1>1, <1>3, <2>4, <3>1 DEF CoreOK
    <3> QED
      BY <1>4, <3>2
  <2> QED
    BY <1>4, <2>3, <2>4
<1>8. CASE InitResponder \/ InitInitiator
  BY <1>2, <1>8 DEF InitResponder, InitInitiator, Next1, ActOK
<1>9. CASE HealInitiator \/ HealResponder
  <2>1. Peer # p /\ Peer \in Peers
    BY <1>2, <1>9 DEF HealInitiator, HealResponder, Next1, ActOK
  <2>2. session' = session \/ \E s : session' = [session EXCEPT ![Peer] = s]
    BY <1>9 DEF HealInitiator, HealResponder, Open
  <2> QED
    BY <1>1, <1>3, <1>4, <2>1, <2>2 DEF CoreOK
<1>10. CASE SendOut
  <2>1. session' = session \/ \E w : session' = [session EXCEPT ![Peer].first = w]
    BY <1>10 DEF SendOut
  <2>2. Peer \in Peers
    BY <1>2, <1>10 DEF SendOut, Next1
  <2>3. session'[p].role = session[p].role /\ session'[p].by = session[p].by
    BY <1>1, <1>3, <2>1, <2>2 DEF CoreOK, Sessions
  <2>4. session'[p] # None
    <3>1. Linked'
      BY StepInv DEF Inv, Orderly
    <3> QED
      BY <3>1 DEF Linked, Active
  <2> QED
    BY <2>3, <2>4
<1>11. CASE UNCHANGED session
  BY <1>4, <1>11
<1>12. \/ Forget \/ StartCycle \/ Crash \/ FollowUp \/ InitResponder \/ InitInitiator
       \/ HealInitiator \/ HealResponder \/ SendOut \/ UNCHANGED session
  BY DEF Next, Actor, Dispatch, NextEvent, NextCommand, Establish, Established,
     InitFails, Heal, Show, Preview, Save, Erase, Load, Spawn, CheckAck, Beat, Terminate,
     DeleteRow, Arrive, Move, Fetched, RetryDue, Submit, vars
<1> QED
  BY <1>5, <1>6, <1>7, <1>8, <1>9, <1>10, <1>11, <1>12

\* A session that InitSession has opened is neither replaced nor ended in the
\* same cycle, by its actions or by those of its follow-ups
\* (orchestrator_task.rs, "session_inited").
THEOREM ActorInitNotOverwritten == Spec => InitNotOverwritten
<1>1. Inv /\ [Next]_vars
        => [\A p \in inited : p \in inited' => session'[p] # None
                            /\ session'[p].role = session[p].role
                            /\ session'[p].by = session[p].by]_vars
  BY StepNotOverwritten
<1> QED
  BY <1>1, SpecInv, PTL DEF Spec, InitNotOverwritten

-----------------------------------------------------------------------------
(* The ping of an opened chat comes first.                                 *)

\* A session is made for a chat that is opened only when its ping is the next
\* step of the plan, and no text is sent while a step is left.
LEMMA StepPinged == ASSUME Inv, Pinged, [Next]_vars PROVE Pinged'
<1> USE DEF queues, cycle, core, tasks, disk, notices, counts
<1> DEFINE a == Head(acts)
           Fresh(p) == session[p] # None /\ session[p].by = "open"
<1>1. CoreOK /\ CycleOK /\ Linked /\ Typed /\ PlanShape(plan)
  BY DEF Inv, Typed, Orderly
<1>2. acts # <<>> => /\ a \in Actions /\ a \in ToSet(acts) /\ Peer \in Peers
                     /\ Peer = a.peer /\ ActOK(a)
  BY <1>1, DoneTypes DEF Peer, Linked
<1>3. \A p \in Peers : Fresh(p) => /\ session[p].first \in {"none", "ping"}
                                   /\ session[p].first = "none" => PingAhead(p)
  BY DEF Pinged, PingFirst, PingsAhead
<1>4. (\A p \in Peers : Fresh(p)' => /\ session'[p].first \in {"none", "ping"}
                                     /\ session'[p].first = "none" => PingAhead(p)')
        => Pinged'
  BY DEF Pinged, PingFirst, PingsAhead
<1>5. \A p, d : Cycle(Ping(p), d).do \in {"cycle", "shallow"} /\ Cycle(Ping(p), FALSE).do = "shallow"
  BY DEF Cycle
<1>6. \A p : Item("send", p, PingOut).kind = "send" /\ Item("send", p, PingOut).peer = p
             /\ Item("send", p, PingOut).arg.what = "ping"
  BY DEF Item, PingOut
<1> HIDE DEF Fresh
\* No session of an opened chat is new.
<1>7. ASSUME \A p \in Peers : ~PingAhead(p),
             \A p \in Peers : session'[p] = None \/ session'[p] = session[p]
      PROVE  Pinged'
  BY <1>3, <1>4, <1>7 DEF Fresh
\* The plan still holds the ping, where there is one.
<1>8. ASSUME plan' = plan,
             \A p \in Peers : \/ session'[p] = None \/ session'[p] = session[p]
                              \/ session'[p].by # "open",
             acts # <<>> => a.kind # "send"
      PROVE  Pinged'
  <2> SUFFICES ASSUME NEW p \in Peers, Fresh(p)'
               PROVE  /\ session'[p].first \in {"none", "ping"}
                      /\ session'[p].first = "none" => PingAhead(p)'
    BY <1>4
  <2>1. session'[p] = session[p] /\ Fresh(p)
    BY <1>8 DEF Fresh
  <2>2. PingAhead(p) => PingAhead(p)'
    BY <1>6, <1>8 DEF PingAhead, AwaitsPing
  <2> QED
    BY <1>3, <2>1, <2>2
<1>9. ASSUME plan # <<>> => Head(plan).do \in {"fetch", "require", "forget"}, acts = <<>>
      PROVE  \A p \in Peers : ~PingAhead(p)
  BY <1>5, <1>9 DEF PingAhead, AwaitsPing
<1>10. CASE NextEvent \/ NextCommand
  <2>1. plan = <<>> /\ acts = <<>> /\ session' = session
    BY <1>10 DEF NextEvent, NextCommand, Idle
  <2> QED
    BY <1>7, <1>9, <2>1
<1>11. CASE Establish
  <2>1. Head(plan).do = "fetch" /\ acts = <<>> /\ session' = session
    BY <1>11 DEF Establish, Doing, Between
  <2> QED
    BY <1>7, <1>9, <2>1
<1>12. CASE Forget
  <2>1. Head(plan).do = "forget" /\ acts = <<>> /\ plan # <<>>
    BY <1>12 DEF Forget, Doing, Between
  <2>2. \A p \in Peers : session'[p] = None \/ session'[p] = session[p]
    BY <1>1, <1>12 DEF Forget, CoreOK
  <2> QED
    BY <1>7, <1>9, <2>1, <2>2
<1>13. CASE Established
  <2>1. /\ plan # <<>> /\ acts = <<>> /\ session' = session
        /\ Head(plan).do \in {"ping", "require"}
    BY <1>13 DEF Established, Doing, Between
  <2>2. CASE Head(plan).do = "require"
    BY <1>7, <1>9, <2>1, <2>2
  <2>3. CASE Head(plan).do = "ping"
    <3> SUFFICES ASSUME NEW p \in Peers, Fresh(p)'
                 PROVE  /\ session'[p].first \in {"none", "ping"}
                        /\ session'[p].first = "none" => PingAhead(p)'
      BY <1>4
    <3>1. Fresh(p)
      BY <2>1 DEF Fresh
    <3>2. CASE PingAhead(p)
      <4>1. Head(plan).event.peer = p
        BY <1>5, <2>1, <2>3, <3>2 DEF PingAhead, AwaitsPing
      <4> DEFINE c == Cycle(Ping(p), FALSE)
      <4>2. plan' = <<c>> \o Tail(plan)
        BY <1>13, <2>3, <3>1, <4>1 DEF Established, Fresh, Active
      <4>3. c \in Steps /\ Tail(plan) \in Seq(Steps)
        BY <1>1, <2>1, NewEvents, Inclusions, NewSteps, PlanHead
      <4> HIDE DEF c
      <4>4. plan' # <<>> /\ Head(plan') = c
        BY <4>2, <4>3, ConsFacts
      <4> QED
        BY <1>3, <2>1, <3>1, <4>4 DEF PingAhead, c
    <3> QED
      BY <1>3, <2>1, <3>1, <3>2
  <2> QED
    BY <2>1, <2>2, <2>3
<1>14. CASE StartCycle
  <2> DEFINE e == Head(plan).event
  <2>1. /\ plan # <<>> /\ acts = <<>> /\ e \in Handled \cup Follows
        /\ CoreHandles(e) /\ e.kind \notin {"inited", "loaded"} /\ e.peer \in Peers
        /\ Head(plan).do \in {"cycle", "shallow"}
    BY <1>1, <1>14, CycleEvents DEF StartCycle, Doing
  <2>2. \A p \in Peers : session'[p] = None \/ session'[p] = session[p]
    BY <1>1, <2>1, CoreFacts DEF CoreOK
  <2> SUFFICES ASSUME NEW p \in Peers, Fresh(p)'
               PROVE  /\ session'[p].first \in {"none", "ping"}
                      /\ session'[p].first = "none" => PingAhead(p)'
    BY <1>4
  <2>3. session'[p] = session[p] /\ Fresh(p)
    BY <2>2 DEF Fresh
  <2>4. CASE PingAhead(p)
    <3>1. Head(plan) = Cycle(Ping(p), FALSE)
      BY <2>1, <2>4 DEF PingAhead, AwaitsPing
    <3>2. e = Ping(p)
      BY <3>1 DEF Cycle
    <3>3. e.kind = "out" /\ e.peer = p /\ e.arg = PingOut /\ Active(e.peer)
      BY <2>3, <3>2, NewEvents DEF Fresh, Active
    <3>4. acts' = <<Item("send", p, PingOut), Act("save", p)>>
      BY <1>1, <2>1, <3>3, CoreFacts
    <3>5. acts' # <<>> /\ Head(acts') = Item("send", p, PingOut)
      BY <3>4
    <3> QED
      BY <1>3, <2>3, <3>5 DEF PingAhead
  <2> QED
    BY <1>3, <2>3, <2>4
<1>15. CASE FollowUp
  <2>1. /\ acts = <<>> /\ plan' = plan /\ Head(follow) \in Handled \cup Follows
        /\ CoreHandles(Head(follow))
        /\ Head(follow).kind = "inited" => Active(Head(follow).peer)
    BY <1>1, <1>15, CycleEvents DEF FollowUp
  <2> DEFINE e == Head(follow)
  <2>2. CASE \/ session' = session
             \/ session' = [session EXCEPT ![e.peer] = None]
    <3>1. \A p \in Peers : session'[p] = None \/ session'[p] = session[p]
      BY <1>1, <2>2 DEF CoreOK
    <3> QED
      BY <1>8, <2>1, <3>1
  <2>3. CASE e.kind = "loaded" /\ session' = [session EXCEPT ![e.peer] = Restored(e.arg)]
    <3>1. e.arg \in Sessions \cup {None}
      BY <2>1, <2>3, Contents
    <3>2. Restored(e.arg) = None \/ Restored(e.arg).by # "open"
      BY <3>1, RestoredTypes
    <3>3. \A p \in Peers : \/ session'[p] = None \/ session'[p] = session[p]
                            \/ session'[p].by # "open"
      BY <1>1, <2>3, <3>2 DEF CoreOK
    <3> QED
      BY <1>8, <2>1, <3>3
  <2> QED
    BY <1>1, <2>1, <2>2, <2>3, CoreFacts
<1>16. ASSUME acts # <<>>, a.kind # "send", plan' = plan,
              NEW r \in Peers, NEW role \in {"initiator", "responder"},
              NEW by \in {"heal", "other"}, Open(r, role, by)
       PROVE  Pinged'
  <2>1. \A p \in Peers : session'[p] = session[p] \/ session'[p].by # "open"
    BY <1>1, <1>16, Opened
  <2> QED
    BY <1>8, <1>16, <2>1
<1>17. CASE InitResponder \/ HealInitiator \/ HealResponder
  <2>1. acts # <<>> /\ a.kind # "send" /\ plan' = plan /\ Peer \in Peers
    BY <1>2, <1>17 DEF InitResponder, HealInitiator, HealResponder, Next1
  <2>2. \/ session' = session
        \/ \E role \in {"initiator", "responder"}, by \in {"heal", "other"} :
              Open(Peer, role, by)
    BY <1>17 DEF InitResponder, HealInitiator, HealResponder
  <2>3. PICK r \in Peers : r = Peer
    BY <2>1
  <2>4. CASE session' = session
    BY <1>8, <2>1, <2>4
  <2> QED
    BY <1>16, <2>1, <2>2, <2>3, <2>4
<1>18. CASE InitInitiator
  <2>1. PICK r \in Peers : r = Peer
    BY <1>2, <1>18 DEF InitInitiator, Next1
  <2>2. /\ acts # <<>> /\ a.kind = "init" /\ plan' = plan /\ ActOK(a) /\ a.peer = r
        /\ Open(r, "initiator", IF PingNext THEN "open" ELSE "other")
    BY <1>2, <1>18, <2>1 DEF InitInitiator, Next1, PingNext
  <2>3. CASE ~PingNext
    BY <1>16, <2>2, <2>3
  <2>4. CASE PingNext
    <3>1. AwaitsPing(r)
      BY <2>2, <2>4 DEF ActOK
    <3>2. Open(r, "initiator", "open")
      BY <2>2, <2>4
    <3>3. session'[r].first = "none" /\ \A p \in Peers \ {r} : session'[p] = session[p]
      BY <1>1, <3>2, Opened
    <3> SUFFICES ASSUME NEW p \in Peers, Fresh(p)'
                 PROVE  /\ session'[p].first \in {"none", "ping"}
                        /\ session'[p].first = "none" => PingAhead(p)'
      BY <1>4
    <3>4. CASE p = r
      BY <2>2, <3>1, <3>3, <3>4 DEF PingAhead, AwaitsPing
    <3>5. CASE p # r
      <4>1. session'[p] = session[p] /\ Fresh(p)
        BY <3>3, <3>5 DEF Fresh
      <4>2. PingAhead(p) => PingAhead(p)'
        BY <1>6, <2>2 DEF PingAhead, AwaitsPing
      <4> QED
        BY <1>3, <4>1, <4>2
    <3> QED
      BY <3>4, <3>5
  <2> QED
    BY <2>3, <2>4
<1>19. CASE SendOut
  <2>1. PICK r \in Peers : r = Peer
    BY <1>2, <1>19 DEF SendOut, Next1
  <2> DEFINE x == a.arg
  <2>2. /\ acts # <<>> /\ a.kind = "send" /\ plan' = plan /\ ActOK(a) /\ a.peer = r
        /\ session' = IF session[r].first = "none"
                      THEN [session EXCEPT ![r].first = x.what] ELSE session
    BY <1>2, <1>19, <2>1 DEF SendOut, Next1
  <2>3. x.what # "ping" => plan = <<>>
    BY <2>2 DEF ActOK
  <2>4. session[r] \in Sessions /\ x.what \in {"text", "ping", "beat"}
    BY <1>1, <1>2, <2>2, Contents DEF ActOK, Active, CoreOK
  <2>5. /\ session'[r].by = session[r].by
        /\ session'[r].first = IF session[r].first = "none" THEN x.what
                               ELSE session[r].first
        /\ \A p \in Peers \ {r} : session'[p] = session[p]
    BY <1>1, <2>2, <2>4 DEF CoreOK, Sessions
  <2> SUFFICES ASSUME NEW p \in Peers, Fresh(p)'
               PROVE  /\ session'[p].first \in {"none", "ping"}
                      /\ session'[p].first = "none" => PingAhead(p)'
    BY <1>4
  <2>6. CASE p = r
    <3>1. Fresh(r)
      BY <2>2, <2>5, <2>6 DEF Fresh, ActOK, Active
    <3>2. session[r].first = "none" => x.what = "ping"
      <4>1. SUFFICES ASSUME session[r].first = "none", x.what # "ping" PROVE FALSE
        OBVIOUS
      <4>2. PingAhead(r) /\ plan = <<>>
        BY <1>3, <2>3, <3>1, <4>1
      <4>3. a = Item("send", r, PingOut)
        BY <4>2 DEF PingAhead, AwaitsPing
      <4> QED
        BY <1>6, <4>1, <4>3
    <3>3. session[r].first \in {"none", "ping"}
      BY <1>3, <3>1
    <3> QED
      BY <2>5, <2>6, <3>2, <3>3
  <2>7. CASE p # r
    <3>1. session'[p] = session[p] /\ Fresh(p)
      BY <2>5, <2>7 DEF Fresh
    <3>2. PingAhead(p) => PingAhead(p)'
      BY <1>6, <2>2, <2>7 DEF PingAhead, AwaitsPing
    <3> QED
      BY <1>3, <3>1, <3>2
  <2> QED
    BY <2>6, <2>7
<1>20. CASE Crash
  <2>1. \A p \in Peers : session'[p] # None => session'[p].by = "other"
    <3>1. rows \in [Peers -> Sessions \cup {None}]
      BY DEF Inv, Typed, DiskOK
    <3> QED
      BY <1>20, <3>1, RestoredTypes DEF Crash
  <2> QED
    BY <1>4, <2>1 DEF Fresh
<1>21. CASE UNCHANGED <<plan, session>> /\ acts # <<>> /\ a.kind # "send"
  BY <1>8, <1>21
<1>22. CASE UNCHANGED <<plan, session, acts>>
  BY <1>22 DEF Pinged, PingFirst, PingsAhead, PingAhead, AwaitsPing
<1>23. InitFails \/ Heal \/ Show \/ Preview \/ Save \/ Erase \/ Load \/ Spawn \/ CheckAck
         \/ Beat \/ Terminate \/ DeleteRow
         => UNCHANGED <<plan, session>> /\ acts # <<>> /\ a.kind # "send"
  BY DEF InitFails, Heal, Show, Preview, Save, Erase, Load, Spawn, CheckAck, Beat,
     Terminate, DeleteRow, Next1
<1>24. \/ Crash \/ UNCHANGED <<plan, session, acts>> \/ Actor
  BY DEF Next, Arrive, Move, Fetched, RetryDue, Submit, vars
<1> QED
  BY <1>10, <1>11, <1>12, <1>13, <1>14, <1>15, <1>17, <1>18, <1>19, <1>20, <1>21, <1>22,
     <1>23, <1>24 DEF Actor, Dispatch

\* The session made when a chat is opened, with nothing of the peer queued,
\* carries its ping before any text, though texts wait in the actor's queue and
\* the bundle is awaited (establish_session and its caller, prepare_outgoing).
THEOREM ActorPingFirst == Spec => []PingFirst
<1>1. Init => Pinged
  BY DEF Init, Pinged, PingFirst, PingsAhead
<1>2. Inv /\ Pinged /\ [Next]_vars => Pinged'
  BY StepPinged
<1>3. Pinged => PingFirst
  BY DEF Pinged
<1> QED
  BY <1>1, <1>2, <1>3, SpecInv, PTL DEF Spec

-----------------------------------------------------------------------------
(* Where the ids are.                                                      *)

LEMMA HoldsIds ==
    /\ \A kind, q, n : n \in Ids(kind, q)
          <=> \E x \in ToSet(q) : x.kind = kind /\ x.arg.id = n
    /\ \A q, n : n \in MIds(q) <=> \E m \in ToSet(q) : m.id = n
    /\ \A kind : Ids(kind, <<>>) = {}
    /\ MIds(<<>>) = {}
<1>1. ToSet(<<>>) = {}
  BY DEF ToSet
<1> QED
  BY <1>1 DEF Ids, MIds

LEMMA TakenIs ==
    /\ \A n : n \in Taken <=>
         \/ n \in Ids("show", acts) \/ n \in Ids("rejoin", acts) \/ n \in MIds(bubbles)
         \/ \E p \in Peers : \/ n \in MIds(pending[p])
                             \/ healing[p] # None /\ n = healing[p].id
    /\ \A n : n \in Taken' <=>
         \/ n \in Ids("show", acts') \/ n \in Ids("rejoin", acts') \/ n \in MIds(bubbles')
         \/ \E p \in Peers : \/ n \in MIds(pending'[p])
                             \/ healing'[p] # None /\ n = healing'[p].id
BY DEF Taken, Kept

LEMMA InHandIs ==
    /\ \A n : n \in InHand <=>
         \/ \E s \in ToSet(plan) : s.event.kind = "received" /\ s.event.arg.id = n
         \/ n \in Ids("check", acts) \/ n \in Ids("acked", follow)
    /\ \A n : n \in InHand' <=>
         \/ \E s \in ToSet(plan') : s.event.kind = "received" /\ s.event.arg.id = n
         \/ n \in Ids("check", acts') \/ n \in Ids("acked", follow')
BY DEF InHand

LEMMA DistinctAppend ==
    ASSUME NEW q \in Seq(Arrivals), Distinct(q), NEW m \in Arrivals, m.id \notin MIds(q)
    PROVE  Distinct(Append(q, m)) /\ MIds(Append(q, m)) = MIds(q) \cup {m.id}
<1> DEFINE r == Append(q, m)
<1>1. /\ Len(q) \in Nat /\ DOMAIN q = 1..Len(q) /\ DOMAIN r = 1..(Len(q) + 1)
      /\ \A i \in 1..Len(q) : r[i] = q[i]
      /\ r[Len(q) + 1] = m
  BY QueueTypes
<1>2. ToSet(r) = ToSet(q) \cup {m}
  BY ToSetFacts
<1> HIDE DEF r
<1>3. \A i \in DOMAIN q : q[i].id # m.id
  BY DEF MIds, ToSet
<1>4. ASSUME NEW i \in DOMAIN r, NEW j \in DOMAIN r, r[i].id = r[j].id PROVE i = j
  <2>1. CASE i \in DOMAIN q /\ j \in DOMAIN q
    BY <1>1, <1>4, <2>1 DEF Distinct
  <2>2. CASE i \in DOMAIN q /\ j = Len(q) + 1
    BY <1>1, <1>3, <1>4, <2>2
  <2>3. CASE i = Len(q) + 1 /\ j \in DOMAIN q
    BY <1>1, <1>3, <1>4, <2>3
  <2> QED
    BY <1>1, <2>1, <2>2, <2>3
<1>5. Distinct(r)
  BY <1>4 DEF Distinct
<1>6. MIds(r) = MIds(q) \cup {m.id}
  BY <1>2 DEF MIds
<1> QED
  BY <1>5, <1>6 DEF r

LEMMA DistinctTail ==
    ASSUME NEW q \in Seq(Arrivals), Distinct(q), q # <<>>
    PROVE  /\ Distinct(Tail(q)) /\ MIds(q) = MIds(Tail(q)) \cup {Head(q).id}
           /\ Head(q).id \notin MIds(Tail(q)) /\ Head(q) \in Arrivals
           /\ Tail(q) \in Seq(Arrivals)
           /\ First(Head(q), q)
           /\ \A m : First(m, q) => First(m, Tail(q))
<1> DEFINE t == Tail(q)
<1>1. /\ Len(q) \in Nat /\ Len(q) > 0 /\ DOMAIN q = 1..Len(q) /\ DOMAIN t = 1..(Len(q) - 1)
      /\ Head(q) = q[1] /\ Head(q) \in Arrivals /\ t \in Seq(Arrivals)
      /\ \A i \in 1..(Len(q) - 1) : t[i] = q[i + 1]
  BY QueueTypes
<1>2. ToSet(q) = {Head(q)} \cup ToSet(t)
  BY ToSetFacts
<1> HIDE DEF t
<1>3. \A i \in DOMAIN t : i + 1 \in DOMAIN q /\ t[i] = q[i + 1] /\ i + 1 # 1 /\ i \in Nat
  BY <1>1
<1>4. Distinct(t)
  <2> SUFFICES ASSUME NEW i \in DOMAIN t, NEW j \in DOMAIN t, t[i].id = t[j].id PROVE i = j
    BY DEF Distinct
  <2>1. i + 1 = j + 1 /\ i \in Nat /\ j \in Nat
    BY <1>3 DEF Distinct
  <2> QED
    BY <2>1
<1>5. Head(q).id \notin MIds(t)
  BY <1>1, <1>3 DEF MIds, ToSet, Distinct
<1>6. First(Head(q), q)
  BY <1>1 DEF First, Distinct
<1>7. \A m : First(m, q) => First(m, t)
  BY <1>3 DEF First
<1>8. MIds(q) = MIds(t) \cup {Head(q).id}
  BY <1>2 DEF MIds
<1> QED
  BY <1>1, <1>4, <1>5, <1>6, <1>7, <1>8 DEF t

\* A batch without a message to show.
LEMMA NothingShown ==
    ASSUME NEW q, NEW kinds, \A a \in ToSet(q) : a.kind \in kinds
    PROVE  /\ "show" \notin kinds => DistinctOf("show", q)
           /\ \A kind : kind \notin kinds => Ids(kind, q) = {}
<1>1. \A i \in DOMAIN q : q[i].kind \in kinds
  BY DEF ToSet
<1> QED
  BY <1>1 DEF DistinctOf, Ids

LEMMA ActsShrink ==
    ASSUME CycleOK, acts # <<>>
    PROVE  /\ DistinctOf("show", acts) => DistinctOf("show", Tail(acts))
           /\ \A kind : Ids(kind, Tail(acts)) \subseteq Ids(kind, acts)
           /\ Head(acts).arg.id \in Ids(Head(acts).kind, acts)
           /\ DistinctOf("show", acts) /\ Head(acts).kind = "show"
                 => Head(acts).arg.id \notin Ids("show", Tail(acts))
<1> DEFINE t == Tail(acts)
<1>1. acts \in Seq(Actions)
  BY DEF CycleOK
<1>2. /\ Len(acts) \in Nat /\ Len(acts) > 0 /\ DOMAIN acts = 1..Len(acts)
      /\ DOMAIN t = 1..(Len(acts) - 1) /\ Head(acts) = acts[1]
      /\ \A i \in 1..(Len(acts) - 1) : t[i] = acts[i + 1]
  BY <1>1, QueueTypes
<1>3. ToSet(acts) = {Head(acts)} \cup ToSet(t)
  BY <1>1, ToSetFacts
<1> HIDE DEF t
<1>4. \A i \in DOMAIN t : i + 1 \in DOMAIN acts /\ t[i] = acts[i + 1] /\ i + 1 # 1 /\ i \in Nat
  BY <1>2
<1>5. ASSUME DistinctOf("show", acts) PROVE DistinctOf("show", t)
  <2> SUFFICES ASSUME NEW i \in DOMAIN t, NEW j \in DOMAIN t, t[i].kind = "show",
                      t[j].kind = "show", t[i].arg.id = t[j].arg.id
               PROVE  i = j
    BY DEF DistinctOf
  <2>1. i + 1 = j + 1 /\ i \in Nat /\ j \in Nat
    BY <1>4, <1>5 DEF DistinctOf
  <2> QED
    BY <2>1
<1>6. ASSUME DistinctOf("show", acts), Head(acts).kind = "show"
      PROVE  Head(acts).arg.id \notin Ids("show", t)
  BY <1>2, <1>4, <1>6 DEF Ids, ToSet, DistinctOf
<1>7. /\ \A kind : Ids(kind, t) \subseteq Ids(kind, acts)
      /\ Head(acts).arg.id \in Ids(Head(acts).kind, acts)
  BY <1>3 DEF Ids
<1> QED
  BY <1>5, <1>6, <1>7 DEF t

\* Nothing new is shown, kept for a heal or queued.
LEMMA WaitsKept ==
    ASSUME CoreOK, Waits, bubbles' = bubbles,
           \A p \in Peers : pending'[p] \in {pending[p], <<>>},
           \A p \in Peers : healing'[p] \in {healing[p], None},
           DistinctOf("show", acts'), Ids("show", acts') \subseteq Ids("show", acts),
           Ids("rejoin", acts') \subseteq Taken,
           \A a \in ToSet(acts') : a.kind = "rejoin" =>
              a.peer \in Peers /\ First(a.arg, pending[a.peer])
    PROVE  Waits' /\ Taken' \subseteq Taken
<1>1. \A m : First(m, <<>>)
  BY EmptySeq DEF First
<1>2. \A p \in Peers : First(None, pending[p])
  <2> SUFFICES ASSUME NEW p \in Peers PROVE First(None, pending[p])
    OBVIOUS
  <2>1. \A i \in DOMAIN pending[p] : pending[p][i] \in Arrivals
    BY QueueTypes DEF CoreOK
  <2> QED
    BY <2>1, ActorAssumption DEF First
<1>3. HealsFirst'
  BY <1>1, <1>2 DEF Waits, HealsFirst
<1>4. \A p \in Peers : Distinct(pending'[p]) /\ MIds(pending'[p]) \subseteq MIds(pending[p])
  <2>1. Distinct(<<>>) /\ MIds(<<>>) = {}
    BY HoldsIds, EmptySeq DEF Distinct
  <2> QED
    BY <2>1 DEF Waits
<1>5. Apart'
  BY <1>4 DEF Waits, Apart
<1>6. SurfacedOnce'
  BY DEF Waits, SurfacedOnce
<1>7. Taken' \subseteq Taken
  <2> SUFFICES ASSUME NEW n \in Taken' PROVE n \in Taken
    OBVIOUS
  <2> QED
    BY <1>4, TakenIs
<1> QED
  BY <1>3, <1>4, <1>5, <1>6, <1>7 DEF Waits

\* The core keeps what it has, and nothing is shown.
LEMMA WaitsQuiet ==
    ASSUME CoreOK, Waits, UNCHANGED <<bubbles, pending, healing>>,
           \A a \in ToSet(acts') : a.kind \notin {"show", "rejoin"}
    PROVE  Waits' /\ Taken' \subseteq Taken
<1> DEFINE kinds == {a.kind : a \in ToSet(acts')}
<1>1. \A a \in ToSet(acts') : a.kind \in kinds
  OBVIOUS
<1>2. "show" \notin kinds /\ "rejoin" \notin kinds
  OBVIOUS
<1> HIDE DEF kinds
<1>3. DistinctOf("show", acts') /\ Ids("show", acts') = {} /\ Ids("rejoin", acts') = {}
  BY <1>1, <1>2, NothingShown
<1>4. \A q \in Peers : pending'[q] \in {pending[q], <<>>} /\ healing'[q] \in {healing[q], None}
  OBVIOUS
<1> QED
  BY <1>3, <1>4, WaitsKept

\* The message at the head of a queue opens a session; its text may be shown.
LEMMA WaitsOpened ==
    ASSUME CoreOK, RestOK, CycleOK, Waits, acts # <<>>, acts' = Tail(acts), healing' = healing,
           NEW p \in Peers, pending[p] # <<>>,
           pending' = [pending EXCEPT ![p] = Tail(@)],
           bubbles' = bubbles \/ bubbles' = Append(bubbles, Head(pending[p]))
    PROVE  Waits' /\ Taken' \subseteq Taken
<1> DEFINE m == Head(pending[p])
<1>1. pending[p] \in Seq(Arrivals) /\ Distinct(pending[p])
  BY DEF CoreOK, Waits
<1>2. /\ Distinct(Tail(pending[p])) /\ m \in Arrivals
      /\ MIds(pending[p]) = MIds(Tail(pending[p])) \cup {m.id}
      /\ m.id \notin MIds(Tail(pending[p]))
      /\ \A x : First(x, pending[p]) => First(x, Tail(pending[p]))
  BY <1>1, DistinctTail
<1> HIDE DEF m
<1>3. /\ pending'[p] = Tail(pending[p])
      /\ \A q \in Peers \ {p} : pending'[q] = pending[q]
  BY DEF CoreOK
<1>4. /\ m.id \in MIds(pending[p]) /\ m.id \notin Ids("show", acts)
      /\ m.id \notin MIds(bubbles)
      /\ \A q \in Peers \ {p} : m.id \notin MIds(pending[q])
  BY <1>2 DEF Waits, Apart
<1>5. /\ bubbles \in Seq(Arrivals) /\ Distinct(bubbles)
  BY DEF RestOK, Waits, SurfacedOnce, Distinct
<1>6. Distinct(bubbles') /\ MIds(bubbles') \subseteq MIds(bubbles) \cup {m.id}
  <2>1. CASE bubbles' = bubbles
    BY <1>5, <2>1
  <2>2. CASE bubbles' = Append(bubbles, m)
    BY <1>2, <1>4, <1>5, <2>2, DistinctAppend
  <2> QED
    BY <2>1, <2>2 DEF m
<1>7. \A q \in Peers : /\ Distinct(pending'[q])
                       /\ MIds(pending'[q]) \subseteq MIds(pending[q])
                       /\ m.id \notin MIds(pending'[q])
                       /\ \A x : First(x, pending[q]) => First(x, pending'[q])
  BY <1>2, <1>3, <1>4 DEF Waits
<1>8. /\ DistinctOf("show", acts')
      /\ \A kind : Ids(kind, acts') \subseteq Ids(kind, acts)
  BY ActsShrink DEF Waits
<1>9. Apart'
  <2>1. Ids("show", acts') \cap MIds(bubbles') = {}
    BY <1>4, <1>6, <1>8 DEF Waits, Apart
  <2>2. ASSUME NEW q \in Peers
        PROVE  /\ MIds(pending'[q]) \cap (Ids("show", acts') \cup MIds(bubbles')) = {}
               /\ \A r \in Peers \ {q} : MIds(pending'[q]) \cap MIds(pending'[r]) = {}
    <3>1. MIds(pending'[q]) \cap (Ids("show", acts') \cup MIds(bubbles')) = {}
      <4>1. MIds(pending[q]) \cap (Ids("show", acts) \cup MIds(bubbles)) = {}
        BY DEF Waits, Apart
      <4> QED
        BY <1>6, <1>7, <1>8, <4>1
    <3>2. ASSUME NEW r \in Peers \ {q}
          PROVE  MIds(pending'[q]) \cap MIds(pending'[r]) = {}
      <4>1. MIds(pending[q]) \cap MIds(pending[r]) = {}
        BY DEF Waits, Apart
      <4> QED
        BY <1>7, <4>1
    <3> QED
      BY <3>1, <3>2
  <2> QED
    BY <2>1, <2>2 DEF Apart
<1>10. ToSet(acts') \subseteq ToSet(acts) /\ ToSet(acts) \subseteq Actions
  BY DoneTypes, ToSetFacts DEF CycleOK
<1>11. HealsFirst'
  <2>1. \A q \in Peers : First(healing'[q], pending'[q])
    BY <1>7 DEF Waits, HealsFirst
  <2>2. ASSUME NEW a \in ToSet(acts'), a.kind = "rejoin"
        PROVE  First(a.arg, pending'[a.peer])
    <3>1. First(a.arg, pending[a.peer]) /\ a.peer \in Peers
      BY <1>10, <2>2, Contents DEF Waits, HealsFirst
    <3> QED
      BY <1>7, <3>1
  <2> QED
    BY <2>1, <2>2 DEF HealsFirst
<1>12. SurfacedOnce'
  BY <1>6 DEF SurfacedOnce, Distinct
<1>13. Taken' \subseteq Taken
  <2> SUFFICES ASSUME NEW n \in Taken' PROVE n \in Taken
    OBVIOUS
  <2>1. n \in MIds(bubbles') => n \in Taken
    BY <1>4, <1>6, TakenIs
  <2>2. n \in Ids("show", acts') \/ n \in Ids("rejoin", acts') => n \in Taken
    BY <1>8, TakenIs
  <2>3. ASSUME NEW q \in Peers,
               n \in MIds(pending'[q]) \/ (healing'[q] # None /\ n = healing'[q].id)
        PROVE  n \in Taken
    <3>1. n \in MIds(pending[q]) \/ (healing[q] # None /\ n = healing[q].id)
      BY <1>7, <2>3
    <3> QED
      BY <3>1, TakenIs
  <2>4. \/ n \in Ids("show", acts') \/ n \in Ids("rejoin", acts') \/ n \in MIds(bubbles')
        \/ \E q \in Peers : \/ n \in MIds(pending'[q])
                            \/ healing'[q] # None /\ n = healing'[q].id
    BY TakenIs
  <2> QED
    BY <2>1, <2>2, <2>3, <2>4
<1> QED
  BY <1>7, <1>8, <1>9, <1>11, <1>12, <1>13 DEF Waits

\* A decrypted message is shown.
LEMMA WaitsShown ==
    ASSUME CoreOK, RestOK, CycleOK, Waits, Show
    PROVE  Waits' /\ Taken' \subseteq Taken
<1> USE DEF core
<1> DEFINE m == Head(acts).arg
<1>1. acts # <<>> /\ Head(acts).kind = "show" /\ acts' = Tail(acts)
      /\ bubbles' = Append(bubbles, m) /\ UNCHANGED <<pending, healing>>
  BY DEF Show, Next1, Done
<1>2. m \in Arrivals
  BY <1>1, DoneTypes, Contents
<1>3. /\ DistinctOf("show", acts')
      /\ \A kind : Ids(kind, acts') \subseteq Ids(kind, acts)
      /\ m.id \notin Ids("show", acts') /\ m.id \in Ids("show", acts)
  BY <1>1, ActsShrink DEF Waits
<1> HIDE DEF m
<1>4. m.id \notin MIds(bubbles) /\ \A p \in Peers : m.id \notin MIds(pending[p])
  BY <1>3 DEF Waits, Apart
<1>5. bubbles \in Seq(Arrivals) /\ Distinct(bubbles)
  BY DEF RestOK, Waits, SurfacedOnce, Distinct
<1>6. Distinct(bubbles') /\ MIds(bubbles') = MIds(bubbles) \cup {m.id}
  BY <1>1, <1>2, <1>4, <1>5, DistinctAppend
<1>7. Apart'
  BY <1>1, <1>3, <1>4, <1>6 DEF Waits, Apart
<1>8. HealsFirst'
  <2>1. ToSet(acts') \subseteq ToSet(acts)
    BY <1>1, DoneTypes
  <2> QED
    BY <1>1, <2>1 DEF Waits, HealsFirst
<1>9. SurfacedOnce'
  BY <1>6 DEF SurfacedOnce, Distinct
<1>10. Taken' \subseteq Taken
  <2> SUFFICES ASSUME NEW n \in Taken' PROVE n \in Taken
    OBVIOUS
  <2>1. n \in MIds(bubbles') => n \in Taken
    BY <1>3, <1>6, TakenIs
  <2>2. n \in Ids("show", acts') \/ n \in Ids("rejoin", acts') => n \in Taken
    BY <1>3, TakenIs
  <2>3. ASSUME NEW p \in Peers,
               n \in MIds(pending'[p]) \/ (healing'[p] # None /\ n = healing'[p].id)
        PROVE  n \in Taken
    <3>1. pending' = pending /\ healing' = healing
      BY <1>1
    <3>2. n \in MIds(pending[p]) \/ (healing[p] # None /\ n = healing[p].id)
      BY <2>3, <3>1
    <3> QED
      BY <3>2, TakenIs
  <2>4. \/ n \in Ids("show", acts') \/ n \in Ids("rejoin", acts') \/ n \in MIds(bubbles')
        \/ \E p \in Peers : \/ n \in MIds(pending'[p])
                            \/ healing'[p] # None /\ n = healing'[p].id
    BY TakenIs
  <2> QED
    BY <2>1, <2>2, <2>3, <2>4
<1> QED
  BY <1>1, <1>3, <1>7, <1>8, <1>9, <1>10 DEF Waits

\* A message that no one has taken yet is queued for a session to come.
LEMMA WaitsQueued ==
    ASSUME CoreOK, Waits, NEW p \in Peers, NEW m \in Arrivals, m.id \notin Taken,
           bubbles' = bubbles, pending' = [pending EXCEPT ![p] = Append(@, m)],
           \/ healing' = healing
           \/ pending[p] = <<>> /\ healing' = [healing EXCEPT ![p] = m],
           \A a \in ToSet(acts') : a.kind \notin {"show", "rejoin", "check"}
    PROVE  Waits' /\ Taken' \subseteq Taken \cup {m.id}
<1>1. pending[p] \in Seq(Arrivals) /\ Distinct(pending[p])
  BY DEF CoreOK, Waits
<1>2. /\ \A q \in Peers : m.id \notin MIds(pending[q]) /\ m # healing[q]
      /\ m.id \notin MIds(bubbles)
  BY TakenIs, ActorAssumption
<1>3. /\ pending'[p] = Append(pending[p], m)
      /\ \A q \in Peers \ {p} : pending'[q] = pending[q]
  BY DEF CoreOK
<1>4. /\ Distinct(pending'[p]) /\ MIds(pending'[p]) = MIds(pending[p]) \cup {m.id}
  BY <1>1, <1>2, <1>3, DistinctAppend
<1>5. DistinctOf("show", acts') /\ Ids("show", acts') = {} /\ Ids("rejoin", acts') = {}
  <2> DEFINE kinds == {a.kind : a \in ToSet(acts')}
  <2>1. \A a \in ToSet(acts') : a.kind \in kinds
    OBVIOUS
  <2>2. "show" \notin kinds /\ "rejoin" \notin kinds
    OBVIOUS
  <2> HIDE DEF kinds
  <2> QED
    BY <2>1, <2>2, NothingShown
<1>6. Apart'
  <2>1. ASSUME NEW q \in Peers
        PROVE  /\ MIds(pending'[q]) \cap MIds(bubbles) = {}
               /\ \A r \in Peers \ {q} : MIds(pending'[q]) \cap MIds(pending'[r]) = {}
    <3>1. /\ MIds(pending[q]) \cap MIds(bubbles) = {}
          /\ \A r \in Peers \ {q} : MIds(pending[q]) \cap MIds(pending[r]) = {}
      BY DEF Waits, Apart
    <3>2. CASE q = p
      BY <1>2, <1>3, <1>4, <3>1, <3>2
    <3>3. CASE q # p
      BY <1>2, <1>3, <1>4, <3>1, <3>3
    <3> QED
      BY <3>2, <3>3
  <2> QED
    BY <1>5, <2>1 DEF Apart
<1>7. HealsFirst'
  <2>1. ASSUME NEW q \in Peers PROVE First(healing'[q], pending'[q])
    <3>1. CASE q # p
      <4>1. healing'[q] = healing[q] /\ pending'[q] = pending[q]
        BY <1>3, <3>1 DEF CoreOK
      <4> QED
        BY <4>1 DEF Waits, HealsFirst
    <3>2. CASE q = p
      <4> DEFINE x == pending[p]
                 r == Append(x, m)
      <4>1. /\ Len(x) \in Nat /\ DOMAIN x = 1..Len(x) /\ DOMAIN r = 1..(Len(x) + 1)
            /\ \A i \in 1..Len(x) : r[i] = x[i]
            /\ r[Len(x) + 1] = m
            /\ x = <<>> => Len(x) = 0
        BY <1>1, QueueTypes
      <4>2. pending'[q] = r /\ First(healing[p], x)
        BY <1>3, <3>2 DEF Waits, HealsFirst
      <4>3. \/ healing'[q] = healing[p]
            \/ x = <<>> /\ healing'[q] = m
        BY <3>2 DEF CoreOK
      <4> HIDE DEF r, x
      <4>4. CASE healing'[q] = healing[p]
        <5>1. m # healing[p]
          BY <1>2
        <5> QED
          BY <4>1, <4>2, <4>4, <5>1 DEF First
      <4>5. CASE x = <<>> /\ healing'[q] = m
        BY <4>1, <4>2, <4>5 DEF First
      <4> QED
        BY <4>3, <4>4, <4>5
    <3> QED
      BY <3>1, <3>2
  <2> QED
    BY <2>1 DEF HealsFirst
<1>8. SurfacedOnce'
  BY DEF Waits, SurfacedOnce
<1>9. \A q \in Peers : Distinct(pending'[q])
  BY <1>3, <1>4 DEF Waits
<1>10. Taken' \subseteq Taken \cup {m.id}
  <2> SUFFICES ASSUME NEW n \in Taken', n # m.id PROVE n \in Taken
    OBVIOUS
  <2>1. ASSUME NEW q \in Peers,
               n \in MIds(pending'[q]) \/ (healing'[q] # None /\ n = healing'[q].id)
        PROVE  n \in MIds(pending[q]) \/ (healing[q] # None /\ n = healing[q].id)
    <3>1. healing'[q] = healing[q] \/ healing'[q] = m
      BY DEF CoreOK
    <3> QED
      BY <1>3, <1>4, <2>1, <3>1
  <2> QED
    BY <1>5, <2>1, TakenIs
<1> QED
  BY <1>5, <1>6, <1>7, <1>8, <1>9, <1>10 DEF Waits

\* What the core does with a message it has not seen.
LEMMA WaitsIncoming ==
    ASSUME CoreOK, Waits, acts = <<>>, bubbles' = bubbles, NEW p \in Peers,
           NEW m \in Arrivals, m.id \notin Taken, Incoming(p, m)
    PROVE  /\ Waits' /\ Taken' \subseteq Taken \cup {m.id}
           /\ \A a \in ToSet(acts') : a.kind # "check"
<1> USE DEF core
\* The core keeps what it has, and nothing is shown.
<1>1. ASSUME UNCHANGED <<pending, healing>>,
             \A a \in ToSet(acts') : a.kind \notin {"show", "rejoin", "check"}
      PROVE  Waits' /\ Taken' \subseteq Taken
  BY <1>1, WaitsQuiet
<1>2. ASSUME NEW a \in Actions, a.kind \notin {"show", "rejoin", "check"}, Ask(<<a>>)
      PROVE  \A b \in ToSet(acts') : b.kind \notin {"show", "rejoin", "check"}
  BY <1>2, Batches DEF Ask
<1>3. ASSUME Ask(<<>>)
      PROVE  \A b \in ToSet(acts') : b.kind \notin {"show", "rejoin", "check"}
  BY <1>3, Batches DEF Ask
<1>4. /\ \A role \in {"Initiator", "Responder"} :
            Item("heal", p, role) \in Actions /\ Item("heal", p, role).kind = "heal"
      /\ \A kind \in {"retry", "terminate", "fetch", "load"} :
            Act(kind, p) \in Actions /\ Act(kind, p).kind = kind
      /\ Item("erase", p, "session") \in Actions
      /\ Item("erase", p, "session").kind = "erase"
  BY NewActions
<1>5. CASE /\ \E kind \in {"save", "preview"} : Ask(<<Item("show", p, m), Act(kind, p)>>)
           /\ UNCHANGED core
  <2>0. PICK kind \in {"save", "preview"} : Ask(<<Item("show", p, m), Act(kind, p)>>)
    BY <1>5
  <2> DEFINE s == Item("show", p, m)
             v == Act(kind, p)
  <2>1. s \in Actions /\ s.kind = "show" /\ s.arg = m /\ v \in Actions /\ v.kind = kind
    BY NewActions
  <2> HIDE DEF s, v
  <2>2. acts' = <<s, v>>
    BY <2>0 DEF Ask, s, v
  <2>3. ToSet(acts') = {s, v}
    BY <2>1, <2>2, Batches DEF Plain
  <2>4. DOMAIN acts' = {1, 2} /\ acts'[1] = s /\ acts'[2] = v
    BY <2>1, <2>2
  <2>5. DistinctOf("show", acts')
    BY <2>1, <2>4 DEF DistinctOf
  <2>6. Ids("show", acts') = {m.id} /\ Ids("rejoin", acts') = {}
    BY <2>1, <2>3 DEF Ids
  <2>7. m.id \notin MIds(bubbles) /\ \A q \in Peers : m.id \notin MIds(pending[q])
    BY TakenIs
  <2>8. Apart'
    BY <1>5, <2>6, <2>7 DEF Waits, Apart
  <2>9. HealsFirst'
    BY <1>5, <2>1, <2>3 DEF Waits, HealsFirst
  <2>10. SurfacedOnce' /\ \A q \in Peers : Distinct(pending'[q])
    BY <1>5 DEF Waits, SurfacedOnce
  <2>11. Taken' \subseteq Taken \cup {m.id}
    <3> SUFFICES ASSUME NEW n \in Taken', n # m.id PROVE n \in Taken
      OBVIOUS
    <3>1. pending' = pending /\ healing' = healing
      BY <1>5
    <3> QED
      BY <2>6, <3>1, TakenIs
  <2> QED
    BY <2>1, <2>3, <2>5, <2>8, <2>9, <2>10, <2>11 DEF Waits
<1>6. CASE Active(p) /\ Ask(<<Item("heal", p, "Initiator")>>) /\ UNCHANGED core
  <2>1. \A a \in ToSet(acts') : a.kind \notin {"show", "rejoin", "check"}
    BY <1>2, <1>4, <1>6
  <2> QED
    BY <1>1, <1>6, <2>1
<1>7. CASE /\ IF pending[p] = <<>>
              THEN /\ \E a \in {Item("heal", p, "Responder"), Act("retry", p)} : Ask(<<a>>)
                   /\ healing' = [healing EXCEPT ![p] = m]
              ELSE Ask(<<>>) /\ UNCHANGED healing
           /\ pending' = [pending EXCEPT ![p] = Append(@, m)]
  <2>1. \A a \in ToSet(acts') : a.kind \notin {"show", "rejoin", "check"}
    <3>1. CASE pending[p] = <<>>
      <4>1. PICK a \in {Item("heal", p, "Responder"), Act("retry", p)} : Ask(<<a>>)
        BY <1>7, <3>1
      <4>2. a \in Actions /\ a.kind \notin {"show", "rejoin", "check"}
        BY <1>4
      <4> QED
        BY <1>2, <4>1, <4>2
    <3>2. CASE pending[p] # <<>>
      BY <1>3, <1>7, <3>2
    <3> QED
      BY <3>1, <3>2
  <2>2. \/ healing' = healing
        \/ pending[p] = <<>> /\ healing' = [healing EXCEPT ![p] = m]
    BY <1>7
  <2> QED
    BY <1>7, <2>1, <2>2, WaitsQueued
<1>8. CASE /\ \E a \in {Act("terminate", p), Item("erase", p, "session")} : Ask(<<a>>)
           /\ UNCHANGED <<pending, healing>>
  <2>1. PICK a \in {Act("terminate", p), Item("erase", p, "session")} : Ask(<<a>>)
    BY <1>8
  <2>2. a \in Actions /\ a.kind \notin {"show", "rejoin", "check"}
    BY <1>4
  <2> QED
    BY <1>1, <1>2, <1>8, <2>1, <2>2
<1>9. CASE /\ \E a \in {Act("fetch", p), Act("load", p)} : Ask(<<a>>)
           /\ UNCHANGED healing
           /\ pending' = [pending EXCEPT ![p] = Append(@, m)]
  <2>1. \A b \in ToSet(acts') : b.kind \notin {"show", "rejoin", "check"}
    <3>1. PICK a \in {Act("fetch", p), Act("load", p)} : Ask(<<a>>)
      BY <1>9
    <3>2. a \in Actions /\ a.kind \notin {"show", "rejoin", "check"}
      BY <1>4
    <3> QED
      BY <1>2, <3>1, <3>2
  <2> QED
    BY <1>9, <2>1, WaitsQueued
<1>10. CASE Ask(<<>>) /\ UNCHANGED core
  BY <1>1, <1>3, <1>10
<1> QED
  BY <1>5, <1>6, <1>7, <1>8, <1>9, <1>10 DEF Incoming

\* The queue of a session is shown, or given up for a heal.
LEMMA WaitsDrain ==
    ASSUME CoreOK, Waits, acts = <<>>, bubbles' = bubbles, NEW p \in Peers, Drain(p)
    PROVE  /\ Waits' /\ Taken' \subseteq Taken
           /\ \A a \in ToSet(acts') : a.kind # "check"
<1>1. pending[p] \in Seq(Arrivals) /\ Distinct(pending[p])
  BY DEF CoreOK, Waits
<1>2. MIds(<<>>) = {} /\ Distinct(<<>>) /\ \A m : First(m, <<>>)
  BY HoldsIds, EmptySeq DEF Distinct, First
<1>3. ASSUME NEW role \in {"Initiator", "Responder"},
             Ask(<<Act("save", p), Item("heal", p, role)>>)
      PROVE  /\ \A a \in ToSet(acts') : a.kind \in {"save", "heal"}
             /\ DistinctOf("show", acts') /\ Ids("show", acts') = {}
             /\ Ids("rejoin", acts') = {}
  <2> DEFINE s == Act("save", p)
             h == Item("heal", p, role)
  <2>1. s \in Actions /\ s.kind = "save" /\ h \in Actions /\ h.kind = "heal"
    BY NewActions
  <2> HIDE DEF s, h
  <2>2. acts' = <<s, h>>
    BY <1>3 DEF Ask, s, h
  <2>3. ToSet(acts') = {s, h}
    BY <2>1, <2>2, Batches DEF Plain
  <2>4. \A a \in ToSet(acts') : a.kind \in {"save", "heal"}
    BY <2>1, <2>3
  <2> QED
    BY <2>4, NothingShown
<1>4. CASE /\ Ask(<<Act("save", p)>>
                    \o [i \in DOMAIN pending[p] |-> Item("show", p, pending[p][i])])
           /\ pending' = [pending EXCEPT ![p] = <<>>] /\ UNCHANGED healing
  <2> DEFINE ms == pending[p]
             r == <<Act("save", p)>> \o [i \in DOMAIN ms |-> Item("show", p, ms[i])]
  <2>1. acts' = r
    BY <1>4 DEF Ask
  <2>2. /\ \A a \in ToSet(r) : /\ a.kind \in {"save", "show"}
                               /\ a.kind = "show" => a.arg \in ToSet(ms)
        /\ DOMAIN r = 1..(Len(ms) + 1) /\ r[1] = Act("save", p)
        /\ \A i \in DOMAIN r : i # 1 => /\ i - 1 \in DOMAIN ms
                                        /\ r[i] = Item("show", p, ms[i - 1])
    BY <1>1, DrainBatch
  <2> HIDE DEF r, ms
  <2>3. r[1].kind = "save" /\ \A m : Item("show", p, m).arg = m
    BY <2>2, NewActions
  <2>4. DistinctOf("show", r)
    <3> SUFFICES ASSUME NEW i \in DOMAIN r, NEW j \in DOMAIN r, r[i].kind = "show",
                        r[j].kind = "show", r[i].arg.id = r[j].arg.id
                 PROVE  i = j
      BY DEF DistinctOf
    <3>1. i # 1 /\ j # 1
      BY <2>3
    <3>2. /\ i - 1 \in DOMAIN ms /\ j - 1 \in DOMAIN ms
          /\ ms[i - 1].id = ms[j - 1].id
      BY <2>2, <2>3, <3>1
    <3>3. i - 1 = j - 1
      BY <1>1, <3>2 DEF Distinct, ms
    <3>4. Len(ms) \in Nat
      BY <1>1, QueueTypes DEF ms
    <3>5. i \in Int /\ j \in Int
      BY <2>2, <3>4
    <3> QED
      BY <3>3, <3>5
  <2>5. Ids("show", r) \subseteq MIds(ms) /\ \A a \in ToSet(r) : a.kind \in {"save", "show"}
    BY <2>2 DEF Ids, MIds
  <2>6. Ids("rejoin", r) = {}
    BY <2>5 DEF Ids
  <2>7. /\ pending'[p] = <<>> /\ \A q \in Peers \ {p} : pending'[q] = pending[q]
        /\ healing' = healing
    BY <1>4 DEF CoreOK
  <2>8. \A q \in Peers : /\ Distinct(pending'[q])
                         /\ MIds(pending'[q]) \subseteq MIds(pending[q])
    BY <1>2, <2>7 DEF Waits
  <2>9. Apart'
    <3>1. MIds(ms) \cap MIds(bubbles) = {}
      BY DEF Waits, Apart, ms
    <3>2. ASSUME NEW q \in Peers
          PROVE  /\ MIds(pending'[q]) \cap (Ids("show", acts') \cup MIds(bubbles)) = {}
                 /\ \A o \in Peers \ {q} : MIds(pending'[q]) \cap MIds(pending'[o]) = {}
      <4>1. MIds(pending[q]) \cap MIds(bubbles) = {}
        BY DEF Waits, Apart
      <4>2. \A o \in Peers \ {q} : MIds(pending[q]) \cap MIds(pending[o]) = {}
        BY DEF Waits, Apart
      <4>3. q # p => MIds(pending[q]) \cap MIds(ms) = {}
        BY <4>2 DEF ms
      <4>4. MIds(pending'[q]) \cap Ids("show", r) = {}
        BY <1>2, <2>5, <2>7, <4>3
      <4> QED
        BY <2>1, <2>8, <4>1, <4>2, <4>4
    <3>3. Ids("show", acts') \cap MIds(bubbles') = {}
      BY <2>1, <2>5, <3>1
    <3> QED
      BY <3>2, <3>3 DEF Apart
  <2>10. HealsFirst'
    <3>1. \A q \in Peers : First(healing'[q], pending'[q])
      BY <1>2, <2>7 DEF Waits, HealsFirst
    <3>2. \A a \in ToSet(acts') : a.kind # "rejoin"
      BY <2>1, <2>5
    <3> QED
      BY <3>1, <3>2 DEF HealsFirst
  <2>11. Taken' \subseteq Taken
    <3> SUFFICES ASSUME NEW n \in Taken' PROVE n \in Taken
      OBVIOUS
    <3>1. n \in Ids("show", acts') => n \in Taken
      BY <2>1, <2>5, TakenIs DEF ms
    <3>2. ASSUME NEW q \in Peers,
                 n \in MIds(pending'[q]) \/ (healing'[q] # None /\ n = healing'[q].id)
          PROVE  n \in Taken
      <4>1. n \in MIds(pending[q]) \/ (healing[q] # None /\ n = healing[q].id)
        BY <2>7, <2>8, <3>2
      <4> QED
        BY <4>1, TakenIs
    <3>3. \/ n \in Ids("show", acts') \/ n \in Ids("rejoin", acts') \/ n \in MIds(bubbles')
          \/ \E q \in Peers : \/ n \in MIds(pending'[q])
                              \/ healing'[q] # None /\ n = healing'[q].id
      BY TakenIs
    <3>4. n \in MIds(bubbles) => n \in Taken
      BY TakenIs
    <3> QED
      BY <2>1, <2>6, <3>1, <3>2, <3>3, <3>4
  <2>12. SurfacedOnce'
    BY DEF Waits, SurfacedOnce
  <2> QED
    BY <2>1, <2>4, <2>5, <2>8, <2>9, <2>10, <2>11, <2>12 DEF Waits
<1>5. CASE /\ Ask(<<Act("save", p), Item("heal", p, "Initiator")>>)
           /\ pending' = [pending EXCEPT ![p] = <<>>] /\ UNCHANGED healing
  <2>1. /\ \A a \in ToSet(acts') : a.kind \in {"save", "heal"}
        /\ DistinctOf("show", acts') /\ Ids("show", acts') = {}
        /\ Ids("rejoin", acts') = {}
    BY <1>3, <1>5
  <2>2. \A q \in Peers : pending'[q] \in {pending[q], <<>>}
    BY <1>5 DEF CoreOK
  <2>3. \A q \in Peers : healing'[q] \in {healing[q], None}
    BY <1>5
  <2> QED
    BY <2>1, <2>2, <2>3, WaitsKept
<1>6. CASE /\ pending[p] # <<>>
           /\ Ask(<<Act("save", p), Item("heal", p, "Responder")>>)
           /\ healing' = [healing EXCEPT ![p] = Head(pending[p])] /\ UNCHANGED pending
  <2>1. /\ \A a \in ToSet(acts') : a.kind \in {"save", "heal"}
        /\ DistinctOf("show", acts') /\ Ids("show", acts') = {}
        /\ Ids("rejoin", acts') = {}
    BY <1>3, <1>6
  <2>2. First(Head(pending[p]), pending[p]) /\ Head(pending[p]).id \in MIds(pending[p])
    BY <1>1, <1>6, DistinctTail
  <2>3. /\ healing'[p] = Head(pending[p])
        /\ \A q \in Peers \ {p} : healing'[q] = healing[q]
        /\ pending' = pending
    BY <1>6 DEF CoreOK
  <2>4. HealsFirst'
    BY <2>1, <2>2, <2>3 DEF Waits, HealsFirst
  <2>5. Apart' /\ SurfacedOnce' /\ \A q \in Peers : Distinct(pending'[q])
    BY <2>1, <2>3 DEF Waits, Apart, SurfacedOnce
  <2>6. Taken' \subseteq Taken
    <3> SUFFICES ASSUME NEW n \in Taken' PROVE n \in Taken
      OBVIOUS
    <3>1. ASSUME NEW q \in Peers,
                 n \in MIds(pending'[q]) \/ (healing'[q] # None /\ n = healing'[q].id)
          PROVE  n \in Taken
      <4>1. \/ n \in MIds(pending[q]) \/ (healing[q] # None /\ n = healing[q].id)
            \/ n \in MIds(pending[p])
        BY <2>2, <2>3, <3>1
      <4> QED
        BY <4>1, TakenIs
    <3>2. \/ n \in MIds(bubbles')
          \/ \E q \in Peers : \/ n \in MIds(pending'[q])
                              \/ healing'[q] # None /\ n = healing'[q].id
      BY <2>1, TakenIs
    <3>3. n \in MIds(bubbles) => n \in Taken
      BY TakenIs
    <3> QED
      BY <3>1, <3>2, <3>3
  <2> QED
    BY <2>1, <2>4, <2>5, <2>6 DEF Waits
<1> QED
  BY <1>4, <1>5, <1>6 DEF Drain

\* No other event makes the core show or queue anything.
LEMMA WaitsOther ==
    ASSUME CoreOK, NEW e \in Handled \cup Follows, CoreHandles(e),
           e.kind \notin {"received", "acked", "inited"}
    PROVE  /\ UNCHANGED <<pending, healing>>
           /\ \A a \in ToSet(acts') : a.kind \notin {"show", "rejoin", "check"}
<1> USE DEF core
<1> DEFINE p == e.peer
           None3 == \A a \in ToSet(acts') : a.kind \notin {"show", "rejoin", "check"}
<1>1. p \in Peers
  BY Contents
<1>2. ASSUME NEW a \in Actions, a.kind \notin {"show", "rejoin", "check"}, Ask(<<a>>)
      PROVE  None3
  BY <1>2, Batches DEF Ask
<1>3. ASSUME Ask(<<>>) PROVE None3
  BY <1>3, Batches DEF Ask
<1>4. /\ Act("init", p) \in Actions /\ Act("init", p).kind = "init"
      /\ Act("beat", p) \in Actions /\ Act("beat", p).kind = "beat"
      /\ Item("heal", p, "Responder") \in Actions
      /\ Item("heal", p, "Responder").kind = "heal"
      /\ Item("erase", p, "archive") \in Actions
      /\ Item("erase", p, "archive").kind = "erase"
      /\ Act("fetch", p) \in Actions /\ Act("fetch", p).kind = "fetch"
  BY <1>1, NewActions
<1>5. ASSUME e.kind = "bundle", Ask(IF Active(p) THEN <<>> ELSE <<Act("init", p)>>)
      PROVE  None3
  <2>1. CASE Active(p)
    BY <1>3, <1>5, <2>1
  <2>2. CASE ~Active(p)
    BY <1>2, <1>4, <1>5, <2>2
  <2> QED
    BY <2>1, <2>2
<1>6. ASSUME e.kind = "out",
             Ask(IF Active(p) THEN <<Item("send", p, e.arg), Act("save", p)>> ELSE <<>>)
      PROVE  None3
  <2> DEFINE s == Item("send", p, e.arg)
             v == Act("save", p)
  <2>1. e.arg \in Outs
    BY <1>6, Contents
  <2>2. s \in Actions /\ s.kind = "send" /\ v \in Actions /\ v.kind = "save"
    BY <1>1, <2>1, NewActions
  <2>3. CASE Active(p)
    <3> HIDE DEF s, v
    <3>1. acts' = <<s, v>>
      BY <1>6, <2>3 DEF Ask, s, v
    <3>2. ToSet(acts') = {s, v}
      BY <2>2, <3>1, Batches DEF Plain
    <3> QED
      BY <2>2, <3>2
  <2>4. CASE ~Active(p)
    BY <1>3, <1>6, <2>4
  <2> QED
    BY <2>3, <2>4
<1>7. ASSUME e.kind = "launched",
             Ask(IF healing[p] # None THEN <<Item("heal", p, "Responder")>> ELSE <<>>)
      PROVE  None3
  <2>1. CASE healing[p] # None
    BY <1>2, <1>4, <1>7, <2>1
  <2>2. CASE healing[p] = None
    BY <1>3, <1>7, <2>2
  <2> QED
    BY <2>1, <2>2
<1>8. ASSUME \E a \in {Act("beat", p), Item("erase", p, "archive")} : Ask(<<a>>) PROVE None3
  <2>1. PICK a \in {Act("beat", p), Item("erase", p, "archive")} : Ask(<<a>>)
    BY <1>8
  <2>2. a \in Actions /\ a.kind \notin {"show", "rejoin", "check"}
    BY <1>4
  <2> QED
    BY <1>2, <2>1, <2>2
<1>9. ASSUME Ask(IF Active(p) \/ e.arg # None THEN <<>> ELSE <<Act("fetch", p)>>)
      PROVE  None3
  <2>1. CASE Active(p) \/ e.arg # None
    BY <1>3, <1>9, <2>1
  <2>2. CASE ~(Active(p) \/ e.arg # None)
    BY <1>2, <1>4, <1>9, <2>2
  <2> QED
    BY <2>1, <2>2
<1>10. /\ UNCHANGED <<pending, healing>>
       /\ \/ e.kind = "bundle" /\ Ask(IF Active(p) THEN <<>> ELSE <<Act("init", p)>>)
          \/ /\ e.kind = "out"
             /\ Ask(IF Active(p) THEN <<Item("send", p, e.arg), Act("save", p)>> ELSE <<>>)
          \/ /\ e.kind = "launched"
             /\ Ask(IF healing[p] # None THEN <<Item("heal", p, "Responder")>> ELSE <<>>)
          \/ \E a \in {Act("beat", p), Item("erase", p, "archive")} : Ask(<<a>>)
          \/ Ask(IF Active(p) \/ e.arg # None THEN <<>> ELSE <<Act("fetch", p)>>)
          \/ Ask(<<>>)
  BY DEF CoreHandles
<1>11. None3
  BY <1>3, <1>5, <1>6, <1>7, <1>8, <1>9, <1>10
<1> QED
  BY <1>10, <1>11

\* What is in hand does not grow while a plan goes on.
LEMMA HandKept ==
    ASSUME plan' = plan,
           \A a \in ToSet(acts') : a.kind = "check" => a \in ToSet(acts),
           \A f \in ToSet(follow') : f.kind = "acked" =>
              \/ f \in ToSet(follow)
              \/ \E a \in ToSet(acts) : a.kind = "check" /\ a.arg = f.arg
    PROVE  InHand' \subseteq InHand
<1> SUFFICES ASSUME NEW n \in InHand' PROVE n \in InHand
  OBVIOUS
<1>1. CASE \E s \in ToSet(plan') : s.event.kind = "received" /\ s.event.arg.id = n
  BY <1>1, InHandIs
<1>2. CASE n \in Ids("check", acts')
  <2>1. n \in Ids("check", acts)
    BY <1>2, HoldsIds
  <2> QED
    BY <2>1, InHandIs
<1>3. CASE n \in Ids("acked", follow')
  <2>1. n \in Ids("acked", follow) \/ n \in Ids("check", acts)
    BY <1>3, HoldsIds
  <2> QED
    BY <2>1, InHandIs
<1> QED
  BY <1>1, <1>2, <1>3, InHandIs

\* An action that shows nothing and opens no session from a message.
LEMMA WaitsDone ==
    ASSUME CoreOK, CycleOK, Waits, acts # <<>>, acts' = Tail(acts),
           UNCHANGED <<bubbles, pending, healing>>
    PROVE  Waits' /\ Taken' \subseteq Taken
<1>1. /\ DistinctOf("show", acts')
      /\ \A kind : Ids(kind, acts') \subseteq Ids(kind, acts)
  BY ActsShrink DEF Waits
<1>2. Ids("rejoin", acts') \subseteq Taken
  BY <1>1, TakenIs
<1>3. ToSet(acts') \subseteq ToSet(acts) /\ ToSet(acts) \subseteq Actions
  BY DoneTypes, ToSetFacts DEF CycleOK
<1>4. ASSUME NEW a \in ToSet(acts'), a.kind = "rejoin"
      PROVE  a.peer \in Peers /\ First(a.arg, pending[a.peer])
  BY <1>3, <1>4, Contents DEF Waits, HealsFirst
<1>5. \A p \in Peers : pending'[p] \in {pending[p], <<>>} /\ healing'[p] \in {healing[p], None}
  OBVIOUS
<1> QED
  BY <1>1, <1>2, <1>4, <1>5, WaitsKept

LEMMA DispatchWaits ==
    ASSUME Inv, Waits, Dispatch
    PROVE  /\ Waits' /\ Taken' \subseteq Taken /\ InHand' \subseteq InHand
           /\ UNCHANGED <<cmds, arrived>>
<1> USE DEF queues, cycle, core, tasks, disk, notices, counts
<1> DEFINE a == Head(acts)
<1>1. CoreOK /\ RestOK /\ CycleOK /\ Linked /\ LastOnly(acts) /\ Typed
  BY DEF Inv, Typed, Orderly
<1>2. acts # <<>>
  BY DEF Dispatch, InitResponder, InitInitiator, InitFails, Heal, HealInitiator,
         HealResponder, Show, Preview, Save, Erase, Load, SendOut, Spawn, CheckAck, Beat,
         Terminate, DeleteRow, Next1
<1>3. PICK r \in Peers : r = Peer
  BY <1>1, <1>2, DoneTypes
<1>4. /\ a \in Actions /\ a \in ToSet(acts) /\ a.peer = r
      /\ ToSet(Tail(acts)) \subseteq ToSet(acts) /\ Tail(acts) \in Seq(Actions)
      /\ a.kind \notin Plain => Tail(acts) = <<>>
  BY <1>1, <1>2, <1>3, DoneTypes DEF Peer
<1>5. UNCHANGED <<cmds, arrived, plan>>
  BY DEF Dispatch, InitResponder, InitInitiator, InitFails, Heal, HealInitiator,
         HealResponder, Show, Preview, Save, Erase, Load, SendOut, Spawn, CheckAck, Beat,
         Terminate, DeleteRow, Surface, Upset
\* What is pushed is no message, but for an answer of the database.
<1>6. ASSUME NEW es \in Seq(Follows), Push(es), acts' = Tail(acts),
             \A f \in ToSet(es) : f.kind # "acked"
      PROVE  InHand' \subseteq InHand
  <2>1. ToSet(follow') \subseteq ToSet(follow) \cup ToSet(es)
    BY <1>1, <1>6, PushTypes
  <2> QED
    BY <1>4, <1>5, <1>6, <2>1, HandKept
<1>7. ASSUME follow' = follow, acts' = Tail(acts) PROVE InHand' \subseteq InHand
  BY <1>4, <1>5, <1>7, HandKept
<1>8. /\ Completed(r) \in Seq(Follows)
      /\ \A f \in ToSet(Completed(r)) : f.kind # "acked"
      /\ Completed(r) \o <<Ping(r)>> \in Seq(Follows)
      /\ \A f \in ToSet(Completed(r) \o <<Ping(r)>>) : f.kind # "acked"
  <2>1. /\ Completed(r) \in Seq(Follows) /\ ToSet(Completed(r)) = {Act("inited", r)}
        /\ Completed(r) \o <<Ping(r)>> \in Seq(Follows)
        /\ ToSet(Completed(r) \o <<Ping(r)>>) = {Act("inited", r), Ping(r)}
    BY PushedItems
  <2>2. Act("inited", r).kind = "inited" /\ Ping(r).kind = "out"
    BY NewEvents
  <2> QED
    BY <2>1, <2>2
<1>9. CASE InitResponder
  <2>1. /\ pending[r] # <<>> /\ pending' = [pending EXCEPT ![r] = Tail(@)]
        /\ Surface(Head(pending[r])) /\ Push(Completed(r)) /\ healing' = healing
        /\ acts' = Tail(acts)
    BY <1>3, <1>9 DEF InitResponder, Done
  <2>2. bubbles' = bubbles \/ bubbles' = Append(bubbles, Head(pending[r]))
    BY <2>1 DEF Surface
  <2> QED
    BY <1>1, <1>2, <1>5, <1>6, <1>8, <2>1, <2>2, WaitsOpened
<1>10. CASE InitInitiator
  <2>1. /\ Push(Completed(r)) /\ acts' = Tail(acts)
        /\ UNCHANGED <<bubbles, pending, healing>>
    BY <1>3, <1>10 DEF InitInitiator, Done
  <2> QED
    BY <1>1, <1>2, <1>5, <1>6, <1>8, <2>1, WaitsDone
<1>11. CASE InitFails \/ Preview \/ Save \/ Erase \/ SendOut \/ Spawn \/ Beat \/ DeleteRow
  <2>1. follow' = follow /\ acts' = Tail(acts) /\ UNCHANGED <<bubbles, pending, healing>>
    BY <1>11 DEF InitFails, Preview, Save, Erase, SendOut, Spawn, Beat, DeleteRow, Done
  <2> QED
    BY <1>1, <1>2, <1>5, <1>7, <2>1, WaitsDone
<1>12. CASE Show
  <2>1. follow' = follow /\ acts' = Tail(acts)
    BY <1>12 DEF Show, Done
  <2> QED
    BY <1>1, <1>5, <1>7, <1>12, <2>1, WaitsShown
<1>13. CASE HealInitiator
  <2>1. /\ acts' = Tail(acts) /\ UNCHANGED <<bubbles, pending, healing>>
        /\ Push(Completed(r) \o <<Ping(r)>>) \/ follow' = follow
    BY <1>3, <1>13 DEF HealInitiator, Done
  <2>2. InHand' \subseteq InHand
    BY <1>6, <1>7, <1>8, <2>1
  <2> QED
    BY <1>1, <1>2, <1>5, <2>1, <2>2, WaitsDone
<1>14. CASE HealResponder
  <2> DEFINE m == a.arg
  <2>1. a.kind = "rejoin" /\ acts' = Tail(acts) /\ healing' = healing
    BY <1>14 DEF HealResponder, Next1, Done
  <2>2. First(m, pending[r])
    BY <1>4, <2>1 DEF Waits, HealsFirst
  <2>3. CASE /\ \E i \in DOMAIN pending[r] : pending[r][i] = m
             /\ pending' = [pending EXCEPT ![r] = Tail(@)]
             /\ Surface(m) /\ Push(Completed(r))
    <3>1. pending[r] # <<>> /\ pending[r] \in Seq(Arrivals)
      BY <1>1, <2>3 DEF CoreOK
    <3>2. Head(pending[r]) = m
      BY <2>2, <2>3, <3>1, QueueTypes DEF First
    <3>3. bubbles' = bubbles \/ bubbles' = Append(bubbles, Head(pending[r]))
      BY <2>3, <3>2 DEF Surface
    <3> QED
      BY <1>1, <1>2, <1>5, <1>6, <1>8, <2>1, <2>3, <3>1, <3>3, WaitsOpened
  <2>4. CASE UNCHANGED <<pending, bubbles, follow>>
    BY <1>1, <1>2, <1>5, <1>7, <2>1, <2>4, WaitsDone
  <2> QED
    BY <1>3, <1>14, <2>3, <2>4 DEF HealResponder
<1>15. CASE CheckAck
  <2>1. /\ a.kind = "check" /\ acts' = Tail(acts) /\ UNCHANGED <<bubbles, pending, healing>>
        /\ Push(<<Item("acked", r, a.arg)>>)
    BY <1>3, <1>15 DEF CheckAck, Next1, Done
  <2>2. PICK m \in Arrivals : m = a.arg
    BY <1>4, <2>1, Contents
  <2> DEFINE es == <<Item("acked", r, m)>>
  <2>3. es \in Seq(Follows) /\ ToSet(es) = {Item("acked", r, m)}
    BY PushedItems
  <2>4. Item("acked", r, m).arg = m
    BY DEF Item
  <2>5. Push(es)
    BY <2>1, <2>2
  <2> HIDE DEF es
  <2>6. ToSet(follow') \subseteq ToSet(follow) \cup ToSet(es)
    BY <1>1, <2>3, <2>5, PushTypes
  <2>7. InHand' \subseteq InHand
    <3>1. ASSUME NEW f \in ToSet(follow')
          PROVE  \/ f \in ToSet(follow)
                 \/ \E b \in ToSet(acts) : b.kind = "check" /\ b.arg = f.arg
      BY <1>4, <2>1, <2>2, <2>3, <2>4, <2>6
    <3> QED
      BY <1>4, <1>5, <2>1, <3>1, HandKept
  <2> QED
    BY <1>1, <1>2, <1>5, <2>1, <2>7, WaitsDone
<1>16. CASE Heal
  <2>1. a.kind = "heal" /\ Tail(acts) = <<>>
    BY <1>4, <1>16 DEF Heal, Next1, Plain
  <2>2. follow' = follow /\ UNCHANGED <<bubbles, pending>>
    BY <1>16 DEF Heal
  <2>3. \A p \in Peers : pending'[p] \in {pending[p], <<>>}
    BY <2>2
  <2>4. \A p \in Peers : healing'[p] \in {healing[p], None}
    <3>1. healing' = healing \/ healing' = [healing EXCEPT ![r] = None]
      BY <1>1, <1>3, <1>16, HealFacts
    <3> QED
      BY <1>1, <3>1 DEF CoreOK
\* What takes the place of the heal.
  <2>5. ASSUME NEW b \in Actions, acts' = <<b>> \o Tail(acts), b.kind \in {"reinit", "rejoin"},
               b.kind = "rejoin" =>
                  /\ b.arg.id \in Taken
                  /\ b.peer \in Peers /\ First(b.arg, pending[b.peer])
        PROVE  Waits' /\ Taken' \subseteq Taken /\ InHand' \subseteq InHand
    <3>1. <<b>> \in Seq(Actions) /\ ToSet(<<b>>) = {b}
      BY Batches
    <3>2. <<b>> \o <<>> = <<b>>
      BY <3>1, ConcatEmptySeq
    <3>3. ToSet(acts') = {b}
      BY <2>1, <2>5, <3>1, <3>2
    <3>4. DistinctOf("show", acts') /\ Ids("show", acts') = {}
      BY <2>5, <3>3, NothingShown
    <3>5. Ids("rejoin", acts') \subseteq Taken
      BY <2>5, <3>3 DEF Ids
    <3>6. Waits' /\ Taken' \subseteq Taken
      BY <1>1, <2>2, <2>3, <2>4, <2>5, <3>3, <3>4, <3>5, WaitsKept
    <3>7. InHand' \subseteq InHand
      BY <1>5, <2>2, <2>5, <3>3, HandKept
    <3> QED
      BY <3>6, <3>7
  <2>6. CASE acts' = <<>> \o Tail(acts)
    <3>1. acts' = <<>>
      BY <2>1, <2>6, EmptySeq, ConcatEmptySeq
    <3>2. ToSet(acts') = {} /\ Ids("rejoin", acts') = {}
      BY <3>1, Batches, HoldsIds
    <3>3. DistinctOf("show", acts') /\ Ids("show", acts') = {}
      BY <3>2, NothingShown
    <3>4. Waits' /\ Taken' \subseteq Taken
      BY <1>1, <2>2, <2>3, <2>4, <3>2, <3>3, WaitsKept
    <3>5. InHand' \subseteq InHand
      BY <1>5, <2>2, <3>2, HandKept
    <3> QED
      BY <1>5, <3>4, <3>5
  <2>7. CASE Act("reinit", r) \in Actions /\ acts' = <<Act("reinit", r)>> \o Tail(acts)
    <3> DEFINE b == Act("reinit", r)
    <3>1. b.kind = "reinit"
      BY NewActions
    <3> HIDE DEF b
    <3>2. b \in Actions /\ acts' = <<b>> \o Tail(acts)
      BY <2>7 DEF b
    <3> QED
      BY <1>5, <2>5, <3>1, <3>2
  <2>8. CASE /\ healing[r] \in Arrivals /\ Item("rejoin", r, healing[r]) \in Actions
             /\ acts' = <<Item("rejoin", r, healing[r])>> \o Tail(acts)
    <3> DEFINE b == Item("rejoin", r, healing[r])
    <3>1. b.kind = "rejoin" /\ b.peer = r /\ b.arg = healing[r]
      BY NewActions
    <3> HIDE DEF b
    <3>2. b \in Actions /\ acts' = <<b>> \o Tail(acts)
      BY <2>8 DEF b
    <3>3. b.arg.id \in Taken
      <4>1. healing[r] # None
        BY <2>8, ActorAssumption
      <4> QED
        BY <3>1, <4>1, TakenIs
    <3>4. First(b.arg, pending[b.peer])
      BY <3>1 DEF Waits, HealsFirst
    <3> QED
      BY <1>5, <2>5, <3>1, <3>2, <3>3, <3>4
  <2> QED
    BY <1>1, <1>3, <1>16, <2>6, <2>7, <2>8, HealFacts
<1>17. CASE Terminate
  <2>1. a.kind = "terminate" /\ Tail(acts) = <<>>
    BY <1>4, <1>17 DEF Terminate, Next1, Plain
  <2>2. UNCHANGED <<follow, bubbles, pending, healing>>
    BY <1>17 DEF Terminate
  <2>3. CASE acts' = <<Act("unrow", r)>> \o Tail(acts)
    <3> DEFINE b == Act("unrow", r)
    <3>1. b \in Actions /\ b.kind = "unrow"
      BY NewActions
    <3> HIDE DEF b
    <3>2. acts' = <<b>> \o Tail(acts)
      BY <2>3 DEF b
    <3>3. <<b>> \in Seq(Actions) /\ ToSet(<<b>>) = {b}
      BY <3>1, Batches
    <3>4. <<b>> \o <<>> = <<b>>
      BY <3>3, ConcatEmptySeq
    <3>5. ToSet(acts') = {b}
      BY <2>1, <3>2, <3>3, <3>4
    <3>6. DistinctOf("show", acts') /\ Ids("show", acts') = {} /\ Ids("rejoin", acts') = {}
      <4> DEFINE kinds == {"unrow"}
      <4>1. (\A c \in ToSet(acts') : c.kind \in kinds)
            /\ "show" \notin kinds /\ "rejoin" \notin kinds
        BY <3>1, <3>5
      <4> HIDE DEF kinds
      <4> QED
        BY <4>1, NothingShown
    <3>7. \A p \in Peers : pending'[p] \in {pending[p], <<>>} /\ healing'[p] \in {healing[p], None}
      BY <2>2
    <3>8. Waits' /\ Taken' \subseteq Taken
      BY <1>1, <2>2, <3>1, <3>5, <3>6, <3>7, WaitsKept
    <3>9. InHand' \subseteq InHand
      BY <1>5, <2>2, <3>1, <3>5, HandKept
    <3> QED
      BY <1>5, <3>8, <3>9
  <2>4. CASE acts' = Tail(acts)
    BY <1>1, <1>2, <1>5, <1>7, <2>2, <2>4, WaitsDone
  <2> QED
    BY <1>3, <1>17, <2>3, <2>4 DEF Terminate, Done
<1>18. CASE Load
  <2>1. PICK row \in Sessions \cup {None} : row = rows[r]
    BY <1>1 DEF Typed, DiskOK
  <2>2. /\ acts' = Tail(acts) /\ UNCHANGED <<bubbles, pending, healing>>
        /\ Push(<<Item("loaded", r, row)>>)
    BY <1>3, <1>18, <2>1 DEF Load, Done
  <2> DEFINE es == <<Item("loaded", r, row)>>
  <2>3. es \in Seq(Follows) /\ ToSet(es) = {Item("loaded", r, row)}
    BY PushedItems
  <2>4. Item("loaded", r, row).kind = "loaded"
    BY DEF Item
  <2>5. Push(es)
    BY <2>2
  <2> HIDE DEF es
  <2>6. InHand' \subseteq InHand
    BY <1>6, <2>2, <2>3, <2>4, <2>5
  <2> QED
    BY <1>1, <1>2, <1>5, <2>2, <2>6, WaitsDone
<1> QED
  BY <1>9, <1>10, <1>11, <1>12, <1>13, <1>14, <1>15, <1>16, <1>17, <1>18 DEF Dispatch

\* What may be in hand after a cycle has begun.
LEMMA HandAfter ==
    ASSUME NEW H, \A s \in ToSet(plan') : s.event.kind = "received" => s.event.arg.id \in H,
           \A a \in ToSet(acts') : a.kind = "check" => a.arg.id \in H,
           \A f \in ToSet(follow') : f.kind = "acked" => f.arg.id \in H
    PROVE  InHand' \subseteq H
<1> SUFFICES ASSUME NEW n \in InHand' PROVE n \in H
  OBVIOUS
<1>1. n \in Ids("check", acts') => n \in H
  BY HoldsIds
<1>2. n \in Ids("acked", follow') => n \in H
  BY HoldsIds
<1> QED
  BY <1>1, <1>2, InHandIs

\* A message in hand is not taken yet.
LEMMA NotTaken ==
    ASSUME InTurn, NEW m \in Arrivals, m.id \in InHand
    PROVE  m.id \notin Taken
<1>1. m.id \in 1..MaxIn /\ MaxIn \in Nat
  BY ActorAssumption DEF Arrivals
<1>2. ~(m.id < m.id)
  BY <1>1
<1> QED
  BY <1>2 DEF InTurn, Ahead

LEMMA CoreWaits ==
    ASSUME Inv, Waits, InTurn, StartCycle \/ FollowUp
    PROVE  /\ Waits' /\ InHand' \subseteq InHand /\ Taken' \subseteq Taken \cup InHand
           /\ InHand' = {} \/ Taken' \subseteq Taken
           /\ UNCHANGED <<cmds, arrived>>
<1> USE DEF queues, cycle, core, tasks, disk, notices, counts
<1>1. CoreOK /\ RestOK /\ CycleOK /\ Linked /\ Typed /\ PlanShape(plan)
  BY DEF Inv, Typed, Orderly
<1>2. UNCHANGED <<cmds, arrived>> /\ bubbles' = bubbles
  BY DEF StartCycle, FollowUp
<1>3. ToSet(<<>>) = {}
  BY Batches
\* The message in hand is decrypted, queued or dropped.
<1>4. ASSUME NEW p \in Peers, NEW m \in Arrivals, m.id \in InHand, Incoming(p, m),
             acts = <<>>, plan' = <<>>, follow' = <<>>
      PROVE  /\ Waits' /\ InHand' = {} /\ Taken' \subseteq Taken \cup InHand
  <2>1. m.id \notin Taken
    BY <1>4, NotTaken
  <2>2. /\ Waits' /\ Taken' \subseteq Taken \cup {m.id}
        /\ \A a \in ToSet(acts') : a.kind # "check"
    BY <1>1, <1>2, <1>4, <2>1, WaitsIncoming
  <2>3. InHand' \subseteq {}
    BY <1>3, <1>4, <2>2, HandAfter
  <2> QED
    BY <1>4, <2>2, <2>3
<1>5. CASE StartCycle
  <2>1. /\ plan # <<>> /\ acts = <<>> /\ follow = <<>>
        /\ Head(plan).event \in Handled \cup Follows
        /\ Head(plan).event.kind \notin {"inited", "acked"}
        /\ CoreHandles(Head(plan).event) /\ Head(plan).event.peer \in Peers
    BY <1>1, <1>5, CycleEvents
  <2>2. PICK e \in Handled \cup Follows : e = Head(plan).event
    BY <2>1
  <2>3. /\ plan' = Tail(plan) /\ follow' = <<>>
        /\ e.kind \notin {"inited", "acked"} /\ CoreHandles(e) /\ e.peer \in Peers
    BY <1>5, <2>1, <2>2 DEF StartCycle
  <2>4. ToSet(plan) = {Head(plan)} \cup ToSet(Tail(plan))
    BY <1>1, <2>1, ToSetFacts DEF CycleOK
  <2>5. CASE e.kind = "received"
    <3>1. PICK m \in Arrivals : m = e.arg
      BY <2>5, Contents
    <3>2. m.id \in InHand
      BY <2>2, <2>4, <2>5, <3>1, InHandIs
    <3>3. plan' = <<>>
      <4>1. /\ plan \in Seq(Steps) /\ Len(plan) \in Nat /\ Len(plan) > 0
            /\ DOMAIN plan = 1..Len(plan) /\ Head(plan) = plan[1]
            /\ Tail(plan) \in Seq(Steps) /\ Len(Tail(plan)) = Len(plan) - 1
        BY <1>1, <2>1, PlanHead
      <4>2. Len(plan) = 1
        BY <1>1, <2>2, <2>5, <4>1 DEF PlanShape
      <4> QED
        BY <2>3, <4>1, <4>2, EmptySeq
    <3>4. CASE Incoming(e.peer, m)
      BY <1>2, <1>4, <2>1, <2>3, <3>2, <3>3, <3>4
    <3>5. CASE Ask(<<Item("check", e.peer, m)>>) /\ UNCHANGED core
      <4> DEFINE a == Item("check", e.peer, m)
      <4>1. a \in Actions /\ a.kind = "check" /\ a.arg = m
        BY <2>3, NewActions
      <4>2. acts' = <<a>>
        BY <3>5 DEF Ask
      <4> HIDE DEF a
      <4>3. ToSet(acts') = {a}
        BY <4>1, <4>2, Batches
      <4>4. Waits' /\ Taken' \subseteq Taken
        BY <1>1, <1>2, <3>5, <4>1, <4>3, WaitsQuiet
      <4>5. InHand' \subseteq InHand
        BY <1>3, <2>3, <3>2, <3>3, <4>1, <4>3, HandAfter
      <4> QED
        BY <1>2, <4>4, <4>5
    <3> QED
      BY <2>3, <2>5, <3>1, <3>4, <3>5 DEF CoreHandles
  <2>6. CASE e.kind # "received"
    <3>1. /\ UNCHANGED <<pending, healing>>
          /\ \A a \in ToSet(acts') : a.kind \notin {"show", "rejoin", "check"}
      BY <1>1, <2>3, <2>6, WaitsOther
    <3>2. Waits' /\ Taken' \subseteq Taken
      BY <1>1, <1>2, <3>1, WaitsQuiet
    <3>3. ASSUME NEW s \in ToSet(plan'), s.event.kind = "received"
          PROVE  s.event.arg.id \in InHand
      BY <2>3, <2>4, <3>3, InHandIs
    <3>4. InHand' \subseteq InHand
      BY <1>3, <2>3, <3>1, <3>3, HandAfter
    <3> QED
      BY <1>2, <3>2, <3>4
  <2> QED
    BY <2>5, <2>6
<1>6. CASE FollowUp
  <2>1. /\ follow # <<>> /\ acts = <<>> /\ Head(follow) \in ToSet(follow)
        /\ Head(follow) \in Handled \cup Follows /\ Head(follow).peer \in Peers
        /\ Head(follow).kind \in {"inited", "acked", "out", "loaded"}
        /\ FollowOK(Head(follow)) /\ CoreHandles(Head(follow))
    BY <1>1, <1>6, CycleEvents
  <2>2. PICK e \in Handled \cup Follows : e = Head(follow)
    BY <2>1
  <2>3. /\ plan' = plan /\ follow' = Tail(follow) /\ follow \in Seq(Follows)
        /\ e \in ToSet(follow) /\ e.peer \in Peers
        /\ e.kind \in {"inited", "acked", "out", "loaded"}
        /\ FollowOK(e) /\ CoreHandles(e)
    BY <1>1, <1>6, <2>1, <2>2 DEF FollowUp, CycleOK
  <2>4. ToSet(follow) = {e} \cup ToSet(follow')
    BY <2>1, <2>2, <2>3, ToSetFacts
  <2>5. CASE e.kind = "acked"
    <3>1. PICK m \in Arrivals : m = e.arg
      BY <2>5, Contents
    <3>2. m.id \in InHand
      <4>1. m.id \in Ids("acked", follow)
        BY <2>3, <2>5, <3>1, HoldsIds
      <4> QED
        BY <4>1, InHandIs
    <3>3. plan' = <<>> /\ Len(follow) = 1
      BY <2>3, <2>5 DEF FollowOK
    <3>4. follow' = <<>>
      <4>1. Tail(follow) \in Seq(Follows) /\ Len(Tail(follow)) = Len(follow) - 1
        BY <2>1, <2>3, QueueTypes
      <4> QED
        BY <2>3, <3>3, <4>1, EmptySeq
    <3>5. Incoming(e.peer, m)
      BY <2>3, <2>5, <3>1 DEF CoreHandles
    <3> QED
      BY <1>2, <1>4, <2>1, <2>3, <3>2, <3>3, <3>4, <3>5
  <2>6. ASSUME \A a \in ToSet(acts') : a.kind # "check" PROVE InHand' \subseteq InHand
    BY <2>3, <2>4, <2>6, HandKept
  <2>7. CASE e.kind = "inited"
    <3>1. Drain(e.peer)
      BY <2>3, <2>7 DEF CoreHandles
    <3>2. /\ Waits' /\ Taken' \subseteq Taken
          /\ \A a \in ToSet(acts') : a.kind # "check"
      BY <1>1, <1>2, <2>1, <2>3, <3>1, WaitsDrain
    <3> QED
      BY <1>2, <2>6, <3>2
  <2>8. CASE e.kind \in {"out", "loaded"}
    <3>1. /\ UNCHANGED <<pending, healing>>
          /\ \A a \in ToSet(acts') : a.kind \notin {"show", "rejoin", "check"}
      BY <1>1, <2>3, <2>8, WaitsOther
    <3>2. Waits' /\ Taken' \subseteq Taken
      BY <1>1, <1>2, <3>1, WaitsQuiet
    <3> QED
      BY <1>2, <2>6, <3>1, <3>2
  <2> QED
    BY <2>3, <2>5, <2>7, <2>8
<1> QED
  BY <1>5, <1>6

\* The steps of a handler outside its cycles take up no message.
LEMMA PlanWaits ==
    ASSUME Inv, Waits, NextEvent \/ Establish \/ Established \/ Forget
    PROVE  /\ Waits' /\ Taken' \subseteq Taken /\ InHand' \subseteq InHand
           /\ UNCHANGED <<cmds, arrived>>
<1> USE DEF queues, cycle, core, tasks, disk, notices, counts
<1>1. CoreOK /\ RestOK /\ CycleOK /\ Typed
  BY DEF Inv, Typed
<1>2. UNCHANGED <<cmds, arrived, acts, follow, bubbles>> /\ acts = <<>>
  BY DEF NextEvent, Establish, Established, Forget, Idle, Doing, Between, Upset
<1>3. ToSet(<<>>) = {} /\ ToSet(acts') = {}
  BY <1>2, Batches
\* No step of the new plan takes up a message.
<1>4. ASSUME \A s \in ToSet(plan') : s.event.kind = "received" => s \in ToSet(plan)
      PROVE  InHand' \subseteq InHand
  <2>1. ASSUME NEW s \in ToSet(plan'), s.event.kind = "received"
        PROVE  s.event.arg.id \in InHand
    BY <1>4, <2>1, InHandIs
  <2>2. ASSUME NEW f \in ToSet(follow'), f.kind = "acked"
        PROVE  f.arg.id \in InHand
    <3>1. f.arg.id \in Ids("acked", follow)
      BY <1>2, <2>2, HoldsIds
    <3> QED
      BY <3>1, InHandIs
  <2> QED
    BY <1>3, <2>1, <2>2, HandAfter
<1>5. UNCHANGED <<pending, healing>> => Waits' /\ Taken' \subseteq Taken
  BY <1>1, <1>2, <1>3, WaitsQuiet
<1>6. CASE NextEvent
  <2>1. PICK e \in Events : e = Head(events)
    BY <1>1, <1>6, QueueTypes DEF NextEvent, RestOK
  <2>2. plan' = Prepared(e) /\ UNCHANGED <<pending, healing>>
    BY <1>6, <2>1 DEF NextEvent
  <2>3. /\ e.kind # "received" /\ e \in Handled /\ e.peer \in Peers
        /\ Act("bundle", e.peer) \in Handled /\ Act("bundle", e.peer).kind = "bundle"
    <3>1. e \in Handled /\ e.kind # "received"
      BY Inclusions DEF Events, Items
    <3>2. e.peer \in Peers
      BY <3>1, Contents
    <3> QED
      BY <3>1, <3>2, NewEvents, NewActions, Inclusions
  <2> DEFINE q == Prepared(e)
  <2>4. \A s \in ToSet(q) : s.event.kind # "received"
    <3>1. CASE q = <<Cycle(e, TRUE)>>
      <4> DEFINE s == Cycle(e, TRUE)
      <4>1. s \in Steps /\ s.event = e
        BY <2>3, NewSteps
      <4> HIDE DEF s
      <4>2. DOMAIN <<s>> = {1} /\ <<s>>[1] = s
        BY <4>1, OneStep
      <4>3. ToSet(<<s>>) = {s}
        BY <4>2 DEF ToSet
      <4> QED
        BY <2>3, <3>1, <4>1, <4>3 DEF s
    <3>2. CASE /\ e \in Opening /\ DOMAIN q = 1..4 /\ q[1] = Todo("fetch", e)
               /\ q[2] = Cycle(Act("bundle", e.peer), TRUE)
               /\ q[3] \in {Todo("ping", e), Todo("require", e)} /\ q[4] = Cycle(e, TRUE)
      <4>1. /\ Todo("fetch", e).event = e /\ Todo("ping", e).event = e
            /\ Todo("require", e).event = e /\ Cycle(e, TRUE).event = e
            /\ Cycle(Act("bundle", e.peer), TRUE).event = Act("bundle", e.peer)
        BY <2>3, <3>2, NewSteps
      <4>2. q[1].event = e /\ q[2].event = Act("bundle", e.peer) /\ q[3].event = e
            /\ q[4].event = e
        BY <3>2, <4>1
      <4>3. \A i \in DOMAIN q : i \in {1, 2, 3, 4}
        BY <3>2
      <4> HIDE DEF q
      <4> QED
        BY <2>3, <4>2, <4>3 DEF ToSet
    <3> QED
      BY <3>1, <3>2, PreparedFacts
  <2> QED
    BY <1>2, <1>4, <1>5, <2>2, <2>4
<1>7. CASE Establish \/ Established
  <2>1. /\ plan # <<>> /\ UNCHANGED <<pending, healing>>
        /\ Head(plan).event \in Opening /\ Head(plan).event.peer \in Peers
    BY <1>1, <1>7, PlanHead, StepContents DEF Establish, Established, Doing, Between
  <2>2. PICK e \in Opening : e = Head(plan).event
    BY <2>1
  <2>3. e \in Handled /\ e.kind # "received" /\ e.peer \in Peers
    BY <2>1, <2>2, Inclusions DEF Opening, Items
  <2>4. ToSet(plan) = {Head(plan)} \cup ToSet(Tail(plan)) /\ Tail(plan) \in Seq(Steps)
    BY <1>1, <2>1, ToSetFacts, PlanHead DEF CycleOK
  <2>5. ASSUME NEW d \in Handled, d.kind # "received", NEW b \in BOOLEAN, NEW q \in Seq(Steps),
               ToSet(q) \subseteq ToSet(plan), plan' = <<Cycle(d, b)>> \o q
        PROVE  InHand' \subseteq InHand
    <3> DEFINE s == Cycle(d, b)
    <3>1. s \in Steps /\ s.event = d
      BY NewSteps
    <3> HIDE DEF s
    <3>2. ToSet(plan') = ToSet(q) \cup {s}
      BY <2>5, <3>1, ConsFacts DEF s
    <3> QED
      BY <1>4, <2>5, <3>1, <3>2
  <2>6. CASE WithoutSession(e)
    <3>1. CASE plan' = <<Cycle(e, TRUE)>>
      <4> DEFINE s == Cycle(e, TRUE)
      <4>1. <<>> \in Seq(Steps)
        BY EmptySeq
      <4> HIDE DEF s
      <4>2. <<s>> \o <<>> = <<s>>
        <5>1. s \in Steps
          BY <2>3, NewSteps DEF s
        <5> QED
          BY <5>1, OneStep, ConcatEmptySeq
      <4>3. plan' = <<Cycle(e, TRUE)>> \o <<>>
        BY <3>1, <4>2 DEF s
      <4> QED
        BY <1>2, <1>3, <1>5, <2>1, <2>3, <2>5, <4>1, <4>3
    <3>2. CASE plan' = <<>>
      BY <1>2, <1>3, <1>4, <1>5, <2>1, <3>2
    <3> QED
      BY <2>6, <3>1, <3>2 DEF WithoutSession
  <2>7. CASE plan' = Tail(plan)
    BY <1>2, <1>4, <1>5, <2>1, <2>4, <2>7
  <2>8. CASE plan' = <<Cycle(Ping(e.peer), FALSE)>> \o Tail(plan)
    <3>1. Ping(e.peer) \in Handled /\ Ping(e.peer).kind = "out"
      BY <2>3, NewEvents, Inclusions
    <3> QED
      BY <1>2, <1>5, <2>1, <2>4, <2>5, <2>8, <3>1
  <2> QED
    BY <1>7, <2>2, <2>6, <2>7, <2>8 DEF Establish, Established
<1>8. CASE Forget
  <2>1. plan # <<>> /\ plan' = Tail(plan) /\ Head(plan).event.peer \in Peers
    BY <1>1, <1>8, PlanHead, StepContents DEF Forget, Doing, Between
  <2>2. PICK p \in Peers : p = Head(plan).event.peer
    BY <2>1
  <2>3. /\ pending' = [pending EXCEPT ![p] = <<>>]
        /\ healing' = [healing EXCEPT ![p] = None]
    BY <1>8, <2>2 DEF Forget
  <2>4. /\ \A q \in Peers : pending'[q] \in {pending[q], <<>>}
        /\ \A q \in Peers : healing'[q] \in {healing[q], None}
    BY <1>1, <2>3 DEF CoreOK
  <2>5. /\ DistinctOf("show", acts') /\ Ids("show", acts') = {} /\ Ids("rejoin", acts') = {}
    BY <1>2, HoldsIds, EmptySeq DEF DistinctOf
  <2>6. Waits' /\ Taken' \subseteq Taken
    BY <1>1, <1>2, <1>3, <2>4, <2>5, WaitsKept
  <2>7. ToSet(plan') \subseteq ToSet(plan)
    BY <1>1, <2>1, ToSetFacts DEF CycleOK
  <2> QED
    BY <1>2, <1>4, <2>6, <2>7
<1> QED
  BY <1>6, <1>7, <1>8

\* Nothing of what has come is overtaken.
LEMMA TurnKept ==
    ASSUME InTurn, UNCHANGED <<cmds, arrived>>, InHand' \subseteq InHand,
           Taken' \subseteq Taken \cup InHand, InHand' = {} \/ Taken' \subseteq Taken
    PROVE  InTurn'
<1>1. Ids("received", cmds') = Ids("received", cmds)
  OBVIOUS
<1>2. Ahead(Taken', InHand' \cup Ids("received", cmds'))
  BY <1>1 DEF InTurn, Ahead
<1>3. Ahead(InHand', Ids("received", cmds')) /\ Ascending(cmds')
  BY <1>1 DEF InTurn, Ahead
<1>4. \A n \in Taken' \cup InHand' \cup Ids("received", cmds') : n \in 1..arrived'
  BY <1>1 DEF InTurn
<1> QED
  BY <1>2, <1>3, <1>4 DEF InTurn

LEMMA CommandAppended ==
    ASSUME cmds \in Seq(Commands), Ascending(cmds), NEW x \in Commands,
           x.kind = "received" => \A n \in Ids("received", cmds) : n < x.arg.id
    PROVE  /\ Ascending(Append(cmds, x))
           /\ \A n \in Ids("received", Append(cmds, x)) :
                 n \in Ids("received", cmds) \/ (x.kind = "received" /\ n = x.arg.id)
<1> DEFINE r == Append(cmds, x)
<1>1. /\ Len(cmds) \in Nat /\ DOMAIN cmds = 1..Len(cmds) /\ DOMAIN r = 1..(Len(cmds) + 1)
      /\ \A i \in 1..Len(cmds) : r[i] = cmds[i]
      /\ r[Len(cmds) + 1] = x
  BY QueueTypes
<1>2. ToSet(r) = ToSet(cmds) \cup {x}
  BY ToSetFacts
<1> HIDE DEF r
<1>3. ASSUME NEW i \in DOMAIN r, NEW j \in DOMAIN r, i < j, r[i].kind = "received",
             r[j].kind = "received"
      PROVE  r[i].arg.id < r[j].arg.id
  <2>1. i \in DOMAIN cmds /\ r[i] = cmds[i]
    BY <1>1, <1>3
  <2>2. CASE j \in DOMAIN cmds
    BY <1>1, <1>3, <2>1, <2>2 DEF Ascending
  <2>3. CASE j = Len(cmds) + 1
    <3>1. cmds[i].arg.id \in Ids("received", cmds)
      BY <1>3, <2>1 DEF Ids, ToSet
    <3> QED
      BY <1>1, <1>3, <2>1, <2>3, <3>1
  <2> QED
    BY <1>1, <2>2, <2>3
<1>4. \A n \in Ids("received", r) :
         n \in Ids("received", cmds) \/ (x.kind = "received" /\ n = x.arg.id)
  BY <1>2 DEF Ids
<1> QED
  BY <1>3, <1>4 DEF Ascending, r

LEMMA CommandTaken ==
    ASSUME cmds \in Seq(Commands), Ascending(cmds), cmds # <<>>
    PROVE  /\ Ascending(Tail(cmds))
           /\ Ids("received", Tail(cmds)) \subseteq Ids("received", cmds)
           /\ Head(cmds).kind = "received" =>
                 /\ Head(cmds).arg.id \in Ids("received", cmds)
                 /\ \A n \in Ids("received", Tail(cmds)) : Head(cmds).arg.id < n
<1> DEFINE t == Tail(cmds)
<1>1. /\ Len(cmds) \in Nat /\ Len(cmds) > 0 /\ DOMAIN cmds = 1..Len(cmds)
      /\ DOMAIN t = 1..(Len(cmds) - 1) /\ Head(cmds) = cmds[1]
      /\ \A i \in 1..(Len(cmds) - 1) : t[i] = cmds[i + 1]
  BY QueueTypes
<1>2. ToSet(cmds) = {Head(cmds)} \cup ToSet(t)
  BY ToSetFacts
<1> HIDE DEF t
<1>3. \A i \in DOMAIN t : i + 1 \in DOMAIN cmds /\ t[i] = cmds[i + 1] /\ 1 < i + 1 /\ i \in Nat
  BY <1>1
<1>4. Ascending(t)
  <2> SUFFICES ASSUME NEW i \in DOMAIN t, NEW j \in DOMAIN t, i < j, t[i].kind = "received",
                      t[j].kind = "received"
               PROVE  t[i].arg.id < t[j].arg.id
    BY DEF Ascending
  <2>1. i + 1 < j + 1
    BY <1>3
  <2> QED
    BY <1>3, <2>1 DEF Ascending
<1>5. Ids("received", t) \subseteq Ids("received", cmds)
  BY <1>2 DEF Ids
<1>6. ASSUME Head(cmds).kind = "received"
      PROVE  /\ Head(cmds).arg.id \in Ids("received", cmds)
             /\ \A n \in Ids("received", t) : Head(cmds).arg.id < n
  <2>1. ASSUME NEW n \in Ids("received", t) PROVE Head(cmds).arg.id < n
    <3>1. PICK i \in DOMAIN t : t[i].kind = "received" /\ n = t[i].arg.id
      BY DEF Ids, ToSet
    <3> QED
      BY <1>1, <1>3, <1>6, <3>1 DEF Ascending
  <2> QED
    BY <1>2, <1>6, <2>1 DEF Ids
<1> QED
  BY <1>4, <1>5, <1>6 DEF t

\* The next message is taken up after all those before it.
LEMMA CommandOnce ==
    ASSUME Inv, Waits, InTurn, NextCommand
    PROVE  Waits' /\ InTurn'
<1> USE DEF queues, cycle, core, tasks, disk, notices, counts
<1>1. CoreOK /\ RestOK /\ cmds \in Seq(Commands) /\ cmds # <<>> /\ cmds' = Tail(cmds)
  BY DEF Inv, Typed, RestOK, NextCommand
<1>2. PICK c \in Commands : c = Head(cmds)
  BY <1>1, QueueTypes
<1>3. /\ acts = <<>> /\ UNCHANGED <<acts, follow, bubbles, pending, healing, arrived>>
      /\ follow = <<>>
      /\ plan' = IF c.kind = "forget"
                 THEN <<Cycle(Act("away", c.peer), FALSE), Todo("forget", c)>>
                 ELSE <<Cycle(c, TRUE)>>
  BY <1>2 DEF NextCommand, Idle
<1>4. ToSet(<<>>) = {}
  BY Batches
<1>5. Waits' /\ Taken' \subseteq Taken
  BY <1>1, <1>3, <1>4, WaitsQuiet
<1>6. /\ Ascending(cmds') /\ Ids("received", cmds') \subseteq Ids("received", cmds)
      /\ c.kind = "received" => /\ c.arg.id \in Ids("received", cmds)
                                /\ \A n \in Ids("received", cmds') : c.arg.id < n
  BY <1>1, <1>2, CommandTaken DEF InTurn
<1>7. /\ InHand' \subseteq Ids("received", cmds)
      /\ Ahead(InHand', Ids("received", cmds'))
  <2>1. CASE c.kind = "forget"
    <3> DEFINE x == Cycle(Act("away", c.peer), FALSE)
               y == Todo("forget", c)
    <3>1. x \in Steps /\ x.event = Act("away", c.peer) /\ y \in Steps /\ y.event = c
      <4>1. Act("away", c.peer) \in Handled /\ c \in Items({"forget"}, {None})
        BY <2>1, Contents, NewEvents, Inclusions
      <4> QED
        BY <4>1, NewSteps
    <3>2. Act("away", c.peer).kind = "away"
      BY DEF Act, Item
    <3> DEFINE q == <<x, y>>
    <3> HIDE DEF x, y
    <3>3. DOMAIN q = {1, 2} /\ q[1] = x /\ q[2] = y
      BY <3>1, TwoSteps
    <3> HIDE DEF q
    <3>4. \A s \in ToSet(q) : s.event.kind # "received"
      BY <2>1, <3>1, <3>2, <3>3 DEF ToSet
    <3>5. plan' = q
      BY <1>3, <2>1 DEF q, x, y
    <3>6. InHand' \subseteq {}
      BY <1>3, <1>4, <3>4, <3>5, HandAfter
    <3> QED
      BY <3>6 DEF Ahead
  <2>2. CASE c.kind = "received"
    <3> DEFINE s == Cycle(c, TRUE)
               H == {c.arg.id}
    <3>1. s \in Steps /\ s.event = c
      BY <2>2, Inclusions, NewSteps
    <3>2. plan' = <<s>>
      BY <1>3, <2>2
    <3> HIDE DEF s
    <3>3. DOMAIN <<s>> = {1} /\ <<s>>[1] = s
      BY <3>1, OneStep
    <3>4. ToSet(<<s>>) = {s}
      BY <3>3 DEF ToSet
    <3>5. \A x \in ToSet(plan') : x.event.kind = "received" => x.event.arg.id \in H
      BY <3>1, <3>2, <3>4
    <3> HIDE DEF H
    <3>6. InHand' \subseteq H
      BY <1>3, <1>4, <3>5, HandAfter
    <3> QED
      BY <1>6, <2>2, <3>6 DEF H, Ahead
  <2> QED
    BY <2>1, <2>2, Contents
<1>8. Ahead(Taken', InHand' \cup Ids("received", cmds'))
  BY <1>5, <1>6, <1>7 DEF InTurn, Ahead
<1>9. \A n \in Taken' \cup InHand' \cup Ids("received", cmds') : n \in 1..arrived'
  BY <1>3, <1>5, <1>6, <1>7 DEF InTurn
<1> QED
  BY <1>5, <1>6, <1>7, <1>8, <1>9 DEF InTurn

\* What reaches the actor from outside, and what only stutters.
LEMMA QuietWaits ==
    ASSUME UNCHANGED <<plan, acts, follow, pending, healing, bubbles>>
    PROVE  (Waits => Waits') /\ Taken' = Taken /\ InHand' = InHand
BY DEF Waits, SurfacedOnce, Apart, HealsFirst, Taken, Kept, InHand

LEMMA InputsOnce ==
    ASSUME Inv, Waits, InTurn,
           \/ \E p \in Peers : \E body \in Bodies : Arrive(p, body)
           \/ \E p \in Peers : Move(p) \/ Fetched(p) \/ RetryDue(p)
           \/ \E p \in Peers : \E t \in Texts : Submit(p, t)
           \/ UNCHANGED vars
    PROVE  Waits' /\ InTurn'
<1> USE DEF queues, cycle, core, tasks, disk, notices, counts
<1>1. cmds \in Seq(Commands) /\ arrived \in 0..MaxIn /\ MaxIn \in Nat /\ Ascending(cmds)
  BY ActorAssumption DEF Inv, Typed, RestOK, InTurn
<1>2. UNCHANGED <<plan, acts, follow, pending, healing, bubbles>>
  BY DEF Arrive, Move, Fetched, RetryDue, Submit, vars
<1>3. Waits' /\ Taken' = Taken /\ InHand' = InHand
  BY <1>2, QuietWaits
<1>4. ASSUME NEW p \in Peers, NEW body \in Bodies, Arrive(p, body) PROVE InTurn'
  <2> DEFINE m == [id |-> arrived + 1, body |-> body]
             x == Item("received", p, m)
  <2>1. arrived' = arrived + 1 /\ arrived + 1 \in 1..MaxIn /\ cmds' = Append(cmds, x)
    BY <1>1, <1>4 DEF Arrive
  <2>2. m \in Arrivals /\ m.id = arrived + 1
    BY <2>1 DEF Arrivals
  <2> HIDE DEF m
  <2>3. x \in Commands /\ x.kind = "received" /\ x.arg = m
    BY <2>2, NewEvents, NewActions
  <2> HIDE DEF x
  <2>4. \A n \in 1..arrived : n < arrived + 1 /\ n \in 1..(arrived + 1)
    BY <1>1
  <2>5. \A n \in Ids("received", cmds) : n < x.arg.id
    BY <2>2, <2>3, <2>4 DEF InTurn
  <2>6. /\ Ascending(cmds')
        /\ \A n \in Ids("received", cmds') : n \in Ids("received", cmds) \/ n = arrived + 1
    BY <1>1, <2>1, <2>2, <2>3, <2>5, CommandAppended
  <2>7. Ahead(Taken', InHand' \cup Ids("received", cmds'))
    BY <1>3, <2>4, <2>6 DEF InTurn, Ahead
  <2>8. Ahead(InHand', Ids("received", cmds'))
    BY <1>3, <2>4, <2>6 DEF InTurn, Ahead
  <2>9. arrived + 1 \in 1..(arrived + 1)
    BY <1>1
  <2>10. \A n \in Taken' \cup InHand' \cup Ids("received", cmds') : n \in 1..arrived'
    BY <1>3, <2>1, <2>4, <2>6, <2>9 DEF InTurn
  <2> QED
    BY <2>6, <2>7, <2>8, <2>10 DEF InTurn
<1>5. ASSUME NEW p \in Peers, Move(p), cmds' # cmds PROVE InTurn'
  <2>1. cmds' = Append(cmds, Act("forget", p)) /\ arrived' = arrived
    BY <1>5 DEF Move
  <2>2. Act("forget", p) \in Commands /\ Act("forget", p).kind = "forget"
    BY NewEvents, NewActions
  <2>3. /\ Ascending(cmds')
        /\ \A n \in Ids("received", cmds') : n \in Ids("received", cmds)
    BY <1>1, <2>1, <2>2, CommandAppended
  <2>4. /\ Ahead(Taken', InHand' \cup Ids("received", cmds'))
        /\ Ahead(InHand', Ids("received", cmds'))
    BY <1>3, <2>3 DEF InTurn, Ahead
  <2>5. \A n \in Taken' \cup InHand' \cup Ids("received", cmds') : n \in 1..arrived'
    BY <1>3, <2>1, <2>3 DEF InTurn
  <2> QED
    BY <2>3, <2>4, <2>5 DEF InTurn
<1>6. UNCHANGED <<cmds, arrived>> => InTurn'
  BY <1>3, TurnKept
<1>7. \/ UNCHANGED <<cmds, arrived>>
      \/ \E p \in Peers : \E body \in Bodies : Arrive(p, body)
      \/ \E p \in Peers : Move(p) /\ cmds' # cmds
  BY DEF Move, Fetched, RetryDue, Submit, Upset, vars
<1> QED
  BY <1>3, <1>4, <1>5, <1>6, <1>7

\* What waited is gone with a crash; the server's redelivery is another matter.
LEMMA CrashOnce ==
    ASSUME Inv, Waits, InTurn, Crash
    PROVE  Waits' /\ InTurn'
<1>1. CoreOK
  BY DEF Inv, Typed
<1>2. /\ cmds' = <<>> /\ plan' = <<>> /\ acts' = <<>> /\ follow' = <<>>
      /\ bubbles' = bubbles /\ arrived' = arrived
      /\ \A p \in Peers : pending'[p] = <<>> /\ healing'[p] = None
  BY DEF Crash, Upset, notices
<1>3. ToSet(<<>>) = {}
  BY Batches
<1>4. /\ DistinctOf("show", acts') /\ Ids("show", acts') = {} /\ Ids("rejoin", acts') = {}
      /\ Ids("received", cmds') = {} /\ Ascending(cmds')
  BY <1>2, HoldsIds, EmptySeq DEF DistinctOf, Ascending
<1>5. Waits' /\ Taken' \subseteq Taken
  BY <1>1, <1>2, <1>3, <1>4, WaitsKept
<1>6. InHand' \subseteq {}
  BY <1>2, <1>3, HandAfter
<1>7. /\ Ahead(Taken', InHand' \cup Ids("received", cmds'))
      /\ Ahead(InHand', Ids("received", cmds'))
  BY <1>4, <1>6 DEF Ahead
<1>8. \A n \in Taken' \cup InHand' \cup Ids("received", cmds') : n \in 1..arrived'
  BY <1>2, <1>4, <1>5, <1>6 DEF InTurn
<1> QED
  BY <1>4, <1>5, <1>7, <1>8 DEF InTurn

LEMMA StepOnce == ASSUME Inv, Waits, InTurn, [Next]_vars PROVE Waits' /\ InTurn'
<1>1. CASE NextEvent \/ Establish \/ Established \/ Forget
  <2>1. /\ Waits' /\ Taken' \subseteq Taken /\ InHand' \subseteq InHand
        /\ UNCHANGED <<cmds, arrived>>
    BY <1>1, PlanWaits
  <2> QED
    BY <2>1, TurnKept
<1>2. CASE NextCommand
  BY <1>2, CommandOnce
<1>3. CASE StartCycle \/ FollowUp
  <2>1. /\ Waits' /\ InHand' \subseteq InHand /\ Taken' \subseteq Taken \cup InHand
        /\ InHand' = {} \/ Taken' \subseteq Taken
        /\ UNCHANGED <<cmds, arrived>>
    BY <1>3, CoreWaits
  <2> QED
    BY <2>1, TurnKept
<1>4. CASE Dispatch
  <2>1. /\ Waits' /\ Taken' \subseteq Taken /\ InHand' \subseteq InHand
        /\ UNCHANGED <<cmds, arrived>>
    BY <1>4, DispatchWaits
  <2> QED
    BY <2>1, TurnKept
<1>5. CASE Crash
  BY <1>5, CrashOnce
<1>6. CASE \/ \E p \in Peers : \E body \in Bodies : Arrive(p, body)
           \/ \E p \in Peers : Move(p) \/ Fetched(p) \/ RetryDue(p)
           \/ \E p \in Peers : \E t \in Texts : Submit(p, t)
           \/ UNCHANGED vars
  BY <1>6, InputsOnce
<1> QED
  BY <1>1, <1>2, <1>3, <1>4, <1>5, <1>6 DEF Next, Actor

\* No message is shown twice, on whichever of its ways it comes to be shown: at
\* once, as the first of a session, drained from the core's queue, or as the
\* payload of a heal (orchestrator_task.rs: the InitSession, MessageDecrypted and
\* SessionHealNeeded arms of dispatch).
THEOREM ActorSurfacedOnce == Spec => []SurfacedOnce
<1>1. Init => Waits /\ InTurn
  <2> SUFFICES ASSUME Init PROVE Waits /\ InTurn
    OBVIOUS
  <2>1. /\ ToSet(<<>>) = {} /\ MIds(<<>>) = {} /\ \A kind : Ids(kind, <<>>) = {}
    BY Batches, HoldsIds
  <2>2. /\ cmds = <<>> /\ plan = <<>> /\ acts = <<>> /\ follow = <<>> /\ bubbles = <<>>
        /\ \A p \in Peers : pending[p] = <<>> /\ healing[p] = None
    BY DEF Init
  <2>3. Waits
    BY <2>1, <2>2, EmptySeq DEF Waits, SurfacedOnce, DistinctOf, Distinct, Apart,
       HealsFirst, First
  <2>4. \A n : n \notin Taken
    BY <2>1, <2>2, TakenIs
  <2>5. \A n : n \notin InHand
    BY <2>1, <2>2, InHandIs
  <2>6. Ids("received", cmds) = {} /\ Ascending(cmds)
    BY <2>1, <2>2, EmptySeq DEF Ascending
  <2>7. InTurn
    BY <2>4, <2>5, <2>6 DEF InTurn, Ahead
  <2> QED
    BY <2>3, <2>7
<1>2. Inv /\ (Waits /\ InTurn) /\ [Next]_vars => (Waits /\ InTurn)'
  BY StepOnce
<1>3. Waits /\ InTurn => SurfacedOnce
  BY DEF Waits
<1> QED
  BY <1>1, <1>2, <1>3, SpecInv, PTL DEF Spec
=============================================================================
