----------------------- MODULE SharedConnection_proofs -----------------------
(***************************************************************************)
(* Proofs about SharedConnection, for any number of calls, workers and     *)
(* connections: its types, that no connection is left behind, that a retry *)
(* leaves on another connection than the attempt before it, and that it    *)
(* implements RemoteCall.                                                  *)
(***************************************************************************)
EXTENDS SharedConnection, TLAPS

-----------------------------------------------------------------------------
(* Types *)

\* Only a login that has happened can be logged out of.
LoginsCount == clears + (IF mine = None THEN 0 ELSE 1) <= logins

Typed == TypeOK /\ LoginsCount

LEMMA InitTyped == Init => Typed
BY ConnectionAssumption
   DEF Init, Typed, TypeOK, LoginsCount, Tasks, Steps, Ended, Requests

\* The steps that open a connection, of calls and of workers.
LEMMA StepTyped ==
    ASSUME Typed, NEW t \in Tasks, Step(t)
    PROVE  Typed'
<1> USE DEF Go, Hold, Steps, Ended, network, account
<1>1. CASE Check(t)
  BY <1>1 DEF Check, Typed, TypeOK, LoginsCount
<1>2. CASE Connect(t)
  <2>1. (CHOOSE k \in Conns \ InUse : TRUE) \in Conns
    BY <1>2 DEF Connect
  <2> QED
    BY <1>2, <2>1 DEF Connect, Typed, TypeOK, LoginsCount
<1>3. CASE ConnectFails(t)
  BY <1>3, ConnectionAssumption
     DEF ConnectFails, NextAttempt, Upset, Typed, TypeOK, LoginsCount
<1>4. CASE Store(t)
  BY <1>4 DEF Store, Typed, TypeOK, LoginsCount
<1>5. CASE NotConnected(t)
  BY <1>5 DEF NotConnected, NextAttempt, Typed, TypeOK, LoginsCount
<1> QED
  BY <1>1, <1>2, <1>3, <1>4, <1>5 DEF Step

LEMMA CallTyped ==
    ASSUME Typed, NEW c \in Callers, Call(c) \/ CallStep(c)
    PROVE  Typed'
<1> USE DEF Go, Hold, Steps, Ended, network, account, Tasks
<1>1. CASE Call(c)
  BY <1>1 DEF Call, Typed, TypeOK, LoginsCount
<1>2. CASE Send(c)
  BY <1>2 DEF Send, Request, Requests, Typed, TypeOK, LoginsCount
<1>3. CASE Answered(c)
  <2>1. Request(c) \in Requests
    BY DEF Request, Requests, Typed, TypeOK
  <2> QED
    BY <1>3, <2>1 DEF Answered, Typed, TypeOK, LoginsCount
<1>4. CASE Break(c)
  BY <1>4 DEF Break, Typed, TypeOK, LoginsCount
<1>5. CASE Drop(c)
  BY <1>5 DEF Drop, Clear, GiveUpAttempt, NextAttempt, Typed, TypeOK, LoginsCount
<1>6. CASE Retry(c)
  BY <1>6 DEF Retry, Clear, Typed, TypeOK, LoginsCount
<1> QED
  BY <1>1, <1>2, <1>3, <1>4, <1>5, <1>6 DEF CallStep

LEMMA WorkerTyped ==
    ASSUME Typed, NEW w \in Workers, WorkerStep(w)
    PROVE  Typed'
<1> USE ConnectionAssumption DEF Go, Hold, Steps, Ended, network, account, Tasks
<1>1. CASE Reset(w)
  BY <1>1 DEF Reset, Clear, Typed, TypeOK, LoginsCount
<1>2. CASE OpenStream(w)
  BY <1>2 DEF OpenStream, Typed, TypeOK, LoginsCount
<1>3. CASE Opened(w)
  BY <1>3 DEF Opened, Typed, TypeOK, LoginsCount
<1>4. CASE StreamBreaks(w)
  BY <1>4 DEF StreamBreaks, Sleep, Typed, TypeOK, LoginsCount
<1>5. CASE HangUp(w)
  BY <1>5 DEF HangUp, Sleep, Upset, Typed, TypeOK, LoginsCount
<1>6. CASE Wake(w)
  BY <1>6 DEF Wake, Typed, TypeOK, LoginsCount
<1>7. CASE Stop(w)
  BY <1>7 DEF Stop, Typed, TypeOK, LoginsCount
<1>8. CASE StartWorker(w)
  BY <1>8 DEF StartWorker, Typed, TypeOK, LoginsCount
<1> QED
  BY <1>1, <1>2, <1>3, <1>4, <1>5, <1>6, <1>7, <1>8 DEF WorkerStep

LEMMA NextTyped == Typed /\ [Next]_vars => Typed'
<1> SUFFICES ASSUME Typed, [Next]_vars
             PROVE  Typed'
  OBVIOUS
<1> USE ConnectionAssumption DEF network, account
<1>1. CASE Logout
  BY <1>1 DEF Logout, Typed, TypeOK, LoginsCount
<1>2. CASE LateClear
  BY <1>2 DEF LateClear, Clear, Typed, TypeOK, LoginsCount
<1>3. ASSUME NEW r \in Requests, Serve(r) \/ ServeError(r)
      PROVE  Typed'
  BY <1>3 DEF Serve, ServeError, Reply, Upset, Typed, TypeOK, LoginsCount
<1>4. ASSUME NEW k \in Conns, Cut(k)
      PROVE  Typed'
  BY <1>4 DEF Cut, Upset, Typed, TypeOK, LoginsCount
<1>5. CASE UNCHANGED vars
  BY <1>5 DEF vars, Typed, TypeOK, LoginsCount
<1> QED
  BY <1>1, <1>2, <1>3, <1>4, <1>5, StepTyped, CallTyped, WorkerTyped DEF Next

THEOREM ConnectionTyped == Spec => []Typed
BY InitTyped, NextTyped, PTL DEF Spec

\* Every variable keeps its type; in particular a process never has more
\* invalidations of logouts pending than it had logins.
THEOREM ConnectionTypeCorrect == Spec => []TypeOK
<1>1. Typed => TypeOK
  BY DEF Typed
<1> QED
  BY <1>1, ConnectionTyped, PTL

-----------------------------------------------------------------------------
(* Connections *)

\* A task refers to a connection only between opening it and storing it, and
\* while it uses a handle.
Held == \A t \in Tasks :
    conn[t] # None => at[t] \in {"store", "await", "drop", "open", "stream"}

\* A connection that is not stored yet is known to the task that opened it
\* and to nobody else: not even to a call that may still compare with it.
Fresh == \A t \in Tasks : at[t] = "store" =>
    /\ conn[t] # None /\ conn[t] # session
    /\ \A u \in Tasks \ {t} : conn[u] # conn[t]
    /\ \A c \in Callers : at[c] \notin Ended => first[c] # conn[t]

\* While a call tries again, the session is not the one it tried first.
Renewed == \A c \in Callers :
    tries[c] = 2 /\ at[c] \notin Ended => session = None \/ session # first[c]

Conn == Held /\ Fresh /\ Renewed /\ OneConnection /\ RetryOnNewSession

LEMMA InitConn == Init => Conn
BY DEF Init, Conn, Held, Fresh, Renewed, OneConnection, RetryOnNewSession, Tasks

LEMMA CheckConn ==
    ASSUME Typed, Conn, NEW t \in Tasks, Check(t) \/ NotConnected(t) \/ ConnectFails(t)
    PROVE  Conn'
<1> USE DEF Check, NotConnected, ConnectFails, NextAttempt, Go, Typed, TypeOK, Conn, Ended,
            Steps
<1>1. Held'
  BY DEF Held
<1>2. Fresh'
  BY DEF Fresh, Tasks
<1>3. Renewed'
  BY DEF Renewed, Tasks
<1>4. OneConnection'
  BY DEF OneConnection
<1>5. RetryOnNewSession'
  BY DEF RetryOnNewSession
<1> QED
  BY <1>1, <1>2, <1>3, <1>4, <1>5

LEMMA ConnectConn ==
    ASSUME Typed, Conn, NEW t \in Tasks, Connect(t)
    PROVE  Conn'
<1> DEFINE k == CHOOSE k \in Conns \ InUse : TRUE
<1>1. k \in Conns /\ k \notin InUse
  BY DEF Connect
<1>2. /\ at[t] = "connect" /\ at' = [at EXCEPT ![t] = "store"]
      /\ live' = live \cup {k} /\ conn' = [conn EXCEPT ![t] = k]
      /\ UNCHANGED <<session, tries, first>>
  BY DEF Connect, Go, Hold
<1> HIDE DEF k
<1>3. /\ k # session /\ k # None
      /\ \A u \in Tasks : conn[u] # k
      /\ \A c \in Callers : at[c] \notin Ended => first[c] # k
  BY <1>1, ConnectionAssumption DEF InUse
<1> USE DEF Typed, TypeOK, Conn, Ended, Steps
<1>4. Held'
  BY <1>2 DEF Held
<1>5. Fresh'
  BY <1>2, <1>3 DEF Fresh, Tasks
<1>6. Renewed'
  BY <1>2 DEF Renewed, Tasks
<1>7. OneConnection'
  BY <1>2 DEF OneConnection
<1>8. RetryOnNewSession'
  BY <1>2, <1>3 DEF RetryOnNewSession, Tasks
<1> QED
  BY <1>4, <1>5, <1>6, <1>7, <1>8

LEMMA StoreConn ==
    ASSUME Typed, Conn, NEW t \in Tasks, Store(t)
    PROVE  Conn'
<1> USE DEF Store, Go, Hold, Typed, TypeOK, Conn, Ended, Steps
<1>1. Held'
  BY DEF Held
<1>2. Fresh'
  BY DEF Fresh, Tasks
<1>3. Renewed'
  BY DEF Renewed, Fresh, Tasks
<1>4. OneConnection'
  BY DEF OneConnection
<1>5. RetryOnNewSession'
  BY DEF RetryOnNewSession, Tasks
<1> QED
  BY <1>1, <1>2, <1>3, <1>4, <1>5

LEMMA CallConn ==
    ASSUME Typed, Conn, NEW c \in Callers, Call(c) \/ CallStep(c)
    PROVE  Conn'
<1> USE DEF Go, Hold, Typed, TypeOK, Conn, Ended, Steps, Tasks
<1>1. CASE Call(c)
  BY <1>1 DEF Call, Held, Fresh, Renewed, OneConnection, RetryOnNewSession
<1>2. CASE Send(c)
  <2>1. Held' /\ Fresh'
    BY <1>2 DEF Send, Held, Fresh
  <2>2. Renewed' /\ OneConnection'
    BY <1>2 DEF Send, Renewed, OneConnection
  <2>3. RetryOnNewSession'
    BY <1>2 DEF Send, RetryOnNewSession, Renewed
  <2> QED
    BY <2>1, <2>2, <2>3
<1>3. CASE Answered(c)
  <2>1. at' = [at EXCEPT ![c] = replies[Request(c)]]
        /\ replies[Request(c)] \in {"ok", "refused"} /\ at[c] = "await"
        /\ conn' = [conn EXCEPT ![c] = None]
        /\ UNCHANGED <<session, live, tries, first>>
    BY <1>3 DEF Answered
  <2> QED
    BY <2>1 DEF Held, Fresh, Renewed, OneConnection, RetryOnNewSession
<1>4. CASE Break(c)
  BY <1>4 DEF Break, Held, Fresh, Renewed, OneConnection, RetryOnNewSession
<1>5. CASE Drop(c)
  <2> USE <1>5 DEF Drop, Clear, GiveUpAttempt, NextAttempt
  <2>1. Held'
    BY DEF Held
  <2>2. Fresh'
    BY DEF Fresh
  <2>3. Renewed' /\ OneConnection' /\ RetryOnNewSession'
    BY DEF Renewed, OneConnection, RetryOnNewSession
  <2> QED
    BY <2>1, <2>2, <2>3
<1>6. CASE Retry(c)
  BY <1>6 DEF Retry, Clear, Held, Fresh, Renewed, OneConnection, RetryOnNewSession
<1> QED
  BY <1>1, <1>2, <1>3, <1>4, <1>5, <1>6 DEF CallStep

LEMMA WorkerConn ==
    ASSUME Typed, Conn, NEW w \in Workers, WorkerStep(w)
    PROVE  Conn'
<1> USE ConnectionAssumption DEF Go, Hold, Typed, TypeOK, Conn, Ended, Steps, Tasks
<1>1. CASE Reset(w)
  BY <1>1 DEF Reset, Clear, Held, Fresh, Renewed, OneConnection, RetryOnNewSession
<1>2. CASE OpenStream(w)
  <2>1. Held' /\ Fresh'
    BY <1>2 DEF OpenStream, Held, Fresh
  <2>2. Renewed' /\ OneConnection' /\ RetryOnNewSession'
    BY <1>2 DEF OpenStream, Renewed, OneConnection, RetryOnNewSession
  <2> QED
    BY <2>1, <2>2
<1>3. CASE Opened(w)
  BY <1>3 DEF Opened, Held, Fresh, Renewed, OneConnection, RetryOnNewSession
<1>4. CASE StreamBreaks(w)
  BY <1>4 DEF StreamBreaks, Sleep, Held, Fresh, Renewed, OneConnection, RetryOnNewSession
<1>5. CASE HangUp(w)
  BY <1>5 DEF HangUp, Sleep, Held, Fresh, Renewed, OneConnection, RetryOnNewSession
<1>6. CASE Wake(w)
  BY <1>6 DEF Wake, Held, Fresh, Renewed, OneConnection, RetryOnNewSession
<1>7. CASE Stop(w)
  BY <1>7 DEF Stop, Held, Fresh, Renewed, OneConnection, RetryOnNewSession
<1>8. CASE StartWorker(w)
  BY <1>8 DEF StartWorker, Held, Fresh, Renewed, OneConnection, RetryOnNewSession
<1> QED
  BY <1>1, <1>2, <1>3, <1>4, <1>5, <1>6, <1>7, <1>8 DEF WorkerStep

LEMMA NextConn == Typed /\ Conn /\ [Next]_vars => Conn'
<1> SUFFICES ASSUME Typed, Conn, [Next]_vars
             PROVE  Conn'
  OBVIOUS
<1> USE DEF network, account, Held, Fresh, Renewed, OneConnection, RetryOnNewSession
<1>1. CASE Logout
  BY <1>1 DEF Logout, Conn
<1>2. CASE LateClear
  BY <1>2 DEF LateClear, Clear, Conn
<1>3. ASSUME NEW r \in Requests, Serve(r) \/ ServeError(r)
      PROVE  Conn'
  BY <1>3 DEF Serve, ServeError, Conn
<1>4. ASSUME NEW k \in Conns, Cut(k)
      PROVE  Conn'
  BY <1>4 DEF Cut, Conn
<1>5. CASE UNCHANGED vars
  BY <1>5 DEF vars, Conn
<1>6. ASSUME NEW t \in Tasks, Step(t)
      PROVE  Conn'
  BY <1>6, CheckConn, ConnectConn, StoreConn DEF Step
<1> QED
  BY <1>1, <1>2, <1>3, <1>4, <1>5, <1>6, CallConn, WorkerConn DEF Next

THEOREM ConnectionInv == Spec => []Conn
<1>1. Typed /\ Conn /\ Typed' /\ [Next]_vars => Conn'
  BY NextConn
<1> QED
  BY <1>1, InitConn, ConnectionTyped, PTL DEF Spec

\* Two tasks that connect at the same time leave no connection behind.
THEOREM NoConnectionLeaks == Spec => []OneConnection
<1>1. Conn => OneConnection
  BY DEF Conn
<1> QED
  BY <1>1, ConnectionInv, PTL

\* Whatever other calls, workers and logouts do to the session meanwhile, the
\* retry of a call goes out on another connection than its first attempt.
THEOREM RetriesAreRenewed == Spec => []RetryOnNewSession
<1>1. Conn => RetryOnNewSession
  BY DEF Conn
<1> QED
  BY <1>1, ConnectionInv, PTL

-----------------------------------------------------------------------------
(* Requests *)

\* An attempt is on the wire or carried out only from its Send on.
Sent(c) ==
    /\ at[c] \in {"idle", "again"} => tries[c] = 1
    /\ at[c] \in {"idle", "check", "connect", "store", "clone"}
          => <<c, tries[c]>> \notin runs \cup wire
    /\ tries[c] = 1 => <<c, 2>> \notin runs \cup wire

\* An answer belongs to the attempt under way and tells what happened.
Told(c, n) ==
    /\ replies[<<c, n>>] # "none" => at[c] \in {"await", "drop"} /\ tries[c] = n
    /\ replies[<<c, n>>] = "ok" => <<c, n>> \in runs
    /\ replies[<<c, n>>] = "refused" => <<c, n>> \notin runs \cup wire

Carried ==
    /\ runs \cap wire = {}
    /\ \A c \in Callers : Sent(c) /\ Told(c, 1) /\ Told(c, 2)

LEMMA InitCarried == Init => Carried
BY DEF Init, Carried, Sent, Told, Requests, Tasks

\* What a step does not touch of a call.
Same(c) ==
    /\ at'[c] = at[c] /\ tries'[c] = tries[c]
    /\ \A n \in {1, 2} : /\ <<c, n>> \in runs' <=> <<c, n>> \in runs
                         /\ <<c, n>> \in wire' <=> <<c, n>> \in wire
                         /\ replies'[<<c, n>>] = replies[<<c, n>>]

\* A step of one call: the others need no thought.
LEMMA OneCall ==
    ASSUME Typed, Carried, NEW c \in Callers,
           \A d \in Callers : d # c => Same(d),
           (runs \cap wire = {})', Sent(c)', Told(c, 1)', Told(c, 2)'
    PROVE  Carried'
<1> SUFFICES ASSUME NEW d \in Callers, d # c
             PROVE  Sent(d)' /\ Told(d, 1)' /\ Told(d, 2)'
  BY DEF Carried
<1>1. Same(d) /\ Sent(d) /\ Told(d, 1) /\ Told(d, 2) /\ tries[d] \in {1, 2}
  BY DEF Carried, Typed, TypeOK
<1> QED
  BY <1>1 DEF Same, Sent, Told

\* Steps that concern no request.
LEMMA QuietCarried ==
    ASSUME Typed, Carried, NEW t \in Tasks,
           UNCHANGED <<tries, wire, replies, runs>>,
           NEW step \in Steps, at' = [at EXCEPT ![t] = step],
           t \in Callers => /\ at[t] \in {"idle", "check", "connect", "store", "clone"}
                                  \/ (at[t] = "await" /\ step = "drop")
                            /\ step # "idle" /\ (step = "again" => tries[t] = 1)
    PROVE  Carried'
<1>1. /\ at'[t] = step
      /\ \A d \in Tasks : d # t => at'[d] = at[d]
      /\ Callers \subseteq Tasks
  BY DEF Typed, TypeOK, Tasks
<1> SUFFICES ASSUME NEW d \in Callers
             PROVE  Sent(d)' /\ Told(d, 1)' /\ Told(d, 2)'
  BY DEF Carried
<1>2. Sent(d) /\ Told(d, 1) /\ Told(d, 2)
  BY DEF Carried
<1> QED
  BY <1>1, <1>2 DEF Sent, Told

LEMMA StepCarried ==
    ASSUME Typed, Carried, NEW t \in Tasks, Step(t)
    PROVE  Carried'
<1>1. PICK step \in Steps : /\ at' = [at EXCEPT ![t] = step] /\ step # "idle"
                            /\ t \in Callers /\ step = "again" => tries[t] = 1
  BY DEF Step, Check, Connect, ConnectFails, Store, NotConnected, NextAttempt, Go, Steps,
         Ended
<1>2. UNCHANGED <<tries, wire, replies, runs>>
  BY DEF Step, Check, Connect, ConnectFails, Store, NotConnected, network
<1>3. at[t] \in {"check", "connect", "store", "clone"}
  BY DEF Step, Check, Connect, ConnectFails, Store, NotConnected
<1> QED
  BY <1>1, <1>2, <1>3, QuietCarried

LEMMA SendCarried ==
    ASSUME Typed, Carried, NEW c \in Callers, Send(c)
    PROVE  Carried'
<1>1. /\ at[c] = "clone" /\ at' = [at EXCEPT ![c] = "await"]
      /\ wire' \subseteq wire \cup {<<c, tries[c]>>} /\ wire \subseteq wire'
      /\ UNCHANGED <<tries, replies, runs>>
  BY DEF Send, Request, Go
<1>2. Sent(c) /\ Told(c, 1) /\ Told(c, 2) /\ tries[c] \in {1, 2} /\ runs \cap wire = {}
  BY DEF Carried, Typed, TypeOK
<1>3. at'[c] = "await" /\ \A d \in Callers : d # c => at'[d] = at[d]
  BY <1>1 DEF Typed, TypeOK, Tasks
<1>4. (runs \cap wire = {})'
  BY <1>1, <1>2 DEF Sent
<1>5. Sent(c)'
  BY <1>1, <1>2, <1>3 DEF Sent
<1>6. Told(c, 1)' /\ Told(c, 2)'
  BY <1>1, <1>2, <1>3 DEF Told
<1>7. \A d \in Callers : d # c => Same(d)
  BY <1>1, <1>3 DEF Same
<1> QED
  BY <1>4, <1>5, <1>6, <1>7, OneCall

\* An attempt ends: its answer is read, or given up.
LEMMA EndCarried ==
    ASSUME Typed, Carried, NEW c \in Callers, at[c] \in {"await", "drop"},
           NEW step \in {"ok", "refused", "again", "failed"}, at' = [at EXCEPT ![c] = step],
           step = "again" => tries[c] = 1,
           replies' = [replies EXCEPT ![<<c, tries[c]>>] = "none"],
           UNCHANGED <<tries, wire, runs>>
    PROVE  Carried'
<1>1. Sent(c) /\ Told(c, 1) /\ Told(c, 2) /\ tries[c] \in {1, 2} /\ runs \cap wire = {}
  BY DEF Carried, Typed, TypeOK
<1>2. at'[c] = step /\ \A d \in Callers : d # c => at'[d] = at[d]
  BY DEF Typed, TypeOK, Tasks
<1>3. \A d \in Callers, n \in {1, 2} :
         replies'[<<d, n>>] = IF d = c /\ n = tries[c] THEN "none" ELSE replies[<<d, n>>]
  BY DEF Typed, TypeOK, Requests
<1>4. Sent(c)'
  BY <1>1, <1>2 DEF Sent
<1>5. Told(c, 1)' /\ Told(c, 2)'
  BY <1>1, <1>3 DEF Told
<1>6. \A d \in Callers : d # c => Same(d)
  BY <1>2, <1>3 DEF Same
<1> QED
  BY <1>1, <1>4, <1>5, <1>6, OneCall

LEMMA RetryCarried ==
    ASSUME Typed, Carried, NEW c \in Callers, Retry(c)
    PROVE  Carried'
<1>1. /\ at[c] = "again" /\ at' = [at EXCEPT ![c] = "check"]
      /\ tries' = [tries EXCEPT ![c] = 2]
      /\ UNCHANGED <<replies, wire, runs>>
  BY DEF Retry, network, Go
<1>2. Sent(c) /\ Told(c, 1) /\ Told(c, 2) /\ runs \cap wire = {}
  BY DEF Carried
<1>3. /\ at'[c] = "check" /\ tries'[c] = 2
      /\ \A d \in Callers : d # c => at'[d] = at[d] /\ tries'[d] = tries[d]
  BY <1>1 DEF Typed, TypeOK, Tasks
<1>4. Sent(c)'
  BY <1>1, <1>2, <1>3 DEF Sent
<1>5. Told(c, 1)' /\ Told(c, 2)'
  BY <1>1, <1>2, <1>3 DEF Told
<1>6. \A d \in Callers : d # c => Same(d)
  BY <1>1, <1>3 DEF Same
<1> QED
  BY <1>1, <1>2, <1>4, <1>5, <1>6, OneCall

LEMMA CallCarried ==
    ASSUME Typed, Carried, NEW c \in Callers, Call(c) \/ CallStep(c)
    PROVE  Carried'
<1>1. CASE Call(c) \/ Break(c)
  <2>1. /\ \/ at[c] = "idle" /\ at' = [at EXCEPT ![c] = "check"]
           \/ at[c] = "await" /\ at' = [at EXCEPT ![c] = "drop"]
        /\ UNCHANGED <<tries, wire, replies, runs>>
    BY <1>1 DEF Call, Break, Go, network
  <2> QED
    BY <2>1, QuietCarried DEF Steps, Tasks
<1>2. CASE Answered(c)
  <2>1. /\ at[c] = "await" /\ at' = [at EXCEPT ![c] = replies[Request(c)]]
        /\ replies[Request(c)] \in {"ok", "refused"}
        /\ replies' = [replies EXCEPT ![Request(c)] = "none"]
        /\ UNCHANGED <<tries, wire, runs>>
    BY <1>2 DEF Answered, Go
  <2> QED
    BY <2>1, EndCarried DEF Request
<1>3. CASE Drop(c)
  <2>1. /\ at[c] = "drop" /\ at' = [at EXCEPT ![c] = NextAttempt(c)]
        /\ replies' = [replies EXCEPT ![Request(c)] = "none"]
        /\ UNCHANGED <<tries, wire, runs>>
    BY <1>3 DEF Drop, GiveUpAttempt, Go
  <2>2. /\ NextAttempt(c) \in {"again", "failed"}
        /\ NextAttempt(c) = "again" => tries[c] = 1
    BY DEF NextAttempt
  <2> QED
    BY <2>1, <2>2, EndCarried DEF Request
<1> QED
  BY <1>1, <1>2, <1>3, SendCarried, RetryCarried DEF CallStep

LEMMA WorkerCarried ==
    ASSUME Typed, Carried, NEW w \in Workers, WorkerStep(w)
    PROVE  Carried'
<1>1. /\ UNCHANGED <<tries, wire, replies, runs>>
      /\ \A c \in Callers : at'[c] = at[c]
  BY ConnectionAssumption
     DEF WorkerStep, Reset, OpenStream, Opened, StreamBreaks, HangUp, Sleep, Wake, Stop,
         StartWorker, Go, network, Typed, TypeOK, Tasks
<1> QED
  BY <1>1 DEF Carried, Sent, Told

LEMMA ServeCarried ==
    ASSUME Typed, Carried, NEW r \in Requests, Serve(r) \/ ServeError(r)
    PROVE  Carried'
<1>1. PICK c \in Callers, n \in {1, 2} : r = <<c, n>>
  BY DEF Requests
<1>2. /\ r \in wire /\ wire' = wire \ {r}
      /\ runs' \in {runs, runs \cup {r}} /\ UNCHANGED <<at, tries>>
  BY DEF Serve, ServeError
<1>3. /\ Sent(c) /\ Told(c, 1) /\ Told(c, 2) /\ tries[c] \in {1, 2}
      /\ r \notin runs /\ runs \cap wire = {}
  BY <1>2 DEF Carried, Typed, TypeOK
<1>4. \/ UNCHANGED replies
      \/ /\ at[c] = "await" /\ tries[c] = n
         /\ \/ replies' = [replies EXCEPT ![r] = "ok"] /\ r \in runs'
            \/ replies' = [replies EXCEPT ![r] = "refused"] /\ UNCHANGED runs
            \/ replies' = [replies EXCEPT ![r] = "error"]
  BY <1>1 DEF Serve, ServeError, Reply, Attached
<1>5. /\ \A d \in Callers, m \in {1, 2} : d # c \/ m # n =>
            /\ <<d, m>> \in runs' <=> <<d, m>> \in runs
            /\ <<d, m>> \in wire' <=> <<d, m>> \in wire
            /\ replies'[<<d, m>>] = replies[<<d, m>>]
      /\ \/ replies'[<<c, n>>] = replies[<<c, n>>]
         \/ /\ at[c] = "await" /\ tries[c] = n
            /\ \/ replies'[<<c, n>>] = "ok" /\ r \in runs'
               \/ replies'[<<c, n>>] = "refused" /\ r \notin runs'
               \/ replies'[<<c, n>>] = "error"
  <2>1. replies \in [Requests -> {"none", "ok", "refused", "error"}] /\ r \in Requests
    BY DEF Typed, TypeOK
  <2>2. \A d \in Callers, m \in {1, 2} : <<d, m>> \in Requests
    BY DEF Requests
  <2> QED
    BY <1>1, <1>2, <1>3, <1>4, <2>1, <2>2
<1>6. Sent(c)'
  BY <1>1, <1>2, <1>3 DEF Sent
<1>7. r \notin wire' /\ (r \in runs => r \in runs')
  BY <1>2
<1>8. Told(c, 1)' /\ Told(c, 2)'
  BY <1>1, <1>2, <1>3, <1>5, <1>7 DEF Told
<1>9. \A d \in Callers : d # c => Same(d)
  BY <1>2, <1>5 DEF Same
<1>10. (runs \cap wire = {})'
  BY <1>2, <1>3
<1> QED
  BY <1>6, <1>8, <1>9, <1>10, OneCall

LEMMA NextCarried == Typed /\ Carried /\ [Next]_vars => Carried'
<1> SUFFICES ASSUME Typed, Carried, [Next]_vars
             PROVE  Carried'
  OBVIOUS
<1>1. CASE \/ Logout \/ LateClear \/ UNCHANGED vars \/ \E k \in Conns : Cut(k)
  <2>1. UNCHANGED <<at, tries, wire, replies, runs>>
    BY <1>1 DEF Logout, LateClear, Cut, vars, network
  <2> QED
    BY <2>1 DEF Carried, Sent, Told
<1> QED
  BY <1>1, StepCarried, CallCarried, WorkerCarried, ServeCarried DEF Next

THEOREM RequestsInv == Spec => []Carried
<1>1. Typed /\ Carried /\ Typed' /\ [Next]_vars => Carried'
  BY NextCarried
<1> QED
  BY <1>1, InitCarried, ConnectionTyped, PTL DEF Spec

-----------------------------------------------------------------------------
(* The client implements RemoteCall *)

\* What a caller sees, how often its call ran, and whether an answer was lost.
Outcome(c) == IF at[c] \in Ended \cup {"idle"} THEN at[c] ELSE "pending"
Count(c) == Ran(c, 1) + Ran(c, 2)
Lost(c) == tries[c] = 2 \/ at[c] \in {"drop", "again"}

\* The three functions of the refinement, under the names of RemoteCall.
outcomes == [c \in Callers |-> Outcome(c)]
counts == [c \in Callers |-> Count(c)]
losses == [c \in Callers |-> Lost(c)]

LEMMA Mapping ==
    /\ Abstract!vars = <<outcomes, counts, losses>>
    /\ Abstract!Init <=> /\ outcomes = [c \in Callers |-> "idle"]
                         /\ counts = [c \in Callers |-> 0]
                         /\ losses = [c \in Callers |-> FALSE]
    /\ \A c \in Callers :
        /\ Abstract!Submit(c) <=> /\ outcomes[c] = "idle"
                                  /\ outcomes' = [outcomes EXCEPT ![c] = "pending"]
                                  /\ UNCHANGED <<counts, losses>>
        /\ Abstract!Run(c) <=> /\ outcomes[c] # "idle"
                               /\ counts[c] < IF losses[c] THEN 2 ELSE 1
                               /\ counts' = [counts EXCEPT ![c] = @ + 1]
                               /\ UNCHANGED <<outcomes, losses>>
        /\ Abstract!Lose(c) <=> /\ outcomes[c] = "pending"
                                /\ losses' = [losses EXCEPT ![c] = TRUE]
                                /\ \/ UNCHANGED outcomes
                                   \/ /\ losses[c]
                                      /\ outcomes' = [outcomes EXCEPT ![c] = "failed"]
                                /\ UNCHANGED counts
        /\ Abstract!Return(c) <=>
              /\ outcomes[c] = "pending"
              /\ \/ counts[c] > 0 /\ outcomes' = [outcomes EXCEPT ![c] = "ok"]
                 \/ /\ counts[c] = 0 \/ losses[c]
                    /\ outcomes' = [outcomes EXCEPT ![c] = "refused"]
              /\ UNCHANGED <<counts, losses>>
BY DEF Abstract!vars, Abstract!Init, Abstract!Submit, Abstract!Run, Abstract!Lose,
       Abstract!Return, outcomes, counts, losses, Outcome, Count, Lost

\* A step that changes the view of one caller at most.
LEMMA OneView ==
    ASSUME NEW c \in Callers,
           \A d \in Callers : d # c => /\ Outcome(d)' = Outcome(d)
                                       /\ Count(d)' = Count(d) /\ Lost(d)' = Lost(d)
    PROVE  /\ outcomes' = [outcomes EXCEPT ![c] = Outcome(c)']
           /\ counts' = [counts EXCEPT ![c] = Count(c)']
           /\ losses' = [losses EXCEPT ![c] = Lost(c)']
           /\ outcomes[c] = Outcome(c) /\ counts[c] = Count(c) /\ losses[c] = Lost(c)
           /\ Outcome(c)' = Outcome(c) => UNCHANGED outcomes
           /\ Count(c)' = Count(c) => UNCHANGED counts
           /\ (Lost(c)' <=> Lost(c)) => UNCHANGED losses
<1>1. /\ outcomes' = [d \in Callers |-> Outcome(d)']
      /\ counts' = [d \in Callers |-> Count(d)']
      /\ losses' = [d \in Callers |-> Lost(d)']
  BY DEF outcomes, counts, losses
<1>2. Lost(c)' \in BOOLEAN /\ Lost(c) \in BOOLEAN
  BY DEF Lost
<1> HIDE DEF Outcome, Count, Lost
<1>3. outcomes' = [outcomes EXCEPT ![c] = Outcome(c)'] /\ outcomes[c] = Outcome(c)
  BY <1>1 DEF outcomes
<1>4. counts' = [counts EXCEPT ![c] = Count(c)'] /\ counts[c] = Count(c)
  BY <1>1 DEF counts
<1>5. losses' = [losses EXCEPT ![c] = Lost(c)'] /\ losses[c] = Lost(c)
  BY <1>1 DEF losses
<1>6. Outcome(c)' = Outcome(c) => UNCHANGED outcomes
  BY <1>1 DEF outcomes
<1>7. Count(c)' = Count(c) => UNCHANGED counts
  BY <1>1 DEF counts
<1>8. (Lost(c)' <=> Lost(c)) => UNCHANGED losses
  <2>1. (Lost(c)' <=> Lost(c)) => Lost(c)' = Lost(c)
    BY <1>2
  <2> QED
    BY <1>1, <2>1 DEF losses
<1> QED
  BY <1>3, <1>4, <1>5, <1>6, <1>7, <1>8

\* Steps nobody outside sees.
LEMMA Unseen ==
    ASSUME \A c \in Callers : /\ Outcome(c)' = Outcome(c) /\ Count(c)' = Count(c)
                              /\ Lost(c)' = Lost(c)
    PROVE  UNCHANGED Abstract!vars
<1>1. UNCHANGED <<outcomes, counts, losses>>
  BY DEF outcomes, counts, losses
<1> QED
  BY <1>1 DEF Abstract!vars, outcomes, counts, losses, Outcome, Count, Lost

\* A call moves from one step to the next; the server has no part in it.
LEMMA MoveMaps ==
    ASSUME Typed, NEW c \in Callers, NEW step \in Steps, step # "idle",
           at' = [at EXCEPT ![c] = step], runs' = runs,
           \/ tries' = tries
           \/ tries' = [tries EXCEPT ![c] = 2] /\ at[c] = "again" /\ step = "check",
           at[c] \notin Ended \cup {"idle"},
           step \notin Ended \/ (step = "failed" /\ tries[c] = 2),
           at[c] \in {"drop", "again"} =>
              step \in {"drop", "again"} \/ tries'[c] = 2
    PROVE  [Abstract!Next]_Abstract!vars
<1>1. /\ at'[c] = step /\ \A d \in Callers : d # c => at'[d] = at[d] /\ tries'[d] = tries[d]
      /\ tries[c] \in {1, 2}
  BY DEF Typed, TypeOK, Tasks
<1>2. \A d \in Callers : Count(d)' = Count(d)
  BY DEF Count, Ran
<1>3. \A d \in Callers : d # c => /\ Outcome(d)' = Outcome(d)
                                  /\ Count(d)' = Count(d) /\ Lost(d)' = Lost(d)
  BY <1>1, <1>2 DEF Outcome, Lost
<1>4. Outcome(c) = "pending" /\ Outcome(c)' = IF step = "failed" THEN "failed" ELSE "pending"
  BY <1>1 DEF Outcome, Ended
<1>5. (Lost(c) => Lost(c)') /\ (step = "failed" => Lost(c) /\ Lost(c)')
  <2>1. tries[c] = 2 => tries'[c] = 2
    BY DEF Typed, TypeOK
  <2> QED
    BY <2>1, <1>1 DEF Lost, Ended
<1>6. Lost(c) \in BOOLEAN /\ Lost(c)' \in BOOLEAN
  BY DEF Lost
<1>7. CASE step # "failed" /\ Lost(c)' = Lost(c)
  <2>1. \A d \in Callers : /\ Outcome(d)' = Outcome(d) /\ Count(d)' = Count(d)
                           /\ Lost(d)' = Lost(d)
    BY <1>2, <1>3, <1>4, <1>7
  <2> QED
    BY <2>1, Unseen
<1>8. CASE step = "failed" \/ Lost(c)' # Lost(c)
  <2>1. Lost(c)' = TRUE
    BY <1>5, <1>6, <1>8
  <2>2. Abstract!Lose(c)
    <3> HIDE DEF Outcome, Count, Lost
    <3>1. /\ outcomes' = [outcomes EXCEPT ![c] = Outcome(c)']
          /\ losses' = [losses EXCEPT ![c] = Lost(c)']
          /\ outcomes[c] = Outcome(c) /\ losses[c] = Lost(c)
          /\ Outcome(c)' = Outcome(c) => UNCHANGED outcomes
          /\ Count(c)' = Count(c) => UNCHANGED counts
      BY <1>3, OneView
    <3>2. losses' = [losses EXCEPT ![c] = TRUE] /\ outcomes[c] = "pending"
      BY <3>1, <2>1, <1>4
    <3>3. UNCHANGED counts
      BY <3>1, <1>2
    <3>4. UNCHANGED outcomes \/ (losses[c] /\ outcomes' = [outcomes EXCEPT ![c] = "failed"])
      BY <3>1, <1>4, <1>5
    <3> QED
      BY <3>2, <3>3, <3>4, Mapping
  <2> QED
    BY <2>2 DEF Abstract!Next
<1> QED
  BY <1>7, <1>8

LEMMA StepMaps ==
    ASSUME Typed, NEW t \in Tasks, Step(t)
    PROVE  [Abstract!Next]_Abstract!vars
<1>1. UNCHANGED <<tries, runs>>
  BY DEF Step, Check, Connect, ConnectFails, Store, NotConnected, network
<1>2. CASE t \in Callers
  <2>1. PICK step \in Steps : /\ at' = [at EXCEPT ![t] = step] /\ step # "idle"
                              /\ step \in Ended => step = "failed" /\ tries[t] = 2
    <3>1. tries[t] \in {1, 2}
      BY <1>2 DEF Typed, TypeOK
    <3> QED
      BY <1>2, <3>1 DEF Step, Check, Connect, ConnectFails, Store, NotConnected, NextAttempt,
                        Go, Steps, Ended
  <2>2. at[t] \in {"check", "connect", "store", "clone"}
    BY DEF Step, Check, Connect, ConnectFails, Store, NotConnected
  <2>3. at[t] \notin Ended \cup {"idle"} /\ at[t] \notin {"drop", "again"}
    BY <2>2 DEF Ended
  <2> QED
    BY <1>1, <1>2, <2>1, <2>3, MoveMaps
<1>3. CASE t \notin Callers
  <2>1. \A c \in Callers : at'[c] = at[c]
    BY <1>3 DEF Step, Check, Connect, ConnectFails, Store, NotConnected, Go, Typed, TypeOK,
                Tasks
  <2> QED
    BY <1>1, <2>1, Unseen DEF Outcome, Count, Ran, Lost
<1> QED
  BY <1>2, <1>3

LEMMA SubmitMaps ==
    ASSUME Typed, NEW c \in Callers, Call(c)
    PROVE  Abstract!Submit(c)
<1>1. /\ at[c] = "idle" /\ at'[c] = "check" /\ UNCHANGED <<tries, runs>>
      /\ \A d \in Callers : d # c => at'[d] = at[d]
  BY DEF Call, Go, network, Typed, TypeOK, Tasks
<1>2. /\ Outcome(c) = "idle" /\ Outcome(c)' = "pending"
      /\ Count(c)' = Count(c) /\ Lost(c)' = Lost(c)
  BY <1>1 DEF Outcome, Count, Ran, Lost, Ended
<1>3. \A d \in Callers : d # c => /\ Outcome(d)' = Outcome(d)
                                  /\ Count(d)' = Count(d) /\ Lost(d)' = Lost(d)
  BY <1>1 DEF Outcome, Count, Ran, Lost
<1>4. /\ outcomes' = [outcomes EXCEPT ![c] = "pending"] /\ outcomes[c] = "idle"
      /\ UNCHANGED <<counts, losses>>
  <2> HIDE DEF Outcome, Count, Lost
  <2> QED
    BY <1>2, <1>3, OneView
<1> QED
  BY <1>4, Mapping

\* An answer says truly whether the attempt was carried out.
LEMMA AnswerMaps ==
    ASSUME Typed, Carried, NEW c \in Callers, Answered(c)
    PROVE  Abstract!Return(c)
<1> DEFINE what == replies[<<c, tries[c]>>]
<1>1. /\ at[c] = "await" /\ at' = [at EXCEPT ![c] = what] /\ what \in {"ok", "refused"}
      /\ UNCHANGED <<tries, runs>>
  BY DEF Answered, Go, Request
<1>2. /\ tries[c] \in {1, 2} /\ Sent(c) /\ Told(c, 1) /\ Told(c, 2)
      /\ at'[c] = what /\ \A d \in Callers : d # c => at'[d] = at[d]
  BY <1>1 DEF Typed, TypeOK, Tasks, Carried
<1>3. what = "ok" => Count(c) > 0
  BY <1>2 DEF Told, Count, Ran
<1>4. what = "refused" => Count(c) = 0 \/ Lost(c)
  BY <1>2 DEF Told, Sent, Count, Ran, Lost
<1> HIDE DEF what
<1>5. /\ Outcome(c) = "pending" /\ Outcome(c)' = what
      /\ Count(c)' = Count(c) /\ (Lost(c)' <=> Lost(c))
  BY <1>1, <1>2 DEF Outcome, Count, Ran, Lost, Ended
<1>6. \A d \in Callers : d # c => /\ Outcome(d)' = Outcome(d)
                                  /\ Count(d)' = Count(d) /\ Lost(d)' = Lost(d)
  BY <1>1, <1>2 DEF Outcome, Count, Ran, Lost
<1>7. /\ outcomes' = [outcomes EXCEPT ![c] = what] /\ outcomes[c] = "pending"
      /\ UNCHANGED <<counts, losses>>
      /\ what = "ok" => counts[c] > 0
      /\ what = "refused" => counts[c] = 0 \/ losses[c]
  <2> HIDE DEF Outcome, Count, Lost
  <2> QED
    BY <1>3, <1>4, <1>5, <1>6, OneView
<1> QED
  BY <1>1, <1>7, Mapping

LEMMA CallMaps ==
    ASSUME Typed, Carried, NEW c \in Callers, CallStep(c)
    PROVE  [Abstract!Next]_Abstract!vars
<1>1. CASE Answered(c)
  BY <1>1, AnswerMaps DEF Abstract!Next
<1>2. CASE ~Answered(c)
  <2>1. PICK step \in Steps :
           /\ at' = [at EXCEPT ![c] = step] /\ step # "idle" /\ runs' = runs
           /\ \/ tries' = tries
              \/ tries' = [tries EXCEPT ![c] = 2] /\ at[c] = "again" /\ step = "check"
           /\ at[c] \in {"clone", "await", "drop", "again"}
           /\ step \notin Ended \/ (step = "failed" /\ tries[c] = 2)
           /\ at[c] \in {"drop", "again"} => step \in {"drop", "again"} \/ tries'[c] = 2
    <3>1. tries \in [Callers -> {1, 2}]
      BY DEF Typed, TypeOK
    <3>2. CASE Send(c)
      BY <3>2 DEF Send, Go, Steps, Ended
    <3>3. CASE Break(c)
      BY <3>3 DEF Break, Go, network, Steps, Ended
    <3>4. CASE Drop(c)
      <4>1. tries' = tries /\ runs' = runs /\ at' = [at EXCEPT ![c] = NextAttempt(c)]
            /\ at[c] = "drop"
        BY <3>4 DEF Drop, GiveUpAttempt, Go
      <4> QED
        BY <3>1, <4>1 DEF NextAttempt, Steps, Ended
    <3>5. CASE Retry(c)
      BY <3>1, <3>5 DEF Retry, Go, network, Steps, Ended
    <3> QED
      BY <1>2, <3>2, <3>3, <3>4, <3>5 DEF CallStep
  <2>2. at[c] \notin Ended \cup {"idle"}
    BY <2>1 DEF Ended
  <2> QED
    BY <2>1, <2>2, MoveMaps
<1> QED
  BY <1>1, <1>2

\* The server carries an attempt out, the first or one after a loss.
LEMMA ServeMaps ==
    ASSUME Typed, Carried, NEW r \in Requests, Serve(r) \/ ServeError(r)
    PROVE  [Abstract!Next]_Abstract!vars
<1>1. PICK c \in Callers, n \in {1, 2} : r = <<c, n>>
  BY DEF Requests
<1>2. r \in wire /\ runs' \in {runs, runs \cup {r}} /\ UNCHANGED <<at, tries>>
  BY DEF Serve, ServeError
<1>3. Sent(c) /\ tries[c] \in {1, 2} /\ r \notin runs
  BY <1>2 DEF Carried, Typed, TypeOK
<1>4. CASE runs' = runs
  BY <1>2, <1>4, Unseen DEF Outcome, Count, Ran, Lost
<1>5. CASE runs' = runs \cup {r}
  <2>1. \A d \in Callers, m \in {1, 2} :
           <<d, m>> \in runs' <=> <<d, m>> \in runs \/ (d = c /\ m = n)
    BY <1>1, <1>5
  <2>2. \A d \in Callers : d # c => /\ Outcome(d)' = Outcome(d)
                                    /\ Count(d)' = Count(d) /\ Lost(d)' = Lost(d)
    BY <1>2, <2>1 DEF Outcome, Count, Ran, Lost
  <2>3. Outcome(c)' = Outcome(c) /\ (Lost(c)' <=> Lost(c)) /\ Count(c)' = Count(c) + 1
    BY <1>1, <1>2, <1>3, <2>1 DEF Outcome, Count, Ran, Lost
  <2>4. Outcome(c) # "idle"
    BY <1>1, <1>2, <1>3 DEF Sent, Outcome, Ended
  <2>5. Count(c) < IF Lost(c) THEN 2 ELSE 1
    BY <1>1, <1>2, <1>3 DEF Sent, Count, Ran, Lost
  <2>6. /\ outcomes[c] # "idle" /\ counts[c] < IF losses[c] THEN 2 ELSE 1
        /\ counts' = [counts EXCEPT ![c] = @ + 1]
        /\ UNCHANGED <<outcomes, losses>>
    <3> HIDE DEF Outcome, Count, Lost
    <3> QED
      BY <2>2, <2>3, <2>4, <2>5, OneView
  <2> QED
    BY <2>6, Mapping DEF Abstract!Next
<1> QED
  BY <1>2, <1>4, <1>5

LEMMA NextMaps == Typed /\ Carried /\ [Next]_vars => [Abstract!Next]_Abstract!vars
<1> SUFFICES ASSUME Typed, Carried, [Next]_vars
             PROVE  [Abstract!Next]_Abstract!vars
  OBVIOUS
<1>1. CASE \/ Logout \/ LateClear \/ UNCHANGED vars \/ \E k \in Conns : Cut(k)
  <2>1. UNCHANGED <<at, tries, runs>>
    BY <1>1 DEF Logout, LateClear, Cut, vars, network
  <2> QED
    BY <2>1, Unseen DEF Outcome, Count, Ran, Lost
<1>2. ASSUME NEW w \in Workers, WorkerStep(w)
      PROVE  [Abstract!Next]_Abstract!vars
  <2>1. /\ UNCHANGED <<tries, runs>>
        /\ \A c \in Callers : at'[c] = at[c]
    BY <1>2, ConnectionAssumption
       DEF WorkerStep, Reset, OpenStream, Opened, StreamBreaks, HangUp, Sleep, Wake, Stop,
           StartWorker, Go, network, Typed, TypeOK, Tasks
  <2> QED
    BY <2>1, Unseen DEF Outcome, Count, Ran, Lost
<1>3. ASSUME NEW c \in Callers, Call(c)
      PROVE  [Abstract!Next]_Abstract!vars
  BY <1>3, SubmitMaps DEF Abstract!Next
<1> QED
  BY <1>1, <1>2, <1>3, StepMaps, CallMaps, ServeMaps DEF Next

\* Whatever happens to the connection, a unary call keeps the promise of
\* RemoteCall: a result that is reported is true, and only an attempt whose
\* answer was lost is repeated.
THEOREM ClientImplementsRemoteCall == Spec => ImplementsRemoteCall
<1>1. Init => Abstract!Init
  <2>1. Init => /\ outcomes = [c \in Callers |-> "idle"]
                /\ counts = [c \in Callers |-> 0]
                /\ losses = [c \in Callers |-> FALSE]
    <3> SUFFICES ASSUME Init
                 PROVE  /\ outcomes = [c \in Callers |-> "idle"]
                        /\ counts = [c \in Callers |-> 0]
                        /\ losses = [c \in Callers |-> FALSE]
      OBVIOUS
    <3>0. /\ runs = {}
          /\ \A c \in Callers : at[c] = "idle" /\ tries[c] = 1
      <4>1. /\ runs = {} /\ tries = [c \in Callers |-> 1]
            /\ at = [t \in Tasks |-> IF t \in Callers THEN "idle" ELSE "stopped"]
        BY DEF Init
      <4> QED
        BY <4>1 DEF Tasks
    <3>1. \A c \in Callers : Outcome(c) = "idle"
      BY <3>0 DEF Outcome
    <3>2. \A c \in Callers : Count(c) = 0
      <4> SUFFICES ASSUME NEW c \in Callers
                   PROVE  Count(c) = 0
        OBVIOUS
      <4>1. Ran(c, 1) = 0 /\ Ran(c, 2) = 0
        BY <3>0 DEF Ran
      <4> QED
        BY <4>1 DEF Count
    <3>3. \A c \in Callers : ~Lost(c)
      <4> SUFFICES ASSUME NEW c \in Callers
                   PROVE  ~Lost(c)
        OBVIOUS
      <4>1. tries[c] = 1 /\ at[c] = "idle"
        BY <3>0
      <4> QED
        BY <4>1 DEF Lost
    <3>4. \A c \in Callers : Lost(c) \in BOOLEAN
      BY DEF Lost
    <3> HIDE DEF Outcome, Count, Lost
    <3>5. \A c \in Callers : Lost(c) = FALSE
      BY <3>3, <3>4
    <3>6. outcomes = [c \in Callers |-> "idle"]
      BY <3>1 DEF outcomes
    <3>7. counts = [c \in Callers |-> 0]
      BY <3>2 DEF counts
    <3>8. losses = [c \in Callers |-> FALSE]
      BY <3>5 DEF losses
    <3> QED
      BY <3>6, <3>7, <3>8
  <2> QED
    BY <2>1, Mapping
<1> QED
  BY <1>1, NextMaps, ConnectionTyped, RequestsInv, PTL
     DEF Spec, Abstract!Spec, ImplementsRemoteCall
=============================================================================
