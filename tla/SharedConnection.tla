--------------------------- MODULE SharedConnection ---------------------------
(***************************************************************************)
(* The one HTTP/2 connection of the process.  Unary calls, stream workers  *)
(* and the task a logout spawns all open it, clone handles of it and drop  *)
(* it, without a lock held from one step to the next:                      *)
(*                                                                         *)
(*   session empty? -> connect -> store -> clone a handle -> use it        *)
(*                                                                         *)
(* Dropping an H2Session aborts its driver, which breaks whatever other    *)
(* tasks do on it.  A unary call is retried once after a transport error.  *)
(*                                                                         *)
(* Sources: src/src/grpc/client.rs, connection.rs, stream.rs, error.rs,    *)
(* src/src/streaming.rs (run_worker), src/src/app.rs (login and logout).   *)
(***************************************************************************)
EXTENDS Naturals

CONSTANTS
    Callers,   \* unary calls
    Workers,   \* stream workers
    Conns,     \* names for connections, reused when nobody holds them
    None,
    MaxUpsets, \* bound: network and server faults
    MaxLogins  \* bound: stream workers started

ASSUME ConnectionAssumption ==
    /\ Callers \cap Workers = {} /\ None \notin Conns \cup Workers
    /\ MaxUpsets \in Nat /\ MaxLogins \in Nat

Tasks == Callers \cup Workers
Requests == Callers \X {1, 2}

VARIABLES
    session,  \* Inner.session
    live,     \* connections whose driver runs and whose peer is there
    at,       \* where each task stands
    conn,     \* the connection a task has opened, or whose handle it uses
    tries,    \* number of the attempt of a unary call
    first,    \* history: the connection of the last attempt that failed
    wire,     \* requests that left and the server has not dealt with
    replies,  \* what the server answered to a request on a live connection
    runs,     \* history: requests the server carried out
    mine,     \* the worker stream_tx leads to
    stopping, \* workers with a Shutdown in their command channel
    clears,   \* invalidation tasks spawned by logouts, not yet run
    upsets, logins

network == <<wire, replies, runs>>
account == <<mine, stopping, clears, logins>>
vars == <<session, live, at, conn, tries, first, wire, replies, runs,
          mine, stopping, clears, upsets, logins>>

Ended == {"ok", "refused", "failed"}
Steps == Ended \cup {"idle", "check", "connect", "store", "clone", "await",
           "drop", "again", "reset", "open", "stream", "sleep", "stopped"}

TypeOK ==
    /\ session \in Conns \cup {None} /\ live \subseteq Conns
    /\ at \in [Tasks -> Steps] /\ conn \in [Tasks -> Conns \cup {None}]
    /\ tries \in [Callers -> {1, 2}] /\ first \in [Callers -> Conns \cup {None}]
    /\ wire \subseteq Requests /\ runs \subseteq Requests
    /\ replies \in [Requests -> {"none", "ok", "refused", "error"}]
    /\ mine \in Workers \cup {None}
    /\ stopping \subseteq Workers /\ clears \in 0..MaxLogins
    /\ upsets \in 0..MaxUpsets /\ logins \in 0..MaxLogins

\* The session is lazy: the first task to need it connects.
Init ==
    /\ session = None /\ live = {}
    /\ at = [t \in Tasks |-> IF t \in Callers THEN "idle" ELSE "stopped"]
    /\ conn = [t \in Tasks |-> None]
    /\ tries = [c \in Callers |-> 1] /\ first = [c \in Callers |-> None]
    /\ wire = {} /\ replies = [r \in Requests |-> "none"] /\ runs = {}
    /\ mine = None /\ stopping = {} /\ clears = 0 /\ upsets = 0 /\ logins = 0

\* The request of a caller's attempt under way.
Request(c) == <<c, tries[c]>>

Upset == upsets < MaxUpsets /\ upsets' = upsets + 1

Go(t, step) == at' = [at EXCEPT ![t] = step]
Hold(t, k) == conn' = [conn EXCEPT ![t] = k]

\* (mutant) nothing is dropped
ClearNothing == UNCHANGED <<session, live>>

\* session = None; the old value's Drop aborts the driver.
Clear == session' = None /\ live' = live \ {session}

-----------------------------------------------------------------------------
(* Opening the connection: ensure and send_request *)

\* A unary call begins.
Call(c) ==
    /\ at[c] = "idle"
    /\ Go(c, "check")
    /\ UNCHANGED <<session, live, conn, tries, first, network, account, upsets>>

\* The read half of ensure.
Check(t) ==
    /\ at[t] = "check"
    /\ Go(t, IF session = None THEN "connect" ELSE "clone")
    /\ UNCHANGED <<session, live, conn, tries, first, network, account, upsets>>

\* The connections somebody still refers to.
InUse == live \cup {session} \cup {conn[t] : t \in Tasks}
              \cup {first[c] : c \in {d \in Callers : at[d] \notin Ended}}

\* connect_h2: the driver runs from here on, but nobody else sees it.
Connect(t) ==
    /\ at[t] = "connect" /\ Conns \ InUse # {}
    /\ LET k == CHOOSE k \in Conns \ InUse : TRUE
       IN live' = live \cup {k} /\ Hold(t, k)
    /\ Go(t, "store")
    /\ UNCHANGED <<session, tries, first, network, account, upsets>>

\* (mutant) the session that another task stored meanwhile leaks
StoreLeaks(t) ==
    /\ at[t] = "store"
    /\ session' = conn[t]
    /\ Hold(t, None)
    /\ Go(t, "clone")
    /\ UNCHANGED <<live, tries, first, network, account, upsets>>

\* The write half of ensure; a session stored meanwhile is dropped.
Store(t) ==
    /\ at[t] = "store"
    /\ session' = conn[t] /\ live' = live \ {session}
    /\ Hold(t, None)
    /\ Go(t, "clone")
    /\ UNCHANGED <<tries, first, network, account, upsets>>

\* Where a call continues after an attempt that found no connection.
NextAttempt(c) == IF tries[c] = 1 THEN "again" ELSE "failed"

\* DNS, TCP, TLS or the HTTP/2 handshake fails or times out.
ConnectFails(t) ==
    /\ at[t] = "connect" /\ Upset
    /\ Go(t, IF t \in Callers THEN NextAttempt(t) ELSE "sleep")
    /\ UNCHANGED <<session, live, conn, tries, first, network, account>>

\* Another task dropped the session since: "H2 not connected".
NotConnected(t) ==
    /\ at[t] = "clone" /\ session = None
    /\ Go(t, IF t \in Callers THEN NextAttempt(t) ELSE "sleep")
    /\ UNCHANGED <<session, live, conn, tries, first, network, account, upsets>>

-----------------------------------------------------------------------------
(* Unary calls *)

\* A handle of the session carries the request; a dead one takes nothing.
Send(c) ==
    /\ c \in Callers /\ at[c] = "clone" /\ session # None
    /\ Hold(c, session)
    /\ wire' = IF session \in live THEN wire \cup {Request(c)} ELSE wire
    /\ Go(c, "await")
    /\ UNCHANGED <<session, live, tries, first, replies, runs, account, upsets>>

\* (mutant) the status in the trailers is not looked at
AnsweredAlwaysOk(c) ==
    /\ at[c] = "await" /\ replies[Request(c)] \in {"ok", "refused"}
    /\ Go(c, "ok")
    /\ Hold(c, None)
    /\ replies' = [replies EXCEPT ![Request(c)] = "none"]
    /\ UNCHANGED <<session, live, tries, first, wire, runs, account, upsets>>

\* A gRPC answer arrives, possibly read after the connection went.
Answered(c) ==
    /\ at[c] = "await" /\ replies[Request(c)] \in {"ok", "refused"}
    /\ Go(c, replies[Request(c)])
    /\ Hold(c, None)
    /\ replies' = [replies EXCEPT ![Request(c)] = "none"]
    /\ UNCHANGED <<session, live, tries, first, wire, runs, account, upsets>>

\* (mutant) a connection dropped by another task leaves the call waiting
BreakOnErrorOnly(c) ==
    /\ c \in Callers /\ at[c] = "await" /\ replies[Request(c)] = "error"
    /\ Go(c, "drop")
    /\ UNCHANGED <<session, live, conn, tries, first, network, account, upsets>>

\* A transport error: the connection is gone, or the reply is not HTTP 200.
Break(c) ==
    /\ c \in Callers /\ at[c] = "await"
    /\ conn[c] \notin live \/ replies[Request(c)] = "error"
    /\ Go(c, "drop")
    /\ UNCHANGED <<session, live, conn, tries, first, network, account, upsets>>

\* The handle goes; a first attempt is remembered.
GiveUpAttempt(c) ==
    /\ first' = [first EXCEPT ![c] = conn[c]]
    /\ Hold(c, None)
    /\ replies' = [replies EXCEPT ![Request(c)] = "none"]
    /\ Go(c, NextAttempt(c))
    /\ UNCHANGED <<tries, wire, runs, account, upsets>>

\* unary_once drops the session, whichever connection that is by now.
Drop(c) ==
    /\ at[c] = "drop"
    /\ Clear
    /\ GiveUpAttempt(c)

\* unary drops it once more, and starts the only retry.
Retry(c) ==
    /\ at[c] = "again"
    /\ Clear
    /\ tries' = [tries EXCEPT ![c] = 2]
    /\ Go(c, "check")
    /\ UNCHANGED <<conn, first, network, account, upsets>>

-----------------------------------------------------------------------------
(* Stream workers *)

\* run_worker drops whatever session there is before each open.
Reset(w) ==
    /\ at[w] = "reset"
    /\ Clear
    /\ Go(w, "check")
    /\ UNCHANGED <<conn, tries, first, network, account, upsets>>

\* open_message_stream sends the subscription and awaits the response.
OpenStream(w) ==
    /\ w \in Workers /\ at[w] = "clone" /\ session # None
    /\ Hold(w, session)
    /\ Go(w, "open")
    /\ UNCHANGED <<session, live, tries, first, network, account, upsets>>

Opened(w) ==
    /\ at[w] = "open" /\ conn[w] \in live
    /\ Go(w, "stream")
    /\ UNCHANGED <<session, live, conn, tries, first, network, account, upsets>>

\* The stream is over: wait_backoff.
Sleep(w) ==
    /\ Hold(w, None)
    /\ Go(w, "sleep")
    /\ UNCHANGED <<session, live, tries, first, network, account>>

\* (mutant) only the opening of a stream notices that the connection went
StreamBreaksUnnoticed(w) ==
    /\ at[w] = "open" /\ conn[w] \notin live
    /\ Sleep(w)
    /\ UNCHANGED upsets

\* The connection went, before the response or later.
StreamBreaks(w) ==
    /\ at[w] \in {"open", "stream"} /\ conn[w] \notin live
    /\ Sleep(w)
    /\ UNCHANGED upsets

\* The server refuses the stream or ends it.
HangUp(w) ==
    /\ at[w] \in {"open", "stream"} /\ Upset
    /\ Sleep(w)

Wake(w) ==
    /\ at[w] = "sleep"
    /\ Go(w, "reset")
    /\ UNCHANGED <<session, live, conn, tries, first, network, account, upsets>>

\* The Shutdown is read; commands before it may keep the worker going a while.
Stop(w) ==
    /\ w \in stopping /\ at[w] \in {"reset", "stream", "sleep"}
    /\ stopping' = stopping \ {w}
    /\ Hold(w, None)
    /\ Go(w, "stopped")
    /\ UNCHANGED <<session, live, tries, first, network, mine, clears, upsets,
                   logins>>

-----------------------------------------------------------------------------
(* The account: start_orchestrator and do_logout *)

\* A pipeline starts: at a login, or at a re-authentication while another one
\* runs, which then is no longer reachable.
StartWorker(w) ==
    /\ at[w] = "stopped" /\ logins < MaxLogins
    /\ logins' = logins + 1
    /\ mine' = w
    /\ Go(w, "reset")
    /\ UNCHANGED <<session, live, conn, tries, first, network, stopping, clears,
                   upsets>>

\* (mutant) do_logout keeps stream_tx
LogoutKeeps ==
    /\ mine # None
    /\ stopping' = stopping \cup {mine}
    /\ clears' = clears + 1
    /\ UNCHANGED <<session, live, at, conn, tries, first, network, mine, upsets,
                   logins>>

Logout ==
    /\ mine # None
    /\ stopping' = stopping \cup {mine}
    /\ clears' = clears + 1
    /\ mine' = None
    /\ UNCHANGED <<session, live, at, conn, tries, first, network, upsets, logins>>

\* The task the logout spawned, any time later.
LateClear ==
    /\ clears > 0
    /\ clears' = clears - 1
    /\ Clear
    /\ UNCHANGED <<at, conn, tries, first, network, mine, stopping, upsets, logins>>

-----------------------------------------------------------------------------
(* Network and server *)

\* A request of the attempt under way, on a connection that still stands.
Attached(r) == at[r[1]] = "await" /\ tries[r[1]] = r[2] /\ conn[r[1]] \in live

\* What the server says is heard by who still waits for it.
Reply(r, what) ==
    replies' = IF Attached(r) THEN [replies EXCEPT ![r] = what] ELSE replies

\* The server carries a request out, or refuses it.  One that was lost with
\* its connection is one it never takes up.
Serve(r) ==
    /\ r \in wire
    /\ wire' = wire \ {r}
    /\ \/ Reply(r, "ok") /\ runs' = runs \cup {r}
       \/ Attached(r) /\ Reply(r, "refused") /\ UNCHANGED runs
    /\ UNCHANGED <<session, live, at, conn, tries, first, account, upsets>>

\* The proxy answers in its place, whether it was carried out or not.
ServeError(r) ==
    /\ r \in wire /\ Attached(r) /\ Upset
    /\ wire' = wire \ {r}
    /\ Reply(r, "error")
    /\ \/ runs' = runs \cup {r}
       \/ UNCHANGED runs
    /\ UNCHANGED <<session, live, at, conn, tries, first, account>>

\* A connection breaks.
Cut(k) ==
    /\ k \in live /\ Upset
    /\ live' = live \ {k}
    /\ UNCHANGED <<session, at, conn, tries, first, network, account>>

-----------------------------------------------------------------------------
Step(t) == Check(t) \/ Connect(t) \/ ConnectFails(t) \/ Store(t) \/ NotConnected(t)
CallStep(c) == Send(c) \/ Answered(c) \/ Break(c) \/ Drop(c) \/ Retry(c)
WorkerStep(w) == Reset(w) \/ OpenStream(w) \/ Opened(w) \/ StreamBreaks(w)
                    \/ HangUp(w) \/ Wake(w) \/ Stop(w) \/ StartWorker(w)

Next ==
    \/ \E t \in Tasks : Step(t)
    \/ \E c \in Callers : Call(c) \/ CallStep(c)
    \/ \E w \in Workers : WorkerStep(w)
    \/ Logout \/ LateClear
    \/ \E r \in Requests : Serve(r) \/ ServeError(r)
    \/ \E k \in Conns : Cut(k)

Spec == Init /\ [][Next]_vars

\* The runtime runs every ready task, connecting and sleeping end, and the
\* server deals with what it has got.  Faults, calls and the user are not fair.
FairSpec ==
    /\ Spec
    /\ \A t \in Tasks : WF_vars(Check(t) \/ Connect(t) \/ Store(t) \/ NotConnected(t))
    /\ \A c \in Callers : WF_vars(CallStep(c))
    /\ \A w \in Workers :
        /\ WF_vars(Reset(w) \/ OpenStream(w) \/ Opened(w) \/ StreamBreaks(w) \/ Wake(w))
        /\ SF_vars(Stop(w))
    /\ WF_vars(LateClear)
    /\ \A r \in Requests : WF_vars(Attached(r) /\ Serve(r))

-----------------------------------------------------------------------------
(* Properties *)

\* A connection whose driver runs is the one of the session, or is about to be
\* stored: two tasks that connect at the same time leave none behind
\* (ensure, client.rs:71; Drop of H2Session, connection.rs:26).
OneConnection ==
    \A k \in live : k = session \/ \E t \in Tasks : at[t] = "store" /\ conn[t] = k

\* The retry of a call never goes out on the connection that failed the first
\* attempt, whoever stored or dropped sessions meanwhile ("one retry after a
\* transport error (new session)", client.rs:90).
RetryOnNewSession ==
    \A c \in Callers : tries[c] = 2 /\ conn[c] # None => conn[c] # first[c]

\* How often an attempt was carried out.
Ran(c, n) == IF <<c, n>> \in runs THEN 1 ELSE 0

\* RemoteCall with the connection, the attempts and the wire forgotten.
Abstract == INSTANCE RemoteCall WITH
    outcome <- [c \in Callers |->
                  IF at[c] \in Ended \cup {"idle"} THEN at[c] ELSE "pending"],
    runs    <- [c \in Callers |-> Ran(c, 1) + Ran(c, 2)],
    lost    <- [c \in Callers |-> tries[c] = 2 \/ at[c] \in {"drop", "again"}]

\* A unary call keeps the promise of RemoteCall: its result says truly whether
\* the server ran it, and only an attempt whose answer was lost is repeated.
ImplementsRemoteCall == Abstract!Spec

\* Every call returns, though other tasks may take its connection away twice.
CallsEnd == \A c \in Callers : at[c] = "check" ~> at[c] \in Ended

Settled == \A w \in Workers : at[w] = "stopped" \/ (at[w] = "stream" /\ conn[w] \in live)
Alone == \A v, w \in Workers : at[v] # "stopped" /\ at[w] # "stopped" => v = w

\* A stream worker that is left alone gets its stream back for good, whatever
\* calls and late invalidations did to its connection (run_worker).
LoneStreamSettles == <>[]Alone => <>[]Settled

\* "restarts the orchestrator" (app.rs:1080): once the faults are over, the
\* stream is up again after a re-authentication.
RestartSettles == <>[]Settled
=============================================================================
