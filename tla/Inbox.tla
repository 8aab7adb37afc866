-------------------------------- MODULE Inbox --------------------------------
(***************************************************************************)
(* What the inbound pipeline promises, whatever lies between the server's  *)
(* stream and the database: a table that keeps the first text it was given *)
(* for an entry, and a watermark that only moves forward, onto an entry    *)
(* with nothing undecided before it.                                       *)
(***************************************************************************)
EXTENDS Integers

CONSTANTS Texts, NoText, MaxLog

VARIABLES
    published,  \* how many entries the server has logged
    decided,    \* entries the client took a decision about
    messages,   \* id -> text, or NoText
    cursor      \* the durable watermark

vars == <<published, decided, messages, cursor>>

Init ==
    /\ published = 0 /\ decided = {}
    /\ messages = [k \in 1..MaxLog |-> NoText] /\ cursor = 0

Publish ==
    /\ published < MaxLog
    /\ published' = published + 1
    /\ UNCHANGED <<decided, messages, cursor>>

\* Only what was logged is decided about, any number of times.
Decide(k) ==
    /\ k \in 1..published
    /\ decided' = decided \cup {k}
    /\ UNCHANGED <<published, messages, cursor>>

\* The first text of an entry stays.
Record(k, t) ==
    /\ k \in decided /\ messages[k] = NoText
    /\ messages' = [messages EXCEPT ![k] = t]
    /\ UNCHANGED <<published, decided, cursor>>

\* The entry may be decided about and passed in one step.
Advance(k) ==
    /\ cursor < k /\ k <= published
    /\ decided' \in {decided, decided \cup {k}}
    /\ 1..k \subseteq decided'
    /\ cursor' = k
    /\ UNCHANGED <<published, messages>>

Next ==
    \/ Publish
    \/ \E k \in 1..MaxLog :
          Decide(k) \/ Advance(k) \/ \E t \in Texts : Record(k, t)

Spec == Init /\ [][Next]_vars
=============================================================================
