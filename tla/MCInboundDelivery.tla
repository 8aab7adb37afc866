-------------------------- MODULE MCInboundDelivery --------------------------
(* Instances of InboundDelivery for TLC: which entries the server may log.  *)
EXTENDS InboundDelivery

CONSTANTS alice, bob, t1, t2

Shape(kind, from, hasCursor) ==
    [kind |-> kind, from |-> from, cursor |-> hasCursor]

\* Two peers: user text, a session-opening message of the other peer, a reset
\* that carries no cursor, an ack, and what the worker cannot parse.
MixedEntries ==
    {Shape("text", bob, TRUE), Shape("init", alice, TRUE),
     Shape("reset", alice, FALSE), Shape("ack", bob, TRUE),
     Shape("garbled", bob, TRUE)}

\* One peer whose session is up: text among entries that the relay drops.
TextEntries == {Shape("text", bob, TRUE), Shape("unreadable", bob, TRUE)}
=============================================================================
