--------------------------- MODULE SessionChannel ---------------------------
(***************************************************************************)
(* One direction of a session: what is on its way from one end of a netchan *)
(* to the other.  It is Netchan and NetchanHosts at the grain of whole      *)
(* messages: reliable ones arrive once and in order, late or never; a       *)
(* datagram arrives at most once and not after a later one.                *)
(*                                                                         *)
(* skew says that the two ends disagree on the parity of reliable payloads, *)
(* which Netchan_Clear can cause when a payload is lost that it has         *)
(* forgotten.  The next payload is then taken for acknowledged when it is   *)
(* lost, and for lost when it is acknowledged.                              *)
(*                                                                         *)
(* A message "torn" is one of whose fragments some have been forgotten.     *)
(***************************************************************************)
EXTENDS Integers, FiniteSets

\* A queue is a set of messages [age, what, level]; the age of a message is the
\* number of those sent after it.
Silent == [queue |-> {}, skew |-> FALSE]

\* What is sent in datagrams of its own; all else goes through the reliable
\* stream.
Unreliable   == {"entities", "reconnect", "disconnect"}
Reliables(q) == {m \in q : m.what \notin Unreliable}
First(q)     == {m \in Reliables(q) : \A r \in Reliables(q) : m.age >= r.age}

Aged(q)       == {[m EXCEPT !.age = @ + 1] : m \in q}
Renumbered(q) == {[m EXCEPT !.age = Cardinality({r \in q : r.age < m.age})] : m \in q}

\* Netchan_TransmitBits, Netchan_CreateFragments: a message is put on its way.
Send(ch, what, level) ==
    [ch EXCEPT !.queue = Aged(@) \cup {[age |-> 0, what |-> what, level |-> level]}]

\* What may arrive next: any datagram, or the first of the reliable messages.
Deliverable(ch) == (ch.queue \ Reliables(ch.queue)) \cup First(ch.queue)

\* Netchan_Process: what is left when message m has arrived.  Datagrams sent
\* before it are stale; reliable messages sent before it will be sent again.
After(q, m) == {r \in q : r.age < m.age} \cup {r \in Reliables(q) : r.age > m.age}

Taken(ch, m) == [ch EXCEPT !.queue = Renumbered(After(@, m))]

Arrivals(ch, m) ==
    IF ch.skew /\ m.what \notin Unreliable
    THEN {[chan |-> [queue |-> Renumbered(After(ch.queue, m)), skew |-> FALSE], got |-> FALSE],
          [chan |-> [queue |-> Renumbered({m} \cup After(ch.queue, m)), skew |-> FALSE],
           got |-> TRUE]}
    ELSE {[chan |-> Taken(ch, m), got |-> TRUE]}

\* Netchan_Clear at the sending end forgets every reliable message.  What the
\* first of them comes to depends on where it is: not sent yet, lost on the way
\* (the parities then differ by one more payload), or about to arrive.
Fate == {"unsent", "lost", "arriving"}

Cleared(ch, fate) ==
    LET q        == ch.queue
        arriving == IF fate = "arriving"
                    THEN {[m EXCEPT !.age = Cardinality(q)] : m \in First(q)} ELSE {}
    IN  [queue |-> Renumbered((q \ Reliables(q)) \cup arriving),
         skew  |-> IF fate = "lost" /\ Reliables(q) # {} THEN ~ch.skew ELSE ch.skew]

\* Netchan_Clear at the receiving end forgets the fragments that have come in:
\* the message they are of, the first one, may be torn.
Torn(ch) == [ch EXCEPT !.queue = {IF m \in First(ch.queue) THEN [m EXCEPT !.what = "torn"]
                                  ELSE m : m \in ch.queue}]

\* A channel without the messages of one kind.
Without(ch, what) == [ch EXCEPT !.queue = Renumbered({m \in @ : m.what # what})]

\* MSG_Clear of netchan.message alone: commands that have not been sent are
\* lost, a payload on its way and fragments are kept.
Withdrawn(ch) == {ch, [ch EXCEPT !.queue =
                     Renumbered({m \in @ : m.what \in Unreliable \cup {"spawn"}})]}
=============================================================================
