---------------------------- MODULE RelayChannel ----------------------------
(***************************************************************************)
(* What the encrypted relay promises to the tools behind it: from each     *)
(* peer to each other one a channel that may lose messages, but delivers   *)
(* only what was sent on it, each message at most once and in the order    *)
(* of sending.  There are no keys, sessions, links or handshakes here, and *)
(* no relay that could interfere.  RelaySession implements this module.    *)
(***************************************************************************)
EXTENDS Integers, Sequences

CONSTANTS
  Peers,
  Bodies    \* what a message can say

VARIABLES
  next,       \* next[p][q]: how many messages p has numbered for q
  sent,       \* the messages that have left their sender
  delivered   \* delivered[p][q]: what p has been given from q

vars == <<next, sent, delivered>>

Init ==
  /\ next = [p \in Peers |-> [q \in Peers |-> 0]]
  /\ sent = {}
  /\ delivered = [p \in Peers |-> [q \in Peers |-> <<>>]]

Number(p, q) == next' = [next EXCEPT ![p][q] = @ + 1]

Message(p, q, body) == [from |-> p, to |-> q, n |-> next[p][q], body |-> body]

\* p gets m, which is newer than all it has been given from m's sender.
Take(p, m) ==
  LET q == m.from
  IN  /\ m.to = p
      /\ \A i \in DOMAIN delivered[p][q] : delivered[p][q][i].n < m.n
      /\ delivered' = [delivered EXCEPT ![p][q] = Append(@, m)]

Send(p, q, body) ==
  /\ Number(p, q)
  /\ sent' = sent \cup {Message(p, q, body)}
  /\ UNCHANGED delivered

Deliver(p, m) == Take(p, m) /\ UNCHANGED <<next, sent>>

\* The answer goes back as part of the delivery.
DeliverAndAnswer(p, m, body) ==
  /\ Take(p, m)
  /\ Number(p, m.from)
  /\ sent' = sent \cup {Message(p, m.from, body)}

\* The answer is numbered and lost on the sender's side.
DeliverAndLose(p, m) ==
  /\ Take(p, m)
  /\ Number(p, m.from)
  /\ UNCHANGED sent

Next ==
  \/ \E p, q \in Peers, body \in Bodies : Send(p, q, body)
  \/ \E p \in Peers, m \in sent : Deliver(p, m) \/ DeliverAndLose(p, m)
  \/ \E p \in Peers, m \in sent, body \in Bodies : DeliverAndAnswer(p, m, body)

Spec == Init /\ [][Next]_vars

=============================================================================
