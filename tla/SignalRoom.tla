----------------------------- MODULE SignalRoom -----------------------------
(***************************************************************************)
(* One signalling room: the SignalRoom durable object of                   *)
(* signal-server/src/index.ts.  A durable object runs one event handler at *)
(* a time, so every handler is one action.                                 *)
(*                                                                         *)
(* A WebSocket is created by Connect, may be closed by the room (`close`,  *)
(* conn = "closed": the close event is still to come and messages already  *)
(* under way are still delivered), and is "gone" once its close event has  *)
(* been handled.  Each member of Sockets is one WebSocket object and is    *)
(* used once.  Messages that only earn an error reply (malformed, unknown  *)
(* type, sender mismatch, no join) change nothing in the room and are      *)
(* stuttering steps; so are forwarded offers and answers.                  *)
(***************************************************************************)
EXTENDS Integers, Sequences

CONSTANTS
  Sockets,      \* the WebSocket objects
  Identities,   \* strings accepted by isIdentity
  NoSocket,     \* no entry in the map `peers`
  NoIdentity,   \* no entry in the map `sockets`
  Grace,        \* identityGracePeriodMs
  Window,       \* relayRateLimitWindowMs
  MaxRelay,     \* maxRelayPerWindow
  MaxBurst,     \* bound of the model: relays counted in one window
  MaxTime,      \* bound of the model: the clock stops here
  SingleJoin    \* TRUE: a client sends one join per WebSocket, as the daemon does

ASSUME RoomAssumption ==
  /\ NoSocket \notin Sockets
  /\ NoIdentity \notin Identities
  /\ Grace \in Nat
  /\ Window \in Nat \ {0}
  /\ MaxRelay \in Nat
  /\ MaxBurst \in Nat
  /\ MaxTime \in Nat
  /\ SingleJoin \in BOOLEAN

VARIABLES
  peers,      \* this.peers: identity -> [ws, joinedAt], ws = NoSocket when absent
  sockets,    \* this.sockets: WebSocket -> identity, NoIdentity when absent
  rateLimit,  \* this.rateLimit: identity -> [count, resetAt], NoEntry when absent
  conn,       \* life of each WebSocket
  spoke,      \* the WebSockets that have sent a join
  now,        \* Date.now()
  roster,     \* history: the peers a WebSocket has been told are in the room
  passed      \* history: identity -> the times its relays got past checkRateLimit

vars == <<peers, sockets, rateLimit, conn, spoke, now, roster, passed>>

NoEntry == [count |-> 0, resetAt |-> 0]

NoPeer == [ws |-> NoSocket, joinedAt |-> 0]

TypeOK ==
  /\ peers \in [Identities -> [ws : Sockets \cup {NoSocket}, joinedAt : Nat]]
  /\ sockets \in [Sockets -> Identities \cup {NoIdentity}]
  /\ rateLimit \in [Identities -> [count : Nat, resetAt : Nat]]
  /\ conn \in [Sockets -> {"unborn", "open", "closed", "gone"}]
  /\ spoke \in SUBSET Sockets
  /\ now \in Nat
  /\ roster \in [Sockets -> SUBSET Identities]
  /\ passed \in [Identities -> Seq(Nat)]

Init ==
  /\ peers = [id \in Identities |-> NoPeer]
  /\ sockets = [s \in Sockets |-> NoIdentity]
  /\ rateLimit = [id \in Identities |-> NoEntry]
  /\ conn = [s \in Sockets |-> "unborn"]
  /\ spoke = {}
  /\ now = 0
  /\ roster = [s \in Sockets |-> {}]
  /\ passed = [id \in Identities |-> <<>>]

-----------------------------------------------------------------------------
(* Helpers over the maps.                                                  *)

\* The identities that have an entry in `p`.
Present(p) == {id \in Identities : p[id].ws # NoSocket}

\* The WebSockets `p` would send a broadcast to, the excluded one left out.
Audience(p, exclude) == {p[id].ws : id \in Present(p)} \ {exclude}

\* A WebSocket whose events the room still handles.
Live(s) == conn[s] \in {"open", "closed"}

(* broadcast sends to every entry in turn.  A send to a WebSocket that is  *)
(* no longer open may throw, which ends the loop, so then any part of the  *)
(* open ones is reached; otherwise all of them are.                        *)
Reaches(reached, audience, status) ==
  LET open == {s \in audience : status[s] = "open"}
  IN  /\ reached \subseteq open
      /\ audience = open => reached = open

\* Mutant of Recent: the age is taken in other units and never reaches the period.
RecentForEver(id) == TRUE

\* The identity's connection is so recent that a second one is refused.
Recent(id) == now - peers[id].joinedAt < Grace

\* Another WebSocket holds the identity.
Contested(s, id) == peers[id].ws \notin {NoSocket, s}

-----------------------------------------------------------------------------
(* Event handlers.                                                         *)

Connect(s) ==
  /\ conn[s] = "unborn"
  /\ conn' = [conn EXCEPT ![s] = "open"]
  /\ UNCHANGED <<peers, sockets, rateLimit, spoke, now, roster, passed>>

MayJoin(s) == Live(s) /\ (SingleJoin => s \notin spoke)

\* "join" for an identity that another WebSocket took less than Grace ago.
RejectJoin(s, id) ==
  /\ MayJoin(s)
  /\ Contested(s, id) /\ Recent(id)
  /\ conn' = [conn EXCEPT ![s] = "closed"]
  /\ spoke' = spoke \cup {s}
  /\ UNCHANGED <<peers, sockets, rateLimit, now, roster, passed>>

\* Mutant of ReplacedConn: the older connection is not closed.
KeepReplacedConn(s, id) == conn

\* `existingEntry.ws.close(...)` and `this.sockets.delete(existingEntry.ws)`.
ReplacedConn(s, id) ==
  IF Contested(s, id) /\ conn[peers[id].ws] = "open"
    THEN [conn EXCEPT ![peers[id].ws] = "closed"] ELSE conn

\* Mutant of JoinedSockets: `this.sockets.delete(existingEntry.ws)` forgotten.
KeepReplacedSocket(s, id) == [sockets EXCEPT ![s] = id]

JoinedSockets(s, id) ==
  [t \in Sockets |->
     CASE t = s -> id
       [] t # s /\ t = peers[id].ws -> NoIdentity
       [] OTHER -> sockets[t]]

\* Mutant of Announced: the others are told, the newcomer gets no list of them.
AnnouncedStale(s, id, joined, reached) ==
  [t \in Sockets |-> IF t # s /\ t \in reached THEN roster[t] \cup {id} ELSE roster[t]]

\* What the "joined" reply and the "peer_joined" broadcast tell the sockets.
Announced(s, id, joined, reached) ==
  [t \in Sockets |->
     CASE t = s /\ conn[s] = "open" -> Present(joined) \ {id}
       [] t # s /\ t \in reached -> roster[t] \cup {id}
       [] OTHER -> roster[t]]

\* "join": take the identity over, answer "joined", broadcast "peer_joined".
AcceptJoin(s, id, reached) ==
  LET joined == [peers EXCEPT ![id] = [ws |-> s, joinedAt |-> now]]
  IN  /\ MayJoin(s)
      /\ ~(Contested(s, id) /\ Recent(id))
      /\ conn' = ReplacedConn(s, id)
      /\ sockets' = JoinedSockets(s, id)
      /\ peers' = joined
      /\ spoke' = spoke \cup {s}
      \* the "joined" reply to a WebSocket the room closed throws first
      /\ IF conn[s] = "open" THEN Reaches(reached, Audience(joined, s), conn')
                             ELSE reached = {}
      /\ roster' = Announced(s, id, joined, reached)
      /\ UNCHANGED <<rateLimit, now, passed>>

\* Mutant of PeersAfterClose: the entry is left behind.
ForgetNobody(s) == peers

\* The close handler forgets the peer only while this WebSocket still holds it.
PeersAfterClose(s) ==
  [id \in Identities |->
     IF sockets[s] = id /\ peers[id].ws = s THEN NoPeer ELSE peers[id]]

\* Mutant of RateLimitAfterClose: what the comment in the close handler says.
CleanRateLimit(s) ==
  [id \in Identities |-> IF sockets[s] = id THEN NoEntry ELSE rateLimit[id]]

\* `this.rateLimit.delete(server)`: no entry has a WebSocket as its key.
RateLimitAfterClose(s) == rateLimit

\* Mutant of Close: the peer is forgotten after the broadcast, which may throw.
CloseBroadcastFirst(s, reached, thrown) ==
  LET id   == sockets[s]
      left == PeersAfterClose(s)
  IN  /\ Live(s)
      /\ conn' = [conn EXCEPT ![s] = "gone"]
      /\ thrown => left # peers /\ \E t \in Audience(left, s) : conn[t] # "open"
      /\ peers' = IF thrown THEN peers ELSE left
      /\ IF left # peers THEN Reaches(reached, Audience(left, s), conn) ELSE reached = {}
      /\ sockets' = IF thrown THEN sockets ELSE [sockets EXCEPT ![s] = NoIdentity]
      /\ roster' = [t \in Sockets |->
                      IF t \in reached THEN roster[t] \ {id} ELSE roster[t]]
      /\ UNCHANGED <<rateLimit, spoke, now, passed>>

\* The close event: a broadcast that throws leaves the entry in `sockets`.
Close(s, reached, thrown) ==
  LET id   == sockets[s]
      left == PeersAfterClose(s)
      rest == Audience(left, s)
  IN  /\ Live(s)
      /\ conn' = [conn EXCEPT ![s] = "gone"]
      /\ peers' = left
      /\ thrown => left # peers /\ \E t \in rest : conn[t] # "open"
      /\ IF left # peers THEN Reaches(reached, rest, conn) ELSE reached = {}
      /\ sockets' = IF thrown THEN sockets ELSE [sockets EXCEPT ![s] = NoIdentity]
      /\ roster' = [t \in Sockets |->
                      IF t \in reached THEN roster[t] \ {id} ELSE roster[t]]
      /\ rateLimit' = RateLimitAfterClose(s)
      /\ UNCHANGED <<spoke, now, passed>>

\* Mutant of Counted: the entry counts down, and a new window does not refill it.
CountedDown(id) ==
  [count |-> rateLimit[id].count - 1, resetAt |-> now + Window]

\* checkRateLimit: a new window once the old one has run out, then count++.
Counted(id) ==
  LET entry == IF now >= rateLimit[id].resetAt
                 THEN [count |-> 0, resetAt |-> now + Window]
                 ELSE rateLimit[id]
  IN  [entry EXCEPT !.count = @ + 1]

WithinLimit(entry) == entry.count <= MaxRelay

(* "relay" from a joined WebSocket.  The count is taken before the target  *)
(* and the size are looked at, so a relay that is then refused counts too. *)
Relay(s) ==
  LET id    == sockets[s]
      entry == Counted(id)
  IN  /\ Live(s)
      /\ id # NoIdentity
      /\ entry.count <= MaxBurst
      /\ rateLimit' = [rateLimit EXCEPT ![id] = entry]
      /\ passed' = IF WithinLimit(entry)
                     THEN [passed EXCEPT ![id] = Append(@, now)] ELSE passed
      /\ UNCHANGED <<peers, sockets, conn, spoke, now, roster>>

Tick ==
  /\ now < MaxTime
  /\ now' = now + 1
  /\ UNCHANGED <<peers, sockets, rateLimit, conn, spoke, roster, passed>>

Next ==
  \/ \E s \in Sockets : Connect(s) \/ Relay(s)
  \/ \E s \in Sockets, id \in Identities : RejectJoin(s, id)
  \/ \E s \in Sockets, id \in Identities, reached \in SUBSET Sockets :
       AcceptJoin(s, id, reached)
  \/ \E s \in Sockets, reached \in SUBSET Sockets, thrown \in BOOLEAN :
       Close(s, reached, thrown)
  \/ Tick

Spec == Init /\ [][Next]_vars

-----------------------------------------------------------------------------
(* Properties.                                                             *)

(* A WebSocket the room accepts messages from under an identity (isSender) *)
(* is also the one it delivers that identity's messages to: however joins, *)
(* replacements and late close events interleave, `sockets` and `peers`    *)
(* never give one identity to two connections.                             *)
SenderOwnsRoute ==
  \A s \in Sockets :
    conn[s] # "gone" /\ sockets[s] # NoIdentity => peers[sockets[s]].ws = s

(* Any client: a connection that has ended has lost the route of the       *)
(* identity it spoke for, also when the "peer_left" broadcast of its close *)
(* event threw and left its entry in `sockets` behind, so that nothing     *)
(* that later finds this entry takes the connection for a member.          *)
EndedOwnsNoRoute ==
  \A s \in Sockets :
    conn[s] = "gone" /\ sockets[s] # NoIdentity => peers[sockets[s]].ws # s

(* Clients that join once per WebSocket: every entry of `peers` leads to   *)
(* an open connection registered under that identity.  A close event that  *)
(* arrives after its connection was replaced must not remove the           *)
(* newcomer's entry, and no entry outlives its connection (a send to it    *)
(* would throw in the middle of a broadcast).                              *)
RouteOpen ==
  \A id \in Present(peers) :
    /\ conn[peers[id].ws] = "open"
    /\ sockets[peers[id].ws] = id

(* Clients that join once per WebSocket: what "joined", "peer_joined" and  *)
(* "peer_left" have told a joined connection adds up to the room's other   *)
(* members, at every moment.                                               *)
RosterExact ==
  \A s \in Sockets :
    sockets[s] # NoIdentity /\ conn[s] = "open" =>
      roster[s] = Present(peers) \ {sockets[s]}

(* checkRateLimit counts in windows that start with a relay, so the bound  *)
(* it enforces over ANY Window long interval is twice the limit, and it    *)
(* holds per identity across reconnections.                                *)
RateBound ==
  \A id \in Identities : \A i \in DOMAIN passed[id] :
    i + 2 * MaxRelay \in DOMAIN passed[id] =>
      passed[id][i + 2 * MaxRelay] >= passed[id][i] + Window

(* index.ts:6 says the durable object "tracks connected peers": an entry   *)
(* of `peers` is a peer whose connection has not ended.                    *)
PeersConnected == \A id \in Present(peers) : conn[peers[id].ws] # "gone"

=============================================================================
