-------------------------- MODULE SignalRoomProofs --------------------------
(***************************************************************************)
(* Proofs about the signalling room, for every set of sockets and          *)
(* identities and every value of the limits.  SenderOwnsRoute is inductive *)
(* with the type invariant.  RouteOpen and RosterExact also need Silent:   *)
(* a WebSocket that has not sent its join is in neither map and has not    *)
(* been closed by the room; they hold of every behaviour in which no       *)
(* WebSocket joins twice (NextJoiningOnce).  RateBound needs RateInv, what *)
(* the entry of rateLimit says of the relays passed in its window.         *)
(***************************************************************************)
EXTENDS SignalRoom, TLAPS

LEMMA InitType == Init => TypeOK
BY RoomAssumption DEF Init, TypeOK, NoPeer, NoEntry

LEMMA NextType == TypeOK /\ [Next]_vars => TypeOK'
<1> SUFFICES ASSUME TypeOK, [Next]_vars PROVE TypeOK'
  OBVIOUS
<1> USE RoomAssumption
<1>1. ASSUME NEW s \in Sockets, Connect(s) PROVE TypeOK'
  BY <1>1 DEF TypeOK, Connect
<1>2. ASSUME NEW s \in Sockets, NEW id \in Identities, RejectJoin(s, id)
      PROVE  TypeOK'
  BY <1>2 DEF TypeOK, RejectJoin
<1>3. ASSUME NEW s \in Sockets, NEW id \in Identities, NEW reached \in SUBSET Sockets,
             AcceptJoin(s, id, reached)
      PROVE  TypeOK'
  <2>1. conn' \in [Sockets -> {"unborn", "open", "closed", "gone"}]
    BY <1>3 DEF TypeOK, AcceptJoin, ReplacedConn
  <2>2. sockets' \in [Sockets -> Identities \cup {NoIdentity}]
    BY <1>3 DEF TypeOK, AcceptJoin, JoinedSockets
  <2>3. peers' \in [Identities -> [ws : Sockets \cup {NoSocket}, joinedAt : Nat]]
    BY <1>3 DEF TypeOK, AcceptJoin
  <2>4. roster' \in [Sockets -> SUBSET Identities]
    BY <1>3 DEF TypeOK, AcceptJoin, Announced, Present
  <2> QED
    BY <1>3, <2>1, <2>2, <2>3, <2>4 DEF TypeOK, AcceptJoin
<1>4. ASSUME NEW s \in Sockets, NEW reached \in SUBSET Sockets, NEW thrown \in BOOLEAN,
             Close(s, reached, thrown)
      PROVE  TypeOK'
  <2>1. peers' \in [Identities -> [ws : Sockets \cup {NoSocket}, joinedAt : Nat]]
    BY <1>4 DEF TypeOK, Close, PeersAfterClose, NoPeer
  <2>2. sockets' \in [Sockets -> Identities \cup {NoIdentity}]
    BY <1>4 DEF TypeOK, Close
  <2> QED
    BY <1>4, <2>1, <2>2 DEF TypeOK, Close, RateLimitAfterClose
<1>5. ASSUME NEW s \in Sockets, Relay(s) PROVE TypeOK'
  <2>1. sockets[s] \in Identities
    BY <1>5 DEF TypeOK, Relay
  <2>2. rateLimit[sockets[s]] \in [count : Nat, resetAt : Nat] /\ now \in Nat
    BY <2>1 DEF TypeOK
  <2>3. Counted(sockets[s]) \in [count : Nat, resetAt : Nat]
    BY <2>2 DEF Counted
  <2> QED
    BY <1>5, <2>1, <2>3 DEF TypeOK, Relay
<1>6. CASE Tick
  BY <1>6 DEF TypeOK, Tick
<1>7. CASE UNCHANGED vars
  BY <1>7 DEF TypeOK, vars
<1> QED
  BY <1>1, <1>2, <1>3, <1>4, <1>5, <1>6, <1>7 DEF Next

\* The maps, the clock and the histories always have the types the code gives them.
THEOREM TypeCorrect == Spec => []TypeOK
BY InitType, NextType, PTL DEF Spec

-----------------------------------------------------------------------------
LEMMA NextOwns == TypeOK /\ SenderOwnsRoute /\ [Next]_vars => SenderOwnsRoute'
<1> SUFFICES ASSUME TypeOK, SenderOwnsRoute, [Next]_vars PROVE SenderOwnsRoute'
  OBVIOUS
<1> USE RoomAssumption
<1>1. ASSUME NEW s \in Sockets, Connect(s) PROVE SenderOwnsRoute'
  BY <1>1 DEF TypeOK, SenderOwnsRoute, Connect
<1>2. ASSUME NEW s \in Sockets, NEW id \in Identities, RejectJoin(s, id)
      PROVE  SenderOwnsRoute'
  BY <1>2 DEF TypeOK, SenderOwnsRoute, RejectJoin, MayJoin, Live
<1>3. ASSUME NEW s \in Sockets, NEW id \in Identities, NEW reached \in SUBSET Sockets,
             AcceptJoin(s, id, reached)
      PROVE  SenderOwnsRoute'
  BY <1>3 DEF TypeOK, SenderOwnsRoute, AcceptJoin, MayJoin, ReplacedConn, JoinedSockets
<1>4. ASSUME NEW s \in Sockets, NEW reached \in SUBSET Sockets, NEW thrown \in BOOLEAN,
             Close(s, reached, thrown)
      PROVE  SenderOwnsRoute'
  BY <1>4 DEF TypeOK, SenderOwnsRoute, Close, PeersAfterClose
<1>5. ASSUME NEW s \in Sockets, Relay(s) PROVE SenderOwnsRoute'
  BY <1>5 DEF TypeOK, SenderOwnsRoute, Relay
<1>6. CASE Tick
  BY <1>6 DEF TypeOK, SenderOwnsRoute, Tick
<1>7. CASE UNCHANGED vars
  BY <1>7 DEF TypeOK, SenderOwnsRoute, vars
<1> QED
  BY <1>1, <1>2, <1>3, <1>4, <1>5, <1>6, <1>7 DEF Next

(* Whatever a client does (several joins on one WebSocket included), the   *)
(* connection an identity may speak through is the one it is reached on.   *)
THEOREM SenderOwnsRouteHolds == Spec => []SenderOwnsRoute
<1>1. Init => SenderOwnsRoute
  BY DEF Init, SenderOwnsRoute
<1> QED
  BY <1>1, InitType, NextType, NextOwns, PTL DEF Spec

LEMMA NextEnded == TypeOK /\ EndedOwnsNoRoute /\ [Next]_vars => EndedOwnsNoRoute'
<1> SUFFICES ASSUME TypeOK, EndedOwnsNoRoute, [Next]_vars PROVE EndedOwnsNoRoute'
  OBVIOUS
<1> USE RoomAssumption
<1>1. ASSUME NEW s \in Sockets, Connect(s) PROVE EndedOwnsNoRoute'
  BY <1>1 DEF TypeOK, EndedOwnsNoRoute, Connect
<1>2. ASSUME NEW s \in Sockets, NEW id \in Identities, RejectJoin(s, id)
      PROVE  EndedOwnsNoRoute'
  BY <1>2 DEF TypeOK, EndedOwnsNoRoute, RejectJoin
<1>3. ASSUME NEW s \in Sockets, NEW id \in Identities, NEW reached \in SUBSET Sockets,
             AcceptJoin(s, id, reached)
      PROVE  EndedOwnsNoRoute'
  BY <1>3 DEF TypeOK, EndedOwnsNoRoute, AcceptJoin, MayJoin, Live, ReplacedConn, JoinedSockets
<1>4. ASSUME NEW s \in Sockets, NEW reached \in SUBSET Sockets, NEW thrown \in BOOLEAN,
             Close(s, reached, thrown)
      PROVE  EndedOwnsNoRoute'
  BY <1>4 DEF TypeOK, EndedOwnsNoRoute, Close, PeersAfterClose, NoPeer
<1>5. ASSUME NEW s \in Sockets, Relay(s) PROVE EndedOwnsNoRoute'
  BY <1>5 DEF TypeOK, EndedOwnsNoRoute, Relay
<1>6. CASE Tick
  BY <1>6 DEF TypeOK, EndedOwnsNoRoute, Tick
<1>7. CASE UNCHANGED vars
  BY <1>7 DEF TypeOK, EndedOwnsNoRoute, vars
<1> QED
  BY <1>1, <1>2, <1>3, <1>4, <1>5, <1>6, <1>7 DEF Next

(* Whatever a client does and whichever broadcasts throw, a connection     *)
(* whose close event was handled no longer has the route of the identity   *)
(* it spoke for.                                                           *)
THEOREM EndedOwnsNoRouteHolds == Spec => []EndedOwnsNoRoute
<1>1. Init => EndedOwnsNoRoute
  BY DEF Init, EndedOwnsNoRoute
<1> QED
  BY <1>1, InitType, NextType, NextEnded, PTL DEF Spec

-----------------------------------------------------------------------------
(* Clients that join once per WebSocket.                                   *)

(* A WebSocket that has not sent its join has no identity, is no peer's    *)
(* route and has not been closed by the room.                              *)
Silent ==
  \A s \in Sockets \ spoke :
    /\ conn[s] # "closed"
    /\ sockets[s] = NoIdentity
    /\ \A id \in Identities : peers[id].ws # s

RoomInv == TypeOK /\ SenderOwnsRoute /\ Silent /\ RouteOpen

\* Next, without a second join on a WebSocket.
NextJoiningOnce ==
  \/ \E s \in Sockets : Connect(s) \/ Relay(s)
  \/ \E s \in Sockets \ spoke, id \in Identities : RejectJoin(s, id)
  \/ \E s \in Sockets \ spoke, id \in Identities, reached \in SUBSET Sockets :
       AcceptJoin(s, id, reached)
  \/ \E s \in Sockets, reached \in SUBSET Sockets, thrown \in BOOLEAN :
       Close(s, reached, thrown)
  \/ Tick

LEMMA OneJoinEach == ASSUME SingleJoin, [Next]_vars PROVE [NextJoiningOnce]_vars
BY DEF Next, NextJoiningOnce, RejectJoin, AcceptJoin, MayJoin

LEMMA NextRoomInv ==
  ASSUME RoomInv, [NextJoiningOnce]_vars
  PROVE  Silent' /\ RouteOpen'
<1> USE RoomAssumption
<1> DEFINE Goal == Silent /\ RouteOpen
<1>1. ASSUME NEW s \in Sockets, Connect(s) PROVE Goal'
  BY <1>1 DEF RoomInv, TypeOK, Silent, RouteOpen, Present, Connect
<1>2. ASSUME NEW s \in Sockets \ spoke, NEW id \in Identities, RejectJoin(s, id)
      PROVE  Goal'
  BY <1>2 DEF RoomInv, TypeOK, Silent, RouteOpen, Present, RejectJoin, MayJoin, Live
<1>3. ASSUME NEW s \in Sockets \ spoke, NEW id \in Identities, NEW reached \in SUBSET Sockets,
             AcceptJoin(s, id, reached)
      PROVE  Goal'
  <2>1. s \notin spoke /\ conn[s] = "open"
    BY <1>3 DEF RoomInv, TypeOK, Silent, AcceptJoin, MayJoin, Live
  <2>2. Silent'
    BY <1>3, <2>1 DEF RoomInv, TypeOK, Silent, AcceptJoin, ReplacedConn, JoinedSockets,
                      Contested
  <2>3. RouteOpen'
    <3>1. peers' = [peers EXCEPT ![id] = [ws |-> s, joinedAt |-> now]]
      BY <1>3 DEF AcceptJoin
    <3>2. sockets'[s] = id /\ conn'[s] = "open"
      BY <1>3, <2>1 DEF RoomInv, TypeOK, AcceptJoin, JoinedSockets, ReplacedConn, Contested
    <3>3. ASSUME NEW i \in Identities, i # id, peers[i].ws # NoSocket
          PROVE  sockets'[peers[i].ws] = i /\ conn'[peers[i].ws] = "open"
      <4>1. /\ peers[i].ws \in Sockets \ {s}
            /\ peers[i].ws # peers[id].ws
            /\ conn[peers[i].ws] = "open" /\ sockets[peers[i].ws] = i
        BY <2>1, <3>3 DEF RoomInv, TypeOK, RouteOpen, Present, Silent
      <4> QED
        BY <1>3, <4>1 DEF RoomInv, TypeOK, AcceptJoin, JoinedSockets, ReplacedConn
    <3> QED
      BY <3>1, <3>2, <3>3 DEF RoomInv, TypeOK, RouteOpen, Present
  <2> QED
    BY <2>2, <2>3
<1>4. ASSUME NEW s \in Sockets, NEW reached \in SUBSET Sockets, NEW thrown \in BOOLEAN,
             Close(s, reached, thrown)
      PROVE  Goal'
  <2>1. Silent'
    BY <1>4 DEF RoomInv, TypeOK, Silent, Close, PeersAfterClose, NoPeer
  <2>2. RouteOpen'
    <3>1. ASSUME NEW id \in Identities, peers'[id].ws # NoSocket
          PROVE  peers'[id] = peers[id] /\ peers[id].ws # s /\ peers[id].ws \in Sockets
      BY <1>4, <3>1 DEF RoomInv, TypeOK, RouteOpen, Present, Close, PeersAfterClose, NoPeer
    <3>2. \A t \in Sockets : t # s => sockets'[t] = sockets[t] /\ conn'[t] = conn[t]
      BY <1>4 DEF RoomInv, TypeOK, Close
    <3> QED
      BY <3>1, <3>2 DEF RoomInv, RouteOpen, Present
  <2> QED
    BY <2>1, <2>2
<1>5. ASSUME NEW s \in Sockets, Relay(s) PROVE Goal'
  BY <1>5 DEF RoomInv, TypeOK, Silent, RouteOpen, Present, Relay
<1>6. CASE Tick
  BY <1>6 DEF RoomInv, TypeOK, Silent, RouteOpen, Present, Tick
<1>7. CASE UNCHANGED vars
  BY <1>7 DEF RoomInv, TypeOK, Silent, RouteOpen, Present, vars
<1> QED
  BY <1>1, <1>2, <1>3, <1>4, <1>5, <1>6, <1>7 DEF NextJoiningOnce, RoomInv

LEMMA InitRoomInv == Init => RoomInv
BY InitType, RoomAssumption
   DEF Init, RoomInv, SenderOwnsRoute, Silent, RouteOpen, Present, NoPeer

(* Every entry of `peers` leads to an open connection registered under     *)
(* that identity, whatever the order of joins, replacements and late close *)
(* events.                                                                 *)
THEOREM RouteOpenHolds ==
  ASSUME SingleJoin
  PROVE  Spec => []RouteOpen
<1>1. RoomInv /\ [Next]_vars => RoomInv'
  BY NextType, NextOwns, NextRoomInv, OneJoinEach DEF RoomInv
<1>2. RoomInv => RouteOpen
  BY DEF RoomInv
<1> QED
  BY InitRoomInv, <1>1, <1>2, PTL DEF Spec

-----------------------------------------------------------------------------
(* The roster a connection can compute from what it was told.              *)

LEMMA AcceptRoster ==
  ASSUME SingleJoin, RoomInv, RosterExact,
         NEW s \in Sockets, NEW id \in Identities, NEW reached \in SUBSET Sockets,
         AcceptJoin(s, id, reached)
  PROVE  RosterExact'
<1> USE RoomAssumption
<1> DEFINE joined == [peers EXCEPT ![id] = [ws |-> s, joinedAt |-> now]]
<1>1. s \notin spoke /\ conn[s] = "open"
  BY DEF RoomInv, TypeOK, Silent, AcceptJoin, MayJoin, Live
<1>2. /\ peers' = joined
      /\ Present(joined) = Present(peers) \cup {id}
  BY DEF RoomInv, TypeOK, AcceptJoin, Present
<1>3. RouteOpen' /\ SenderOwnsRoute'
  BY NextRoomInv, NextOwns, OneJoinEach DEF RoomInv, Next
<1>4. reached = Audience(joined, s)
  <2>1. \A t \in Audience(joined, s) : conn'[t] = "open" /\ t \in Sockets
    BY <1>2, <1>3 DEF RouteOpen, Audience, Present, RoomInv, TypeOK
  <2>2. Reaches(reached, Audience(joined, s), conn')
    BY <1>1 DEF AcceptJoin
  <2> QED
    BY <2>1, <2>2 DEF Reaches
<1>5. roster' = Announced(s, id, joined, reached)
  BY DEF AcceptJoin
<1>6. ASSUME NEW t \in Sockets, sockets'[t] # NoIdentity, conn'[t] = "open"
      PROVE  roster'[t] = Present(peers') \ {sockets'[t]}
  <2>1. CASE t = s
    BY <1>1, <1>2, <1>5, <2>1 DEF Announced, AcceptJoin, JoinedSockets
  <2>2. CASE t # s
    <3>1. sockets'[t] = sockets[t] /\ conn[t] = "open"
      BY <1>6, <2>2 DEF AcceptJoin, JoinedSockets, ReplacedConn, RoomInv, TypeOK
    <3>2. sockets[t] \in Identities /\ peers'[sockets[t]].ws = t
      BY <1>3, <1>6, <3>1 DEF SenderOwnsRoute, RoomInv, TypeOK
    <3>3. sockets[t] # id
      BY <1>2, <2>2, <3>2 DEF RoomInv, TypeOK
    <3>4. t \in Audience(joined, s)
      BY <1>2, <2>2, <3>2 DEF Audience, Present
    <3>5. roster'[t] = roster[t] \cup {id}
      BY <1>4, <1>5, <2>2, <3>4 DEF Announced
    <3> QED
      BY <1>2, <1>6, <3>1, <3>3, <3>5 DEF RosterExact
  <2> QED
    BY <2>1, <2>2
<1> QED
  BY <1>6 DEF RosterExact

LEMMA CloseRoster ==
  ASSUME SingleJoin, RoomInv, RosterExact,
         NEW s \in Sockets, NEW reached \in SUBSET Sockets, NEW thrown \in BOOLEAN,
         Close(s, reached, thrown)
  PROVE  RosterExact'
<1> USE RoomAssumption
<1> DEFINE left == PeersAfterClose(s)
<1>1. peers' = left
  BY DEF Close
<1>2. RouteOpen' /\ SenderOwnsRoute'
  BY NextRoomInv, NextOwns, OneJoinEach DEF RoomInv, Next
<1>3. SUFFICES ASSUME NEW t \in Sockets, sockets'[t] # NoIdentity, conn'[t] = "open"
               PROVE  roster'[t] = Present(left) \ {sockets'[t]}
  BY <1>1 DEF RosterExact
<1>4. t # s /\ sockets'[t] = sockets[t] /\ conn[t] = "open" /\ sockets[t] \in Identities
  BY <1>3 DEF Close, RoomInv, TypeOK
<1>5. roster[t] = Present(peers) \ {sockets[t]}
  BY <1>3, <1>4 DEF RosterExact
<1>6. CASE left = peers
  BY <1>4, <1>5, <1>6 DEF Close, RoomInv, TypeOK
<1>7. CASE left # peers
  <2>1. sockets[s] \in Identities /\ Present(left) = Present(peers) \ {sockets[s]}
    BY <1>7 DEF PeersAfterClose, Present, NoPeer, RoomInv, TypeOK
  <2>2. \A u \in Audience(left, s) : conn[u] = "open"
    BY <1>1, <1>2 DEF RoomInv, TypeOK, RouteOpen, Present, Audience, Close
  <2>3. reached = Audience(left, s)
    BY <1>7, <2>2 DEF Close, Reaches
  <2>4. t \in Audience(left, s)
    BY <1>1, <1>2, <1>3, <1>4 DEF SenderOwnsRoute, Audience, Present
  <2>5. roster'[t] = roster[t] \ {sockets[s]}
    BY <2>3, <2>4 DEF Close
  <2> QED
    BY <1>4, <1>5, <2>1, <2>5
<1> QED
  BY <1>6, <1>7

(* The "joined" list, the "peer_joined" and the "peer_left" messages a     *)
(* joined connection has received add up to the other members of the room. *)
THEOREM RosterExactHolds ==
  ASSUME SingleJoin
  PROVE  Spec => []RosterExact
<1>1. Init => RosterExact
  BY DEF Init, RosterExact
<1>2. RoomInv /\ [Next]_vars => RoomInv'
  BY NextType, NextOwns, NextRoomInv, OneJoinEach DEF RoomInv
<1>3. ASSUME RoomInv, RosterExact, [Next]_vars PROVE RosterExact'
  <2>1. ASSUME NEW s \in Sockets, Connect(s) PROVE RosterExact'
    <3>1. sockets[s] = NoIdentity
      <4>1. SUFFICES ASSUME sockets[s] # NoIdentity PROVE FALSE
        OBVIOUS
      <4>2. sockets[s] \in Identities /\ conn[s] = "unborn" /\ s # NoSocket
        BY <1>3, <2>1, <4>1, RoomAssumption DEF RoomInv, TypeOK, Connect
      <4>3. peers[sockets[s]].ws = s
        BY <1>3, <4>1, <4>2 DEF RoomInv, SenderOwnsRoute
      <4> QED
        BY <1>3, <4>2, <4>3 DEF RoomInv, RouteOpen, Present
    <3> QED
      BY <1>3, <2>1, <3>1 DEF RosterExact, Connect, Present, RoomInv, TypeOK
  <2>2. ASSUME NEW s \in Sockets, NEW id \in Identities, RejectJoin(s, id)
        PROVE  RosterExact'
    BY <1>3, <2>2 DEF RosterExact, RejectJoin, Present, RoomInv, TypeOK
  <2>3. ASSUME NEW s \in Sockets, Relay(s) PROVE RosterExact'
    BY <1>3, <2>3 DEF RosterExact, Relay, Present
  <2>4. CASE Tick
    BY <1>3, <2>4 DEF RosterExact, Tick, Present
  <2>5. CASE UNCHANGED vars
    BY <1>3, <2>5 DEF RosterExact, vars, Present
  <2> QED
    BY <1>3, <2>1, <2>2, <2>3, <2>4, <2>5, AcceptRoster, CloseRoster DEF Next
<1> QED
  BY InitRoomInv, <1>1, <1>2, <1>3, PTL DEF Spec

-----------------------------------------------------------------------------
(* The rate limit.                                                         *)

\* How many relays of the window an entry describes have passed.
InWindow(entry) == IF entry.count <= MaxRelay THEN entry.count ELSE MaxRelay

(* What the times p of an identity's passed relays are to its entry in     *)
(* `rateLimit`.  The last InWindow of them belong to the entry's window,   *)
(* which begins at resetAt - Window; those of earlier windows are older    *)
(* than that, and those with MaxRelay more behind them in earlier windows  *)
(* are older by another Window.                                            *)
Accounted(entry, p, t) ==
  /\ InWindow(entry) <= Len(p)
  /\ entry.resetAt <= t + Window
  /\ \A i \in 1 .. Len(p) :
       /\ p[i] < entry.resetAt
       /\ i <= Len(p) - InWindow(entry) => p[i] + Window < entry.resetAt
       /\ i + MaxRelay <= Len(p) - InWindow(entry) => p[i] + 2 * Window <= entry.resetAt

\* RateBound for one identity.
Spread(p) ==
  \A i \in 1 .. Len(p) : i + 2 * MaxRelay \in 1 .. Len(p) => p[i + 2 * MaxRelay] >= p[i] + Window

\* checkRateLimit in the middle of a window.
LEMMA CountInWindow ==
  ASSUME NEW t \in Nat, NEW p \in Seq(Nat), NEW entry \in [count : Nat, resetAt : Nat],
         NEW next, next = [count |-> entry.count + 1, resetAt |-> entry.resetAt],
         t < entry.resetAt, Accounted(entry, p, t), Spread(p),
         NEW q, q = IF next.count <= MaxRelay THEN Append(p, t) ELSE p
  PROVE  Accounted(next, q, t) /\ Spread(q)
<1> USE RoomAssumption
<1>1. /\ entry.count \in Nat /\ entry.resetAt \in Nat /\ Len(p) \in Nat
      /\ \A i \in 1 .. Len(p) : p[i] \in Nat
      /\ next.count = entry.count + 1 /\ next.resetAt = entry.resetAt
  OBVIOUS
<1>2. CASE next.count <= MaxRelay
  <2>1. /\ InWindow(entry) = entry.count /\ InWindow(next) = entry.count + 1
        /\ entry.count + 1 <= MaxRelay
    BY <1>1, <1>2 DEF InWindow
  <2>2. /\ Len(q) = Len(p) + 1 /\ q[Len(p) + 1] = t
        /\ \A i \in 1 .. Len(p) : q[i] = p[i]
    BY <1>2
  <2>3. Accounted(next, q, t)
    BY <1>1, <2>1, <2>2, SMTT(20) DEF Accounted
  <2>4. ASSUME NEW i \in 1 .. Len(q), NEW k \in 1 .. Len(q), k = i + 2 * MaxRelay
        PROVE  q[k] >= q[i] + Window
    <3>1. CASE k \in 1 .. Len(p)
      <4>1. i \in 1 .. Len(p) /\ q[i] = p[i] /\ q[k] = p[k]
        BY <1>1, <2>2, <2>4, <3>1
      <4> QED
        BY <2>4, <3>1, <4>1 DEF Spread
    <3>2. CASE k = Len(p) + 1
      <4>1. i \in 1 .. Len(p) /\ i + MaxRelay <= Len(p) - InWindow(entry)
        BY <1>1, <2>1, <2>4, <3>2
      <4>2. p[i] + 2 * Window <= entry.resetAt /\ entry.resetAt <= t + Window
        BY <4>1 DEF Accounted
      <4>3. q[k] = t /\ q[i] = p[i] /\ p[i] \in Nat
        BY <1>1, <2>2, <3>2, <4>1
      <4>4. \A a, r \in Nat : a + 2 * Window <= r /\ r <= t + Window => t >= a + Window
        OBVIOUS
      <4> QED
        BY <1>1, <4>2, <4>3, <4>4
    <3> QED
      BY <1>1, <2>2, <3>1, <3>2
  <2> QED
    BY <2>3, <2>4 DEF Spread
<1>3. CASE ~(next.count <= MaxRelay)
  <2>1. q = p /\ InWindow(next) = InWindow(entry)
    BY <1>1, <1>3 DEF InWindow
  <2> QED
    BY <1>1, <2>1 DEF Accounted
<1> QED
  BY <1>2, <1>3

\* checkRateLimit once the window has run out.
LEMMA CountInNewWindow ==
  ASSUME NEW t \in Nat, NEW p \in Seq(Nat), NEW entry \in [count : Nat, resetAt : Nat],
         NEW next, next = [count |-> 1, resetAt |-> t + Window],
         t >= entry.resetAt, Accounted(entry, p, t), Spread(p),
         NEW q, q = IF next.count <= MaxRelay THEN Append(p, t) ELSE p
  PROVE  Accounted(next, q, t) /\ Spread(q)
<1> USE RoomAssumption
<1>1. /\ entry.count \in Nat /\ entry.resetAt \in Nat /\ Len(p) \in Nat
      /\ \A i \in 1 .. Len(p) : p[i] \in Nat
      /\ next.count = 1 /\ next.resetAt = t + Window
  OBVIOUS
<1>2. InWindow(entry) <= MaxRelay /\ InWindow(entry) \in Nat
  BY <1>1 DEF InWindow
<1>3. \A i \in 1 .. Len(p) :
        /\ p[i] < t
        /\ i + MaxRelay <= Len(p) => p[i] + Window < t
  <2> SUFFICES ASSUME NEW i \in 1 .. Len(p)
               PROVE  p[i] < t /\ (i + MaxRelay <= Len(p) => p[i] + Window < t)
    OBVIOUS
  <2>1. /\ p[i] \in Nat /\ p[i] < entry.resetAt
        /\ i <= Len(p) - InWindow(entry) => p[i] + Window < entry.resetAt
    BY <1>1 DEF Accounted
  <2>2. i + MaxRelay <= Len(p) => i <= Len(p) - InWindow(entry)
    BY <1>1, <1>2
  <2> QED
    BY <1>1, <2>1, <2>2
<1>4. CASE next.count <= MaxRelay
  <2>1. InWindow(next) = 1 /\ MaxRelay >= 1
    BY <1>1, <1>4 DEF InWindow
  <2>2. /\ Len(q) = Len(p) + 1 /\ q[Len(p) + 1] = t
        /\ \A i \in 1 .. Len(p) : q[i] = p[i]
    BY <1>4
  <2>3. Accounted(next, q, t)
    <3> SUFFICES ASSUME NEW i \in 1 .. Len(q)
                 PROVE  /\ q[i] < t + Window
                        /\ i <= Len(p) => q[i] + Window < t + Window
                        /\ i + MaxRelay <= Len(p) => q[i] + 2 * Window <= t + Window
      <4>1. Len(q) - InWindow(next) = Len(p) /\ InWindow(next) <= Len(q)
        BY <1>1, <2>1, <2>2
      <4>2. next.resetAt = t + Window /\ t + Window <= t + Window
        BY <1>1
      <4> QED
        BY <4>1, <4>2, Zenon DEF Accounted
    <3>1. CASE i \in 1 .. Len(p)
      <4>1. q[i] = p[i] /\ p[i] \in Nat
        BY <1>1, <2>2, <3>1
      <4> QED
        BY <1>1, <1>3, <3>1, <4>1
    <3>2. CASE i = Len(p) + 1
      BY <1>1, <2>1, <2>2, <3>2
    <3> QED
      BY <1>1, <2>2, <3>1, <3>2
  <2>4. ASSUME NEW i \in 1 .. Len(q), NEW k \in 1 .. Len(q), k = i + 2 * MaxRelay
        PROVE  q[k] >= q[i] + Window
    <3>1. CASE k \in 1 .. Len(p)
      <4>1. i \in 1 .. Len(p) /\ q[i] = p[i] /\ q[k] = p[k]
        BY <1>1, <2>2, <2>4, <3>1
      <4> QED
        BY <2>4, <3>1, <4>1 DEF Spread
    <3>2. CASE k = Len(p) + 1
      <4>1. i \in 1 .. Len(p) /\ i + MaxRelay <= Len(p)
        BY <1>1, <2>1, <2>4, <3>2
      <4>2. q[k] = t /\ q[i] = p[i] /\ p[i] \in Nat /\ p[i] + Window < t
        BY <1>1, <1>3, <2>2, <3>2, <4>1
      <4> QED
        BY <4>2, SMTT(20)
    <3> QED
      BY <1>1, <2>2, <3>1, <3>2
  <2> QED
    BY <2>3, <2>4 DEF Spread
<1>5. CASE ~(next.count <= MaxRelay)
  <2>1. q = p /\ InWindow(next) = 0 /\ MaxRelay = 0
    BY <1>1, <1>5 DEF InWindow
  <2> QED
    BY <1>1, <1>3, <2>1 DEF Accounted
<1> QED
  BY <1>4, <1>5

RateInv ==
  \A id \in Identities :
    Accounted(rateLimit[id], passed[id], now) /\ Spread(passed[id])

LEMMA NextRate == TypeOK /\ RateInv /\ [Next]_vars => RateInv'
<1> SUFFICES ASSUME TypeOK, RateInv, [Next]_vars PROVE RateInv'
  OBVIOUS
<1>1. ASSUME UNCHANGED <<rateLimit, passed, now>> PROVE RateInv'
  BY <1>1 DEF RateInv
<1>2. ASSUME NEW s \in Sockets, Relay(s) PROVE RateInv'
  <2> DEFINE id == sockets[s]
             entry == rateLimit[id]
             next == Counted(id)
             q == IF next.count <= MaxRelay THEN Append(passed[id], now) ELSE passed[id]
  <2>1. /\ id \in Identities /\ now \in Nat /\ passed[id] \in Seq(Nat)
        /\ entry \in [count : Nat, resetAt : Nat]
        /\ Accounted(entry, passed[id], now) /\ Spread(passed[id])
    BY <1>2 DEF Relay, TypeOK, RateInv
  <2>2. /\ now' = now
        /\ \A i \in Identities : i # id =>
             rateLimit'[i] = rateLimit[i] /\ passed'[i] = passed[i]
        /\ rateLimit'[id] = next /\ passed'[id] = q
    BY <1>2, <2>1 DEF Relay, WithinLimit, TypeOK
  <2>3. Accounted(next, q, now) /\ Spread(q)
    <3> HIDE DEF q
    <3>0. q = IF next.count <= MaxRelay THEN Append(passed[id], now) ELSE passed[id]
      BY DEF q
    <3>1. CASE now >= entry.resetAt
      <4>1. next = [count |-> 1, resetAt |-> now + Window]
        BY <3>1 DEF Counted
      <4> HIDE DEF next, entry, id
      <4> QED
        BY <2>1, <3>0, <3>1, <4>1, CountInNewWindow
    <3>2. CASE ~(now >= entry.resetAt)
      <4>1. next = [count |-> entry.count + 1, resetAt |-> entry.resetAt]
        BY <2>1, <3>2 DEF Counted
      <4>2. now < entry.resetAt
        BY <2>1, <3>2
      <4> HIDE DEF next, entry, id
      <4> QED
        BY <2>1, <3>0, <4>1, <4>2, CountInWindow
    <3> QED
      BY <3>1, <3>2
  <2> HIDE DEF id, next, q
  <2> QED
    BY <2>2, <2>3 DEF RateInv
<1>3. CASE Tick
  <2>1. now' = now + 1 /\ UNCHANGED <<rateLimit, passed>> /\ now \in Nat
    BY <1>3 DEF Tick, TypeOK
  <2>2. ASSUME NEW id \in Identities PROVE Accounted(rateLimit[id], passed[id], now + 1)
    <3>1. rateLimit[id].resetAt \in Nat /\ Accounted(rateLimit[id], passed[id], now)
      BY DEF RateInv, TypeOK
    <3> QED
      BY <2>1, <3>1, RoomAssumption DEF Accounted
  <2> QED
    BY <2>1, <2>2 DEF RateInv
<1>4. ASSUME NEW s \in Sockets,
             \/ Connect(s)
             \/ \E id \in Identities : RejectJoin(s, id)
             \/ \E id \in Identities, reached \in SUBSET Sockets : AcceptJoin(s, id, reached)
             \/ \E reached \in SUBSET Sockets, thrown \in BOOLEAN : Close(s, reached, thrown)
      PROVE  UNCHANGED <<rateLimit, passed, now>>
  BY <1>4 DEF Connect, RejectJoin, AcceptJoin, Close, RateLimitAfterClose
<1> QED
  BY <1>1, <1>2, <1>3, <1>4 DEF Next, vars

(* In any interval of Window at most 2 * MaxRelay relays of one identity   *)
(* pass checkRateLimit, however it reconnects in between.                  *)
THEOREM RateBoundHolds == Spec => []RateBound
<1>1. Init => RateInv
  BY RoomAssumption DEF Init, RateInv, Accounted, Spread, InWindow, NoEntry
<1>2. TypeOK /\ RateInv => RateBound
  <2> SUFFICES ASSUME TypeOK, RateInv, NEW id \in Identities,
                      NEW i \in DOMAIN passed[id], i + 2 * MaxRelay \in DOMAIN passed[id]
               PROVE  passed[id][i + 2 * MaxRelay] >= passed[id][i] + Window
    BY DEF RateBound
  <2>1. DOMAIN passed[id] = 1 .. Len(passed[id])
    BY DEF TypeOK
  <2> QED
    BY <2>1 DEF RateInv, Spread
<1> QED
  BY InitType, NextType, NextRate, <1>1, <1>2, PTL DEF Spec

=============================================================================
