------------------------- MODULE SignalRelayProofs --------------------------
(***************************************************************************)
(* Proofs about the room and the daemons together, for any number of       *)
(* daemons, WebSockets, breaks and requests.                               *)
(*                                                                         *)
(* That a relay finds a session is a fact about the order of messages on   *)
(* two queues and a map in between, so its invariant follows a pair of     *)
(* daemons that have lost no WebSocket:                                    *)
(*   Wiring      who may be found on which WebSocket.  One daemon owns     *)
(*               each, its join goes first, and whoever speaks in a        *)
(*               daemon's name does so on the daemon's present one;        *)
(*   Named       whoever is named in a message or a session has joined, so *)
(*               the room can route to it;                                 *)
(*   OfferFirst  from e to a d without a session for e, an offer or answer *)
(*               comes before every relay, and is still under way if e     *)
(*               already takes the session for established.                *)
(* They need the room's own invariant, since a message the room dropped    *)
(* for want of a route would leave the relay behind it without a session.  *)
(* Here the room's invariant has no use for SingleJoin: by Wiring, no      *)
(* daemon joins twice on a WebSocket.                                      *)
(***************************************************************************)
EXTENDS SignalRelay, SignalRoomProofs, FiniteSetTheorems, SequenceTheorems

\* Everything that travels on a WebSocket.
Wire == Directed \cup News

-----------------------------------------------------------------------------
(* The least number of a set, and the members of a set in some order.      *)

Less == {p \in Nat \X Nat : p[1] < p[2]}

LEMMA MinFacts ==
  ASSUME NEW T \in SUBSET Nat, T # {}
  PROVE  Min(T) \in T
<1>1. OpToRel(<, Nat) = Less
  BY DEF OpToRel, Less
<1>2. PICK m \in T : \A n \in T : <<n, m>> \notin Less
  BY <1>1, NatLessThanWellFounded, WFMin
<1>3. ASSUME NEW n \in T PROVE m <= n
  <2>1. n \in Nat /\ m \in Nat
    OBVIOUS
  <2>2. n < m => <<n, m>> \in Less
    BY <2>1 DEF Less
  <2> QED
    BY <1>2, <2>1, <2>2
<1> QED
  BY <1>3 DEF Min

LEMMA SetToSeqFacts ==
  ASSUME NEW T, IsFiniteSet(T)
  PROVE  /\ Cardinality(T) \in Nat
         /\ SetToSeq(T) \in [1 .. Cardinality(T) -> T]
<1>1. Cardinality(T) \in Nat /\ ExistsBijection(1 .. Cardinality(T), T)
  BY FS_CardinalityType
<1>2. \E f \in [1 .. Cardinality(T) -> T] : IsInjective(f)
  BY <1>1 DEF ExistsBijection, Bijection, Injection
<1> QED
  BY <1>1, <1>2 DEF SetToSeq

-----------------------------------------------------------------------------
(* The parts of the invariant.                                             *)

\* m is for one daemon, and not the room's news to all.
Directs(m) == m.type \notin {"joined", "peer_joined"}

\* Messages from e to d: one that establishes the session, and one that needs it.
Establishes(m, e, d) == m.type \in {"offer", "answer"} /\ m.from = e /\ m.to = d

Relays(m, e, d) == m.type \in {"request", "response"} /\ m.from = e /\ m.to = d

HasOffer(q, e, d) == \E i \in 1 .. Len(q) : Establishes(q[i], e, d)

\* No relay from e to d is in q without an offer or answer in front of it.
Guarded(q, e, d) ==
  \A i \in 1 .. Len(q) :
    Relays(q[i], e, d) => \E j \in 1 .. Len(q) : j < i /\ Establishes(q[j], e, d)

\* A WebSocket nobody has connected yet.
Unborn ==
  \A s \in Sockets : conn[s] = "unborn" =>
    /\ up[s] = <<>> /\ down[s] = <<>> /\ link[s] = "none"
    /\ s \notin spoke
    /\ \A d \in Identities : sock[d] # s

\* Who may be found on a daemon's present WebSocket.
Owner ==
  \A d \in Identities : sock[d] # NoSocket =>
    /\ \A e \in Identities : sock[e] = sock[d] => e = d
    /\ \A e \in Identities : peers[e].ws = sock[d] => e = d
    /\ \A i \in 1 .. Len(up[sock[d]]) : up[sock[d]][i].from = d
    /\ \A i \in 1 .. Len(down[sock[d]]) :
         Directs(down[sock[d]][i]) => down[sock[d]][i].to = d

\* A daemon that has lost no WebSocket is found on its present one only.
AtHome ==
  \A d \in Identities \ ended :
    /\ peers[d].ws \in {NoSocket, sock[d]}
    /\ \A s \in Sockets : \A i \in 1 .. Len(up[s]) : up[s][i].from = d => s = sock[d]
    /\ sock[d] \in spoke /\ conn[sock[d]] # "gone" => peers[d].ws = sock[d]
    /\ sock[d] = NoSocket => \A e \in Identities : ~sessions[d][e].known

\* join is the first message on a WebSocket, and the only one of its type.
JoinFirst ==
  \A s \in Sockets :
    /\ \A i \in 1 .. Len(up[s]) : up[s][i].type = "join" <=> i = 1 /\ s \notin spoke
    /\ link[s] = "up" /\ s \notin spoke => up[s] # <<>>
    /\ conn[s] = "gone" => link[s] = "down"

\* d has joined the room.
Joined(d) == d \in ended \/ sock[d] \in spoke

(* Who is named anywhere has joined, and an answer comes from a daemon     *)
(* that has the session.                                                   *)
SentWell(m) ==
  m.type # "join" =>
    Joined(m.to) /\ (m.type = "answer" => sessions[m.from][m.to].known)

ArrivesWell(m) ==
  IF Directs(m) THEN Joined(m.from) /\ (m.type = "answer" => sessions[m.from][m.to].known)
                ELSE \A e \in m.peers : Joined(e)

Named ==
  /\ \A s \in Sockets : \A i \in 1 .. Len(up[s]) : SentWell(up[s][i])
  /\ \A s \in Sockets : \A i \in 1 .. Len(down[s]) : ArrivesWell(down[s][i])
  /\ \A d, e \in Identities : sessions[d][e].known => Joined(e)

(* From e to d, who has no session for e: what will arrive is in order, an *)
(* offer or answer before any relay.                                       *)
Ordered(d, e) ==
  /\ Guarded(down[sock[d]], e, d)
  /\ sock[e] # NoSocket /\ link[sock[d]] = "up" =>
       \/ HasOffer(down[sock[d]], e, d)
       \/ /\ Guarded(up[sock[e]], e, d)
          /\ sessions[e][d].known /\ link[sock[e]] = "up" => HasOffer(up[sock[e]], e, d)

OfferFirst ==
  \A d, e \in Identities \ ended :
    sock[d] # NoSocket /\ ~sessions[d][e].known => Ordered(d, e)

-----------------------------------------------------------------------------
(* Queues.                                                                 *)

LEMMA CatFacts ==
  ASSUME NEW S, NEW q \in Seq(S), NEW ms \in Seq(S)
  PROVE  /\ q \o ms \in Seq(S)
         /\ Len(q \o ms) = Len(q) + Len(ms) /\ Len(q) \in Nat /\ Len(ms) \in Nat
         /\ \A i \in 1 .. Len(q) : (q \o ms)[i] = q[i]
         /\ \A i \in 1 .. Len(ms) : (q \o ms)[Len(q) + i] = ms[i]
         /\ \A i \in 1 .. Len(q \o ms) : i > Len(q) =>
              i - Len(q) \in 1 .. Len(ms) /\ (q \o ms)[i] = ms[i - Len(q)]
OBVIOUS

\* What a queue holds after one message more was put in.
LEMMA PostedOne ==
  ASSUME NEW S, NEW q \in Seq(S), NEW m, <<m>> \in Seq(S), NEW i \in 1 .. Len(q \o <<m>>)
  PROVE  (i \in 1 .. Len(q) /\ (q \o <<m>>)[i] = q[i]) \/ (q \o <<m>>)[i] = m
<1>1. Len(<<m>>) = 1 /\ <<m>>[1] = m
  OBVIOUS
<1>2. /\ Len(q \o <<m>>) = Len(q) + 1 /\ Len(q) \in Nat
      /\ \A j \in 1 .. Len(q) : (q \o <<m>>)[j] = q[j]
      /\ (q \o <<m>>)[Len(q) + 1] = m
  BY <1>1, CatFacts
<1> QED
  BY <1>2

LEMMA TailFacts ==
  ASSUME NEW S, NEW q \in Seq(S), q # <<>>
  PROVE  /\ Tail(q) \in Seq(S) /\ Head(q) = q[1] /\ Head(q) \in S
         /\ Len(q) \in Nat /\ 1 \in 1 .. Len(q)
         /\ Len(Tail(q)) = Len(q) - 1
         /\ \A i \in 1 .. Len(Tail(q)) : i + 1 \in 1 .. Len(q) /\ Tail(q)[i] = q[i + 1]
         /\ \A i \in 1 .. Len(q) : i # 1 =>
              i - 1 \in 1 .. Len(Tail(q)) /\ Tail(q)[i - 1] = q[i]
OBVIOUS

LEMMA PrefixFacts ==
  ASSUME NEW S, NEW q \in Seq(S), NEW n \in 0 .. Len(q)
  PROVE  /\ SubSeq(q, 1, n) \in Seq(S)
         /\ Len(SubSeq(q, 1, n)) = n
         /\ \A i \in 1 .. n : i \in 1 .. Len(q) /\ SubSeq(q, 1, n)[i] = q[i]
OBVIOUS

LEMMA GuardedCat ==
  ASSUME NEW S, NEW q \in Seq(S), NEW ms \in Seq(S), NEW e, NEW d
  PROVE  /\ HasOffer(q, e, d) => HasOffer(q \o ms, e, d)
         /\ HasOffer(ms, e, d) => HasOffer(q \o ms, e, d)
         /\ /\ Guarded(q, e, d)
            /\ HasOffer(q, e, d) \/ \A i \in 1 .. Len(ms) : ~Relays(ms[i], e, d)
            => Guarded(q \o ms, e, d)
<1> USE CatFacts
<1>1. HasOffer(q, e, d) => HasOffer(q \o ms, e, d)
  <2>1. \A i \in 1 .. Len(q) : i \in 1 .. Len(q \o ms)
    OBVIOUS
  <2> QED
    BY <2>1 DEF HasOffer
<1>2. HasOffer(ms, e, d) => HasOffer(q \o ms, e, d)
  <2>1. \A i \in 1 .. Len(ms) : Len(q) + i \in 1 .. Len(q \o ms)
    OBVIOUS
  <2>2. ASSUME NEW i \in 1 .. Len(ms), Establishes(ms[i], e, d)
        PROVE  HasOffer(q \o ms, e, d)
    <3>1. Len(q) + i \in 1 .. Len(q \o ms) /\ Establishes((q \o ms)[Len(q) + i], e, d)
      BY <2>1, <2>2
    <3> QED
      BY <3>1 DEF HasOffer
  <2> QED
    BY <2>2 DEF HasOffer
<1>3. ASSUME Guarded(q, e, d),
             HasOffer(q, e, d) \/ \A i \in 1 .. Len(ms) : ~Relays(ms[i], e, d),
             NEW i \in 1 .. Len(q \o ms), Relays((q \o ms)[i], e, d)
      PROVE  \E j \in 1 .. Len(q \o ms) : j < i /\ Establishes((q \o ms)[j], e, d)
  <2>1. \A j \in 1 .. Len(q) : j \in 1 .. Len(q \o ms) /\ (q \o ms)[j] = q[j]
    OBVIOUS
  <2>2. CASE i <= Len(q)
    <3>1. i \in 1 .. Len(q) /\ Relays(q[i], e, d)
      BY <1>3, <2>1, <2>2
    <3>2. PICK j \in 1 .. Len(q) : j < i /\ Establishes(q[j], e, d)
      BY <1>3, <3>1 DEF Guarded
    <3> QED
      BY <2>1, <3>2
  <2>3. CASE i > Len(q)
    <3>1. HasOffer(q, e, d)
      BY <1>3, <2>3
    <3>2. PICK j \in 1 .. Len(q) : Establishes(q[j], e, d)
      BY <3>1 DEF HasOffer
    <3>3. j < i
      BY <2>3
    <3> QED
      BY <2>1, <3>2, <3>3
  <2> QED
    BY <2>2, <2>3
<1> QED
  BY <1>1, <1>2, <1>3 DEF Guarded

LEMMA GuardedTail ==
  ASSUME NEW S, NEW q \in Seq(S), q # <<>>, NEW e, NEW d
  PROVE  /\ Guarded(q, e, d) => ~Relays(Head(q), e, d)
         /\ ~Establishes(Head(q), e, d) =>
              /\ HasOffer(q, e, d) => HasOffer(Tail(q), e, d)
              /\ Guarded(q, e, d) => Guarded(Tail(q), e, d)
<1> USE TailFacts
<1>1. ASSUME Guarded(q, e, d), Relays(Head(q), e, d) PROVE FALSE
  <2>1. PICK j \in 1 .. Len(q) : j < 1
    BY <1>1 DEF Guarded
  <2> QED
    BY <2>1
<1>2. ASSUME ~Establishes(Head(q), e, d), HasOffer(q, e, d) PROVE HasOffer(Tail(q), e, d)
  <2>1. PICK j \in 1 .. Len(q) : Establishes(q[j], e, d)
    BY <1>2 DEF HasOffer
  <2>2. j # 1
    BY <1>2, <2>1
  <2> QED
    BY <2>1, <2>2 DEF HasOffer
<1>3. ASSUME ~Establishes(Head(q), e, d), Guarded(q, e, d),
             NEW i \in 1 .. Len(Tail(q)), Relays(Tail(q)[i], e, d)
      PROVE  \E j \in 1 .. Len(Tail(q)) : j < i /\ Establishes(Tail(q)[j], e, d)
  <2>1. i + 1 \in 1 .. Len(q) /\ Relays(q[i + 1], e, d)
    BY <1>3
  <2>2. PICK j \in 1 .. Len(q) : j < i + 1 /\ Establishes(q[j], e, d)
    BY <1>3, <2>1 DEF Guarded
  <2>3. j # 1
    BY <1>3, <2>2
  <2>4. j - 1 \in 1 .. Len(Tail(q)) /\ Tail(q)[j - 1] = q[j] /\ j - 1 < i
    BY <2>2, <2>3
  <2> QED
    BY <2>2, <2>4
<1> QED
  BY <1>1, <1>2, <1>3 DEF Guarded

LEMMA GuardedPrefix ==
  ASSUME NEW S, NEW q \in Seq(S), NEW n \in 0 .. Len(q), NEW e, NEW d, Guarded(q, e, d)
  PROVE  Guarded(SubSeq(q, 1, n), e, d)
<1> USE PrefixFacts
<1> SUFFICES ASSUME NEW i \in 1 .. n, Relays(q[i], e, d)
             PROVE  \E j \in 1 .. n : j < i /\ Establishes(SubSeq(q, 1, n)[j], e, d)
  BY DEF Guarded
<1>1. i \in 1 .. Len(q)
  OBVIOUS
<1>2. PICK j \in 1 .. Len(q) : j < i /\ Establishes(q[j], e, d)
  BY <1>1 DEF Guarded
<1>3. j \in 1 .. n
  BY <1>2
<1> QED
  BY <1>2, <1>3

-----------------------------------------------------------------------------
(* Messages and their types.                                               *)

LEMMA WireFacts ==
  ASSUME NEW m \in Wire
  PROVE  /\ ~Directs(m) => m.peers \in SUBSET Identities /\ IsFiniteSet(m.peers)
         /\ Directs(m) => /\ m \in Directed
                          /\ m.from \in Identities /\ m.to \in Identities /\ m.n \in Nat
<1>1. m \in Directed => Directs(m)
  BY DEF Directed, Directs
<1>2. m \in News => ~Directs(m) /\ m.peers \in SUBSET Identities
  BY DEF News, Directs
<1>3. m \in Directed => m.from \in Identities /\ m.to \in Identities /\ m.n \in Nat
  BY DEF Directed
<1>4. \A T \in SUBSET Identities : IsFiniteSet(T)
  BY FS_Subset, RelayAssumption
<1> QED
  BY <1>1, <1>2, <1>3, <1>4 DEF Wire

LEMMA DirectedFacts ==
  ASSUME NEW m \in Directed
  PROVE  m \in Wire /\ Directs(m) /\ m.from \in Identities /\ m.to \in Identities
BY DEF Wire, Directed, Directs

\* The offers HandleNews sends.
Offers(d, T) == [i \in 1 .. Cardinality(T) |-> Msg("offer", d, SetToSeq(T)[i], 0)]

LEMMA OffersFacts ==
  ASSUME NEW d \in Identities, NEW T \in SUBSET Identities
  PROVE  /\ Offers(d, T) \in Seq(Directed)
         /\ \A i \in 1 .. Len(Offers(d, T)) :
              /\ Offers(d, T)[i].type = "offer"
              /\ Offers(d, T)[i].from = d
              /\ Offers(d, T)[i].to \in T
<1>1. IsFiniteSet(T)
  BY FS_Subset, RelayAssumption
<1> DEFINE n == Cardinality(T)
           f == SetToSeq(T)
<1>2. n \in Nat /\ f \in [1 .. n -> T]
  BY <1>1, SetToSeqFacts
<1>3. Offers(d, T) = [i \in 1 .. n |-> Msg("offer", d, f[i], 0)]
  BY DEF Offers
<1> HIDE DEF n, f
<1>4. \A i \in 1 .. n : f[i] \in T
  BY <1>2
<1>5. \A i \in 1 .. n : Msg("offer", d, f[i], 0) \in Directed
  BY <1>4 DEF Msg, Directed
<1>6. Offers(d, T) \in [1 .. n -> Directed]
  BY <1>3, <1>5
<1>7. Offers(d, T) \in Seq(Directed) /\ Len(Offers(d, T)) = n
  BY <1>2, <1>6
<1>8. \A i \in 1 .. n : Offers(d, T)[i] = Msg("offer", d, f[i], 0)
  BY <1>3
<1> QED
  BY <1>4, <1>7, <1>8 DEF Msg

LEMMA MsgFacts ==
  ASSUME NEW d \in Identities, NEW e \in Identities, NEW n \in Nat,
         NEW k \in {"join", "offer", "answer", "request", "response"}
  PROVE  /\ Msg(k, d, e, n) \in Directed
         /\ Msg(k, d, e, n).type = k
         /\ Msg(k, d, e, n).from = d
         /\ Msg(k, d, e, n).to = e
BY DEF Msg, Directed

LEMMA SentFacts ==
  ASSUME RelayTypeOK, NEW s \in Sockets, NEW ms \in Seq(Directed), Sent(s, ms)
  PROVE  /\ up' \in [Sockets -> Seq(Directed)]
         /\ \A t \in Sockets : t # s => up'[t] = up[t]
         /\ link[s] = "up" => up'[s] = up[s] \o ms
         /\ link[s] # "up" => up' = up
<1>1. up \in [Sockets -> Seq(Directed)] /\ up[s] \in Seq(Directed)
  BY DEF RelayTypeOK
<1>2. up[s] \o ms \in Seq(Directed)
  BY <1>1, CatFacts
<1> QED
  BY <1>1, <1>2 DEF Sent

LEMMA SockFacts ==
  ASSUME RelayTypeOK, NEW d \in Identities, sock[d] # NoSocket
  PROVE  /\ sock[d] \in Sockets
         /\ up[sock[d]] \in Seq(Directed)
         /\ down[sock[d]] \in Seq(Wire)
         /\ down[sock[d]] # <<>> => Head(down[sock[d]]) \in Wire
<1>1. sock[d] \in Sockets
  BY DEF RelayTypeOK
<1>2. up[sock[d]] \in Seq(Directed) /\ down[sock[d]] \in Seq(Wire)
  BY <1>1 DEF RelayTypeOK, Wire
<1> QED
  BY <1>1, <1>2, TailFacts

\* What d's turn does to its WebSocket: it may read a message, and it writes ms.
Talk(d, ms) ==
  /\ sock[d] # NoSocket
  /\ ms \in Seq(Directed)
  /\ \A i \in 1 .. Len(ms) : ms[i].from = d /\ ms[i].type # "join"
  /\ Sent(sock[d], ms)
  /\ \/ UNCHANGED down
     \/ down[sock[d]] # <<>> /\ down' = [down EXCEPT ![sock[d]] = Tail(@)]
  /\ UNCHANGED <<vars, sock, wake, link, drops, ended, orphaned>>

SessionMap == [Identities -> [Identities -> [known : BOOLEAN, rx : Nat, tx : Nat]]]

LEMMA NewsTalk ==
  ASSUME RelayTypeOK, NEW d \in Identities, DaemonReceives(d),
         HandleNews(d, Head(down[sock[d]]))
  PROVE  Talk(d, Offers(d, Head(down[sock[d]]).peers)) /\ UNCHANGED <<sessions, requests>>
<1> DEFINE m == Head(down[sock[d]])
<1>1. sock[d] # NoSocket /\ down[sock[d]] # <<>>
  BY DEF DaemonReceives
<1>2. m \in Wire /\ ~Directs(m)
  BY <1>1, SockFacts DEF HandleNews, Directs
<1>3. m.peers \in SUBSET Identities
  BY <1>2, WireFacts
<1>4. Sent(sock[d], Offers(d, m.peers))
  BY DEF HandleNews, Offers
<1>5. /\ Offers(d, m.peers) \in Seq(Directed)
      /\ \A i \in 1 .. Len(Offers(d, m.peers)) :
           Offers(d, m.peers)[i].from = d /\ Offers(d, m.peers)[i].type # "join"
  BY <1>3, OffersFacts
<1>6. UNCHANGED <<vars, sock, wake, link, drops, ended, orphaned, sessions, requests>>
  BY DEF DaemonReceives, HandleNews, Receive
<1>7. down' = [down EXCEPT ![sock[d]] = Tail(@)]
  BY DEF HandleNews, Receive
<1> HIDE DEF m
<1> QED
  BY <1>1, <1>4, <1>5, <1>6, <1>7 DEF Talk, m

\* What establish_session does to the map.
Learns(d, e) ==
  /\ sessions' \in SessionMap
  /\ sessions'[d][e].known
  /\ \A x, y \in Identities : <<x, y>> # <<d, e>> => sessions'[x][y] = sessions[x][y]

LEMMA EstablishFacts ==
  ASSUME RelayTypeOK, NEW d \in Identities, NEW e \in Identities, Establish(d, e)
  PROVE  Learns(d, e)
<1>1. sessions \in SessionMap
  BY DEF RelayTypeOK, SessionMap
<1>2. sessions[d] \in [Identities -> [known : BOOLEAN, rx : Nat, tx : Nat]]
  BY <1>1 DEF SessionMap
<1>3. sessions[d][e] \in [known : BOOLEAN, rx : Nat, tx : Nat]
  BY <1>2
<1> DEFINE new == [sessions[d][e] EXCEPT !.known = TRUE]
<1>4. new \in [known : BOOLEAN, rx : Nat, tx : Nat] /\ new.known
  BY <1>3
<1>5. sessions' = [sessions EXCEPT ![d] = [sessions[d] EXCEPT ![e] = new]]
  BY DEF Establish
<1> HIDE DEF new
<1>6. [sessions[d] EXCEPT ![e] = new] \in [Identities -> [known : BOOLEAN, rx : Nat, tx : Nat]]
  BY <1>2, <1>4
<1>7. sessions' \in SessionMap
  BY <1>1, <1>5, <1>6 DEF SessionMap
<1>8. sessions'[d] = [sessions[d] EXCEPT ![e] = new]
  BY <1>1, <1>5 DEF SessionMap
<1>9. sessions'[d][e].known
  BY <1>2, <1>4, <1>8
<1>10. ASSUME NEW x \in Identities, NEW y \in Identities, <<x, y>> # <<d, e>>
       PROVE  sessions'[x][y] = sessions[x][y]
  <2>1. CASE x # d
    BY <1>1, <1>5, <2>1 DEF SessionMap
  <2>2. CASE x = d
    BY <1>2, <1>8, <1>10, <2>2
  <2> QED
    BY <2>1, <2>2
<1> QED
  BY <1>7, <1>9, <1>10 DEF Learns

LEMMA OfferTalk ==
  ASSUME RelayTypeOK, NEW d \in Identities, DaemonReceives(d),
         NEW m, m = Head(down[sock[d]]), HandleOffer(d, m)
  PROVE  /\ Talk(d, <<Msg("answer", d, m.from, 0)>>)
         /\ m.from \in Identities /\ Learns(d, m.from)
         /\ UNCHANGED requests /\ down' = [down EXCEPT ![sock[d]] = Tail(@)]
<1>1. sock[d] # NoSocket /\ down[sock[d]] # <<>>
  BY DEF DaemonReceives
<1>2. m \in Wire /\ Directs(m)
  BY <1>1, SockFacts DEF HandleOffer, Directs
<1>3. m.from \in Identities
  BY <1>2, WireFacts
<1> DEFINE a == Msg("answer", d, m.from, 0)
<1>4. a \in Directed /\ a.from = d /\ a.type # "join"
  BY <1>3, MsgFacts
<1>5. Sent(sock[d], <<a>>) /\ Establish(d, m.from)
  BY DEF HandleOffer
<1>6. /\ UNCHANGED <<vars, sock, wake, link, drops, ended, orphaned, requests>>
      /\ down' = [down EXCEPT ![sock[d]] = Tail(@)]
  BY DEF DaemonReceives, HandleOffer, Receive
<1> HIDE DEF a
<1>7. <<a>> \in Seq(Directed) /\ \A i \in 1 .. Len(<<a>>) : <<a>>[i] = a
  BY <1>4
<1>8. Talk(d, <<a>>)
  BY <1>1, <1>4, <1>5, <1>6, <1>7 DEF Talk
<1> QED
  BY <1>3, <1>5, <1>6, <1>8, EstablishFacts DEF a

LEMMA AnswerTalk ==
  ASSUME RelayTypeOK, NEW d \in Identities, DaemonReceives(d),
         NEW m, m = Head(down[sock[d]]), HandleAnswer(d, m)
  PROVE  /\ Talk(d, <<>>)
         /\ m.from \in Identities /\ Learns(d, m.from)
         /\ UNCHANGED <<up, requests>> /\ down' = [down EXCEPT ![sock[d]] = Tail(@)]
<1>1. sock[d] # NoSocket /\ down[sock[d]] # <<>>
  BY DEF DaemonReceives
<1>2. m \in Wire /\ Directs(m)
  BY <1>1, SockFacts DEF HandleAnswer, Directs
<1>3. m.from \in Identities
  BY <1>2, WireFacts
<1>4. Sent(sock[d], <<>>)
  <2>1. up \in [Sockets -> Seq(Directed)] /\ up[sock[d]] \in Seq(Directed)
    BY <1>1, SockFacts DEF RelayTypeOK
  <2>2. up[sock[d]] \o <<>> = up[sock[d]]
    BY <2>1
  <2>3. up' = up
    BY DEF HandleAnswer
  <2> QED
    BY <2>1, <2>2, <2>3 DEF Sent
<1>5. /\ UNCHANGED <<vars, sock, wake, link, drops, ended, orphaned, requests, up>>
      /\ down' = [down EXCEPT ![sock[d]] = Tail(@)]
  BY DEF DaemonReceives, HandleAnswer, Receive
<1>6. Talk(d, <<>>)
  BY <1>1, <1>4, <1>5 DEF Talk
<1>7. Establish(d, m.from)
  BY DEF HandleAnswer
<1> QED
  BY <1>3, <1>5, <1>6, <1>7, EstablishFacts

\* A relay sent or received changes counters only.
Counts ==
  /\ sessions' \in SessionMap
  /\ \A x, y \in Identities : sessions'[x][y].known = sessions[x][y].known

LEMMA CountFacts ==
  ASSUME RelayTypeOK, NEW d \in Identities, NEW e \in Identities,
         NEW r \in Nat, NEW t \in Nat,
         sessions' = [sessions EXCEPT ![d] =
           [sessions[d] EXCEPT ![e] = [sessions[d][e] EXCEPT !.rx = r, !.tx = t]]]
  PROVE  Counts
<1>1. sessions \in SessionMap
  BY DEF RelayTypeOK, SessionMap
<1>2. sessions[d] \in [Identities -> [known : BOOLEAN, rx : Nat, tx : Nat]]
  BY <1>1 DEF SessionMap
<1>3. sessions[d][e] \in [known : BOOLEAN, rx : Nat, tx : Nat]
  BY <1>2
<1> DEFINE new == [sessions[d][e] EXCEPT !.rx = r, !.tx = t]
<1>4. new \in [known : BOOLEAN, rx : Nat, tx : Nat] /\ new.known = sessions[d][e].known
  BY <1>3
<1> HIDE DEF new
<1>5. sessions' = [sessions EXCEPT ![d] = [sessions[d] EXCEPT ![e] = new]]
  BY DEF new
<1>6. [sessions[d] EXCEPT ![e] = new] \in [Identities -> [known : BOOLEAN, rx : Nat, tx : Nat]]
  BY <1>2, <1>4
<1>7. sessions' \in SessionMap
  BY <1>1, <1>5, <1>6 DEF SessionMap
<1>8. sessions'[d] = [sessions[d] EXCEPT ![e] = new]
  BY <1>1, <1>5 DEF SessionMap
<1>9. ASSUME NEW x \in Identities, NEW y \in Identities
      PROVE  sessions'[x][y].known = sessions[x][y].known
  <2>1. CASE x # d
    BY <1>1, <1>5, <2>1 DEF SessionMap
  <2>2. CASE x = d
    BY <1>2, <1>4, <1>8, <2>2
  <2> QED
    BY <2>1, <2>2
<1> QED
  BY <1>7, <1>9 DEF Counts


LEMMA RelayTalk ==
  ASSUME RelayTypeOK, NEW d \in Identities, DaemonReceives(d),
         NEW m, m = Head(down[sock[d]]), HandleRelay(d, m)
  PROVE  /\ \/ Talk(d, <<Msg("response", d, m.from, sessions[d][m.from].tx)>>)
            \/ Talk(d, <<>>)
         /\ m.from \in Identities /\ sessions[d][m.from].known /\ Counts
         /\ sessions[d][m.from].tx \in Nat
         /\ UNCHANGED requests /\ down' = [down EXCEPT ![sock[d]] = Tail(@)]
<1>1. sock[d] # NoSocket /\ down[sock[d]] # <<>>
  BY DEF DaemonReceives
<1>2. m \in Wire /\ Directs(m)
  BY <1>1, SockFacts DEF HandleRelay, IsRelay, Directs
<1>3. m.from \in Identities /\ m.n \in Nat
  BY <1>2, WireFacts
<1> DEFINE e == m.from
           old == sessions[d][e]
           more == IF m.type = "request" THEN old.tx + 1 ELSE old.tx
           r == Msg("response", d, e, old.tx)
<1>4. sessions \in SessionMap /\ sessions[d] \in [Identities -> [known : BOOLEAN, rx : Nat, tx : Nat]]
  BY DEF RelayTypeOK, SessionMap
<1>5. old \in [known : BOOLEAN, rx : Nat, tx : Nat]
  BY <1>3, <1>4
<1>6. more \in Nat /\ old.tx \in Nat
  BY <1>5
<1>7. sessions' = [sessions EXCEPT ![d][e].rx = m.n,
                                   ![d][e].tx = IF m.type = "request" THEN @ + 1 ELSE @]
  BY DEF HandleRelay
<1>8. sessions' = [sessions EXCEPT ![d] =
                     [sessions[d] EXCEPT ![e] = [old EXCEPT !.rx = m.n, !.tx = more]]]
  BY <1>3, <1>4, <1>5, <1>7 DEF SessionMap
<1>9. Counts
  BY <1>3, <1>6, <1>8, CountFacts
<1>10. /\ UNCHANGED <<vars, sock, wake, link, drops, ended, orphaned, requests>>
       /\ down' = [down EXCEPT ![sock[d]] = Tail(@)]
       /\ Fresh(d, m)
  BY DEF DaemonReceives, HandleRelay, Receive
<1>11. Sent(sock[d], <<r>>) \/ UNCHANGED up
  BY DEF HandleRelay
<1>12. r \in Directed /\ r.from = d /\ r.type # "join"
  <2>1. e \in Identities
    BY <1>3
  <2> HIDE DEF e, old
  <2> QED
    BY <1>6, <2>1, MsgFacts
<1> HIDE DEF r
<1>13. <<r>> \in Seq(Directed) /\ \A i \in 1 .. Len(<<r>>) : <<r>>[i] = r
  BY <1>12
<1>14. CASE Sent(sock[d], <<r>>)
  <2>1. Talk(d, <<r>>)
    BY <1>1, <1>10, <1>12, <1>13, <1>14 DEF Talk
  <2> QED
    BY <1>3, <1>6, <1>9, <1>10, <2>1 DEF Fresh, r
<1>15. CASE UNCHANGED up
  <2>1. up \in [Sockets -> Seq(Directed)] /\ up[sock[d]] \in Seq(Directed)
    BY <1>1, SockFacts DEF RelayTypeOK
  <2>2. up[sock[d]] \o <<>> = up[sock[d]]
    BY <2>1
  <2>3. Sent(sock[d], <<>>)
    BY <1>15, <2>1, <2>2 DEF Sent
  <2>4. Talk(d, <<>>)
    BY <1>1, <1>10, <2>3 DEF Talk
  <2> QED
    BY <1>3, <1>6, <1>9, <1>10, <2>4 DEF Fresh
<1> QED
  BY <1>11, <1>14, <1>15

LEMMA RequestTalk ==
  ASSUME RelayTypeOK, NEW d \in Identities, NEW e \in Identities, SendRequest(d, e)
  PROVE  /\ Talk(d, <<Msg("request", d, e, sessions[d][e].tx)>>)
         /\ sessions[d][e].known /\ Counts
         /\ sessions[d][e].tx \in Nat
         /\ UNCHANGED down /\ requests' = requests + 1
<1> DEFINE old == sessions[d][e]
           r == Msg("request", d, e, old.tx)
<1>1. sessions \in SessionMap /\ sessions[d] \in [Identities -> [known : BOOLEAN, rx : Nat, tx : Nat]]
  BY DEF RelayTypeOK, SessionMap
<1>2. /\ old \in [known : BOOLEAN, rx : Nat, tx : Nat]
      /\ old.tx \in Nat /\ old.tx + 1 \in Nat /\ old.rx \in Nat
  BY <1>1
<1>3. sessions' = [sessions EXCEPT ![d][e].tx = @ + 1]
  BY DEF SendRequest
<1>4. sessions' = [sessions EXCEPT ![d] =
                     [sessions[d] EXCEPT ![e] = [old EXCEPT !.rx = old.rx, !.tx = old.tx + 1]]]
  BY <1>1, <1>2, <1>3 DEF SessionMap
<1>5. Counts
  BY <1>2, <1>4, CountFacts
<1>6. /\ UNCHANGED <<vars, sock, wake, link, drops, ended, orphaned, down>>
      /\ sock[d] # NoSocket /\ sessions[d][e].known /\ Sent(sock[d], <<r>>)
      /\ requests' = requests + 1
  BY DEF SendRequest
<1>7. r \in Directed /\ r.from = d /\ r.type # "join"
  BY <1>2, MsgFacts
<1> HIDE DEF r
<1>8. <<r>> \in Seq(Directed) /\ \A i \in 1 .. Len(<<r>>) : <<r>>[i] = r
  BY <1>7
<1>9. Talk(d, <<r>>)
  BY <1>6, <1>7, <1>8 DEF Talk
<1> QED
  BY <1>2, <1>5, <1>6, <1>9 DEF r


-----------------------------------------------------------------------------
(* Types.                                                                  *)

\* What was sent to the room and is read next.
LEMMA HeadFacts ==
  ASSUME RelayTypeOK, NEW s \in Sockets, RoomReceives(s)
  PROVE  /\ Head(up[s]) \in Directed /\ Head(up[s]) \in Wire /\ Directs(Head(up[s]))
         /\ Head(up[s]).from \in Identities /\ Head(up[s]).to \in Identities
         /\ Head(up[s]) = up[s][1] /\ 1 \in 1 .. Len(up[s])
         /\ up[s] \in Seq(Directed) /\ Tail(up[s]) \in Seq(Directed)
         /\ up' \in [Sockets -> Seq(Directed)]
         /\ up'[s] = Tail(up[s]) /\ \A t \in Sockets : t # s => up'[t] = up[t]
         /\ UNCHANGED <<sock, wake, sessions, link, drops, requests, ended, orphaned>>
<1>1. up \in [Sockets -> Seq(Directed)] /\ up[s] \in Seq(Directed) /\ up[s] # <<>>
  BY DEF RelayTypeOK, RoomReceives
<1>2. /\ Head(up[s]) \in Directed /\ Tail(up[s]) \in Seq(Directed)
      /\ Head(up[s]) = up[s][1] /\ 1 \in 1 .. Len(up[s])
  BY <1>1, TailFacts
<1>3. Directs(Head(up[s])) /\ Head(up[s]).from \in Identities /\ Head(up[s]).to \in Identities
  BY <1>2 DEF Directed, Directs
<1> QED
  BY <1>1, <1>2, <1>3 DEF RoomReceives, Wire

\* Every step is a step of the room, or none; nobody joins twice on a WebSocket.
LEMMA RoomStep ==
  ASSUME RelayTypeOK, RelayNext
  PROVE  [Next]_vars /\ (JoinFirst => [NextJoiningOnce]_vars)
<1> DEFINE Goal == [Next]_vars /\ (JoinFirst => [NextJoiningOnce]_vars)
<1>1. ASSUME NEW d \in Identities, Join(d) PROVE Goal
  <2> DEFINE T == {t \in Sockets : conn[t] = "unborn"}
  <2>1. Min(T) \in T
    <3>1. T \in SUBSET Nat /\ T # {}
      BY <1>1, RelayAssumption DEF Join
    <3> QED
      BY <3>1, MinFacts
  <2> QED
    BY <1>1, <2>1 DEF Join, Next, NextJoiningOnce
<1>2. ASSUME NEW d \in Identities, DaemonReceives(d) \/ DaemonSeesEnd(d) PROVE Goal
  BY <1>2 DEF DaemonReceives, DaemonSeesEnd
<1>3. ASSUME NEW d \in Callers, NEW e \in Identities, SendRequest(d, e) PROVE Goal
  BY <1>3 DEF SendRequest
<1>4. ASSUME NEW s \in Sockets, RoomReceives(s) PROVE Goal
  <2> DEFINE m == Head(up[s])
  <2>1. m \in Wire /\ m \in Directed
    <3>1. up[s] \in Seq(Directed) /\ up[s] # <<>>
      BY <1>4 DEF RelayTypeOK, RoomReceives
    <3> QED
      BY <3>1, TailFacts DEF Wire
  <2>2. m.from \in Identities
    BY <2>1 DEF Directed
  <2>3. CASE RoomJoin(s, m)
    <3>0. JoinFirst => s \notin spoke
      <4>1. m = up[s][1] /\ 1 \in 1 .. Len(up[s]) /\ m.type = "join"
        BY <1>4, <2>3, HeadFacts DEF RoomJoin
      <4> QED
        BY <4>1 DEF JoinFirst
    <3>1. CASE RejectJoin(s, m.from)
      BY <2>2, <3>1, <3>0 DEF Next, NextJoiningOnce
    <3>2. ASSUME NEW reached \in SUBSET OpenSockets, AcceptJoin(s, m.from, reached)
          PROVE  Goal
      <4>1. reached \in SUBSET Sockets
        BY DEF OpenSockets
      <4> QED
        BY <2>2, <3>2, <3>0, <4>1 DEF Next, NextJoiningOnce
    <3> QED
      BY <2>3, <3>1, <3>2 DEF RoomJoin
  <2>4. CASE RoomForward(s, m)
    BY <2>4 DEF RoomForward
  <2>5. CASE RoomRelay(s, m)
    BY <2>5 DEF RoomRelay, Next, NextJoiningOnce
  <2> QED
    BY <1>4, <2>3, <2>4, <2>5 DEF RoomReceives
<1>5. ASSUME NEW s \in Sockets, RoomCloses(s) PROVE Goal
  <2>1. PICK reached \in SUBSET OpenSockets, thrown \in BOOLEAN : Close(s, reached, thrown)
    BY <1>5 DEF RoomCloses
  <2>2. reached \in SUBSET Sockets
    BY DEF OpenSockets
  <2> QED
    BY <2>1, <2>2 DEF Next, NextJoiningOnce
<1>6. ASSUME NEW s \in Sockets, Drop(s) PROVE Goal
  BY <1>6 DEF Drop
<1>7. CASE Pass
  BY <1>7 DEF Pass, Next, NextJoiningOnce
<1> QED
  BY <1>1, <1>2, <1>3, <1>4, <1>5, <1>6, <1>7 DEF RelayNext, DaemonStep

NetTypeOK ==
  /\ sock \in [Identities -> Sockets \cup {NoSocket}]
  /\ wake \in [Identities -> Nat]
  /\ sessions \in SessionMap
  /\ link \in [Sockets -> {"none", "up", "down"}]
  /\ up \in [Sockets -> Seq(Directed)]
  /\ down \in [Sockets -> Seq(Wire)]
  /\ drops \in Nat /\ requests \in Nat
  /\ 2 * drops + requests <= MaxTrouble
  /\ ended \subseteq Identities
  /\ orphaned \subseteq Identities

LEMMA RelayTypeParts == RelayTypeOK <=> TypeOK /\ NetTypeOK
BY DEF RelayTypeOK, NetTypeOK, SessionMap, Wire

LEMMA TalkType ==
  ASSUME RelayTypeOK, NEW d \in Identities, NEW ms, Talk(d, ms),
         sessions' \in SessionMap,
         \/ UNCHANGED requests
         \/ 2 * drops + requests < MaxTrouble /\ requests' = requests + 1
  PROVE  NetTypeOK'
<1> USE RelayTypeParts, RelayAssumption
<1>1. sock[d] \in Sockets /\ down[sock[d]] \in Seq(Wire)
  BY SockFacts DEF Talk
<1>2. up' \in [Sockets -> Seq(Directed)]
  BY <1>1, SentFacts DEF Talk
<1>3. down[sock[d]] # <<>> => Tail(down[sock[d]]) \in Seq(Wire)
  BY <1>1, TailFacts
<1>4. down' \in [Sockets -> Seq(Wire)]
  BY <1>1, <1>3 DEF Talk, NetTypeOK
<1>5. requests' \in Nat /\ drops' \in Nat /\ 2 * drops' + requests' <= MaxTrouble
  BY DEF Talk, NetTypeOK
<1> QED
  BY <1>2, <1>4, <1>5 DEF Talk, NetTypeOK

LEMMA EndType ==
  ASSUME RelayTypeOK, NEW d \in Identities, sock[d] # NoSocket, EndLink(d),
         UNCHANGED <<up, sessions, drops, requests>>, orphaned' \subseteq Identities
  PROVE  NetTypeOK'
<1> USE RelayTypeParts, RelayAssumption
<1>1. sock[d] \in Sockets
  BY SockFacts
<1>2. now + Sleep \in Nat
  BY DEF TypeOK
<1> QED
  BY <1>1, <1>2 DEF EndLink, NetTypeOK


LEMMA PostedFacts ==
  ASSUME NEW q \in [Sockets -> Seq(Wire)], NEW ts, NEW m \in Wire
  PROVE  /\ Posted(q, ts, m) \in [Sockets -> Seq(Wire)]
         /\ <<m>> \in Seq(Wire) /\ Len(<<m>>) = 1 /\ <<m>>[1] = m
         /\ \A t \in Sockets :
              Posted(q, ts, m)[t] =
                IF t \in ts /\ link[t] = "up" THEN q[t] \o <<m>> ELSE q[t]
<1>1. ASSUME NEW t \in Sockets PROVE Append(q[t], m) = q[t] \o <<m>> /\ Append(q[t], m) \in Seq(Wire)
  OBVIOUS
<1>2. <<m>> \in Seq(Wire) /\ Len(<<m>>) = 1 /\ <<m>>[1] = m
  OBVIOUS
<1>3. Posted(q, ts, m) = [t \in Sockets |->
                            IF t \in ts /\ link[t] = "up" THEN Append(q[t], m) ELSE q[t]]
  BY DEF Posted
<1>4. \A t \in Sockets : q[t] \in Seq(Wire)
  OBVIOUS
<1>5. Posted(q, ts, m) \in [Sockets -> Seq(Wire)]
  BY <1>1, <1>3, <1>4
<1> QED
  BY <1>1, <1>2, <1>3, <1>5

\* t is sent news of the peers told or of id.
PostsNews(t, told, id) ==
  \E ms \in Seq(Wire) :
    /\ down'[t] = down[t] \o ms
    /\ link[t] # "up" => down'[t] = down[t]
    /\ \A i \in 1 .. Len(ms) : ~Directs(ms[i]) /\ ms[i].peers \in {told, {id}}

\* The room's news: "joined" to s, "peer_joined" to those the broadcast reaches.
LEMMA NewsPosted ==
  ASSUME RelayTypeOK, NEW s \in Sockets, NEW told \in SUBSET Identities,
         NEW id \in Identities, NEW reached,
         down' = Posted(Posted(down, {s}, [type |-> "joined", peers |-> told]),
                        reached, [type |-> "peer_joined", peers |-> {id}])
  PROVE  /\ down' \in [Sockets -> Seq(Wire)]
         /\ \A t \in Sockets : PostsNews(t, told, id)
<1> DEFINE j == [type |-> "joined", peers |-> told]
           p == [type |-> "peer_joined", peers |-> {id}]
           mid == Posted(down, {s}, j)
<1>1. j \in Wire /\ p \in Wire
  BY DEF Wire, News
<1>2. ~Directs(j) /\ j.peers = told /\ ~Directs(p) /\ p.peers = {id}
  BY DEF Directs
<1>3. down \in [Sockets -> Seq(Wire)]
  BY RelayTypeParts DEF NetTypeOK
<1> HIDE DEF j, p
<1>4. /\ mid \in [Sockets -> Seq(Wire)]
      /\ <<j>> \in Seq(Wire) /\ Len(<<j>>) = 1 /\ <<j>>[1] = j
      /\ \A t \in Sockets :
           mid[t] = IF t \in {s} /\ link[t] = "up" THEN down[t] \o <<j>> ELSE down[t]
  BY <1>1, <1>3, PostedFacts
<1> HIDE DEF mid
<1>5. /\ Posted(mid, reached, p) \in [Sockets -> Seq(Wire)]
      /\ <<p>> \in Seq(Wire) /\ Len(<<p>>) = 1 /\ <<p>>[1] = p
      /\ \A t \in Sockets :
           Posted(mid, reached, p)[t] =
             IF t \in reached /\ link[t] = "up" THEN mid[t] \o <<p>> ELSE mid[t]
  BY <1>1, <1>4, PostedFacts
<1>6. down' = Posted(mid, reached, p)
  BY DEF mid, j, p
<1>7. ASSUME NEW t \in Sockets
      PROVE  PostsNews(t, told, id)
  <2> USE DEF PostsNews
  <2>1. down[t] \in Seq(Wire)
    BY <1>3
  <2>2. CASE down'[t] = down[t]
    <3> DEFINE ms == <<>>
    <3>1. down[t] \o ms = down[t] /\ ms \in Seq(Wire) /\ 1 .. Len(ms) = {}
      BY <2>1
    <3> HIDE DEF ms
    <3> QED
      BY <2>2, <3>1
  <2>3. CASE t # s /\ t \in reached /\ link[t] = "up"
    <3>1. down'[t] = down[t] \o <<p>>
      BY <1>4, <1>5, <1>6, <2>3
    <3>2. \A i \in 1 .. Len(<<p>>) : <<p>>[i] = p
      BY <1>5
    <3> QED
      BY <1>2, <1>5, <2>3, <3>1, <3>2
  <2>4. CASE t = s /\ t \notin reached /\ link[t] = "up"
    <3>1. down'[t] = down[t] \o <<j>>
      BY <1>4, <1>5, <1>6, <2>4
    <3>2. \A i \in 1 .. Len(<<j>>) : <<j>>[i] = j
      BY <1>4
    <3> QED
      BY <1>2, <1>4, <2>4, <3>1, <3>2
  <2>5. CASE t = s /\ t \in reached /\ link[t] = "up"
    <3> DEFINE ms == <<j>> \o <<p>>
    <3>1. down'[t] = (down[t] \o <<j>>) \o <<p>>
      BY <1>4, <1>5, <1>6, <2>5
    <3>2. ms \in Seq(Wire) /\ Len(ms) = 2 /\ ms[1] = j /\ ms[2] = p
      BY <1>4, <1>5, CatFacts
    <3>3. (down[t] \o <<j>>) \o <<p>> = down[t] \o ms
      BY <1>4, <1>5, <2>1, ConcatAssociative
    <3>4. \A i \in 1 .. Len(ms) : ms[i] = j \/ ms[i] = p
      BY <3>2
    <3>5. \A i \in 1 .. Len(ms) :
            ~Directs(ms[i]) /\ ms[i].peers \in {told, {id}}
      BY <1>2, <2>5, <3>4
    <3> HIDE DEF ms
    <3> QED
      BY <2>5, <3>1, <3>2, <3>3, <3>5
  <2>6. link[t] # "up" \/ t \notin reached \cup {s} => down'[t] = down[t]
    BY <1>4, <1>5, <1>6
  <2> QED
    BY <2>2, <2>3, <2>4, <2>5, <2>6
<1> QED
  BY <1>5, <1>6, <1>7

\* An offer or answer from the connection its sender is registered on
\* reaches the connection its addressee is registered on, if that is up.
PassedOn(s, m) ==
  /\ m.type \in {"offer", "answer"} /\ sockets[s] = m.from
  /\ peers[m.to].ws \in Sockets /\ link[peers[m.to].ws] = "up"
  => down'[peers[m.to].ws] = down[peers[m.to].ws] \o <<m>>

\* An offer, answer or relay the room passes on.
LEMMA ForwardFacts ==
  ASSUME RelayTypeOK, NEW s \in Sockets, RoomReceives(s),
         NEW m, m = Head(up[s]), RoomForward(s, m) \/ RoomRelay(s, m)
  PROVE  /\ m.type # "join"
         /\ down' \in [Sockets -> Seq(Wire)]
         /\ UNCHANGED <<peers, sockets, conn, spoke, roster>>
         /\ m \in Wire /\ <<m>> \in Seq(Wire) /\ Len(<<m>>) = 1 /\ <<m>>[1] = m
         /\ \A t \in Sockets :
              \/ down'[t] = down[t]
              \/ /\ sockets[s] = m.from
                 /\ t = peers[m.to].ws /\ link[t] = "up"
                 /\ down'[t] = down[t] \o <<m>>
         /\ PassedOn(s, m)
<1>1. down \in [Sockets -> Seq(Wire)] /\ m \in Wire
  BY HeadFacts, RelayTypeParts DEF NetTypeOK
<1>2. UNCHANGED <<peers, sockets, conn, spoke, roster>> /\ m.type # "join"
  BY DEF RoomForward, RoomRelay, Relay, vars, IsRelay
<1> DEFINE after == Posted(down, Targets(m), m)
<1>3. /\ after \in [Sockets -> Seq(Wire)]
      /\ <<m>> \in Seq(Wire) /\ Len(<<m>>) = 1 /\ <<m>>[1] = m
      /\ \A t \in Sockets :
           after[t] = IF t \in Targets(m) /\ link[t] = "up" THEN down[t] \o <<m>> ELSE down[t]
  BY <1>1, PostedFacts
<1>4. \/ sockets[s] = m.from /\ down' = after
      \/ down' = down /\ (m.type \in {"offer", "answer"} => sockets[s] # m.from)
  BY DEF RoomForward, RoomRelay, IsRelay
<1> HIDE DEF after
<1>5. \A t : t \in Targets(m) <=> t = peers[m.to].ws /\ t # NoSocket
  BY DEF Targets
<1>6. \A t \in Sockets : t # NoSocket
  BY RoomAssumption
<1>7. \A t \in Sockets :
              \/ down'[t] = down[t]
              \/ /\ sockets[s] = m.from
                 /\ t = peers[m.to].ws /\ link[t] = "up"
                 /\ down'[t] = down[t] \o <<m>>
  BY <1>3, <1>4, <1>5
<1>8. PassedOn(s, m)
  BY <1>3, <1>4, <1>5, <1>6 DEF PassedOn
<1> QED
  BY <1>1, <1>2, <1>3, <1>4, <1>7, <1>8

LEMMA NextRelayType == RelayTypeOK /\ [RelayNext]_relayVars => RelayTypeOK'
<1> SUFFICES ASSUME RelayTypeOK, [RelayNext]_relayVars PROVE NetTypeOK' /\ TypeOK'
  BY RelayTypeParts, RelayTypeParts' DEF RelayTypeOK, NetTypeOK, SessionMap, Wire
<1> USE RelayTypeParts, RelayAssumption
<1>1. TypeOK'
  BY RoomStep, NextType DEF relayVars
<1>2. ASSUME NEW d \in Identities, Join(d) PROVE NetTypeOK'
  <2> DEFINE T == {t \in Sockets : conn[t] = "unborn"}
             s == Min(T)
  <2>1. s \in Sockets
    <3>1. T \in SUBSET Nat /\ T # {}
      BY <1>2 DEF Join
    <3> QED
      BY <3>1, MinFacts
  <2>2. <<Msg("join", d, d, 0)>> \in Seq(Directed)
    BY MsgFacts
  <2>3. /\ sock' = [sock EXCEPT ![d] = s]
        /\ link' = [link EXCEPT ![s] = "up"]
        /\ up' = [up EXCEPT ![s] = <<Msg("join", d, d, 0)>>]
        /\ wake' = [wake EXCEPT ![d] = 0]
        /\ UNCHANGED <<sessions, down, drops, requests, ended, orphaned>>
    BY <1>2 DEF Join
  <2> HIDE DEF s
  <2> QED
    BY <2>1, <2>2, <2>3 DEF NetTypeOK
<1>3. ASSUME NEW d \in Identities, DaemonReceives(d) PROVE NetTypeOK'
  <2> DEFINE m == Head(down[sock[d]])
  <2>1. CASE HandleNews(d, m)
    <3>1. Talk(d, Offers(d, m.peers)) /\ UNCHANGED <<sessions, requests>>
      BY <1>3, <2>1, NewsTalk
    <3>2. sessions' \in SessionMap
      BY <3>1 DEF NetTypeOK
    <3> QED
      BY <3>1, <3>2, TalkType
  <2>2. CASE HandleOffer(d, m)
    <3>1. PICK ms : Talk(d, ms)
      BY <1>3, <2>2, OfferTalk
    <3>2. sessions' \in SessionMap /\ UNCHANGED requests
      BY <1>3, <2>2, OfferTalk DEF Learns
    <3> QED
      BY <3>1, <3>2, TalkType
  <2>3. CASE HandleAnswer(d, m)
    BY <1>3, <2>3, AnswerTalk, TalkType DEF Learns
  <2>4. CASE HandleRelay(d, m)
    <3>1. PICK ms : Talk(d, ms)
      BY <1>3, <2>4, RelayTalk
    <3>2. sessions' \in SessionMap /\ UNCHANGED requests
      BY <1>3, <2>4, RelayTalk DEF Counts
    <3> QED
      BY <3>1, <3>2, TalkType
  <2>5. CASE RefuseRelay(d, m)
    <3>1. orphaned' \subseteq Identities
      BY <2>5 DEF RefuseRelay, NetTypeOK
    <3> QED
      BY <1>3, <2>5, <3>1, EndType DEF RefuseRelay, DaemonReceives
  <2> QED
    BY <1>3, <2>1, <2>2, <2>3, <2>4, <2>5 DEF DaemonReceives
<1>4. ASSUME NEW d \in Identities, DaemonSeesEnd(d) PROVE NetTypeOK'
  BY <1>4, EndType DEF DaemonSeesEnd, NetTypeOK
<1>5. ASSUME NEW d \in Callers, NEW e \in Identities, SendRequest(d, e) PROVE NetTypeOK'
  <2>1. d \in Identities
    OBVIOUS
  <2> QED
    BY <1>5, <2>1, RequestTalk, TalkType DEF SendRequest, Counts
<1>6. ASSUME NEW s \in Sockets, RoomReceives(s) PROVE NetTypeOK'
  <2>1. down' \in [Sockets -> Seq(Wire)]
    <3> DEFINE m == Head(up[s])
    <3>1. CASE RoomJoin(s, m)
      <4>1. CASE UNCHANGED down
        BY <4>1 DEF NetTypeOK
      <4>2. ASSUME NEW reached,
                   down' = Posted(Posted(down, {s}, [type |-> "joined", peers |-> roster'[s]]),
                                  reached, [type |-> "peer_joined", peers |-> {m.from}])
            PROVE  down' \in [Sockets -> Seq(Wire)]
        <5>1. roster'[s] \in SUBSET Identities /\ m.from \in Identities
          BY <1>1, <1>6, HeadFacts DEF TypeOK
        <5> QED
          BY <4>2, <5>1, NewsPosted
      <4> QED
        BY <3>1, <4>1, <4>2 DEF RoomJoin
    <3>2. CASE RoomForward(s, m) \/ RoomRelay(s, m)
      BY <1>6, <3>2, ForwardFacts
    <3> QED
      BY <1>6, <3>1, <3>2 DEF RoomReceives
  <2>2. /\ up' \in [Sockets -> Seq(Directed)]
        /\ UNCHANGED <<sock, wake, sessions, link, drops, requests, ended, orphaned>>
    BY <1>6, HeadFacts
  <2> QED
    BY <2>1, <2>2 DEF NetTypeOK
<1>7. ASSUME NEW s \in Sockets, Drop(s) PROVE NetTypeOK'
  <2>1. PICK i \in 0 .. Len(up[s]) : up' = [up EXCEPT ![s] = SubSeq(@, 1, i)]
    BY <1>7 DEF Drop
  <2>2. PICK j \in 0 .. Len(down[s]) : down' = [down EXCEPT ![s] = SubSeq(@, 1, j)]
    BY <1>7 DEF Drop
  <2>3. up[s] \in Seq(Directed) /\ down[s] \in Seq(Wire)
    BY DEF NetTypeOK
  <2>4. SubSeq(up[s], 1, i) \in Seq(Directed) /\ SubSeq(down[s], 1, j) \in Seq(Wire)
    BY <2>3, PrefixFacts
  <2>5. drops' \in Nat /\ 2 * drops' + requests <= MaxTrouble
    <3>1. drops \in Nat /\ requests \in Nat /\ MaxTrouble \in Nat
      BY RelayAssumption DEF NetTypeOK
    <3>2. 2 * drops + requests + 1 < MaxTrouble /\ drops' = drops + 1
      BY <1>7 DEF Drop
    <3> QED
      BY <3>1, <3>2
  <2>6. up' \in [Sockets -> Seq(Directed)] /\ down' \in [Sockets -> Seq(Wire)]
    BY <2>1, <2>2, <2>4 DEF NetTypeOK
  <2> QED
    BY <1>7, <2>5, <2>6 DEF Drop, NetTypeOK
<1>8. ASSUME UNCHANGED netVars PROVE NetTypeOK'
  BY <1>8 DEF netVars, NetTypeOK
<1> QED
  BY <1>1, <1>2, <1>3, <1>4, <1>5, <1>6, <1>7, <1>8
     DEF RelayNext, DaemonStep, RoomCloses, Pass, relayVars

LEMMA InitRelayType == RelayInit => RelayTypeOK
<1> SUFFICES ASSUME RelayInit PROVE TypeOK /\ NetTypeOK
  BY RelayTypeParts
<1>1. TypeOK
  BY InitType DEF RelayInit
<1>2. <<>> \in Seq(Directed) /\ <<>> \in Seq(Wire)
  OBVIOUS
<1> QED
  BY <1>1, <1>2, RelayAssumption DEF RelayInit, NetTypeOK, SessionMap

(* The daemons' maps and counters, the WebSockets and everything under way *)
(* on them have the types the code gives them, with any number of daemons, *)
(* WebSockets, breaks and requests.                                        *)
THEOREM RelayTypeCorrect == RelaySpec => []RelayTypeOK
BY InitRelayType, NextRelayType, PTL DEF RelaySpec


-----------------------------------------------------------------------------
(* Who is on which WebSocket.                                              *)

Wiring == Unborn /\ Owner /\ AtHome /\ JoinFirst

\* No entry of another daemon's map is touched.
OthersKeep(d) ==
  \A x, y \in Identities : x # d => sessions'[x][y].known = sessions[x][y].known

\* Message by message, what Talk does to the queues.
LEMMA TalkQueues ==
  ASSUME RelayTypeOK, NEW d \in Identities, NEW ms, Talk(d, ms), NEW t \in Sockets
  PROVE  /\ \A i \in 1 .. Len(up[t]) : i \in 1 .. Len(up'[t]) /\ up'[t][i] = up[t][i]
         /\ \A i \in 1 .. Len(up'[t]) :
              \/ i \in 1 .. Len(up[t])
              \/ /\ t = sock[d] /\ link[t] = "up" /\ i > Len(up[t])
                 /\ \E j \in 1 .. Len(ms) : up'[t][i] = ms[j]
                 /\ up'[t][i].from = d /\ up'[t][i].type # "join"
         /\ \A i \in 1 .. Len(down'[t]) : \E j \in 1 .. Len(down[t]) : down'[t][i] = down[t][j]
         /\ t # sock[d] => up'[t] = up[t] /\ down'[t] = down[t]
         /\ up[t] \in Seq(Directed) /\ up'[t] \in Seq(Directed)
<1>1. /\ up \in [Sockets -> Seq(Directed)] /\ down \in [Sockets -> Seq(Wire)]
      /\ sock[d] \in Sockets /\ ms \in Seq(Directed)
      /\ \A i \in 1 .. Len(ms) : ms[i].from = d /\ ms[i].type # "join"
  BY RelayTypeParts, SockFacts DEF NetTypeOK, Talk
<1>2. /\ up' \in [Sockets -> Seq(Directed)]
      /\ \A u \in Sockets : u # sock[d] => up'[u] = up[u]
      /\ link[sock[d]] = "up" => up'[sock[d]] = up[sock[d]] \o ms
      /\ link[sock[d]] # "up" => up' = up
  BY <1>1, SentFacts DEF Talk
<1>3. t # sock[d] => down'[t] = down[t]
  BY <1>1 DEF Talk
<1>4. ASSUME NEW i \in 1 .. Len(down'[t])
      PROVE  \E j \in 1 .. Len(down[t]) : down'[t][i] = down[t][j]
  <2>1. CASE down'[t] = down[t]
    BY <1>4, <2>1
  <2>2. CASE down'[t] # down[t]
    <3>1. down[t] # <<>> /\ down[t] \in Seq(Wire) /\ down'[t] = Tail(down[t])
      BY <1>1, <1>3, <2>2 DEF Talk
    <3>2. i + 1 \in 1 .. Len(down[t]) /\ Tail(down[t])[i] = down[t][i + 1]
      BY <1>4, <3>1, TailFacts
    <3> QED
      BY <3>1, <3>2
  <2> QED
    BY <2>1, <2>2
<1>5. CASE up'[t] = up[t]
  BY <1>1, <1>2, <1>3, <1>4, <1>5
<1>6. CASE t = sock[d] /\ link[t] = "up"
  <2>1. up'[t] = up[t] \o ms /\ up[t] \in Seq(Directed)
    BY <1>1, <1>2, <1>6
  <2>2. /\ Len(up'[t]) = Len(up[t]) + Len(ms) /\ Len(up[t]) \in Nat /\ Len(ms) \in Nat
        /\ \A i \in 1 .. Len(up[t]) : up'[t][i] = up[t][i]
        /\ \A i \in 1 .. Len(up'[t]) : i > Len(up[t]) =>
             i - Len(up[t]) \in 1 .. Len(ms) /\ up'[t][i] = ms[i - Len(up[t])]
    BY <1>1, <2>1, CatFacts
  <2>3. \A i \in 1 .. Len(up[t]) : i \in 1 .. Len(up'[t])
    BY <2>2
  <2>4. \A i \in 1 .. Len(up'[t]) : i > Len(up[t]) =>
             \E j \in 1 .. Len(ms) : up'[t][i] = ms[j]
    BY <2>2
  <2>5. \A i \in 1 .. Len(up'[t]) : i \in 1 .. Len(up[t]) \/ i > Len(up[t])
    BY <2>2
  <2>6. ASSUME NEW i \in 1 .. Len(up'[t]), i > Len(up[t])
        PROVE  /\ \E j \in 1 .. Len(ms) : up'[t][i] = ms[j]
               /\ up'[t][i].from = d /\ up'[t][i].type # "join"
    <3>1. PICK j \in 1 .. Len(ms) : up'[t][i] = ms[j]
      BY <2>4, <2>6
    <3> QED
      BY <1>1, <3>1
  <2> QED
    BY <1>1, <1>2, <1>4, <1>6, <2>2, <2>3, <2>5, <2>6
<1> QED
  BY <1>2, <1>5, <1>6

LEMMA TalkWiring ==
  ASSUME RelayTypeOK, Wiring, NEW d \in Identities, NEW ms, Talk(d, ms), OthersKeep(d)
  PROVE  Wiring'
<1>1. UNCHANGED <<conn, spoke, peers, sock, link, ended>> /\ sock[d] # NoSocket
  BY DEF Talk, vars
<1>2. /\ \A t \in Sockets : \A i \in 1 .. Len(up[t]) :
           i \in 1 .. Len(up'[t]) /\ up'[t][i] = up[t][i]
      /\ \A t \in Sockets : \A i \in 1 .. Len(up'[t]) :
           \/ i \in 1 .. Len(up[t]) /\ up'[t][i] = up[t][i]
           \/ /\ t = sock[d] /\ link[t] = "up" /\ i > Len(up[t])
              /\ up'[t][i].from = d /\ up'[t][i].type # "join"
      /\ \A t \in Sockets : \A i \in 1 .. Len(down'[t]) :
           \E j \in 1 .. Len(down[t]) : down'[t][i] = down[t][j]
      /\ \A t \in Sockets : t # sock[d] => up'[t] = up[t] /\ down'[t] = down[t]
  BY TalkQueues
<1>3. \A x \in Identities : sock[x] # NoSocket => sock[x] \in Sockets
  BY SockFacts
<1>4. Unborn'
  BY <1>1, <1>2 DEF Wiring, Unborn
<1>5. Owner'
  <2> SUFFICES ASSUME NEW x \in Identities, sock[x] # NoSocket
               PROVE  /\ \A i \in 1 .. Len(up'[sock[x]]) : up'[sock[x]][i].from = x
                      /\ \A i \in 1 .. Len(down'[sock[x]]) :
                           Directs(down'[sock[x]][i]) => down'[sock[x]][i].to = x
    BY <1>1 DEF Wiring, Owner
  <2>1. /\ \A i \in 1 .. Len(up[sock[x]]) : up[sock[x]][i].from = x
        /\ \A i \in 1 .. Len(down[sock[x]]) :
             Directs(down[sock[x]][i]) => down[sock[x]][i].to = x
        /\ sock[x] = sock[d] => x = d
    BY <1>1 DEF Wiring, Owner
  <2> QED
    BY <1>2, <1>3, <2>1, SMTT(20)
<1>6. AtHome'
  <2> SUFFICES ASSUME NEW x \in Identities \ ended
               PROVE  /\ \A s \in Sockets : \A i \in 1 .. Len(up'[s]) :
                           up'[s][i].from = x => s = sock[x]
                      /\ sock[x] = NoSocket => \A e \in Identities : ~sessions'[x][e].known
    BY <1>1 DEF Wiring, AtHome
  <2>1. \A s \in Sockets : \A i \in 1 .. Len(up[s]) : up[s][i].from = x => s = sock[x]
    BY DEF Wiring, AtHome
  <2>2. sock[x] = NoSocket => \A e \in Identities : ~sessions'[x][e].known
    BY <1>1 DEF Wiring, AtHome, OthersKeep
  <2> QED
    BY <1>2, <2>1, <2>2
<1>7. JoinFirst'
  <2> SUFFICES ASSUME NEW s \in Sockets
               PROVE  /\ \A i \in 1 .. Len(up'[s]) :
                           up'[s][i].type = "join" <=> i = 1 /\ s \notin spoke
                      /\ link[s] = "up" /\ s \notin spoke => up'[s] # <<>>
    BY <1>1 DEF Wiring, JoinFirst
  <2>1. /\ \A i \in 1 .. Len(up[s]) : up[s][i].type = "join" <=> i = 1 /\ s \notin spoke
        /\ link[s] = "up" /\ s \notin spoke => up[s] # <<>>
    BY DEF Wiring, JoinFirst
  <2>2. up[s] \in Seq(Directed) /\ up'[s] \in Seq(Directed)
    BY TalkQueues
  <2>3. up[s] # <<>> => 1 \in 1 .. Len(up[s]) /\ Len(up[s]) \in Nat
    BY <2>2, TailFacts
  <2>4. 1 \in 1 .. Len(up'[s]) => up'[s] # <<>>
    BY <2>2
  <2>5. ASSUME NEW i \in 1 .. Len(up'[s])
        PROVE  up'[s][i].type = "join" <=> i = 1 /\ s \notin spoke
    <3>1. CASE i \in 1 .. Len(up[s]) /\ up'[s][i] = up[s][i]
      BY <2>1, <3>1
    <3>2. CASE link[s] = "up" /\ i > Len(up[s]) /\ up'[s][i].type # "join"
      <4>1. Len(up[s]) \in Nat
        BY <2>2
      <4>2. s \notin spoke => i # 1
        BY <2>1, <2>3, <3>2, <4>1
      <4> QED
        BY <3>2, <4>2
    <3> QED
      BY <1>2, <3>1, <3>2
  <2> QED
    BY <1>2, <2>1, <2>3, <2>4, <2>5
<1> QED
  BY <1>4, <1>5, <1>6, <1>7 DEF Wiring


LEMMA EndWiring ==
  ASSUME RelayTypeOK, Wiring, NEW d \in Identities, sock[d] # NoSocket, EndLink(d),
         UNCHANGED <<vars, up, sessions>>
  PROVE  Wiring'
<1> DEFINE s == sock[d]
<1>1. /\ s \in Sockets /\ NoSocket \notin Sockets
      /\ \A x \in Identities : sock[x] # NoSocket => sock[x] \in Sockets
  BY SockFacts, RoomAssumption
<1>2. /\ \A x \in Identities : x # d => sock'[x] = sock[x]
      /\ sock'[d] = NoSocket
      /\ link'[s] = "down" /\ \A t \in Sockets : t # s => link'[t] = link[t]
      /\ down'[s] = <<>> /\ \A t \in Sockets : t # s => down'[t] = down[t]
      /\ ended' = ended \cup {d}
  BY <1>1, RelayTypeParts DEF EndLink, NetTypeOK
<1>3. UNCHANGED <<conn, spoke, peers, up, sessions>>
  BY DEF vars
<1> HIDE DEF s
<1>4. Unborn'
  BY <1>1, <1>2, <1>3 DEF Wiring, Unborn, s
<1>5. \A x \in Identities : sock'[x] # NoSocket => x # d /\ sock'[x] = sock[x] /\ sock[x] # s
  BY <1>2 DEF Wiring, Owner, s
<1>6. Owner'
  <2> SUFFICES ASSUME NEW x \in Identities, sock'[x] # NoSocket
               PROVE  /\ \A e \in Identities : sock'[e] = sock'[x] => e = x
                      /\ \A e \in Identities : peers[e].ws = sock'[x] => e = x
                      /\ \A i \in 1 .. Len(up[sock'[x]]) : up[sock'[x]][i].from = x
                      /\ \A i \in 1 .. Len(down'[sock'[x]]) :
                           Directs(down'[sock'[x]][i]) => down'[sock'[x]][i].to = x
    BY <1>3 DEF Owner
  <2>1. x # d /\ sock'[x] = sock[x] /\ sock[x] # NoSocket /\ sock[x] \in Sockets /\ sock[x] # s
    BY <1>1, <1>5
  <2>2. down'[sock[x]] = down[sock[x]]
    BY <1>2, <2>1
  <2> QED
    BY <1>5, <2>1, <2>2 DEF Wiring, Owner
<1>7. AtHome'
  BY <1>2, <1>3 DEF Wiring, AtHome
<1>8. JoinFirst'
  BY <1>1, <1>2, <1>3 DEF Wiring, JoinFirst
<1> QED
  BY <1>4, <1>6, <1>7, <1>8 DEF Wiring

LEMMA JoinWiring ==
  ASSUME RelayTypeOK, Silent, Wiring, NEW d \in Identities, Join(d)
  PROVE  Wiring'
<1> DEFINE T == {t \in Sockets : conn[t] = "unborn"}
           s == Min(T)
           q == <<Msg("join", d, d, 0)>>
<1>1. s \in Sockets /\ conn[s] = "unborn" /\ NoSocket \notin Sockets
  <2>1. T \in SUBSET Nat /\ T # {}
    BY RelayAssumption DEF Join
  <2>2. s \in T
    BY <2>1, MinFacts
  <2> QED
    BY <2>2, RoomAssumption
<1>2. /\ sock' = [sock EXCEPT ![d] = s]
      /\ link' = [link EXCEPT ![s] = "up"]
      /\ up' = [up EXCEPT ![s] = q]
      /\ conn' = [conn EXCEPT ![s] = "open"]
      /\ sock[d] = NoSocket
      /\ UNCHANGED <<peers, spoke, sessions, down, ended>>
  BY DEF Join, Connect
<1> HIDE DEF s
<1>3. /\ sock'[d] = s /\ \A x \in Identities : x # d => sock'[x] = sock[x]
      /\ \A t \in Sockets : t # s => link'[t] = link[t] /\ up'[t] = up[t] /\ conn'[t] = conn[t]
      /\ link'[s] = "up" /\ up'[s] = q /\ conn'[s] = "open"
  BY <1>1, <1>2, RelayTypeParts DEF NetTypeOK, TypeOK
<1>4. q # <<>> /\ \A i \in 1 .. Len(q) : i = 1 /\ q[i].from = d /\ q[i].type = "join"
  BY MsgFacts
<1>5. /\ up[s] = <<>> /\ down[s] = <<>> /\ s \notin spoke
      /\ \A x \in Identities : sock[x] # s /\ peers[x].ws # s
  BY <1>1 DEF Wiring, Unborn, Silent
<1> HIDE DEF q
<1>6. Unborn'
  BY <1>1, <1>2, <1>3 DEF Wiring, Unborn
<1>7. Owner'
  <2> SUFFICES ASSUME NEW x \in Identities, sock'[x] # NoSocket
               PROVE  /\ \A e \in Identities : sock'[e] = sock'[x] => e = x
                      /\ \A e \in Identities : peers[e].ws = sock'[x] => e = x
                      /\ \A i \in 1 .. Len(up'[sock'[x]]) : up'[sock'[x]][i].from = x
                      /\ \A i \in 1 .. Len(down[sock'[x]]) :
                           Directs(down[sock'[x]][i]) => down[sock'[x]][i].to = x
    BY <1>2 DEF Owner
  <2>1. CASE x = d
    <3>1. 1 .. Len(down[s]) = {}
      BY <1>5
    <3> QED
      BY <1>3, <1>4, <1>5, <2>1, <3>1
  <2>2. CASE x # d
    <3>1. sock'[x] = sock[x] /\ sock[x] # s /\ sock[x] # NoSocket /\ sock[x] \in Sockets
      BY <1>3, <1>5, <2>2, SockFacts
    <3>2. up'[sock[x]] = up[sock[x]]
      BY <1>3, <3>1
    <3> QED
      BY <1>2, <1>3, <2>2, <3>1, <3>2 DEF Wiring, Owner
  <2> QED
    BY <2>1, <2>2
<1>8. AtHome'
  <2> SUFFICES ASSUME NEW x \in Identities \ ended
               PROVE  /\ peers[x].ws \in {NoSocket, sock'[x]}
                      /\ \A t \in Sockets : \A i \in 1 .. Len(up'[t]) :
                           up'[t][i].from = x => t = sock'[x]
                      /\ sock'[x] \in spoke /\ conn'[sock'[x]] # "gone" => peers[x].ws = sock'[x]
                      /\ sock'[x] = NoSocket => \A e \in Identities : ~sessions[x][e].known
    BY <1>2 DEF AtHome
  <2>1. /\ peers[x].ws \in {NoSocket, sock[x]}
        /\ \A t \in Sockets : \A i \in 1 .. Len(up[t]) : up[t][i].from = x => t = sock[x]
        /\ sock[x] \in spoke /\ conn[sock[x]] # "gone" => peers[x].ws = sock[x]
        /\ sock[x] = NoSocket => \A e \in Identities : ~sessions[x][e].known
    BY DEF Wiring, AtHome
  <2>2. CASE x = d
    BY <1>1, <1>2, <1>3, <1>4, <1>5, <2>1, <2>2
  <2>3. CASE x # d
    <3>1. sock'[x] = sock[x] /\ sock[x] # s
      BY <1>3, <1>5, <2>3
    <3>2. sock[x] \in spoke => conn'[sock[x]] = conn[sock[x]]
      BY <1>3, <3>1, RelayTypeParts DEF TypeOK
    <3>3. \A t \in Sockets : \A i \in 1 .. Len(up'[t]) : up'[t][i].from = x => t = sock[x]
      BY <1>3, <1>4, <2>1, <2>3
    <3> QED
      BY <2>1, <3>1, <3>2, <3>3
  <2> QED
    BY <2>2, <2>3
<1>9. JoinFirst'
  BY <1>1, <1>2, <1>3, <1>4, <1>5 DEF Wiring, JoinFirst
<1> QED
  BY <1>6, <1>7, <1>8, <1>9 DEF Wiring

\* What is left of the queues when a WebSocket breaks.
LEMMA DropQueues ==
  ASSUME RelayTypeOK, NEW s \in Sockets, Drop(s)
  PROVE  /\ \A t \in Sockets : \A i \in 1 .. Len(up'[t]) :
              i \in 1 .. Len(up[t]) /\ up'[t][i] = up[t][i]
         /\ \A t \in Sockets : \A i \in 1 .. Len(down'[t]) :
              i \in 1 .. Len(down[t]) /\ down'[t][i] = down[t][i]
         /\ \A t \in Sockets : t # s => up'[t] = up[t] /\ down'[t] = down[t]
<1>1. PICK n \in 0 .. Len(up[s]) : up' = [up EXCEPT ![s] = SubSeq(@, 1, n)]
  BY DEF Drop
<1>2. PICK k \in 0 .. Len(down[s]) : down' = [down EXCEPT ![s] = SubSeq(@, 1, k)]
  BY DEF Drop
<1>3. /\ up \in [Sockets -> Seq(Directed)] /\ down \in [Sockets -> Seq(Wire)]
      /\ up[s] \in Seq(Directed) /\ down[s] \in Seq(Wire)
  BY RelayTypeParts DEF NetTypeOK
<1>4. /\ Len(SubSeq(up[s], 1, n)) = n /\ Len(SubSeq(down[s], 1, k)) = k
      /\ \A i \in 1 .. n : i \in 1 .. Len(up[s]) /\ SubSeq(up[s], 1, n)[i] = up[s][i]
      /\ \A i \in 1 .. k : i \in 1 .. Len(down[s]) /\ SubSeq(down[s], 1, k)[i] = down[s][i]
  BY <1>3, PrefixFacts
<1> QED
  BY <1>1, <1>2, <1>3, <1>4
LEMMA DropWiring ==
  ASSUME RelayTypeOK, Wiring, NEW s \in Sockets, Drop(s)
  PROVE  Wiring'
<1>1. /\ \A t \in Sockets : \A i \in 1 .. Len(up'[t]) :
           i \in 1 .. Len(up[t]) /\ up'[t][i] = up[t][i]
      /\ \A t \in Sockets : \A i \in 1 .. Len(down'[t]) :
           i \in 1 .. Len(down[t]) /\ down'[t][i] = down[t][i]
      /\ \A t \in Sockets : t # s => up'[t] = up[t] /\ down'[t] = down[t]
  BY DropQueues
<1>2. /\ link[s] = "up" /\ link'[s] = "down" /\ \A t \in Sockets : t # s => link'[t] = link[t]
      /\ UNCHANGED <<conn, spoke, peers, sock, sessions, ended>>
  BY RelayTypeParts DEF Drop, NetTypeOK, vars
<1>3. \A x \in Identities : sock[x] # NoSocket => sock[x] \in Sockets
  BY SockFacts
<1>4. Unborn'
  BY <1>1, <1>2 DEF Wiring, Unborn
<1>5. Owner'
  <2> SUFFICES ASSUME NEW x \in Identities, sock[x] # NoSocket
               PROVE  /\ \A i \in 1 .. Len(up'[sock[x]]) : up'[sock[x]][i].from = x
                      /\ \A i \in 1 .. Len(down'[sock[x]]) :
                           Directs(down'[sock[x]][i]) => down'[sock[x]][i].to = x
    BY <1>2 DEF Wiring, Owner
  <2>1. /\ \A i \in 1 .. Len(up[sock[x]]) : up[sock[x]][i].from = x
        /\ \A i \in 1 .. Len(down[sock[x]]) :
             Directs(down[sock[x]][i]) => down[sock[x]][i].to = x
    BY DEF Wiring, Owner
  <2> QED
    BY <1>1, <1>3, <2>1, SMTT(20)
<1>6. AtHome'
  BY <1>1, <1>2 DEF Wiring, AtHome
<1>7. JoinFirst'
  BY <1>1, <1>2 DEF Wiring, JoinFirst
<1> QED
  BY <1>4, <1>5, <1>6, <1>7 DEF Wiring

LEMMA CloseWiring ==
  ASSUME RelayTypeOK, Silent, Wiring, NEW s \in Sockets, RoomCloses(s)
  PROVE  Wiring'
<1>1. PICK reached \in SUBSET OpenSockets, thrown \in BOOLEAN : Close(s, reached, thrown)
  BY DEF RoomCloses
<1>2. /\ conn' = [conn EXCEPT ![s] = "gone"] /\ spoke' = spoke
      /\ peers' = PeersAfterClose(s) /\ Live(s) /\ link[s] = "down"
      /\ UNCHANGED <<sock, sessions, link, up, down, ended>>
  BY <1>1 DEF Close, RoomCloses, netVars
<1>3. /\ conn'[s] = "gone" /\ conn[s] # "unborn"
      /\ \A t \in Sockets : t # s => conn'[t] = conn[t]
      /\ \A x \in Identities : peers'[x].ws \in {NoSocket, peers[x].ws}
      /\ \A x \in Identities : peers[x].ws # s => peers'[x] = peers[x]
  BY <1>2, RelayTypeParts DEF TypeOK, PeersAfterClose, NoPeer, Live
<1>4. Unborn'
  BY <1>2, <1>3 DEF Wiring, Unborn
<1>5. Owner'
  BY <1>2, <1>3 DEF Wiring, Owner
<1>6. AtHome'
  <2> SUFFICES ASSUME NEW x \in Identities \ ended
               PROVE  /\ peers'[x].ws \in {NoSocket, sock[x]}
                      /\ sock[x] \in spoke /\ conn'[sock[x]] # "gone" => peers'[x].ws = sock[x]
    BY <1>2 DEF Wiring, AtHome
  <2>1. /\ peers[x].ws \in {NoSocket, sock[x]}
        /\ sock[x] \in spoke /\ conn[sock[x]] # "gone" => peers[x].ws = sock[x]
    BY DEF Wiring, AtHome
  <2>2. spoke \subseteq Sockets
    BY RelayTypeParts DEF TypeOK
  <2> QED
    BY <1>3, <2>1, <2>2
<1>7. JoinFirst'
  BY <1>2, <1>3 DEF Wiring, JoinFirst
<1> QED
  BY <1>4, <1>5, <1>6, <1>7 DEF Wiring


\* Message by message, what the room's reading from s does to the queues.
LEMMA ReadQueues ==
  ASSUME RelayTypeOK, NEW s \in Sockets, RoomReceives(s), NEW t \in Sockets
  PROVE  /\ t # s => up'[t] = up[t]
         /\ \A i \in 1 .. Len(up'[s]) : i + 1 \in 1 .. Len(up[s]) /\ up'[s][i] = up[s][i + 1]
         /\ \A i \in 1 .. Len(up'[t]) : \E j \in 1 .. Len(up[t]) : up'[t][i] = up[t][j]
<1>1. /\ up[s] \in Seq(Directed) /\ up[s] # <<>>
      /\ up'[s] = Tail(up[s])
      /\ t # s => up'[t] = up[t]
  BY HeadFacts DEF RoomReceives
<1>2. \A i \in 1 .. Len(up'[s]) : i + 1 \in 1 .. Len(up[s]) /\ up'[s][i] = up[s][i + 1]
  BY <1>1, TailFacts
<1>3. CASE t = s
  BY <1>1, <1>2, <1>3
<1>4. CASE t # s
  BY <1>1, <1>2, <1>4
<1> QED
  BY <1>3, <1>4

\* t is sent news of nobody but id and the peers that are in the room.
AddsNews(t, id) ==
  \E ms \in Seq(Wire) :
    /\ down'[t] = down[t] \o ms
    /\ link[t] # "up" => down'[t] = down[t]
    /\ \A i \in 1 .. Len(ms) :
         /\ ~Directs(ms[i])
         /\ \A x \in ms[i].peers : x = id \/ (x \in Identities /\ peers[x].ws # NoSocket)

LEMMA JoinFacts ==
  ASSUME RelayTypeOK, Silent, Wiring, NEW s \in Sockets, RoomReceives(s),
         NEW m, m = Head(up[s]), RoomJoin(s, m)
  PROVE  /\ s \notin spoke /\ conn[s] = "open" /\ spoke' = spoke \cup {s}
         /\ m.from \in Identities
         /\ m.from \notin ended => sock[m.from] = s
         /\ \A x \in Identities : sock[x] = s => x = m.from
         /\ \A x \in Identities : x # m.from => peers'[x] = peers[x]
         /\ peers'[m.from].ws \in {peers[m.from].ws, s}
         /\ m.from \notin ended => peers'[m.from].ws = s
         /\ \A t \in Sockets : conn'[t] # conn[t] => conn[t] = "open" /\ conn'[t] = "closed"
         /\ down' \in [Sockets -> Seq(Wire)]
         /\ \A t \in Sockets : AddsNews(t, m.from)
<1>1. /\ m \in Directed /\ m.from \in Identities /\ m = up[s][1] /\ 1 \in 1 .. Len(up[s])
      /\ m.type = "join" /\ Live(s)
  BY HeadFacts DEF RoomJoin, RoomReceives
<1>2. s \notin spoke /\ conn[s] = "open"
  <2>1. s \notin spoke
    BY <1>1 DEF Wiring, JoinFirst
  <2> QED
    BY <1>1, <2>1 DEF Silent, Live
<1>3. /\ m.from \notin ended => sock[m.from] = s
      /\ \A x \in Identities : sock[x] = s => x = m.from
  <2>1. m.from \notin ended => sock[m.from] = s
    BY <1>1 DEF Wiring, AtHome
  <2>2. s # NoSocket
    BY RoomAssumption
  <2>3. ASSUME NEW x \in Identities, sock[x] = s PROVE x = m.from
    BY <1>1, <2>2, <2>3 DEF Wiring, Owner
  <2> QED
    BY <2>1, <2>3
<1>4. m.from \notin ended => peers[m.from].ws \in {NoSocket, s}
  BY <1>1, <1>3 DEF Wiring, AtHome
<1>5. CASE RejectJoin(s, m.from) /\ UNCHANGED down
  <2>1. UNCHANGED peers /\ conn' = [conn EXCEPT ![s] = "closed"] /\ spoke' = spoke \cup {s}
    BY <1>5 DEF RejectJoin
  <2>2. m.from \in ended
    BY <1>4, <1>5 DEF RejectJoin, Contested
  <2>3. \A t \in Sockets : conn'[t] # conn[t] => conn[t] = "open" /\ conn'[t] = "closed"
    BY <1>2, <2>1, RelayTypeParts DEF TypeOK
  <2>4. down \in [Sockets -> Seq(Wire)] /\ down' = down
    BY <1>5, RelayTypeParts DEF NetTypeOK
  <2>5. ASSUME NEW t \in Sockets
        PROVE  AddsNews(t, m.from)
    <3> DEFINE ms == <<>>
    <3>1. down[t] \o ms = down[t] /\ ms \in Seq(Wire) /\ 1 .. Len(ms) = {}
      BY <2>4
    <3> HIDE DEF ms
    <3> QED
      BY <2>4, <3>1 DEF AddsNews
  <2> QED
    BY <1>1, <1>2, <1>3, <2>1, <2>2, <2>3, <2>4, <2>5
<1>6. ASSUME NEW reached \in SUBSET OpenSockets, AcceptJoin(s, m.from, reached),
             down' = Posted(Posted(down, {s}, [type |-> "joined", peers |-> roster'[s]]),
                            reached, [type |-> "peer_joined", peers |-> {m.from}])
      PROVE  /\ spoke' = spoke \cup {s}
             /\ \A x \in Identities : x # m.from => peers'[x] = peers[x]
             /\ peers'[m.from].ws = s
             /\ \A t \in Sockets : conn'[t] # conn[t] => conn[t] = "open" /\ conn'[t] = "closed"
             /\ down' \in [Sockets -> Seq(Wire)]
             /\ \A t \in Sockets : AddsNews(t, m.from)
  <2> DEFINE joined == [peers EXCEPT ![m.from] = [ws |-> s, joinedAt |-> now]]
  <2>1. /\ peers' = joined /\ spoke' = spoke \cup {s}
        /\ conn' = ReplacedConn(s, m.from)
        /\ roster' = Announced(s, m.from, joined, reached)
    BY <1>6 DEF AcceptJoin
  <2>2. /\ \A x \in Identities : x # m.from => joined[x] = peers[x]
        /\ joined[m.from].ws = s
    BY <1>1, RelayTypeParts DEF TypeOK
  <2>3. \A t \in Sockets : conn'[t] # conn[t] => conn[t] = "open" /\ conn'[t] = "closed"
    BY <2>1, RelayTypeParts DEF ReplacedConn, TypeOK
  <2>4. roster'[s] = Present(joined) \ {m.from}
    BY <1>2, <2>1 DEF Announced
  <2> HIDE DEF joined
  <2>5. roster'[s] \in SUBSET Identities /\ \A x \in roster'[s] : peers[x].ws # NoSocket
    BY <2>2, <2>4 DEF Present
  <2>6. down' \in [Sockets -> Seq(Wire)] /\ \A t \in Sockets : PostsNews(t, roster'[s], m.from)
    BY <1>1, <1>6, <2>5, NewsPosted
  <2>7. ASSUME NEW t \in Sockets
        PROVE  AddsNews(t, m.from)
    <3>1. PICK ms \in Seq(Wire) :
              /\ down'[t] = down[t] \o ms
              /\ link[t] # "up" => down'[t] = down[t]
              /\ \A i \in 1 .. Len(ms) : ~Directs(ms[i]) /\ ms[i].peers \in {roster'[s], {m.from}}
      BY <2>6 DEF PostsNews
    <3>2. \A i \in 1 .. Len(ms) : \A x \in ms[i].peers : x = m.from \/ x \in roster'[s]
      BY <3>1
    <3> QED
      BY <2>5, <3>1, <3>2 DEF AddsNews
  <2> QED
    BY <2>1, <2>2, <2>3, <2>6, <2>7
<1>7. CASE \E reached \in SUBSET OpenSockets :
             /\ AcceptJoin(s, m.from, reached)
             /\ down' = Posted(Posted(down, {s}, [type |-> "joined", peers |-> roster'[s]]),
                               reached, [type |-> "peer_joined", peers |-> {m.from}])
  BY <1>1, <1>2, <1>3, <1>6, <1>7
<1> QED
  BY <1>5, <1>7 DEF RoomJoin


LEMMA RoomJoinWiring ==
  ASSUME RelayTypeOK, Silent, Wiring, NEW s \in Sockets, RoomReceives(s),
         RoomJoin(s, Head(up[s]))
  PROVE  Wiring'
<1> DEFINE m == Head(up[s])
<1>1. /\ s \notin spoke /\ conn[s] = "open" /\ spoke' = spoke \cup {s}
      /\ m.from \in Identities
      /\ m.from \notin ended => sock[m.from] = s
      /\ \A x \in Identities : sock[x] = s => x = m.from
      /\ \A x \in Identities : x # m.from => peers'[x] = peers[x]
      /\ peers'[m.from].ws \in {peers[m.from].ws, s}
      /\ m.from \notin ended => peers'[m.from].ws = s
      /\ \A t \in Sockets : conn'[t] # conn[t] => conn[t] = "open" /\ conn'[t] = "closed"
      /\ \A t \in Sockets : AddsNews(t, m.from)
  BY JoinFacts
<1> HIDE DEF m
<1>2. UNCHANGED <<sock, sessions, link, ended>>
  BY HeadFacts
<1>3. /\ \A t \in Sockets : t # s => up'[t] = up[t]
      /\ \A i \in 1 .. Len(up'[s]) : i + 1 \in 1 .. Len(up[s]) /\ up'[s][i] = up[s][i + 1]
      /\ \A t \in Sockets : \A i \in 1 .. Len(up'[t]) :
           \E j \in 1 .. Len(up[t]) : up'[t][i] = up[t][j]
  BY ReadQueues
<1>4. \A t \in Sockets : link[t] # "up" => down'[t] = down[t]
  BY <1>1 DEF AddsNews
<1>5. ASSUME NEW t \in Sockets, NEW i \in 1 .. Len(down'[t]), Directs(down'[t][i])
      PROVE  i \in 1 .. Len(down[t]) /\ down'[t][i] = down[t][i]
  <2>1. PICK ms \in Seq(Wire) :
          down'[t] = down[t] \o ms /\ \A j \in 1 .. Len(ms) : ~Directs(ms[j])
    BY <1>1 DEF AddsNews
  <2>2. down[t] \in Seq(Wire)
    BY RelayTypeParts DEF NetTypeOK
  <2>3. /\ Len(down[t]) \in Nat /\ Len(ms) \in Nat
        /\ \A j \in 1 .. Len(down[t]) : down'[t][j] = down[t][j]
        /\ i > Len(down[t]) => i - Len(down[t]) \in 1 .. Len(ms)
                                 /\ down'[t][i] = ms[i - Len(down[t])]
    BY <2>1, <2>2, CatFacts
  <2>4. ~(i > Len(down[t]))
    BY <1>5, <2>1, <2>3
  <2> QED
    BY <2>3, <2>4
<1>6. Unborn'
  BY <1>1, <1>2, <1>3, <1>4 DEF Wiring, Unborn
<1>7. Owner'
  <2> SUFFICES ASSUME NEW x \in Identities, sock[x] # NoSocket
               PROVE  /\ \A e \in Identities : peers'[e].ws = sock[x] => e = x
                      /\ \A i \in 1 .. Len(up'[sock[x]]) : up'[sock[x]][i].from = x
                      /\ \A i \in 1 .. Len(down'[sock[x]]) :
                           Directs(down'[sock[x]][i]) => down'[sock[x]][i].to = x
    BY <1>2 DEF Wiring, Owner
  <2>1. /\ \A e \in Identities : peers[e].ws = sock[x] => e = x
        /\ \A i \in 1 .. Len(up[sock[x]]) : up[sock[x]][i].from = x
        /\ \A i \in 1 .. Len(down[sock[x]]) :
             Directs(down[sock[x]][i]) => down[sock[x]][i].to = x
        /\ sock[x] \in Sockets
    BY SockFacts DEF Wiring, Owner
  <2>2. ASSUME NEW e \in Identities, peers'[e].ws = sock[x] PROVE e = x
    <3>1. CASE e # m.from
      BY <1>1, <2>1, <2>2, <3>1
    <3>2. CASE e = m.from /\ peers'[e].ws = s
      BY <1>1, <2>2, <3>2
    <3>3. CASE e = m.from /\ peers'[e].ws = peers[e].ws
      BY <2>1, <2>2, <3>3
    <3> QED
      BY <1>1, <3>1, <3>2, <3>3
  <2>3. ASSUME NEW i \in 1 .. Len(up'[sock[x]]) PROVE up'[sock[x]][i].from = x
    <3>1. PICK j \in 1 .. Len(up[sock[x]]) : up'[sock[x]][i] = up[sock[x]][j]
      BY <1>3, <2>1
    <3> QED
      BY <2>1, <3>1
  <2>4. ASSUME NEW i \in 1 .. Len(down'[sock[x]]), Directs(down'[sock[x]][i])
        PROVE  down'[sock[x]][i].to = x
    <3>1. i \in 1 .. Len(down[sock[x]]) /\ down'[sock[x]][i] = down[sock[x]][i]
      BY <1>5, <2>1, <2>4
    <3> QED
      BY <2>1, <2>4, <3>1
  <2> QED
    BY <2>2, <2>3, <2>4
<1>8. AtHome'
  <2> SUFFICES ASSUME NEW x \in Identities \ ended
               PROVE  /\ peers'[x].ws \in {NoSocket, sock[x]}
                      /\ \A t \in Sockets : \A i \in 1 .. Len(up'[t]) :
                           up'[t][i].from = x => t = sock[x]
                      /\ sock[x] \in spoke' /\ conn'[sock[x]] # "gone" => peers'[x].ws = sock[x]
    BY <1>2 DEF Wiring, AtHome
  <2>1. /\ peers[x].ws \in {NoSocket, sock[x]}
        /\ \A t \in Sockets : \A i \in 1 .. Len(up[t]) : up[t][i].from = x => t = sock[x]
        /\ sock[x] \in spoke /\ conn[sock[x]] # "gone" => peers[x].ws = sock[x]
        /\ spoke \subseteq Sockets
    BY RelayTypeParts DEF Wiring, AtHome, TypeOK
  <2>2. CASE x = m.from
    BY <1>1, <1>3, <2>1, <2>2
  <2>3. CASE x # m.from
    <3>1. sock[x] # s /\ peers'[x] = peers[x]
      BY <1>1, <2>3
    <3>2. sock[x] \in spoke' => sock[x] \in spoke /\ (conn[sock[x]] = "gone" => conn'[sock[x]] = "gone")
      BY <1>1, <2>1, <3>1
    <3> QED
      BY <1>3, <2>1, <3>1, <3>2, SMTT(20)
  <2> QED
    BY <2>2, <2>3
<1>9. JoinFirst'
  <2> SUFFICES ASSUME NEW t \in Sockets
               PROVE  /\ \A i \in 1 .. Len(up'[t]) :
                           up'[t][i].type = "join" <=> i = 1 /\ t \notin spoke'
                      /\ link[t] = "up" /\ t \notin spoke' => up'[t] # <<>>
                      /\ conn'[t] = "gone" => link[t] = "down"
    BY <1>2 DEF JoinFirst
  <2>1. /\ \A i \in 1 .. Len(up[t]) : up[t][i].type = "join" <=> i = 1 /\ t \notin spoke
        /\ link[t] = "up" /\ t \notin spoke => up[t] # <<>>
        /\ conn[t] = "gone" => link[t] = "down"
    BY DEF Wiring, JoinFirst
  <2>2. conn'[t] = "gone" => link[t] = "down"
    BY <1>1, <2>1
  <2>3. CASE t = s
    <3>1. \A i \in 1 .. Len(up'[s]) : i + 1 # 1
      OBVIOUS
    <3> QED
      BY <1>1, <1>3, <2>1, <2>2, <2>3, <3>1, SMTT(20)
  <2>4. CASE t # s
    BY <1>1, <1>3, <2>1, <2>2, <2>4
  <2> QED
    BY <2>3, <2>4
<1> QED
  BY <1>6, <1>7, <1>8, <1>9 DEF Wiring

LEMMA ForwardWiring ==
  ASSUME RelayTypeOK, Wiring, NEW s \in Sockets, RoomReceives(s),
         RoomForward(s, Head(up[s])) \/ RoomRelay(s, Head(up[s]))
  PROVE  Wiring'
<1> DEFINE m == Head(up[s])
<1>1. /\ m.type # "join"
      /\ UNCHANGED <<peers, sockets, conn, spoke>>
      /\ <<m>> \in Seq(Wire) /\ Len(<<m>>) = 1 /\ <<m>>[1] = m
      /\ \A t \in Sockets :
              \/ down'[t] = down[t]
              \/ /\ sockets[s] = m.from
                 /\ t = peers[m.to].ws /\ link[t] = "up"
                 /\ down'[t] = down[t] \o <<m>>
  BY ForwardFacts
<1>2. UNCHANGED <<sock, sessions, link, ended>> /\ m.to \in Identities
      /\ m = up[s][1] /\ 1 \in 1 .. Len(up[s])
  BY HeadFacts
<1> HIDE DEF m
<1>3. /\ \A t \in Sockets : t # s => up'[t] = up[t]
      /\ \A i \in 1 .. Len(up'[s]) : i + 1 \in 1 .. Len(up[s]) /\ up'[s][i] = up[s][i + 1]
      /\ \A t \in Sockets : \A i \in 1 .. Len(up'[t]) :
           \E j \in 1 .. Len(up[t]) : up'[t][i] = up[t][j]
  BY ReadQueues
<1>4. \A t \in Sockets : link[t] # "up" => down'[t] = down[t]
  BY <1>1
<1>5. ASSUME NEW t \in Sockets, NEW i \in 1 .. Len(down'[t])
      PROVE  \/ i \in 1 .. Len(down[t]) /\ down'[t][i] = down[t][i]
             \/ t = peers[m.to].ws /\ down'[t][i] = m
  <2>1. down[t] \in Seq(Wire)
    BY RelayTypeParts DEF NetTypeOK
  <2>2. CASE down'[t] = down[t] \o <<m>> /\ t = peers[m.to].ws
    <3>1. \/ i \in 1 .. Len(down[t]) /\ (down[t] \o <<m>>)[i] = down[t][i]
          \/ (down[t] \o <<m>>)[i] = m
      <4>1. <<m>> \in Seq(Wire)
        BY <1>1
      <4>2. i \in 1 .. Len(down[t] \o <<m>>)
        BY <2>2, Zenon
      <4> QED
        BY <2>1, <4>1, <4>2, PostedOne, Zenon
    <3> QED
      BY <2>2, <3>1, Zenon
  <2> QED
    BY <1>1, <2>2
<1>6. Unborn'
  BY <1>1, <1>2, <1>3, <1>4 DEF Wiring, Unborn
<1>7. Owner'
  <2> SUFFICES ASSUME NEW x \in Identities, sock[x] # NoSocket
               PROVE  /\ \A i \in 1 .. Len(up'[sock[x]]) : up'[sock[x]][i].from = x
                      /\ \A i \in 1 .. Len(down'[sock[x]]) :
                           Directs(down'[sock[x]][i]) => down'[sock[x]][i].to = x
    BY <1>1, <1>2 DEF Wiring, Owner
  <2>1. /\ \A e \in Identities : peers[e].ws = sock[x] => e = x
        /\ \A i \in 1 .. Len(up[sock[x]]) : up[sock[x]][i].from = x
        /\ \A i \in 1 .. Len(down[sock[x]]) :
             Directs(down[sock[x]][i]) => down[sock[x]][i].to = x
        /\ sock[x] \in Sockets
    BY SockFacts DEF Wiring, Owner
  <2>2. ASSUME NEW i \in 1 .. Len(down'[sock[x]]), Directs(down'[sock[x]][i])
        PROVE  down'[sock[x]][i].to = x
    <3>1. CASE i \in 1 .. Len(down[sock[x]]) /\ down'[sock[x]][i] = down[sock[x]][i]
      BY <2>1, <2>2, <3>1
    <3>2. CASE sock[x] = peers[m.to].ws /\ down'[sock[x]][i] = m
      BY <1>2, <2>1, <3>2
    <3> QED
      BY <1>5, <2>1, <3>1, <3>2
  <2> QED
    BY <1>3, <2>1, <2>2, SMTT(20)
<1>8. AtHome'
  <2> SUFFICES ASSUME NEW x \in Identities \ ended, NEW t \in Sockets,
                      NEW i \in 1 .. Len(up'[t]), up'[t][i].from = x
               PROVE  t = sock[x]
    BY <1>1, <1>2 DEF Wiring, AtHome
  <2>1. PICK j \in 1 .. Len(up[t]) : up'[t][i] = up[t][j]
    BY <1>3
  <2> QED
    BY <2>1 DEF Wiring, AtHome
<1>9. JoinFirst'
  <2> SUFFICES ASSUME NEW t \in Sockets
               PROVE  /\ \A i \in 1 .. Len(up'[t]) :
                           up'[t][i].type = "join" <=> i = 1 /\ t \notin spoke
                      /\ link[t] = "up" /\ t \notin spoke => up'[t] # <<>>
    BY <1>1, <1>2 DEF Wiring, JoinFirst
  <2>1. /\ \A i \in 1 .. Len(up[t]) : up[t][i].type = "join" <=> i = 1 /\ t \notin spoke
        /\ link[t] = "up" /\ t \notin spoke => up[t] # <<>>
    BY DEF Wiring, JoinFirst
  <2>2. CASE t = s
    <3>1. \A i \in 1 .. Len(up'[s]) : i + 1 # 1
      OBVIOUS
    <3>2. s \in spoke
      BY <1>1, <1>2, <2>1, <2>2
    <3>3. \A i \in 1 .. Len(up'[s]) : up'[s][i].type # "join"
      <4> SUFFICES ASSUME NEW i \in 1 .. Len(up'[s]) PROVE up'[s][i].type # "join"
        OBVIOUS
      <4>1. i + 1 \in 1 .. Len(up[s]) /\ up'[s][i] = up[s][i + 1]
        BY <1>3
      <4>2. up[s][i + 1].type = "join" => i + 1 = 1
        BY <2>1, <2>2, <4>1
      <4> QED
        BY <3>1, <4>1, <4>2
    <3> QED
      BY <2>2, <3>2, <3>3
  <2>3. CASE t # s
    BY <1>3, <2>1, <2>3
  <2> QED
    BY <2>2, <2>3
<1> QED
  BY <1>6, <1>7, <1>8, <1>9 DEF Wiring


LEMMA NewsKeeps ==
  ASSUME NEW d \in Identities, UNCHANGED sessions
  PROVE  OthersKeep(d)
BY DEF OthersKeep

LEMMA LearnsKeeps ==
  ASSUME NEW d \in Identities, NEW e \in Identities, Learns(d, e)
  PROVE  OthersKeep(d)
BY DEF OthersKeep, Learns

LEMMA CountsKeep ==
  ASSUME NEW d \in Identities, Counts
  PROVE  OthersKeep(d)
BY DEF OthersKeep, Counts

LEMMA NextWiring ==
  ASSUME RelayTypeOK, Silent, Wiring, [RelayNext]_relayVars
  PROVE  Wiring'
<1>1. ASSUME NEW d \in Identities, DaemonReceives(d) PROVE Wiring'
  <2> DEFINE m == Head(down[sock[d]])
  <2>1. CASE HandleNews(d, m)
    <3>1. Talk(d, Offers(d, m.peers)) /\ UNCHANGED sessions
      BY <1>1, <2>1, NewsTalk
    <3> QED
      BY <3>1, NewsKeeps, TalkWiring
  <2>2. CASE HandleOffer(d, m)
    <3>1. Talk(d, <<Msg("answer", d, m.from, 0)>>) /\ m.from \in Identities /\ Learns(d, m.from)
      BY <1>1, <2>2, OfferTalk
    <3> QED
      BY <3>1, LearnsKeeps, TalkWiring
  <2>3. CASE HandleAnswer(d, m)
    <3>1. Talk(d, <<>>) /\ m.from \in Identities /\ Learns(d, m.from)
      BY <1>1, <2>3, AnswerTalk
    <3> QED
      BY <3>1, LearnsKeeps, TalkWiring
  <2>4. CASE HandleRelay(d, m)
    <3>1. (\E ms : Talk(d, ms)) /\ Counts
      BY <1>1, <2>4, RelayTalk
    <3> QED
      BY <3>1, CountsKeep, TalkWiring
  <2>5. CASE RefuseRelay(d, m)
    BY <1>1, <2>5, EndWiring DEF RefuseRelay, DaemonReceives
  <2> QED
    BY <1>1, <2>1, <2>2, <2>3, <2>4, <2>5 DEF DaemonReceives
<1>2. ASSUME NEW d \in Identities, DaemonSeesEnd(d) PROVE Wiring'
  BY <1>2, EndWiring DEF DaemonSeesEnd
<1>3. ASSUME NEW d \in Callers, NEW e \in Identities, SendRequest(d, e) PROVE Wiring'
  <2>1. d \in Identities
    BY RelayAssumption
  <2>2. (\E ms : Talk(d, ms)) /\ Counts
    BY <1>3, <2>1, RequestTalk
  <2> QED
    BY <2>1, <2>2, CountsKeep, TalkWiring
<1>4. ASSUME NEW s \in Sockets, RoomReceives(s) PROVE Wiring'
  BY <1>4, RoomJoinWiring, ForwardWiring DEF RoomReceives
<1>5. CASE UNCHANGED <<peers, conn, spoke, netVars>>
  BY <1>5 DEF netVars, Wiring, Unborn, Owner, AtHome, JoinFirst, Directs
<1> QED
  BY <1>1, <1>2, <1>3, <1>4, <1>5, JoinWiring, CloseWiring, DropWiring
     DEF RelayNext, DaemonStep, Pass, Tick, relayVars, vars


-----------------------------------------------------------------------------
(* Who is named in a message or a session.                                 *)

JoinedNext(d) == d \in ended' \/ sock'[d] \in spoke'

SentWellNext(m) ==
  m.type # "join" =>
    JoinedNext(m.to) /\ (m.type = "answer" => sessions'[m.from][m.to].known)

ArrivesWellNext(m) ==
  IF Directs(m) THEN JoinedNext(m.from) /\ (m.type = "answer" => sessions'[m.from][m.to].known)
                ELSE \A e \in m.peers : JoinedNext(e)

\* Nobody leaves the room for good, no session is forgotten.
Grows ==
  /\ \A x \in Identities : Joined(x) => JoinedNext(x)
  /\ \A x, y \in Identities : sessions[x][y].known => sessions'[x][y].known

LEMMA JoinedStays ==
  ASSUME RelayTypeOK, ended \subseteq ended', spoke \subseteq spoke',
         \A x \in Identities : sock'[x] = sock[x] \/ x \in ended' \/ sock[x] = NoSocket
  PROVE  \A x \in Identities : Joined(x) => JoinedNext(x)
<1>1. NoSocket \notin spoke
  BY RelayTypeParts, RoomAssumption DEF TypeOK
<1> QED
  BY <1>1 DEF Joined, JoinedNext

LEMMA WellStays ==
  ASSUME Grows, NEW m \in Wire
  PROVE  /\ SentWell(m) /\ Directs(m) => SentWellNext(m)
         /\ ArrivesWell(m) => ArrivesWellNext(m)
<1>1. Directs(m) => m.from \in Identities /\ m.to \in Identities
  BY WireFacts
<1>2. ~Directs(m) => m.peers \in SUBSET Identities
  BY WireFacts
<1> QED
  BY <1>1, <1>2 DEF SentWell, SentWellNext, ArrivesWell, ArrivesWellNext, Grows

\* What has to be shown of a step.
LEMMA NamedAfter ==
  ASSUME RelayTypeOK, Named, Grows,
         \A s \in Sockets : \A i \in 1 .. Len(up'[s]) :
           (\E j \in 1 .. Len(up[s]) : up'[s][i] = up[s][j]) \/ SentWellNext(up'[s][i]),
         \A s \in Sockets : \A i \in 1 .. Len(down'[s]) :
           (\E j \in 1 .. Len(down[s]) : down'[s][i] = down[s][j]) \/ ArrivesWellNext(down'[s][i]),
         \A x, y \in Identities : sessions'[x][y].known => sessions[x][y].known \/ Joined(y)
  PROVE  Named'
<1>1. ASSUME NEW s \in Sockets, NEW i \in 1 .. Len(up'[s]) PROVE SentWellNext(up'[s][i])
  <2>1. CASE SentWellNext(up'[s][i])
    BY <2>1
  <2>2. ASSUME NEW j \in 1 .. Len(up[s]), up'[s][i] = up[s][j] PROVE SentWellNext(up'[s][i])
    <3> DEFINE m == up[s][j]
    <3>1. up[s] \in Seq(Directed)
      BY RelayTypeParts DEF NetTypeOK
    <3>2. m \in Wire /\ Directs(m)
      <4>1. m \in Directed
        BY <3>1
      <4> QED
        BY <4>1, DirectedFacts
    <3>3. SentWell(m)
      BY DEF Named
    <3> HIDE DEF m
    <3>4. SentWellNext(m)
      BY <3>2, <3>3, WellStays
    <3> QED
      BY <2>2, <3>4 DEF m
  <2> QED
    BY <2>1, <2>2
<1>2. ASSUME NEW s \in Sockets, NEW i \in 1 .. Len(down'[s]) PROVE ArrivesWellNext(down'[s][i])
  <2>1. CASE ArrivesWellNext(down'[s][i])
    BY <2>1
  <2>2. ASSUME NEW j \in 1 .. Len(down[s]), down'[s][i] = down[s][j]
        PROVE  ArrivesWellNext(down'[s][i])
    <3> DEFINE m == down[s][j]
    <3>1. down[s] \in Seq(Wire)
      BY RelayTypeParts DEF NetTypeOK
    <3>2. m \in Wire
      BY <3>1
    <3>3. ArrivesWell(m)
      BY DEF Named
    <3> HIDE DEF m
    <3>4. ArrivesWellNext(m)
      BY <3>2, <3>3, WellStays
    <3> QED
      BY <2>2, <3>4 DEF m
  <2> QED
    BY <2>1, <2>2
<1>3. \A x, y \in Identities : sessions'[x][y].known => JoinedNext(y)
  BY DEF Named, Grows
<1> QED
  BY <1>1, <1>2, <1>3
     DEF Named, SentWell, SentWellNext, ArrivesWell, ArrivesWellNext, Joined, JoinedNext, Directs

LEMMA TalkNamed ==
  ASSUME RelayTypeOK, Named, NEW d \in Identities, NEW ms, Talk(d, ms),
         \A j \in 1 .. Len(ms) :
           Joined(ms[j].to) /\ (ms[j].type = "answer" => sessions'[d][ms[j].to].known),
         \A x, y \in Identities : sessions[x][y].known => sessions'[x][y].known,
         \A x, y \in Identities : sessions'[x][y].known => sessions[x][y].known \/ Joined(y)
  PROVE  Named'
<1>1. /\ UNCHANGED <<ended, spoke, sock>>
      /\ ms \in Seq(Directed) /\ \A j \in 1 .. Len(ms) : ms[j].from = d
  BY DEF Talk, vars
<1>2. Grows
  BY <1>1, JoinedStays DEF Grows
<1>3. ASSUME NEW j \in 1 .. Len(ms) PROVE SentWellNext(ms[j])
  <2>1. ms[j].to \in Identities
    <3>1. ms[j] \in Directed
      BY <1>1
    <3> QED
      BY <3>1, DirectedFacts
  <2> QED
    BY <1>1, <1>2, <2>1 DEF SentWellNext, Grows
<1>4. ASSUME NEW t \in Sockets, NEW i \in 1 .. Len(up'[t])
      PROVE  (\E j \in 1 .. Len(up[t]) : up'[t][i] = up[t][j]) \/ SentWellNext(up'[t][i])
  <2>1. (i \in 1 .. Len(up[t]) /\ up'[t][i] = up[t][i]) \/ \E j \in 1 .. Len(ms) : up'[t][i] = ms[j]
    BY <1>4, TalkQueues
  <2> QED
    BY <1>3, <2>1
<1>5. \A t \in Sockets : \A i \in 1 .. Len(down'[t]) :
        \E j \in 1 .. Len(down[t]) : down'[t][i] = down[t][j]
  BY TalkQueues
<1> QED
  BY <1>2, <1>4, <1>5, NamedAfter


LEMMA RoomNamed ==
  ASSUME RelayTypeOK, Silent, Wiring, Named, NEW s \in Sockets, RoomReceives(s)
  PROVE  Named'
<1> DEFINE m == Head(up[s])
<1>1. /\ m \in Directed /\ m \in Wire /\ Directs(m)
      /\ m.from \in Identities /\ m.to \in Identities
      /\ m = up[s][1] /\ 1 \in 1 .. Len(up[s])
      /\ UNCHANGED <<sock, sessions, ended>>
  BY HeadFacts
<1>2. \A t \in Sockets : \A i \in 1 .. Len(up'[t]) :
        \E j \in 1 .. Len(up[t]) : up'[t][i] = up[t][j]
  BY ReadQueues
<1>3. m.from \notin ended => sock[m.from] = s
  BY <1>1 DEF Wiring, AtHome
<1>4. CASE RoomJoin(s, m)
  <2>1. spoke' = spoke \cup {s} /\ \A t \in Sockets : AddsNews(t, m.from)
    BY <1>4, JoinFacts
  <2> HIDE DEF m
  <2>2. Grows
    BY <1>1, <2>1, JoinedStays DEF Grows
  <2>3. JoinedNext(m.from)
    BY <1>1, <1>3, <2>1 DEF JoinedNext
  <2>4. ASSUME NEW x \in Identities, peers[x].ws # NoSocket PROVE JoinedNext(x)
    <3>1. peers[x].ws \in Sockets
      BY <2>4, RelayTypeParts DEF TypeOK
    <3>2. peers[x].ws \in spoke
      BY <3>1 DEF Silent
    <3>3. Joined(x)
      BY <2>4, <3>2 DEF Wiring, AtHome, Joined
    <3> QED
      BY <2>2, <3>3 DEF Grows
  <2>5. ASSUME NEW t \in Sockets, NEW i \in 1 .. Len(down'[t])
        PROVE  (\E j \in 1 .. Len(down[t]) : down'[t][i] = down[t][j]) \/ ArrivesWellNext(down'[t][i])
    <3>1. PICK ms \in Seq(Wire) :
            /\ down'[t] = down[t] \o ms
            /\ \A k \in 1 .. Len(ms) :
                 /\ ~Directs(ms[k])
                 /\ \A x \in ms[k].peers : x = m.from \/ (x \in Identities /\ peers[x].ws # NoSocket)
      BY <2>1 DEF AddsNews
    <3>2. down[t] \in Seq(Wire)
      BY RelayTypeParts DEF NetTypeOK
    <3>3. /\ Len(down[t]) \in Nat
          /\ \A j \in 1 .. Len(down[t]) : down'[t][j] = down[t][j]
          /\ i > Len(down[t]) => i - Len(down[t]) \in 1 .. Len(ms)
                                   /\ down'[t][i] = ms[i - Len(down[t])]
      BY <3>1, <3>2, CatFacts
    <3>4. CASE i > Len(down[t])
      <4>1. PICK k \in 1 .. Len(ms) : down'[t][i] = ms[k]
        BY <3>3, <3>4
      <4>2. ArrivesWellNext(ms[k])
        BY <2>3, <2>4, <3>1 DEF ArrivesWellNext
      <4> QED
        BY <4>1, <4>2
    <3>5. CASE ~(i > Len(down[t]))
      BY <3>3, <3>5
    <3> QED
      BY <3>4, <3>5
  <2> QED
    BY <1>1, <1>2, <2>2, <2>5, NamedAfter
<1>5. CASE RoomForward(s, m) \/ RoomRelay(s, m)
  <2>1. /\ m.type # "join" /\ UNCHANGED <<peers, sockets, conn, spoke, roster>>
        /\ <<m>> \in Seq(Wire) /\ Len(<<m>>) = 1 /\ <<m>>[1] = m
        /\ \A t \in Sockets :
              \/ down'[t] = down[t]
              \/ /\ sockets[s] = m.from
                 /\ t = peers[m.to].ws /\ link[t] = "up"
                 /\ down'[t] = down[t] \o <<m>>
    BY <1>5, ForwardFacts, SMTT(20)
  <2> HIDE DEF m
  <2>2. Grows
    BY <1>1, <2>1, JoinedStays DEF Grows
  <2>3. ASSUME sockets[s] = m.from PROVE ArrivesWellNext(m)
    <3>1. s \in spoke
      BY <1>1, <2>3, RoomAssumption DEF Silent
    <3>2. JoinedNext(m.from)
      BY <1>1, <1>3, <2>1, <3>1 DEF JoinedNext
    <3>3. SentWell(m)
      BY <1>1 DEF Named
    <3> QED
      BY <1>1, <2>1, <3>2, <3>3 DEF ArrivesWellNext, SentWell
  <2>4. ASSUME NEW t \in Sockets, NEW i \in 1 .. Len(down'[t])
        PROVE  (\E j \in 1 .. Len(down[t]) : down'[t][i] = down[t][j]) \/ ArrivesWellNext(down'[t][i])
    <3>1. down[t] \in Seq(Wire)
      BY RelayTypeParts DEF NetTypeOK
    <3>2. CASE down'[t] = down[t] \o <<m>> /\ sockets[s] = m.from
      <4>1. /\ Len(down[t]) \in Nat
            /\ \A j \in 1 .. Len(down[t]) : down'[t][j] = down[t][j]
            /\ i > Len(down[t]) => i - Len(down[t]) \in 1 .. 1
                                     /\ down'[t][i] = <<m>>[i - Len(down[t])]
        BY <2>1, <3>1, <3>2, CatFacts
      <4>2. i > Len(down[t]) => down'[t][i] = m
        BY <2>1, <4>1
      <4> QED
        BY <2>3, <3>2, <4>1, <4>2
    <3> QED
      BY <2>1, <3>2
  <2> QED
    BY <1>1, <1>2, <2>2, <2>4, NamedAfter
<1> QED
  BY <1>4, <1>5 DEF RoomReceives


LEMMA EndNamed ==
  ASSUME RelayTypeOK, Named, NEW d \in Identities, sock[d] # NoSocket, EndLink(d),
         UNCHANGED <<vars, up, sessions>>
  PROVE  Named'
<1>1. /\ \A x \in Identities : sock'[x] = sock[x] \/ x \in ended'
      /\ ended \subseteq ended' /\ spoke' = spoke
      /\ down' = [down EXCEPT ![sock[d]] = <<>>]
  BY RelayTypeParts DEF EndLink, NetTypeOK, vars
<1>2. Grows
  BY <1>1, JoinedStays DEF Grows
<1>3. ASSUME NEW t \in Sockets, NEW i \in 1 .. Len(down'[t])
      PROVE  i \in 1 .. Len(down[t]) /\ down'[t][i] = down[t][i]
  <2>1. down'[t] = down[t] \/ down'[t] = <<>>
    BY <1>1, RelayTypeParts DEF NetTypeOK
  <2> QED
    BY <1>3, <2>1
<1> QED
  BY <1>2, <1>3, NamedAfter

LEMMA NextNamed ==
  ASSUME RelayTypeOK, Silent, Wiring, Named, [RelayNext]_relayVars
  PROVE  Named'
<1>1. ASSUME NEW d \in Identities, DaemonReceives(d) PROVE Named'
  <2> DEFINE m == Head(down[sock[d]])
  <2>1. /\ sock[d] # NoSocket /\ sock[d] \in Sockets
        /\ m = down[sock[d]][1] /\ 1 \in 1 .. Len(down[sock[d]]) /\ m \in Wire
    <3>1. sock[d] # NoSocket /\ down[sock[d]] # <<>>
      BY <1>1 DEF DaemonReceives
    <3> QED
      BY <3>1, SockFacts, TailFacts
  <2>2. ArrivesWell(m)
    BY <2>1 DEF Named
  <2>3. CASE HandleNews(d, m)
    <3>1. Talk(d, Offers(d, m.peers)) /\ UNCHANGED sessions /\ ~Directs(m)
      BY <1>1, <2>3, NewsTalk DEF HandleNews, Directs
    <3>2. m.peers \in SUBSET Identities /\ \A e \in m.peers : Joined(e)
      BY <2>1, <2>2, <3>1, WireFacts DEF ArrivesWell
    <3>3. \A j \in 1 .. Len(Offers(d, m.peers)) :
            Joined(Offers(d, m.peers)[j].to) /\ Offers(d, m.peers)[j].type # "answer"
      BY <3>2, OffersFacts
    <3> QED
      BY <3>1, <3>3, TalkNamed
  <2>4. ASSUME Directs(m) PROVE Joined(m.from) /\ m.from \in Identities
    BY <2>1, <2>2, <2>4, WireFacts DEF ArrivesWell
  <2>5. ASSUME NEW e \in Identities, Learns(d, e), Joined(e)
        PROVE  /\ \A x, y \in Identities : sessions[x][y].known => sessions'[x][y].known
               /\ \A x, y \in Identities :
                    sessions'[x][y].known => sessions[x][y].known \/ Joined(y)
    <3> SUFFICES ASSUME NEW x \in Identities, NEW y \in Identities
                 PROVE  /\ sessions[x][y].known => sessions'[x][y].known
                        /\ sessions'[x][y].known => sessions[x][y].known \/ Joined(y)
      OBVIOUS
    <3>1. CASE x = d /\ y = e
      BY <2>5, <3>1 DEF Learns
    <3>2. CASE <<x, y>> # <<d, e>>
      BY <2>5, <3>2 DEF Learns
    <3> QED
      BY <3>1, <3>2
  <2>6. CASE HandleOffer(d, m)
    <3> DEFINE a == Msg("answer", d, m.from, 0)
    <3>1. Talk(d, <<a>>) /\ Learns(d, m.from) /\ Directs(m)
      BY <1>1, <2>6, OfferTalk DEF HandleOffer, Directs
    <3>2. a.to = m.from
      BY <2>4, <3>1, MsgFacts
    <3> HIDE DEF a
    <3>3. \A j \in 1 .. Len(<<a>>) : <<a>>[j] = a
      OBVIOUS
    <3>4. sessions'[d][m.from].known
      BY <3>1 DEF Learns
    <3> HIDE DEF m
    <3>5. \A j \in 1 .. Len(<<a>>) :
            Joined(<<a>>[j].to) /\ (<<a>>[j].type = "answer" => sessions'[d][<<a>>[j].to].known)
      BY <2>4, <3>1, <3>2, <3>3, <3>4
    <3> QED
      BY <2>4, <2>5, <3>1, <3>5, TalkNamed
  <2>7. CASE HandleAnswer(d, m)
    <3>1. Talk(d, <<>>) /\ Learns(d, m.from) /\ Directs(m)
      BY <1>1, <2>7, AnswerTalk DEF HandleAnswer, Directs
    <3>2. 1 .. Len(<<>>) = {}
      OBVIOUS
    <3> QED
      BY <2>4, <2>5, <3>1, <3>2, TalkNamed
  <2>8. CASE HandleRelay(d, m)
    <3> DEFINE r == Msg("response", d, m.from, sessions[d][m.from].tx)
    <3>1. /\ Talk(d, <<r>>) \/ Talk(d, <<>>)
          /\ Counts /\ Directs(m) /\ sessions[d][m.from].tx \in Nat
      BY <1>1, <2>8, RelayTalk DEF HandleRelay, IsRelay, Directs
    <3>2. r.to = m.from /\ r.type # "answer"
      BY DEF Msg
    <3> HIDE DEF r
    <3>3. /\ 1 .. Len(<<>>) = {}
          /\ \A j \in 1 .. Len(<<r>>) : <<r>>[j] = r
      OBVIOUS
    <3>4. \A j \in 1 .. Len(<<r>>) : Joined(<<r>>[j].to) /\ <<r>>[j].type # "answer"
      BY <2>4, <3>1, <3>2, <3>3
    <3>5. /\ \A x, y \in Identities : sessions[x][y].known => sessions'[x][y].known
          /\ \A x, y \in Identities :
               sessions'[x][y].known => sessions[x][y].known \/ Joined(y)
      BY <3>1 DEF Counts
    <3> QED
      BY <3>1, <3>3, <3>4, <3>5, TalkNamed
  <2>9. CASE RefuseRelay(d, m)
    <3>1. EndLink(d) /\ UNCHANGED <<vars, up, sessions>>
      BY <1>1, <2>9 DEF RefuseRelay, DaemonReceives
    <3> QED
      BY <2>1, <3>1, EndNamed
  <2> QED
    BY <1>1, <2>3, <2>6, <2>7, <2>8, <2>9 DEF DaemonReceives
<1>2. ASSUME NEW d \in Identities, DaemonSeesEnd(d) PROVE Named'
  BY <1>2, EndNamed DEF DaemonSeesEnd
<1>3. ASSUME NEW d \in Callers, NEW e \in Identities, SendRequest(d, e) PROVE Named'
  <2> DEFINE r == Msg("request", d, e, sessions[d][e].tx)
  <2>1. d \in Identities
    BY RelayAssumption
  <2>2. Talk(d, <<r>>) /\ Counts /\ sessions[d][e].tx \in Nat /\ sessions[d][e].known
    BY <1>3, <2>1, RequestTalk
  <2>3. r.to = e /\ r.type # "answer" /\ Joined(e)
    BY <2>1, <2>2, MsgFacts DEF Named
  <2> HIDE DEF r
  <2>4. \A j \in 1 .. Len(<<r>>) : <<r>>[j] = r
    OBVIOUS
  <2>5. \A j \in 1 .. Len(<<r>>) : Joined(<<r>>[j].to) /\ <<r>>[j].type # "answer"
    BY <2>3, <2>4
  <2>6. /\ \A x, y \in Identities : sessions[x][y].known => sessions'[x][y].known
        /\ \A x, y \in Identities :
             sessions'[x][y].known => sessions[x][y].known \/ Joined(y)
    BY <2>2 DEF Counts
  <2> QED
    BY <2>1, <2>2, <2>5, <2>6, TalkNamed
<1>4. ASSUME NEW d \in Identities, Join(d) PROVE Named'
  <2> DEFINE T == {t \in Sockets : conn[t] = "unborn"}
             s == Min(T)
             j == Msg("join", d, d, 0)
  <2>1. /\ sock' = [sock EXCEPT ![d] = s] /\ up' = [up EXCEPT ![s] = <<j>>]
        /\ sock[d] = NoSocket
        /\ UNCHANGED <<spoke, sessions, down, ended>>
    BY <1>4 DEF Join, Connect
  <2>2. j.type = "join"
    BY MsgFacts
  <2> HIDE DEF s, j
  <2>3. Grows
    <3>1. \A x \in Identities : sock'[x] = sock[x] \/ sock[x] = NoSocket
      BY <2>1, RelayTypeParts DEF NetTypeOK
    <3> QED
      BY <2>1, <3>1, JoinedStays DEF Grows
  <2>4. ASSUME NEW t \in Sockets, NEW i \in 1 .. Len(up'[t])
        PROVE  (\E k \in 1 .. Len(up[t]) : up'[t][i] = up[t][k]) \/ SentWellNext(up'[t][i])
    <3>1. CASE up'[t] = up[t]
      BY <3>1
    <3>2. CASE up'[t] = <<j>>
      <4>1. up'[t][i] = j
        BY <3>2
      <4> QED
        BY <2>2, <4>1 DEF SentWellNext
    <3> QED
      BY <2>1, <3>1, <3>2, RelayTypeParts DEF NetTypeOK
  <2> QED
    BY <2>1, <2>3, <2>4, NamedAfter
<1>5. ASSUME NEW s \in Sockets, Drop(s) PROVE Named'
  <2>1. /\ \A t \in Sockets : \A i \in 1 .. Len(up'[t]) :
             i \in 1 .. Len(up[t]) /\ up'[t][i] = up[t][i]
        /\ \A t \in Sockets : \A i \in 1 .. Len(down'[t]) :
             i \in 1 .. Len(down[t]) /\ down'[t][i] = down[t][i]
        /\ UNCHANGED <<spoke, sock, sessions, ended>>
    BY <1>5, DropQueues DEF Drop, vars
  <2>2. Grows
    BY <2>1, JoinedStays DEF Grows
  <2> QED
    BY <2>1, <2>2, NamedAfter
<1>6. CASE UNCHANGED <<spoke, netVars>>
  <2>1. UNCHANGED <<spoke, sock, sessions, ended, up, down>>
    BY <1>6 DEF netVars
  <2>2. Grows
    BY <2>1, JoinedStays DEF Grows
  <2> QED
    BY <2>1, <2>2, NamedAfter
<1>7. ASSUME NEW s \in Sockets, RoomCloses(s) PROVE UNCHANGED <<spoke, netVars>>
  BY <1>7 DEF RoomCloses, Close
<1> QED
  BY <1>1, <1>2, <1>3, <1>4, <1>5, <1>6, <1>7, RoomNamed
     DEF RelayNext, DaemonStep, Pass, Tick, relayVars, vars


-----------------------------------------------------------------------------
(* The order of what arrives.                                              *)

\* Ordered after the step.
OrderedNext(d, e) ==
  /\ Guarded(down'[sock'[d]], e, d)
  /\ sock'[e] # NoSocket /\ link'[sock'[d]] = "up" =>
       \/ HasOffer(down'[sock'[d]], e, d)
       \/ /\ Guarded(up'[sock'[e]], e, d)
          /\ sessions'[e][d].known /\ link'[sock'[e]] = "up" => HasOffer(up'[sock'[e]], e, d)

LEMMA OrderedAfter ==
  ASSUME \A d, e \in Identities \ ended' :
           sock'[d] # NoSocket /\ ~sessions'[d][e].known => OrderedNext(d, e)
  PROVE  OfferFirst'
BY DEF OfferFirst, Ordered, OrderedNext, Guarded, HasOffer, Establishes, Relays

LEMMA TalkOrdered ==
  ASSUME RelayTypeOK, Wiring, NEW x \in Identities, NEW ms, Talk(x, ms),
         NEW d \in Identities, NEW e \in Identities, sock[d] # NoSocket, Ordered(d, e),
         d = x /\ down' # down => ~Establishes(Head(down[sock[x]]), e, d),
         e = x => \A j \in 1 .. Len(ms) : Relays(ms[j], e, d) => sessions[e][d].known,
         sessions'[e][d].known => sessions[e][d].known \/ (e = x /\ HasOffer(ms, e, d))
  PROVE  OrderedNext(d, e)
<1>1. /\ UNCHANGED <<sock, link>> /\ sock[x] # NoSocket /\ ms \in Seq(Directed)
      /\ sock[x] \in Sockets /\ sock[d] \in Sockets /\ down[sock[d]] \in Seq(Wire)
  BY SockFacts DEF Talk
<1>2. \/ down'[sock[d]] = down[sock[d]]
      \/ /\ ~Establishes(Head(down[sock[d]]), e, d)
         /\ down[sock[d]] # <<>> /\ down'[sock[d]] = Tail(down[sock[d]])
  <2>1. CASE d = x
    BY <1>1, <2>1, RelayTypeParts DEF Talk, NetTypeOK
  <2>2. CASE d # x
    <3>1. sock[d] # sock[x]
      BY <1>1, <2>2 DEF Wiring, Owner
    <3> QED
      BY <1>1, <3>1, TalkQueues
  <2> QED
    BY <2>1, <2>2
<1>3. /\ Guarded(down'[sock[d]], e, d)
      /\ HasOffer(down[sock[d]], e, d) => HasOffer(down'[sock[d]], e, d)
  BY <1>1, <1>2, GuardedTail DEF Ordered
<1>4. ASSUME sock[e] # NoSocket, link[sock[d]] = "up", ~HasOffer(down[sock[d]], e, d)
      PROVE  /\ Guarded(up'[sock[e]], e, d)
             /\ sessions'[e][d].known /\ link[sock[e]] = "up" => HasOffer(up'[sock[e]], e, d)
  <2>1. /\ Guarded(up[sock[e]], e, d)
        /\ sessions[e][d].known /\ link[sock[e]] = "up" => HasOffer(up[sock[e]], e, d)
    BY <1>4 DEF Ordered
  <2>2. sock[e] \in Sockets /\ up[sock[e]] \in Seq(Directed)
    BY <1>4, SockFacts
  <2>3. CASE e # x
    <3>1. sock[e] # sock[x]
      BY <1>1, <2>3 DEF Wiring, Owner
    <3>2. up'[sock[e]] = up[sock[e]]
      BY <2>2, <3>1, TalkQueues
    <3> QED
      BY <2>1, <2>3, <3>2
  <2>4. CASE e = x /\ link[sock[e]] # "up"
    <3>1. up'[sock[e]] = up[sock[e]]
      BY <1>1, <2>4, SentFacts DEF Talk
    <3> QED
      BY <2>1, <2>4, <3>1
  <2>5. CASE e = x /\ link[sock[e]] = "up"
    <3>1. up'[sock[e]] = up[sock[e]] \o ms
      BY <1>1, <2>5, SentFacts DEF Talk
    <3>2. HasOffer(up[sock[e]], e, d) \/ \A j \in 1 .. Len(ms) : ~Relays(ms[j], e, d)
      BY <2>1, <2>5
    <3>3. Guarded(up[sock[e]] \o ms, e, d)
      BY <1>1, <2>1, <2>2, <3>2, GuardedCat
    <3>4. HasOffer(up[sock[e]], e, d) \/ HasOffer(ms, e, d) => HasOffer(up[sock[e]] \o ms, e, d)
      BY <1>1, <2>2, GuardedCat
    <3> QED
      BY <2>1, <2>5, <3>1, <3>3, <3>4
  <2> QED
    BY <2>3, <2>4, <2>5
<1> QED
  BY <1>1, <1>3, <1>4 DEF OrderedNext

LEMMA ReceiveOrdered ==
  ASSUME RelayTypeOK, Wiring, Named, OfferFirst, NEW x \in Identities, DaemonReceives(x),
         ~RefuseRelay(x, Head(down[sock[x]]))
  PROVE  OfferFirst'
<1> DEFINE m == Head(down[sock[x]])
<1>1. /\ sock[x] # NoSocket /\ sock[x] \in Sockets
      /\ m = down[sock[x]][1] /\ 1 \in 1 .. Len(down[sock[x]]) /\ m \in Wire
  <2>1. sock[x] # NoSocket /\ down[sock[x]] # <<>>
    BY DEF DaemonReceives
  <2> QED
    BY <2>1, SockFacts, TailFacts
<1>2. Directs(m) => m.to = x /\ m.from \in Identities
  BY <1>1, WireFacts DEF Wiring, Owner
<1>3. m.type = "answer" => sessions[m.from][x].known
  BY <1>1, <1>2 DEF Named, ArrivesWell, Directs
<1>4. CASE HandleNews(x, m)
  <2>1. /\ Talk(x, Offers(x, m.peers)) /\ UNCHANGED sessions /\ ~Directs(m)
    BY <1>4, NewsTalk DEF HandleNews, Directs
  <2>2. m.peers \in SUBSET Identities
    BY <1>1, <2>1, WireFacts
  <2>3. \A j \in 1 .. Len(Offers(x, m.peers)) : Offers(x, m.peers)[j].type = "offer"
    BY <2>2, OffersFacts
  <2>4. ASSUME NEW d \in Identities \ ended', NEW e \in Identities \ ended',
               sock'[d] # NoSocket, ~sessions'[d][e].known
        PROVE  OrderedNext(d, e)
    <3>1. sock[d] # NoSocket /\ Ordered(d, e)
      BY <2>1, <2>4 DEF OfferFirst, Talk
    <3>2. ~Establishes(m, e, d)
      BY <2>1 DEF Establishes, Directs
    <3>3. \A j \in 1 .. Len(Offers(x, m.peers)) : ~Relays(Offers(x, m.peers)[j], e, d)
      BY <2>3 DEF Relays
    <3> QED
      BY <2>1, <3>1, <3>2, <3>3, TalkOrdered
  <2> QED
    BY <2>4, OrderedAfter
<1>5. CASE HandleOffer(x, m)
  <2> DEFINE a == Msg("answer", x, m.from, 0)
  <2>1. /\ Talk(x, <<a>>) /\ Learns(x, m.from) /\ m.from \in Identities
    BY <1>5, OfferTalk
  <2>2. a.type = "answer" /\ a.from = x /\ a.to = m.from
    BY <2>1, MsgFacts
  <2> HIDE DEF a, m
  <2>3. Len(<<a>>) = 1 /\ <<a>>[1] = a
    OBVIOUS
  <2>4. ASSUME NEW d \in Identities \ ended', NEW e \in Identities \ ended',
               sock'[d] # NoSocket, ~sessions'[d][e].known
        PROVE  OrderedNext(d, e)
    <3>1. <<d, e>> # <<x, m.from>>
      BY <2>1, <2>4 DEF Learns
    <3>2. sock[d] # NoSocket /\ Ordered(d, e)
      BY <2>1, <2>4, <3>1 DEF OfferFirst, Talk, Learns
    <3>3. d = x => ~Establishes(m, e, d)
      BY <3>1 DEF Establishes
    <3>4. \A j \in 1 .. Len(<<a>>) : ~Relays(<<a>>[j], e, d)
      BY <2>2, <2>3 DEF Relays
    <3>5. HasOffer(<<a>>, x, m.from)
      BY <2>2, <2>3 DEF HasOffer, Establishes
    <3>6. sessions'[e][d].known => sessions[e][d].known \/ (e = x /\ HasOffer(<<a>>, e, d))
      <4>1. CASE e = x /\ d = m.from
        BY <3>5, <4>1
      <4>2. CASE <<e, d>> # <<x, m.from>>
        BY <2>1, <4>2 DEF Learns
      <4> QED
        BY <4>1, <4>2
    <3> QED
      BY <2>1, <3>2, <3>3, <3>4, <3>6, TalkOrdered DEF m
  <2> QED
    BY <2>4, OrderedAfter
<1>6. CASE HandleAnswer(x, m)
  <2>1. /\ Talk(x, <<>>) /\ Learns(x, m.from) /\ m.from \in Identities /\ m.type = "answer"
    BY <1>6, AnswerTalk DEF HandleAnswer
  <2> HIDE DEF m
  <2>2. 1 .. Len(<<>>) = {}
    OBVIOUS
  <2>3. ASSUME NEW d \in Identities \ ended', NEW e \in Identities \ ended',
               sock'[d] # NoSocket, ~sessions'[d][e].known
        PROVE  OrderedNext(d, e)
    <3>1. <<d, e>> # <<x, m.from>>
      BY <2>1, <2>3 DEF Learns
    <3>2. sock[d] # NoSocket /\ ~sessions[d][e].known /\ Ordered(d, e)
      BY <2>1, <2>3, <3>1 DEF OfferFirst, Talk, Learns
    <3>3. d = x => ~Establishes(m, e, d)
      BY <3>1 DEF Establishes
    <3>4. <<e, d>> # <<x, m.from>>
      BY <1>3, <2>1, <3>2
    <3>5. sessions'[e][d].known => sessions[e][d].known
      BY <2>1, <3>4 DEF Learns
    <3> QED
      BY <2>1, <2>2, <3>2, <3>3, <3>5, TalkOrdered DEF m
  <2> QED
    BY <2>3, OrderedAfter
<1>7. CASE HandleRelay(x, m)
  <2> DEFINE r == Msg("response", x, m.from, sessions[x][m.from].tx)
  <2>1. /\ Talk(x, <<r>>) \/ Talk(x, <<>>)
        /\ Counts /\ m.from \in Identities /\ m.type \in {"request", "response"}
        /\ sessions[x][m.from].known /\ sessions[x][m.from].tx \in Nat
    BY <1>7, RelayTalk DEF HandleRelay, IsRelay
  <2>2. r.from = x /\ r.to = m.from
    BY DEF Msg
  <2> HIDE DEF r, m
  <2>3. Len(<<r>>) = 1 /\ <<r>>[1] = r /\ 1 .. Len(<<>>) = {}
    OBVIOUS
  <2>4. ASSUME NEW d \in Identities \ ended', NEW e \in Identities \ ended',
               sock'[d] # NoSocket, ~sessions'[d][e].known
        PROVE  OrderedNext(d, e)
    <3>1. sock[d] # NoSocket /\ Ordered(d, e)
      BY <2>1, <2>4 DEF OfferFirst, Talk, Counts
    <3>2. ~Establishes(m, e, d)
      BY <2>1 DEF Establishes
    <3>3. \A j \in 1 .. Len(<<r>>) : Relays(<<r>>[j], e, d) => sessions[e][d].known
      BY <2>1, <2>2, <2>3 DEF Relays
    <3>4. sessions'[e][d].known => sessions[e][d].known
      BY <2>1 DEF Counts
    <3> QED
      BY <2>1, <2>3, <3>1, <3>2, <3>3, <3>4, TalkOrdered DEF m
  <2> QED
    BY <2>4, OrderedAfter
<1> QED
  BY <1>4, <1>5, <1>6, <1>7 DEF DaemonReceives

LEMMA RequestOrdered ==
  ASSUME RelayTypeOK, Wiring, OfferFirst,
         NEW x \in Identities, NEW f \in Identities, SendRequest(x, f)
  PROVE  OfferFirst'
<1> DEFINE r == Msg("request", x, f, sessions[x][f].tx)
<1>1. /\ Talk(x, <<r>>) /\ Counts /\ UNCHANGED down
      /\ sessions[x][f].known /\ sessions[x][f].tx \in Nat
  BY RequestTalk
<1>2. r.from = x /\ r.to = f
  BY <1>1, MsgFacts
<1> HIDE DEF r
<1>3. Len(<<r>>) = 1 /\ <<r>>[1] = r
  OBVIOUS
<1>4. ASSUME NEW d \in Identities \ ended', NEW e \in Identities \ ended',
             sock'[d] # NoSocket, ~sessions'[d][e].known
      PROVE  OrderedNext(d, e)
  <2>1. sock[d] # NoSocket /\ Ordered(d, e)
    BY <1>1, <1>4 DEF OfferFirst, Talk, Counts
  <2>2. \A j \in 1 .. Len(<<r>>) : Relays(<<r>>[j], e, d) => sessions[e][d].known
    BY <1>1, <1>2, <1>3 DEF Relays
  <2>3. sessions'[e][d].known => sessions[e][d].known
    BY <1>1 DEF Counts
  <2> QED
    BY <1>1, <2>1, <2>2, <2>3, TalkOrdered
<1> QED
  BY <1>4, OrderedAfter


LEMMA EndOrdered ==
  ASSUME RelayTypeOK, Wiring, OfferFirst, NEW x \in Identities, sock[x] # NoSocket, EndLink(x),
         UNCHANGED <<up, sessions>>
  PROVE  OfferFirst'
<1>1. /\ \A y \in Identities : y # x => sock'[y] = sock[y]
      /\ sock[x] \in Sockets
      /\ \A t \in Sockets : t # sock[x] => link'[t] = link[t] /\ down'[t] = down[t]
      /\ ended' = ended \cup {x}
  BY SockFacts, RelayTypeParts DEF EndLink, NetTypeOK
<1>2. ASSUME NEW d \in Identities \ ended', NEW e \in Identities \ ended',
             sock'[d] # NoSocket, ~sessions'[d][e].known
      PROVE  OrderedNext(d, e)
  <2>1. /\ d # x /\ e # x /\ sock'[d] = sock[d] /\ sock'[e] = sock[e]
        /\ sock[d] # NoSocket /\ Ordered(d, e)
    BY <1>1, <1>2 DEF OfferFirst
  <2>2. sock[d] \in Sockets /\ sock[d] # sock[x]
    BY <2>1, SockFacts DEF Wiring, Owner
  <2>3. sock[e] # NoSocket => sock[e] \in Sockets /\ sock[e] # sock[x]
    BY <2>1, SockFacts DEF Wiring, Owner
  <2>4. /\ link'[sock[d]] = link[sock[d]] /\ down'[sock[d]] = down[sock[d]]
        /\ sock[e] # NoSocket => link'[sock[e]] = link[sock[e]]
    BY <1>1, <2>2, <2>3
  <2> QED
    BY <2>1, <2>4 DEF Ordered, OrderedNext
<1> QED
  BY <1>2, OrderedAfter

LEMMA JoinOrdered ==
  ASSUME RelayTypeOK, Wiring, Named, OfferFirst, NEW x \in Identities, Join(x)
  PROVE  OfferFirst'
<1> DEFINE T == {t \in Sockets : conn[t] = "unborn"}
           s == Min(T)
           q == <<Msg("join", x, x, 0)>>
<1>1. s \in Sockets /\ conn[s] = "unborn" /\ NoSocket \notin Sockets /\ NoSocket \notin spoke
  <2>1. T \in SUBSET Nat /\ T # {}
    BY RelayAssumption DEF Join
  <2>2. s \in T
    BY <2>1, MinFacts
  <2> QED
    BY <2>2, RoomAssumption, RelayTypeParts DEF TypeOK
<1>2. /\ sock' = [sock EXCEPT ![x] = s]
      /\ link' = [link EXCEPT ![s] = "up"]
      /\ up' = [up EXCEPT ![s] = q]
      /\ sock[x] = NoSocket
      /\ UNCHANGED <<sessions, down, ended>>
  BY DEF Join
<1> HIDE DEF s
<1>3. /\ sock'[x] = s /\ \A y \in Identities : y # x => sock'[y] = sock[y]
      /\ \A t \in Sockets : t # s => link'[t] = link[t] /\ up'[t] = up[t]
      /\ up'[s] = q
  BY <1>1, <1>2, RelayTypeParts DEF NetTypeOK
<1>4. \A d, e : Guarded(q, e, d)
  <2>1. \A i \in 1 .. Len(q) : q[i].type = "join"
    BY MsgFacts
  <2> QED
    BY <2>1 DEF Guarded, Relays
<1>5. down[s] = <<>> /\ \A y \in Identities : sock[y] # s
  BY <1>1 DEF Wiring, Unborn
<1> HIDE DEF q
<1>6. x \notin ended => ~Joined(x) /\ \A y \in Identities : ~sessions[x][y].known
  BY <1>1, <1>2 DEF Joined, Wiring, AtHome
<1>7. ASSUME NEW d \in Identities \ ended', NEW e \in Identities \ ended',
             sock'[d] # NoSocket, ~sessions'[d][e].known
      PROVE  OrderedNext(d, e)
  <2>1. d \notin ended /\ e \notin ended
    BY <1>2
  <2>2. ASSUME e # x, sock[e] # NoSocket
        PROVE  /\ sock'[e] = sock[e] /\ sock[e] \in Sockets /\ sock[e] # s
               /\ up'[sock[e]] = up[sock[e]] /\ link'[sock[e]] = link[sock[e]]
    BY <1>3, <1>5, <2>2, SockFacts
  <2>3. CASE d = x
    <3>1. Guarded(down'[sock'[d]], e, d)
      BY <1>2, <1>3, <1>5, <2>3 DEF Guarded
    <3>2. CASE e = x
      BY <1>2, <1>3, <1>4, <1>6, <2>1, <2>3, <3>1, <3>2 DEF OrderedNext
    <3>3. CASE e # x
      <4>1. ~sessions[e][d].known
        BY <1>6, <2>1, <2>3 DEF Named
      <4>2. ASSUME sock[e] # NoSocket PROVE Guarded(up[sock[e]], e, d)
        <5>1. sock[e] \in Sockets
          BY <2>2, <3>3, <4>2
        <5>2. ASSUME NEW i \in 1 .. Len(up[sock[e]]) PROVE ~Relays(up[sock[e]][i], e, d)
          <6>1. SentWell(up[sock[e]][i])
            BY <5>1, <5>2 DEF Named
          <6> QED
            BY <1>6, <2>1, <2>3, <6>1 DEF SentWell, Relays
        <5> QED
          BY <5>2 DEF Guarded
      <4>3. sock'[e] = sock[e]
        BY <1>3, <3>3
      <4> QED
        BY <1>2, <2>2, <3>1, <3>3, <4>1, <4>2, <4>3 DEF OrderedNext
    <3> QED
      BY <3>2, <3>3
  <2>4. CASE d # x
    <3>1. /\ sock'[d] = sock[d] /\ sock[d] # NoSocket /\ sock[d] # s /\ sock[d] \in Sockets
          /\ ~sessions[d][e].known
      BY <1>2, <1>3, <1>5, <1>7, <2>4, SockFacts
    <3>2. Ordered(d, e) /\ link'[sock[d]] = link[sock[d]]
      BY <1>3, <2>1, <3>1 DEF OfferFirst
    <3>3. CASE e = x
      <4>1. ~sessions[e][d].known
        BY <1>6, <2>1, <3>3
      <4> QED
        BY <1>2, <1>3, <1>4, <3>1, <3>2, <3>3, <4>1 DEF Ordered, OrderedNext
    <3>4. CASE e # x
      <4>1. sock'[e] = sock[e]
        BY <1>3, <3>4
      <4> QED
        BY <1>2, <2>2, <3>1, <3>2, <3>4, <4>1 DEF Ordered, OrderedNext
    <3> QED
      BY <3>3, <3>4
  <2> QED
    BY <2>3, <2>4
<1> QED
  BY <1>7, OrderedAfter

LEMMA DropOrdered ==
  ASSUME RelayTypeOK, OfferFirst, NEW s \in Sockets, Drop(s)
  PROVE  OfferFirst'
<1>1. PICK n \in 0 .. Len(up[s]) : up' = [up EXCEPT ![s] = SubSeq(@, 1, n)]
  BY DEF Drop
<1>2. PICK k \in 0 .. Len(down[s]) : down' = [down EXCEPT ![s] = SubSeq(@, 1, k)]
  BY DEF Drop
<1>3. /\ up \in [Sockets -> Seq(Directed)] /\ down \in [Sockets -> Seq(Wire)]
      /\ up[s] \in Seq(Directed) /\ down[s] \in Seq(Wire)
  BY RelayTypeParts DEF NetTypeOK
<1>4. /\ link'[s] = "down" /\ \A t \in Sockets : t # s => link'[t] = link[t]
      /\ UNCHANGED <<sock, sessions, ended>>
      /\ up'[s] = SubSeq(up[s], 1, n) /\ \A t \in Sockets : t # s => up'[t] = up[t]
      /\ down'[s] = SubSeq(down[s], 1, k) /\ \A t \in Sockets : t # s => down'[t] = down[t]
  BY <1>1, <1>2, <1>3, RelayTypeParts DEF Drop, NetTypeOK
<1>5. ASSUME NEW d \in Identities \ ended', NEW e \in Identities \ ended',
             sock'[d] # NoSocket, ~sessions'[d][e].known
      PROVE  OrderedNext(d, e)
  <2>1. sock[d] # NoSocket /\ sock[d] \in Sockets /\ Ordered(d, e)
    BY <1>4, <1>5, SockFacts DEF OfferFirst
  <2>2. Guarded(down'[sock[d]], e, d)
    <3>1. Guarded(down[sock[d]], e, d)
      BY <2>1 DEF Ordered
    <3>2. CASE sock[d] = s
      <4>1. Guarded(SubSeq(down[s], 1, k), e, d)
        BY <1>3, <3>1, <3>2, GuardedPrefix
      <4> QED
        BY <1>4, <3>2, <4>1
    <3>3. CASE sock[d] # s
      BY <1>4, <2>1, <3>1, <3>3
    <3> QED
      BY <3>2, <3>3
  <2>3. ASSUME sock[e] # NoSocket, link'[sock[d]] = "up", ~HasOffer(down'[sock[d]], e, d)
        PROVE  /\ Guarded(up'[sock[e]], e, d)
               /\ sessions[e][d].known /\ link'[sock[e]] = "up" => HasOffer(up'[sock[e]], e, d)
    <3>1. sock[d] # s /\ sock[e] \in Sockets
      BY <1>4, <2>3, SockFacts
    <3>2. down'[sock[d]] = down[sock[d]] /\ link[sock[d]] = "up"
      BY <1>4, <2>1, <2>3, <3>1
    <3>3. /\ Guarded(up[sock[e]], e, d)
          /\ sessions[e][d].known /\ link[sock[e]] = "up" => HasOffer(up[sock[e]], e, d)
      BY <2>1, <2>3, <3>2 DEF Ordered
    <3>4. CASE sock[e] = s
      <4>0. Guarded(up[s], e, d)
        BY <3>3, <3>4
      <4>1. Guarded(SubSeq(up[s], 1, n), e, d)
        BY <1>3, <4>0, GuardedPrefix
      <4> QED
        BY <1>4, <3>4, <4>1
    <3>5. CASE sock[e] # s
      BY <1>4, <3>1, <3>3, <3>5
    <3> QED
      BY <3>4, <3>5
  <2> QED
    BY <1>4, <2>2, <2>3 DEF OrderedNext
<1> QED
  BY <1>5, OrderedAfter


\* Reading from s leaves the order of what e has sent to d as it was.
LEMMA ReadOrdered ==
  ASSUME RelayTypeOK, NEW s \in Sockets, RoomReceives(s), NEW d, NEW e,
         NEW t \in Sockets, t = s => ~Establishes(Head(up[s]), e, d)
  PROVE  /\ Guarded(up[t], e, d) => Guarded(up'[t], e, d)
         /\ HasOffer(up[t], e, d) => HasOffer(up'[t], e, d)
<1>1. /\ up[s] \in Seq(Directed) /\ up[s] # <<>> /\ up'[s] = Tail(up[s])
      /\ \A u \in Sockets : u # s => up'[u] = up[u]
  BY HeadFacts DEF RoomReceives
<1>2. CASE t = s
  BY <1>1, <1>2, GuardedTail
<1>3. CASE t # s
  BY <1>1, <1>3
<1> QED
  BY <1>2, <1>3

LEMMA RoomJoinOrdered ==
  ASSUME RelayTypeOK, Silent, Wiring, OfferFirst, NEW s \in Sockets, RoomReceives(s),
         RoomJoin(s, Head(up[s]))
  PROVE  OfferFirst'
<1> DEFINE m == Head(up[s])
<1>1. UNCHANGED <<sock, sessions, link, ended>>
  BY HeadFacts
<1>2. m.type = "join" /\ \A t \in Sockets : AddsNews(t, m.from)
  BY JoinFacts DEF RoomJoin
<1> HIDE DEF m
<1>3. ASSUME NEW d \in Identities \ ended', NEW e \in Identities \ ended',
             sock'[d] # NoSocket, ~sessions'[d][e].known
      PROVE  OrderedNext(d, e)
  <2>1. sock[d] # NoSocket /\ sock[d] \in Sockets /\ Ordered(d, e)
    BY <1>1, <1>3, SockFacts DEF OfferFirst
  <2>2. PICK ms \in Seq(Wire) :
          down'[sock[d]] = down[sock[d]] \o ms /\ \A i \in 1 .. Len(ms) : ~Directs(ms[i])
    BY <1>2, <2>1 DEF AddsNews
  <2>3. \A i \in 1 .. Len(ms) : ~Relays(ms[i], e, d)
    BY <2>2 DEF Relays, Directs
  <2>4. down[sock[d]] \in Seq(Wire) /\ Guarded(down[sock[d]], e, d)
    BY <2>1, SockFacts DEF Ordered
  <2>5. /\ Guarded(down'[sock[d]], e, d)
        /\ HasOffer(down[sock[d]], e, d) => HasOffer(down'[sock[d]], e, d)
    BY <2>2, <2>3, <2>4, GuardedCat
  <2>6. ~Establishes(m, e, d)
    BY <1>2 DEF Establishes
  <2>7. ASSUME sock[e] # NoSocket
        PROVE  /\ Guarded(up[sock[e]], e, d) => Guarded(up'[sock[e]], e, d)
               /\ HasOffer(up[sock[e]], e, d) => HasOffer(up'[sock[e]], e, d)
    <3>1. sock[e] \in Sockets
      BY <2>7, SockFacts
    <3> QED
      BY <2>6, <3>1, ReadOrdered DEF m
  <2> QED
    BY <1>1, <2>1, <2>5, <2>7 DEF Ordered, OrderedNext
<1> QED
  BY <1>3, OrderedAfter

LEMMA ForwardOrdered ==
  ASSUME RelayTypeOK, Silent, RouteOpen, Wiring, Named, OfferFirst,
         NEW s \in Sockets, RoomReceives(s),
         RoomForward(s, Head(up[s])) \/ RoomRelay(s, Head(up[s]))
  PROVE  OfferFirst'
<1> DEFINE m == Head(up[s])
<1>1. /\ UNCHANGED <<sock, sessions, link, ended>> /\ m \in Wire
      /\ m = up[s][1] /\ 1 \in 1 .. Len(up[s])
      /\ up[s] \in Seq(Directed) /\ up[s] # <<>> /\ Live(s)
  BY HeadFacts DEF RoomReceives
<1>2. /\ m.type # "join"
      /\ <<m>> \in Seq(Wire) /\ Len(<<m>>) = 1 /\ <<m>>[1] = m
      /\ \A t \in Sockets :
              \/ down'[t] = down[t]
              \/ /\ sockets[s] = m.from
                 /\ t = peers[m.to].ws /\ link[t] = "up"
                 /\ down'[t] = down[t] \o <<m>>
  BY ForwardFacts
<1>3. PassedOn(s, m)
  BY ForwardFacts
<1>4. SentWell(m)
  BY <1>1 DEF Named
<1>5. s \in spoke
  BY <1>1, <1>2 DEF Wiring, JoinFirst
<1>6. ASSUME NEW d \in Identities \ ended', NEW e \in Identities \ ended',
             sock'[d] # NoSocket, ~sessions'[d][e].known
      PROVE  OrderedNext(d, e)
  <2>1. /\ sock[d] # NoSocket /\ sock[d] \in Sockets /\ Ordered(d, e)
        /\ d \notin ended /\ e \notin ended
    BY <1>1, <1>6, SockFacts DEF OfferFirst
  <2>2. down[sock[d]] \in Seq(Wire) /\ Guarded(down[sock[d]], e, d)
    BY <2>1, SockFacts DEF Ordered
  <2>3. m.from = e => s = sock[e] /\ sock[e] # NoSocket
    BY <1>1, <2>1, RoomAssumption DEF Wiring, AtHome
  <2>4. Relays(m, e, d) /\ link[sock[d]] = "up" => HasOffer(down[sock[d]], e, d)
    <3> SUFFICES ASSUME Relays(m, e, d), link[sock[d]] = "up", Guarded(up[s], e, d)
                 PROVE  FALSE
      BY <2>1, <2>3 DEF Ordered, Relays
    <3> QED
      BY <1>1, GuardedTail
  <2> HIDE DEF m
  <2>5. \A i \in 1 .. Len(<<m>>) : <<m>>[i] = m
    BY <1>2
  <2>6. /\ Guarded(down'[sock[d]], e, d)
        /\ HasOffer(down[sock[d]], e, d) => HasOffer(down'[sock[d]], e, d)
    <3>1. CASE down'[sock[d]] = down[sock[d]]
      BY <2>2, <3>1
    <3>2. CASE link[sock[d]] = "up" /\ down'[sock[d]] = down[sock[d]] \o <<m>>
      <4>1. HasOffer(down[sock[d]], e, d) \/ \A i \in 1 .. Len(<<m>>) : ~Relays(<<m>>[i], e, d)
        BY <2>4, <2>5, <3>2
      <4> QED
        BY <1>2, <2>2, <3>2, <4>1, GuardedCat
    <3> QED
      BY <1>2, <2>1, <3>1, <3>2
  <2>7. CASE ~Establishes(m, e, d)
    <3>1. ASSUME sock[e] # NoSocket
          PROVE  /\ Guarded(up[sock[e]], e, d) => Guarded(up'[sock[e]], e, d)
                 /\ HasOffer(up[sock[e]], e, d) => HasOffer(up'[sock[e]], e, d)
      <4>1. sock[e] \in Sockets
        BY <3>1, SockFacts
      <4> QED
        BY <2>7, <4>1, ReadOrdered DEF m
    <3> QED
      BY <1>1, <2>1, <2>6, <3>1 DEF Ordered, OrderedNext
  <2>8. CASE Establishes(m, e, d) /\ link[sock[d]] # "up"
    BY <1>1, <2>6, <2>8 DEF OrderedNext
  <2>9. CASE Establishes(m, e, d) /\ link[sock[d]] = "up"
    <3>1. m.type \in {"offer", "answer"} /\ m.from = e /\ m.to = d
      BY <2>9 DEF Establishes
    <3>2. sockets[s] = e
      <4>1. sock[e] = s /\ conn[s] # "gone" /\ s # NoSocket
        BY <1>1, <2>3, <3>1 DEF Live
      <4>2. peers[e].ws = s
        BY <1>5, <2>1, <4>1 DEF Wiring, AtHome
      <4> QED
        BY <4>1, <4>2 DEF RouteOpen, Present
    <3>3. peers[d].ws = sock[d]
      <4>1. sock[d] \in spoke
        BY <1>2, <1>4, <2>1, <3>1 DEF SentWell, Joined
      <4>2. conn[sock[d]] # "gone"
        BY <2>1, <2>9 DEF Wiring, JoinFirst
      <4> QED
        BY <2>1, <4>1, <4>2 DEF Wiring, AtHome
    <3>4. down'[sock[d]] = down[sock[d]] \o <<m>>
      BY <1>3, <2>1, <2>9, <3>1, <3>2, <3>3 DEF PassedOn
    <3>5. HasOffer(<<m>>, e, d)
      BY <1>2, <2>9 DEF HasOffer
    <3>6. HasOffer(down'[sock[d]], e, d)
      BY <1>2, <2>2, <3>4, <3>5, GuardedCat
    <3> QED
      BY <1>1, <2>6, <3>6 DEF OrderedNext
  <2> QED
    BY <2>7, <2>8, <2>9
<1> QED
  BY <1>6, OrderedAfter

LEMMA NextOfferFirst ==
  ASSUME RelayTypeOK, Silent, RouteOpen, Wiring, Named, OfferFirst, [RelayNext]_relayVars
  PROVE  OfferFirst'
<1>1. ASSUME NEW d \in Identities, DaemonReceives(d) PROVE OfferFirst'
  <2>1. CASE RefuseRelay(d, Head(down[sock[d]]))
    BY <1>1, <2>1, EndOrdered DEF RefuseRelay, DaemonReceives
  <2> QED
    BY <1>1, <2>1, ReceiveOrdered
<1>2. ASSUME NEW d \in Identities, DaemonSeesEnd(d) PROVE OfferFirst'
  BY <1>2, EndOrdered DEF DaemonSeesEnd
<1>3. ASSUME NEW d \in Callers, NEW e \in Identities, SendRequest(d, e) PROVE OfferFirst'
  BY <1>3, RequestOrdered, RelayAssumption
<1>4. ASSUME NEW s \in Sockets, RoomReceives(s) PROVE OfferFirst'
  BY <1>4, RoomJoinOrdered, ForwardOrdered DEF RoomReceives
<1>5. ASSUME UNCHANGED netVars PROVE OfferFirst'
  <2>1. UNCHANGED <<sock, sessions, link, up, down, ended>>
    BY <1>5 DEF netVars
  <2>2. \A d, e \in Identities \ ended' :
          sock'[d] # NoSocket /\ ~sessions'[d][e].known => OrderedNext(d, e)
    BY <2>1 DEF OfferFirst, Ordered, OrderedNext
  <2> QED
    BY <2>2, OrderedAfter
<1> QED
  BY <1>1, <1>2, <1>3, <1>4, <1>5, JoinOrdered, DropOrdered
     DEF RelayNext, DaemonStep, RoomCloses, Pass, relayVars

-----------------------------------------------------------------------------
(* The theorems.                                                           *)

RelayInv == RelayTypeOK /\ RoomInv /\ Wiring /\ Named /\ OfferFirst

LEMMA InitRelayInv == RelayInit => RelayInv
<1> SUFFICES ASSUME RelayInit PROVE RelayInv
  OBVIOUS
<1>1. RelayTypeOK /\ RoomInv
  BY InitRelayType, InitRoomInv DEF RelayInit
<1>2. \A s \in Sockets : up[s] = <<>> /\ down[s] = <<>>
  BY DEF RelayInit
<1>3. \A s \in Sockets : 1 .. Len(up[s]) = {} /\ 1 .. Len(down[s]) = {}
  <2>1. 1 .. Len(<<>>) = {}
    OBVIOUS
  <2> QED
    BY <1>2, <2>1
<1>4. /\ \A d \in Identities : sock[d] = NoSocket /\ \A e \in Identities : ~sessions[d][e].known
      /\ \A s \in Sockets : link[s] = "none" /\ conn[s] = "unborn"
      /\ \A d \in Identities : peers[d].ws = NoSocket
      /\ spoke = {} /\ NoSocket \notin Sockets
  BY RoomAssumption DEF RelayInit, Init, NoPeer
<1>5. Unborn /\ Owner
  BY <1>2, <1>4 DEF Unborn, Owner
<1>6. AtHome /\ JoinFirst
  BY <1>3, <1>4 DEF AtHome, JoinFirst
<1>7. Named
  BY <1>3, <1>4 DEF Named
<1>8. OfferFirst
  BY <1>4 DEF OfferFirst
<1> QED
  BY <1>1, <1>5, <1>6, <1>7, <1>8 DEF RelayInv, Wiring

LEMMA NextRelayInv == RelayInv /\ [RelayNext]_relayVars => RelayInv'
<1> SUFFICES ASSUME RelayInv, [RelayNext]_relayVars PROVE RelayInv'
  OBVIOUS
<1>1. RelayTypeOK /\ RoomInv /\ Silent /\ RouteOpen /\ Wiring /\ Named /\ OfferFirst /\ JoinFirst
  BY DEF RelayInv, RoomInv, Wiring
<1>2. [Next]_vars /\ [NextJoiningOnce]_vars
  BY <1>1, RoomStep DEF relayVars
<1>3. RoomInv'
  BY <1>1, <1>2, NextType, NextOwns, NextRoomInv DEF RoomInv
<1> QED
  BY <1>1, <1>3, NextRelayType, NextWiring, NextNamed, NextOfferFirst DEF RelayInv

(* The daemons join once per WebSocket of their own accord, so the room's  *)
(* routes are right without SingleJoin: every entry of `peers` leads to an *)
(* open connection registered under that identity, however WebSockets      *)
(* break, reconnections race the grace period and close events come late.  *)
THEOREM RelayRouteOpen == RelaySpec => []RouteOpen
<1>1. RelayInv => RouteOpen
  BY DEF RelayInv, RoomInv
<1> QED
  BY InitRelayInv, NextRelayInv, <1>1, PTL DEF RelaySpec

(* With any number of daemons, WebSockets, breaks and requests, a relay    *)
(* meets a daemon that has no session for its sender only if one of the    *)
(* two has lost a WebSocket before.                                        *)
THEOREM NoOrphanRelayHolds == RelaySpec => []NoOrphanRelay
<1>1. RelayInit => NoOrphanRelay
  BY DEF RelayInit, NoOrphanRelay
<1>2. ASSUME RelayInv, NoOrphanRelay, [RelayNext]_relayVars PROVE NoOrphanRelay'
  <2>1. RelayTypeOK /\ Wiring /\ OfferFirst
    BY <1>2 DEF RelayInv
  <2>2. ASSUME NEW d \in Identities, DaemonReceives(d), RefuseRelay(d, Head(down[sock[d]]))
        PROVE  orphaned' = orphaned
    <3> DEFINE m == Head(down[sock[d]])
    <3>1. /\ sock[d] # NoSocket /\ sock[d] \in Sockets
          /\ down[sock[d]] \in Seq(Wire) /\ down[sock[d]] # <<>>
          /\ m = down[sock[d]][1] /\ 1 \in 1 .. Len(down[sock[d]]) /\ m \in Wire
          /\ m.type \in {"request", "response"}
      BY <2>1, <2>2, SockFacts, TailFacts DEF DaemonReceives, RefuseRelay, IsRelay
    <3>2. m.to = d /\ m.from \in Identities
      BY <2>1, <3>1, WireFacts DEF Wiring, Owner, Directs
    <3>3. SUFFICES ASSUME ~sessions[d][m.from].known, {d, m.from} \cap ended = {} PROVE FALSE
      BY <2>2 DEF RefuseRelay
    <3>4. Guarded(down[sock[d]], m.from, d)
      BY <2>1, <3>1, <3>2, <3>3 DEF OfferFirst, Ordered
    <3>5. Relays(m, m.from, d)
      BY <3>1, <3>2 DEF Relays
    <3> QED
      BY <3>1, <3>4, <3>5, GuardedTail
  <2>3. orphaned' = orphaned
    <3>1. ASSUME NEW d \in Identities, DaemonReceives(d) PROVE orphaned' = orphaned
      BY <2>2, <3>1
         DEF DaemonReceives, HandleNews, HandleOffer, HandleAnswer, HandleRelay
    <3>2. ASSUME NEW d \in Identities, Join(d) \/ DaemonSeesEnd(d) PROVE orphaned' = orphaned
      BY <3>2 DEF Join, DaemonSeesEnd
    <3>3. ASSUME NEW s \in Sockets, RoomReceives(s) \/ RoomCloses(s) \/ Drop(s)
          PROVE  orphaned' = orphaned
      BY <3>3 DEF RoomReceives, RoomCloses, Drop, netVars
    <3>4. ASSUME NEW d \in Callers, NEW e \in Identities, SendRequest(d, e)
          PROVE  orphaned' = orphaned
      BY <3>4 DEF SendRequest
    <3> QED
      BY <1>2, <3>1, <3>2, <3>3, <3>4 DEF RelayNext, DaemonStep, Pass, relayVars, netVars
  <2> QED
    BY <1>2, <2>3 DEF NoOrphanRelay
<1> QED
  BY InitRelayInv, NextRelayInv, <1>1, <1>2, PTL DEF RelaySpec

=============================================================================
