---------------------------- MODULE SignalRelay -----------------------------
(***************************************************************************)
(* Daemons and their signalling room together: start_p2p, join_signal_room *)
(* and handle_signal_message of folk-transport/src/lib.rs on one side of   *)
(* the WebSockets, the SignalRoom module on the other.                     *)
(*                                                                         *)
(* The identities of SignalRoom are the daemons.  A WebSocket is reliable  *)
(* and ordered in both directions until it breaks; then each direction     *)
(* loses any part of what was still under way, and each end finds out for  *)
(* itself, at some time.  Replies the daemon ignores ("error",             *)
(* "peer_left") are not put on the wire.  A relay request is the work of   *)
(* an MCP client that uses a daemon's wire format (SendRequest, external). *)
(***************************************************************************)
EXTENDS SignalRoom, FiniteSetsExt, SequencesExt

CONSTANTS
  Callers,      \* the daemons whose sessions an MCP client uses
  Sleep,        \* start_p2p's pause between two connections
  IdleTime,     \* bound of the model: time passes by itself up to here
  MaxTrouble    \* bound of the model: relay requests, and WebSockets that break,
                \* which count twice

\* Identities are strings of 64 hexadecimal digits.
ASSUME RelayAssumption ==
  /\ Sockets \subseteq Nat
  /\ IsFiniteSet(Identities)
  /\ Callers \subseteq Identities
  /\ Sleep \in Nat \ {0}
  /\ IdleTime \in Nat /\ MaxTrouble \in Nat

VARIABLES
  sock,       \* the WebSocket join_signal_room reads, NoSocket while it sleeps
  wake,       \* when the sleep ends, 0 while there is none
  sessions,   \* sessions[d][e]: the entry for e in d's map, [known, rx, tx]
  link,       \* the network under a WebSocket: "none", "up" or "down"
  up,         \* on the way to the room, by WebSocket
  down,       \* on the way to the daemon, by WebSocket
  drops,      \* WebSockets that broke
  requests,   \* relay requests made
  ended,      \* history: daemons that have lost a WebSocket, for whatever reason
  orphaned    \* history: daemons that got a relay without having a session for it,
              \* though neither they nor the sender had lost a WebSocket before

netVars == <<sock, wake, sessions, link, up, down, drops, requests, ended, orphaned>>

relayVars == <<vars, netVars>>

\* On the wire: to the room and on to a peer, or the room's own news.
Directed ==
  [type : {"join", "offer", "answer", "request", "response"},
   from : Identities, to : Identities, n : Nat]

News == [type : {"joined", "peer_joined"}, peers : SUBSET Identities]

RelayTypeOK ==
  /\ TypeOK
  /\ sock \in [Identities -> Sockets \cup {NoSocket}]
  /\ wake \in [Identities -> Nat]
  /\ sessions \in [Identities -> [Identities -> [known : BOOLEAN, rx : Nat, tx : Nat]]]
  /\ link \in [Sockets -> {"none", "up", "down"}]
  /\ up \in [Sockets -> Seq(Directed)]
  /\ down \in [Sockets -> Seq(Directed \cup News)]
  /\ drops \in Nat /\ requests \in Nat
  /\ 2 * drops + requests <= MaxTrouble
  /\ ended \subseteq Identities
  /\ orphaned \subseteq Identities

RelayInit ==
  /\ Init
  /\ sock = [d \in Identities |-> NoSocket]
  /\ wake = [d \in Identities |-> 0]
  /\ sessions = [d \in Identities |-> [e \in Identities |->
                   [known |-> FALSE, rx |-> 0, tx |-> 0]]]
  /\ link = [s \in Sockets |-> "none"]
  /\ up = [s \in Sockets |-> <<>>]
  /\ down = [s \in Sockets |-> <<>>]
  /\ drops = 0 /\ requests = 0
  /\ ended = {} /\ orphaned = {}

Msg(type, from, to, n) == [type |-> type, from |-> from, to |-> to, n |-> n]

-----------------------------------------------------------------------------
(* The daemon.                                                             *)

\* start_p2p after its sleep: connect, and send "join".
Join(d) ==
  LET s == Min({t \in Sockets : conn[t] = "unborn"})
  IN  /\ sock[d] = NoSocket /\ now >= wake[d]
      /\ \E t \in Sockets : conn[t] = "unborn"
      /\ Connect(s)
      /\ sock' = [sock EXCEPT ![d] = s]
      /\ link' = [link EXCEPT ![s] = "up"]
      /\ up' = [up EXCEPT ![s] = <<Msg("join", d, d, 0)>>]
      /\ wake' = [wake EXCEPT ![d] = 0]
      /\ UNCHANGED <<sessions, down, drops, requests, ended, orphaned>>

\* What d has written, if there still is a network to carry it.
Sent(s, ms) == up' = IF link[s] = "up" THEN [up EXCEPT ![s] = @ \o ms] ELSE up

\* join_signal_room returns: the WebSocket is dropped and start_p2p sleeps.
EndLink(d) ==
  /\ sock' = [sock EXCEPT ![d] = NoSocket]
  /\ wake' = [wake EXCEPT ![d] = now + Sleep]
  /\ link' = [link EXCEPT ![sock[d]] = "down"]
  /\ down' = [down EXCEPT ![sock[d]] = <<>>]
  /\ ended' = ended \cup {d}

Receive(d) ==
  /\ down' = [down EXCEPT ![sock[d]] = Tail(@)]
  /\ UNCHANGED <<sock, wake, link, ended>>

\* Mutant of HandleNews: the newcomer is trusted to make the offer.
HandleNewsEarly(d, m) ==
  /\ m.type \in {"joined", "peer_joined"}
  /\ sessions' = [sessions EXCEPT ![d] = [e \in Identities |->
                    IF m.type = "peer_joined" /\ e \in m.peers THEN [@[e] EXCEPT !.known = TRUE] ELSE @[e]]]
  /\ Sent(sock[d], IF m.type = "peer_joined" THEN <<>>
       ELSE [i \in 1 .. Cardinality(m.peers) |-> Msg("offer", d, SetToSeq(m.peers)[i], 0)])
  /\ Receive(d)
  /\ UNCHANGED orphaned

\* "joined" and "peer_joined": an offer to every peer they name.
HandleNews(d, m) ==
  /\ m.type \in {"joined", "peer_joined"}
  /\ Sent(sock[d], [i \in 1 .. Cardinality(m.peers) |->
                      Msg("offer", d, SetToSeq(m.peers)[i], 0)])
  /\ Receive(d)
  /\ UNCHANGED <<sessions, orphaned>>

\* establish_session: an entry that exists is kept.
Establish(d, e) == sessions' = [sessions EXCEPT ![d][e].known = TRUE]

\* "offer": establish, then answer.
HandleOffer(d, m) ==
  /\ m.type = "offer"
  /\ Establish(d, m.from)
  /\ Sent(sock[d], <<Msg("answer", d, m.from, 0)>>)
  /\ Receive(d)
  /\ UNCHANGED orphaned

HandleAnswer(d, m) ==
  /\ m.type = "answer"
  /\ Establish(d, m.from)
  /\ Receive(d)
  /\ UNCHANGED <<up, orphaned>>

IsRelay(m) == m.type \in {"request", "response"}

Fresh(d, m) == sessions[d][m.from].known /\ m.n > sessions[d][m.from].rx

\* "relay" that decrypt_relay_data accepts: a request is answered.
HandleRelay(d, m) ==
  LET e == m.from
      answers == m.type = "request"
  IN  /\ IsRelay(m) /\ Fresh(d, m)
      /\ sessions' = [sessions EXCEPT ![d][e].rx = m.n,
                                     ![d][e].tx = IF answers THEN @ + 1 ELSE @]
      /\ IF answers THEN Sent(sock[d], <<Msg("response", d, e, sessions[d][e].tx)>>)
                    ELSE UNCHANGED up
      /\ Receive(d)
      /\ UNCHANGED orphaned

\* "relay" without a session, or one that is no newer than the last: an error
\* that ends join_signal_room.
RefuseRelay(d, m) ==
  /\ IsRelay(m) /\ ~Fresh(d, m)
  /\ EndLink(d)
  /\ orphaned' = IF sessions[d][m.from].known \/ {d, m.from} \cap ended # {}
                    THEN orphaned ELSE orphaned \cup {d}
  /\ UNCHANGED <<up, sessions>>

\* One turn of join_signal_room's loop.
DaemonReceives(d) ==
  /\ sock[d] # NoSocket
  /\ down[sock[d]] # <<>>
  /\ LET m == Head(down[sock[d]])
     IN  HandleNews(d, m) \/ HandleOffer(d, m) \/ HandleAnswer(d, m)
           \/ HandleRelay(d, m) \/ RefuseRelay(d, m)
  /\ UNCHANGED <<vars, drops, requests>>

\* read fails, or returns the room's Close message.
Ended(s) == link[s] = "down" \/ conn[s] # "open"

\* Everything that arrived is read and the WebSocket is closed or broken.
DaemonSeesEnd(d) ==
  /\ sock[d] # NoSocket
  /\ down[sock[d]] = <<>>
  /\ Ended(sock[d])
  /\ EndLink(d)
  /\ UNCHANGED <<vars, up, sessions, drops, requests, orphaned>>

\* External: a client has d's session with e and sends a request over it.
SendRequest(d, e) ==
  /\ 2 * drops + requests < MaxTrouble
  /\ sock[d] # NoSocket /\ sessions[d][e].known
  /\ Sent(sock[d], <<Msg("request", d, e, sessions[d][e].tx)>>)
  /\ sessions' = [sessions EXCEPT ![d][e].tx = @ + 1]
  /\ requests' = requests + 1
  /\ UNCHANGED <<vars, sock, wake, link, down, drops, ended, orphaned>>

-----------------------------------------------------------------------------
(* The room.                                                               *)

\* down after m was sent on the WebSockets ts.
Posted(q, ts, m) ==
  [t \in Sockets |-> IF t \in ts /\ link[t] = "up" THEN Append(q[t], m) ELSE q[t]]

\* The only ones a broadcast can reach.
OpenSockets == {t \in Sockets : conn[t] = "open"}

\* "join".
RoomJoin(s, m) ==
  /\ m.type = "join"
  /\ \/ RejectJoin(s, m.from) /\ UNCHANGED down
     \/ \E reached \in SUBSET OpenSockets :
          /\ AcceptJoin(s, m.from, reached)
          /\ down' = Posted(Posted(down, {s}, [type |-> "joined", peers |-> roster'[s]]),
                            reached, [type |-> "peer_joined", peers |-> {m.from}])

\* The target's WebSocket, if the room would send to it.
Targets(m) == {peers[m.to].ws} \ {NoSocket}

\* "offer", "answer".
RoomForward(s, m) ==
  /\ m.type \in {"offer", "answer"}
  /\ down' = IF sockets[s] = m.from THEN Posted(down, Targets(m), m) ELSE down
  /\ UNCHANGED vars

\* "relay".
RoomRelay(s, m) ==
  /\ IsRelay(m)
  /\ IF sockets[s] = m.from
     THEN /\ Relay(s)
          /\ down' = IF WithinLimit(Counted(m.from))
                       THEN Posted(down, Targets(m), m) ELSE down
     ELSE UNCHANGED <<vars, down>>

\* The message event.
RoomReceives(s) ==
  /\ Live(s) /\ up[s] # <<>>
  /\ up' = [up EXCEPT ![s] = Tail(@)]
  /\ RoomJoin(s, Head(up[s])) \/ RoomForward(s, Head(up[s])) \/ RoomRelay(s, Head(up[s]))
  /\ UNCHANGED <<sock, wake, sessions, link, drops, requests, ended, orphaned>>

\* The close event comes after everything that arrived.
RoomCloses(s) ==
  /\ Live(s) /\ link[s] = "down" /\ up[s] = <<>>
  /\ \E reached \in SUBSET OpenSockets, thrown \in BOOLEAN : Close(s, reached, thrown)
  /\ UNCHANGED netVars

-----------------------------------------------------------------------------
(* Network and time.                                                       *)

\* External: the WebSocket breaks.
Drop(s) ==
  /\ link[s] = "up" /\ 2 * drops + requests + 1 < MaxTrouble
  /\ link' = [link EXCEPT ![s] = "down"]
  /\ \E i \in 0 .. Len(up[s]) : up' = [up EXCEPT ![s] = SubSeq(@, 1, i)]
  /\ \E i \in 0 .. Len(down[s]) : down' = [down EXCEPT ![s] = SubSeq(@, 1, i)]
  /\ drops' = drops + 1
  /\ UNCHANGED <<vars, sock, wake, sessions, requests, ended, orphaned>>

\* Time passes while a daemon sleeps, and for a while before.
Pass ==
  /\ now < IdleTime \/ \E d \in Identities : sock[d] = NoSocket /\ now < wake[d]
  /\ Tick
  /\ UNCHANGED netVars

(* The network under d's WebSocket is gone and d does not know.            *)
(* join_signal_room reads without a timeout, sends no pings and sets no    *)
(* keepalive, so the read may block for ever: DaemonSeesEnd may follow,    *)
(* but nothing in the code makes it.                                       *)
HalfOpen(d) == sock[d] # NoSocket /\ link[sock[d]] = "down"

\* What the P2P thread of d does next.
DaemonStep(d) == Join(d) \/ DaemonReceives(d) \/ DaemonSeesEnd(d)

RelayNext ==
  \/ \E d \in Identities : DaemonStep(d)
  \/ \E d \in Callers, e \in Identities : SendRequest(d, e)
  \/ \E s \in Sockets : RoomReceives(s) \/ RoomCloses(s) \/ Drop(s)
  \/ Pass

\* A thread that is not blocked, the room's event loop or the clock moves on.
Progress ==
  \/ \E d \in Identities : Join(d) \/ DaemonReceives(d) \/ (~HalfOpen(d) /\ DaemonSeesEnd(d))
  \/ \E s \in Sockets : RoomReceives(s)
  \/ Pass

(* As long as one of them can move, one does: less than every thread's     *)
(* being scheduled, and all that is needed.  Nothing is assumed about when *)
(* either end learns that a WebSocket broke.                               *)
Fairness == WF_relayVars(Progress)

RelaySpec == RelayInit /\ [][RelayNext]_relayVars /\ Fairness

-----------------------------------------------------------------------------
(* Properties.                                                             *)

(* A relay meets a daemon without a session for its sender (and costs the  *)
(* daemon its WebSocket) only if one of the two has lost a WebSocket       *)
(* before: as long as neither has, the message that establishes the        *)
(* session arrives first, whichever of the crossing offers and answers it  *)
(* is.                                                                     *)
NoOrphanRelay == orphaned = {}

\* d is in the room under its present WebSocket.
InRoom(d) == sock[d] # NoSocket /\ link[sock[d]] = "up" /\ peers[d].ws = sock[d]

\* Everybody is in the room and has a session with everybody else.
Connected ==
  \A d \in Identities :
    InRoom(d) /\ \A e \in Identities \ {d} : sessions[d][e].known

(* However WebSockets break, relays are refused and reconnections run into *)
(* the grace period of their own old connection: once WebSockets stop      *)
(* breaking and nobody sends any more, all daemons end up in the room with *)
(* sessions for each other, and stay.  This assumes that no daemon stays   *)
(* half-open for ever: the operating system has to fail the read, for the  *)
(* code never gives up on it.                                              *)
Converges == (\A d \in Identities : []<>~HalfOpen(d)) => <>[]Connected

=============================================================================
