---------------------------- MODULE RelaySession ----------------------------
(***************************************************************************)
(* The encrypted relay sessions of P2PManager (folk-transport/src/lib.rs). *)
(*                                                                         *)
(* A peer is one run of the daemon, or of a client that speaks its wire    *)
(* format: the identity is made by P2PManager::new, so a restarted daemon  *)
(* is another peer.  Public keys are numbers because establish_session     *)
(* orders them.  The relay between the peers is not trusted with anything: *)
(* whatever was sent may be delivered late, out of order, again, to the    *)
(* wrong peer or under another sender's name.  An error in a handler ends  *)
(* join_signal_room and drops the link; start_p2p then connects again with *)
(* the same manager, so the sessions outlive the link.                     *)
(***************************************************************************)
EXTENDS Integers, Sequences

CONSTANTS
  Peers,      \* public keys
  NoKey,      \* no entry in `sessions`
  MaxSeqno    \* bound of the model: messages one peer encrypts for another

ASSUME SessionAssumption ==
  /\ Peers \subseteq Nat
  /\ NoKey \notin [shared : SUBSET Peers, salt : Peers \X Peers]
  /\ MaxSeqno \in Nat

VARIABLES
  sessions,   \* sessions[p][q]: the entry for q in p's map `sessions`
  link,       \* "up" while p reads its WebSocket, "down" while start_p2p sleeps
  net,        \* every encrypted payload a peer has put on the wire
  accepted    \* history: accepted[p][q], payloads p took from q past the seqno check

vars == <<sessions, link, net, accepted>>

\* What the plaintext is to handle_message: answered, not answered, or no JSON.
Bodies == {"request", "notification", "garbage"}

Keys == [shared : SUBSET Peers, salt : Peers \X Peers]

\* An AEAD box: who may open it, its associated data and what is sealed in it.
Payloads ==
  [key : Keys, from : Peers, to : Peers, seqno : Nat, body : Bodies]

TypeOK ==
  /\ sessions \in [Peers -> [Peers -> [key : Keys \cup {NoKey}, rx : Nat, tx : Nat]]]
  /\ link \in [Peers -> {"up", "down"}]
  /\ net \in SUBSET Payloads
  /\ accepted \in [Peers -> [Peers -> Seq(Payloads)]]

NoSession == [key |-> NoKey, rx |-> 0, tx |-> 0]

Init ==
  /\ sessions = [p \in Peers |-> [q \in Peers |-> NoSession]]
  /\ link = [p \in Peers |-> "down"]
  /\ net = {}
  /\ accepted = [p \in Peers |-> [q \in Peers |-> <<>>]]

\* Mutant of Established: a missing entry is made up on the way, with a default key.
EstablishedByDefault(p, q) == TRUE

\* `sessions` has an entry; without one the code returns HandshakeRequired.
Established(p, q) == sessions[p][q].key # NoKey

-----------------------------------------------------------------------------
(* establish_session.                                                      *)

\* Mutant of Salt: own key first on both sides.
OwnFirstSalt(p, q) == <<p, q>>

\* The smaller public key comes first, so both ends get one salt.
Salt(p, q) == IF p < q THEN <<p, q>> ELSE <<q, p>>

\* X25519 gives both ends one shared secret; HKDF is injective on its inputs.
NewSession(p, q) ==
  [key |-> [shared |-> {p, q}, salt |-> Salt(p, q)], rx |-> 0, tx |-> 0]

\* Mutant of OrInsert: `sessions.insert`, counters start again on every handshake.
Insert(p, q) == NewSession(p, q)

\* `entry(peer).or_insert(...)`: a repeated handshake keeps key and counters.
OrInsert(p, q) == IF Established(p, q) THEN sessions[p][q] ELSE NewSession(p, q)

Establish(p, q) == sessions' = [sessions EXCEPT ![p][q] = OrInsert(p, q)]

(* "offer": establish the session, then send the answer, which may fail.   *)
(* p # q because nobody offers to itself: the code does not look, but the  *)
(* room never announces a peer to itself.                                  *)
HandleOffer(p, q, sent) ==
  /\ p # q /\ link[p] = "up"
  /\ Establish(p, q)
  /\ link' = [link EXCEPT ![p] = IF sent THEN "up" ELSE "down"]
  /\ UNCHANGED <<net, accepted>>

\* "answer", sent only for an offer.
HandleAnswer(p, q) ==
  /\ p # q /\ link[p] = "up"
  /\ Establish(p, q)
  /\ UNCHANGED <<link, net, accepted>>

-----------------------------------------------------------------------------
(* encrypt_relay_payload and decrypt_relay_data.                           *)

\* The payload p seals for q with its next seqno.
Sealed(p, q, body) ==
  [key |-> sessions[p][q].key, from |-> p, to |-> q,
   seqno |-> sessions[p][q].tx, body |-> body]

\* Mutant of OpensFor: no associated data.
OpensWithoutAd(p, q, m) == m.key = sessions[p][q].key

\* The box opens with p's key for q and names q as its sender and p as its target.
OpensFor(p, q, m) ==
  /\ m.key = sessions[p][q].key
  /\ m.from = q /\ m.to = p

\* Mutant of IsFresh: `<` instead of `<=` in the code's refusal.
IsFreshOrEqual(p, q, m) == m.seqno >= sessions[p][q].rx

IsFresh(p, q, m) == m.seqno > sessions[p][q].rx

Readable(p, q, m) == Established(p, q) /\ OpensFor(p, q, m) /\ IsFresh(p, q, m)

-----------------------------------------------------------------------------
(* The relay.                                                              *)

\* A client's request or notification, encrypted as encrypt_relay_payload does.
SendRelay(p, q, body) ==
  /\ link[p] = "up" /\ Established(p, q) /\ sessions[p][q].tx < MaxSeqno
  /\ net' = net \cup {Sealed(p, q, body)}
  /\ sessions' = [sessions EXCEPT ![p][q] =
                    [key |-> sessions[p][q].key, rx |-> sessions[p][q].rx,
                     tx |-> sessions[p][q].tx + 1]]
  /\ UNCHANGED <<link, accepted>>

\* handle_relay for a payload p cannot open for q, or has seen: Err, link dropped.
RefuseRelay(p, q, m) ==
  /\ link[p] = "up"
  /\ ~Readable(p, q, m)
  /\ link' = [link EXCEPT ![p] = "down"]
  /\ UNCHANGED <<sessions, net, accepted>>

\* Mutant of Advanced: counts the payloads instead of taking over their seqno.
CountedUp(p, q, m) == sessions[p][q].rx + 1

\* `session.rx_seqno = seqno`.
Advanced(p, q, m) == m.seqno

(* handle_relay for a readable payload: rx_seqno is set first, then the    *)
(* text is parsed and executed, and the answer of a request is encrypted   *)
(* and sent.  Bytes that are no JSON, or a send that fails, drop the link; *)
(* the counters stay advanced.                                             *)
HandleRelay(p, q, m, sent) ==
  LET answers == m.body = "request"
  IN  /\ link[p] = "up"
      /\ Readable(p, q, m)
      /\ answers => sessions[p][q].tx < MaxSeqno
      /\ sessions' = [sessions EXCEPT ![p][q] =
                        [key |-> sessions[p][q].key, rx |-> Advanced(p, q, m),
                         tx |-> sessions[p][q].tx + (IF answers THEN 1 ELSE 0)]]
      /\ net' = IF answers /\ sent
                  THEN net \cup {Sealed(p, q, "notification")} ELSE net
      /\ link' = [link EXCEPT ![p] =
                    IF m.body = "garbage" \/ (answers /\ ~sent) THEN "down" ELSE "up"]
      /\ accepted' = [accepted EXCEPT ![p][q] = Append(@, m)]

\* The socket fails while join_signal_room reads it.
Drop(p) ==
  /\ link[p] = "up"
  /\ link' = [link EXCEPT ![p] = "down"]
  /\ UNCHANGED <<sessions, net, accepted>>

\* start_p2p after its sleep: the same manager joins again.
Reconnect(p) ==
  /\ link[p] = "down"
  /\ link' = [link EXCEPT ![p] = "up"]
  /\ UNCHANGED <<sessions, net, accepted>>

Next ==
  \/ \E p, q \in Peers, sent \in BOOLEAN : HandleOffer(p, q, sent)
  \/ \E p, q \in Peers : HandleAnswer(p, q)
  \/ \E p, q \in Peers, body \in Bodies : SendRelay(p, q, body)
  \/ \E p, q \in Peers, m \in net : RefuseRelay(p, q, m)
  \/ \E p, q \in Peers, m \in net, sent \in BOOLEAN : HandleRelay(p, q, m, sent)
  \/ \E p \in Peers : Drop(p) \/ Reconnect(p)

Spec == Init /\ [][Next]_vars

-----------------------------------------------------------------------------
(* Properties.                                                             *)

(* No request is executed twice and none after a later one: the seqnos p   *)
(* accepts from q increase strictly, across duplicates, reordering, link   *)
(* drops and repeated handshakes.                                          *)
AtMostOnceInOrder ==
  \A p, q \in Peers : \A i, j \in DOMAIN accepted[p][q] :
    i < j => accepted[p][q][i].seqno < accepted[p][q][j].seqno

(* What p accepts as coming from q was sealed by q for p: a payload of p's *)
(* own, though sealed with the same key, is not accepted back, nor is one  *)
(* that was meant for another peer.                                        *)
Authentic ==
  \A p, q \in Peers : \A i \in DOMAIN accepted[p][q] :
    /\ accepted[p][q][i] \in net
    /\ accepted[p][q][i].from = q /\ accepted[p][q][i].to = p

(* Two payloads from one peer to another never carry one seqno, so none    *)
(* is refused because another took its number: the counter survives a      *)
(* failed send, a lost link and a repeated handshake.                      *)
UniqueSeqno ==
  \A m, n \in net : m.from = n.from /\ m.to = n.to /\ m.seqno = n.seqno => m = n

\* Two peers that have established their sessions can open each other's payloads.
KeyAgreement ==
  \A p, q \in Peers :
    Established(p, q) /\ Established(q, p) => sessions[p][q].key = sessions[q][p].key

(* rx_seqno is the seqno of the last payload accepted, or 0 before the     *)
(* first, and moves for nothing else: a payload that does not open, a link *)
(* drop or a handshake must not make later ones stale.                     *)
RxIsLastAccepted ==
  \A p, q \in Peers :
    sessions[p][q].rx = IF accepted[p][q] = <<>> THEN 0
                        ELSE accepted[p][q][Len(accepted[p][q])].seqno

\* What a step may do to the sessions that exist.
CounterStep ==
  \A p, q \in Peers :
    /\ sessions'[p][q].tx >= sessions[p][q].tx
    /\ sessions'[p][q].rx >= sessions[p][q].rx
    /\ Established(p, q) => sessions'[p][q].key = sessions[p][q].key

(* Neither counter of a session ever goes back and its key never changes,  *)
(* though handshakes and connections repeat.                               *)
CountersMonotone == [][CounterStep]_vars

(* encrypt_relay_payload's comment (lib.rs:650) says the "seqno prefix     *)
(* prevents replay": a payload that opens and is newer than all that were  *)
(* accepted from its sender is no replay and passes the check.             *)
RefusesOnlyReplays ==
  \A p, q \in Peers : \A m \in net :
    /\ Established(p, q) /\ OpensFor(p, q, m)
    /\ \A i \in DOMAIN accepted[p][q] : accepted[p][q][i].seqno < m.seqno
    => IsFresh(p, q, m)

-----------------------------------------------------------------------------
(* The sessions as channels.                                               *)

\* What a payload says once keys and ciphertext are forgotten.
Content(m) == [from |-> m.from, to |-> m.to, n |-> m.seqno, body |-> m.body]

ContentNumbered == [p \in Peers |-> [q \in Peers |-> sessions[p][q].tx]]

ContentSent == {Content(m) : m \in net}

ContentsOf(s) == [i \in DOMAIN s |-> Content(s[i])]

ContentDelivered == [p \in Peers |-> [q \in Peers |-> ContentsOf(accepted[p][q])]]

Channel == INSTANCE RelayChannel WITH
  next <- ContentNumbered, sent <- ContentSent, delivered <- ContentDelivered

(* The sessions implement a channel that loses messages and does nothing   *)
(* worse: whatever the relay replays, reorders or redirects, and however   *)
(* often links drop and handshakes repeat, every step of a daemon is a     *)
(* send or an in-order delivery of the abstract channel, or invisible.     *)
ImplementsChannel == Channel!Spec

=============================================================================
