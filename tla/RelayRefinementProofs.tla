------------------------ MODULE RelayRefinementProofs -----------------------
(***************************************************************************)
(* RelaySession implements RelayChannel, for any number of peers.  The     *)
(* inductive invariant of RelaySessionProofs supplies what the mapping     *)
(* needs: accepted payloads are older than the one that is accepted next   *)
(* (RxIsLastAccepted and AtMostOnceInOrder) and a session that is not      *)
(* established has numbered nothing (Unused).                              *)
(***************************************************************************)
EXTENDS RelaySessionProofs

LEMMA ContentsAppend ==
  ASSUME NEW s \in Seq(Payloads), NEW m \in Payloads
  PROVE  ContentsOf(Append(s, m)) = Append(ContentsOf(s), Content(m))
<1>1. ContentsOf(s) \in Seq({Content(x) : x \in Payloads}) /\ Len(ContentsOf(s)) = Len(s)
  BY DEF ContentsOf
<1>2. DOMAIN ContentsOf(Append(s, m)) = 1 .. Len(s) + 1
  BY DEF ContentsOf
<1>3. DOMAIN Append(ContentsOf(s), Content(m)) = 1 .. Len(s) + 1
  BY <1>1
<1>4. ASSUME NEW i \in 1 .. Len(s) + 1
      PROVE  ContentsOf(Append(s, m))[i] = Append(ContentsOf(s), Content(m))[i]
  BY <1>1, <1>4 DEF ContentsOf
<1> QED
  BY <1>1, <1>2, <1>3, <1>4 DEF ContentsOf

\* Two tables that agree but for one entry.
LEMMA UpdateOne ==
  ASSUME NEW S, NEW f \in [Peers -> [Peers -> S]], NEW g \in [Peers -> [Peers -> S]],
         NEW p \in Peers, NEW q \in Peers,
         \A a, b \in Peers : a # p \/ b # q => g[a][b] = f[a][b]
  PROVE  g = [f EXCEPT ![p][q] = g[p][q]]
OBVIOUS

\* What one peer has numbered for another changes in one place.
LEMMA NumberStep ==
  ASSUME NEW p \in Peers, NEW q \in Peers,
         \A a, b \in Peers : sessions[a][b].tx \in Nat,
         sessions'[p][q].tx = sessions[p][q].tx + 1,
         \A a, b \in Peers : a # p \/ b # q => sessions'[a][b] = sessions[a][b]
  PROVE  Channel!Number(p, q)
<1> DEFINE f == ContentNumbered
           g == [a \in Peers |-> [b \in Peers |-> sessions'[a][b].tx]]
<1>1. f \in [Peers -> [Peers -> Nat]] /\ f[p][q] = sessions[p][q].tx
  BY DEF ContentNumbered
<1>2. \A a, b \in Peers : g[a][b] = IF a = p /\ b = q THEN f[p][q] + 1 ELSE f[a][b]
  BY DEF ContentNumbered
<1>3. g \in [Peers -> [Peers -> Nat]]
  BY <1>1, <1>2
<1>4. ContentNumbered' = g
  BY DEF ContentNumbered
<1>5. g = [f EXCEPT ![p][q] = g[p][q]] /\ g[p][q] = f[p][q] + 1
  <2> HIDE DEF f, g
  <2> QED BY <1>1, <1>2, <1>3, UpdateOne
<1> QED
  BY <1>4, <1>5 DEF Channel!Number

LEMMA InitMaps == Init => Channel!Init
<1> SUFFICES ASSUME Init PROVE Channel!Init
  OBVIOUS
<1>1. ContentNumbered = [p \in Peers |-> [q \in Peers |-> 0]]
  BY DEF Init, NoSession, ContentNumbered
<1>2. ContentSent = {}
  BY DEF Init, ContentSent
<1>3. ContentDelivered = [p \in Peers |-> [q \in Peers |-> <<>>]]
  BY DEF Init, ContentDelivered, ContentsOf
<1> QED
  BY <1>1, <1>2, <1>3 DEF Channel!Init

\* A handshake is invisible.
LEMMA EstablishMaps ==
  ASSUME Inv, NEW p \in Peers, NEW q \in Peers, Establish(p, q),
         UNCHANGED <<net, accepted>>
  PROVE  UNCHANGED Channel!vars
<1>1. \A a, b \in Peers :
        sessions'[a][b] = IF a = p /\ b = q /\ ~Established(p, q)
                            THEN NewSession(p, q) ELSE sessions[a][b]
  BY EstablishEffect DEF Inv
<1>2. ~Established(p, q) => sessions[p][q].tx = 0
  BY DEF Inv, Unused
<1>3. \A a, b \in Peers : sessions'[a][b].tx = sessions[a][b].tx
  BY <1>1, <1>2, NewSessionType
<1> QED
  BY <1>3 DEF Channel!vars, ContentNumbered, ContentSent, ContentDelivered

LEMMA SendMaps ==
  ASSUME Inv, NEW p \in Peers, NEW q \in Peers, NEW body \in Bodies,
         SendRelay(p, q, body)
  PROVE  Channel!Send(p, q, body)
<1>1. Channel!Number(p, q)
  BY SendEffect, NumberStep, TypeFacts DEF Inv
<1>2. Content(Sealed(p, q, body)) = Channel!Message(p, q, body)
  BY DEF Content, Sealed, Channel!Message, ContentNumbered
<1>3. ContentSent' = ContentSent \cup {Content(Sealed(p, q, body))}
  BY DEF SendRelay, ContentSent, Content
<1>4. UNCHANGED ContentDelivered
  BY DEF SendRelay, ContentDelivered
<1> QED
  BY <1>1, <1>2, <1>3, <1>4 DEF Channel!Send

\* Accepting a payload takes its content from the channel.
LEMMA TakeMaps ==
  ASSUME Inv, NEW p \in Peers, NEW q \in Peers, NEW m \in net, Readable(p, q, m),
         accepted' = [accepted EXCEPT ![p][q] = Append(@, m)]
  PROVE  Channel!Take(p, Content(m)) /\ m.from = q
<1>0. /\ m \in Payloads /\ m.seqno \in Nat /\ sessions[p][q].rx \in Nat
      /\ accepted \in [Peers -> [Peers -> Seq(Payloads)]]
      /\ accepted[p][q] \in Seq(Payloads)
  BY TypeFacts DEF Inv, TypeOK
<1>1. m.from = q /\ m.to = p /\ m.seqno > sessions[p][q].rx
  BY DEF Readable, OpensFor, IsFresh
<1>2. ASSUME NEW i \in DOMAIN accepted[p][q]
      PROVE  accepted[p][q][i].seqno < m.seqno
  <2>1. accepted[p][q] # <<>> /\ Len(accepted[p][q]) \in DOMAIN accepted[p][q]
    BY <1>0, <1>2
  <2>2. sessions[p][q].rx = accepted[p][q][Len(accepted[p][q])].seqno
    BY <2>1 DEF Inv, RxIsLastAccepted
  <2>3. accepted[p][q][i].seqno \in Nat
    BY <1>0, <1>2, TypeFacts DEF Inv, Authentic
  <2>4. accepted[p][q][i].seqno <= sessions[p][q].rx
    <3>1. i \in 1 .. Len(accepted[p][q]) /\ Len(accepted[p][q]) \in Nat
      BY <1>0, <1>2
    <3>2. CASE i = Len(accepted[p][q])
      BY <1>0, <2>2, <3>2
    <3>3. CASE i < Len(accepted[p][q])
      <4>1. accepted[p][q][i].seqno < accepted[p][q][Len(accepted[p][q])].seqno
        BY <1>2, <2>1, <3>3 DEF Inv, AtMostOnceInOrder
      <4> QED
        BY <1>0, <2>2, <2>3, <4>1
    <3> QED
      BY <3>1, <3>2, <3>3
  <2> QED
    BY <1>0, <1>1, <2>3, <2>4
<1>3. ContentDelivered[p][q] = ContentsOf(accepted[p][q])
  BY DEF ContentDelivered
<1>4. \A i \in DOMAIN ContentDelivered[p][q] : ContentDelivered[p][q][i].n < Content(m).n
  BY <1>2, <1>3 DEF ContentsOf, Content
<1>5. ContentDelivered' = [ContentDelivered EXCEPT ![p][q] = Append(@, Content(m))]
  <2>1. accepted'[p][q] = Append(accepted[p][q], m)
    BY <1>0
  <2>2. ContentsOf(accepted'[p][q]) = Append(ContentsOf(accepted[p][q]), Content(m))
    BY <1>0, <2>1, ContentsAppend
  <2>3. \A a, b \in Peers : a # p \/ b # q => accepted'[a][b] = accepted[a][b]
    BY <1>0
  <2>4. ContentDelivered' =
          [a \in Peers |-> [b \in Peers |-> ContentsOf(accepted'[a][b])]]
    BY DEF ContentDelivered, ContentsOf, Content
  <2> DEFINE g == [a \in Peers |-> [b \in Peers |-> ContentsOf(accepted'[a][b])]]
             S == {ContentsOf(s) : s \in Seq(Payloads)}
  <2>5. accepted' \in [Peers -> [Peers -> Seq(Payloads)]]
    BY <1>0
  <2>6. ContentDelivered \in [Peers -> [Peers -> S]] /\ g \in [Peers -> [Peers -> S]]
    BY <1>0, <2>5 DEF ContentDelivered
  <2>7. \A a, b \in Peers : a # p \/ b # q => g[a][b] = ContentDelivered[a][b]
    BY <2>3 DEF ContentDelivered
  <2>8. g[p][q] = Append(ContentDelivered[p][q], Content(m))
    BY <1>3, <2>2
  <2>9. g = [ContentDelivered EXCEPT ![p][q] = g[p][q]]
    <3> HIDE DEF g, S
    <3> QED BY <2>6, <2>7, UpdateOne
  <2> QED
    BY <2>4, <2>8, <2>9
<1> QED
  BY <1>1, <1>4, <1>5 DEF Channel!Take, Content

LEMMA HandleMaps ==
  ASSUME Inv, NEW p \in Peers, NEW q \in Peers, NEW m \in net, NEW sent \in BOOLEAN,
         HandleRelay(p, q, m, sent)
  PROVE  Channel!Next
<1>1. Channel!Take(p, Content(m)) /\ m.from = q /\ Content(m) \in ContentSent
  BY TakeMaps DEF HandleRelay, ContentSent
<1>2. Content(m).from = q
  BY <1>1 DEF Content
<1>3. /\ sessions'[p][q].tx = sessions[p][q].tx + (IF m.body = "request" THEN 1 ELSE 0)
      /\ \A a, b \in Peers : a # p \/ b # q => sessions'[a][b] = sessions[a][b]
      /\ sessions[p][q].tx \in Nat
  BY HandleEffect, TypeFacts DEF Inv
<1>4. CASE m.body # "request"
  <2>1. UNCHANGED ContentNumbered
    BY <1>3, <1>4 DEF ContentNumbered
  <2>2. UNCHANGED ContentSent
    BY <1>4 DEF HandleRelay, ContentSent
  <2> QED
    BY <1>1, <2>1, <2>2 DEF Channel!Next, Channel!Deliver
<1>5. CASE m.body = "request"
  <2>1. Channel!Number(p, Content(m).from)
    BY <1>2, <1>3, <1>5, NumberStep, TypeFacts DEF Inv
  <2>2. CASE ~sent
    <3>1. UNCHANGED ContentSent
      BY <2>2 DEF HandleRelay, ContentSent
    <3> QED
      BY <1>1, <2>1, <3>1 DEF Channel!Next, Channel!DeliverAndLose
  <2>3. CASE sent
    <3>1. Content(Sealed(p, q, "notification")) =
            Channel!Message(p, Content(m).from, "notification")
      BY <1>2 DEF Content, Sealed, Channel!Message, ContentNumbered
    <3>2. ContentSent' = ContentSent \cup {Content(Sealed(p, q, "notification"))}
      BY <1>5, <2>3 DEF HandleRelay, ContentSent, Content
    <3>3. Channel!DeliverAndAnswer(p, Content(m), "notification")
      BY <1>1, <2>1, <3>1, <3>2 DEF Channel!DeliverAndAnswer
    <3>4. "notification" \in Bodies
      BY DEF Bodies
    <3> QED
      BY <1>1, <3>3, <3>4 DEF Channel!Next
  <2> QED
    BY <2>2, <2>3
<1> QED
  BY <1>4, <1>5

(* The sessions implement the channel: whatever the relay between the      *)
(* peers replays, reorders, redirects or loses, and however often links    *)
(* and handshakes repeat, a daemon sees an at-most-once FIFO channel.      *)
THEOREM ImplementsChannelHolds == Spec => ImplementsChannel
<1>1. ASSUME Inv, [Next]_vars PROVE [Channel!Next]_(Channel!vars)
  <2>1. ASSUME NEW p \in Peers, NEW q \in Peers, Establish(p, q), UNCHANGED <<net, accepted>>
        PROVE  UNCHANGED Channel!vars
    BY <1>1, <2>1, EstablishMaps
  <2>2. ASSUME NEW p \in Peers, NEW q \in Peers, NEW body \in Bodies, SendRelay(p, q, body)
        PROVE  Channel!Next
    BY <1>1, <2>2, SendMaps DEF Channel!Next
  <2>3. ASSUME NEW p \in Peers, NEW q \in Peers, NEW m \in net, NEW sent \in BOOLEAN,
               HandleRelay(p, q, m, sent)
        PROVE  Channel!Next
    BY <1>1, <2>3, HandleMaps
  <2>4. ASSUME UNCHANGED <<sessions, net, accepted>> PROVE UNCHANGED Channel!vars
    BY <2>4 DEF Channel!vars, ContentNumbered, ContentSent, ContentDelivered
  <2> QED
    BY <1>1, <2>1, <2>2, <2>3, <2>4
       DEF Next, HandleOffer, HandleAnswer, RefuseRelay, Drop, Reconnect, vars
<1> QED
  BY InvHolds, InitMaps, <1>1, PTL DEF Spec, ImplementsChannel, Channel!Spec

=============================================================================
