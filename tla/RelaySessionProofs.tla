------------------------- MODULE RelaySessionProofs -------------------------
(***************************************************************************)
(* Proofs about the relay sessions, for any number of peers and payloads.  *)
(* The inductive invariant adds three facts to the properties: a session's   *)
(* key is the one establish_session derives (KeyShape), and every seqno on *)
(* the wire is below its sender's counter (SeqnoBelowTx), which is 0 as    *)
(* long as there is no session (Unused).                                   *)
(***************************************************************************)
EXTENDS RelaySession, TLAPS

\* The key of an established session is determined by the two public keys.
KeyShape ==
  \A p, q \in Peers : Established(p, q) => sessions[p][q].key = NewSession(p, q).key

\* A session that is not established has not counted anything.
Unused ==
  \A p, q \in Peers :
    ~Established(p, q) => sessions[p][q].rx = 0 /\ sessions[p][q].tx = 0

\* A seqno that has been used is never the next one.
SeqnoBelowTx == \A m \in net : m.seqno < sessions[m.from][m.to].tx

Inv ==
  /\ TypeOK
  /\ Unused
  /\ KeyShape
  /\ SeqnoBelowTx
  /\ UniqueSeqno
  /\ Authentic
  /\ RxIsLastAccepted
  /\ AtMostOnceInOrder

\* The entries of `sessions`, as one set.
Entries == [key : Keys \cup {NoKey}, rx : Nat, tx : Nat]

\* The type invariant, taken apart for the steps below.
LEMMA TypeFacts ==
  ASSUME TypeOK
  PROVE  /\ sessions \in [Peers -> [Peers -> Entries]]
         /\ \A p, q \in Peers : sessions[p][q].rx \in Nat /\ sessions[p][q].tx \in Nat
         /\ \A m \in net : /\ m \in Payloads /\ m.from \in Peers /\ m.to \in Peers
                           /\ m.seqno \in Nat
         /\ \A p, q \in Peers : accepted[p][q] \in Seq(Payloads)
<1>1. /\ sessions \in [Peers -> [Peers -> Entries]]
      /\ net \in SUBSET Payloads
      /\ \A p, q \in Peers : accepted[p][q] \in Seq(Payloads)
  BY DEF TypeOK, Entries
<1>2. \A m \in Payloads : m.from \in Peers /\ m.to \in Peers /\ m.seqno \in Nat
  BY DEF Payloads
<1>3. \A e \in Entries : e.rx \in Nat /\ e.tx \in Nat
  BY DEF Entries
<1>4. \A p, q \in Peers : sessions[p][q] \in Entries
  BY <1>1
<1> QED
  BY <1>1, <1>2, <1>3, <1>4

-----------------------------------------------------------------------------
(* What the actions do to the sessions.                                    *)

LEMMA NewSessionType ==
  ASSUME NEW p \in Peers, NEW q \in Peers
  PROVE  /\ NewSession(p, q) \in [key : Keys \cup {NoKey}, rx : Nat, tx : Nat]
         /\ NewSession(p, q).key \in Keys
         /\ NewSession(p, q).rx = 0 /\ NewSession(p, q).tx = 0
BY DEF NewSession, Salt, Keys

LEMMA KeySymmetric ==
  ASSUME NEW p \in Peers, NEW q \in Peers
  PROVE  NewSession(p, q).key = NewSession(q, p).key
BY SessionAssumption DEF NewSession, Salt

\* A handshake leaves every established session as it is.
LEMMA EstablishEffect ==
  ASSUME TypeOK, NEW p \in Peers, NEW q \in Peers, Establish(p, q)
  PROVE  /\ sessions' \in [Peers -> [Peers -> [key : Keys \cup {NoKey}, rx : Nat, tx : Nat]]]
         /\ \A a, b \in Peers :
              sessions'[a][b] = IF a = p /\ b = q /\ ~Established(p, q)
                                  THEN NewSession(p, q) ELSE sessions[a][b]
<1>1. OrInsert(p, q) \in [key : Keys \cup {NoKey}, rx : Nat, tx : Nat]
  BY NewSessionType DEF TypeOK, OrInsert
<1> QED
  BY <1>1 DEF TypeOK, Establish, OrInsert

LEMMA SealedType ==
  ASSUME TypeOK, NEW p \in Peers, NEW q \in Peers, Established(p, q), NEW body \in Bodies
  PROVE  Sealed(p, q, body) \in Payloads
BY DEF TypeOK, Established, Sealed, Payloads

LEMMA ReplaceEntry ==
  ASSUME NEW f \in [Peers -> [Peers -> Entries]], NEW p \in Peers, NEW q \in Peers,
         NEW e \in Entries, NEW g, g = [f EXCEPT ![p][q] = e]
  PROVE  /\ g \in [Peers -> [Peers -> Entries]]
         /\ g[p][q] = e
         /\ \A a, b \in Peers : a # p \/ b # q => g[a][b] = f[a][b]
OBVIOUS

LEMMA SendEffect ==
  ASSUME TypeOK, NEW p \in Peers, NEW q \in Peers, NEW body \in Bodies,
         SendRelay(p, q, body)
  PROVE  /\ sessions' \in [Peers -> [Peers -> Entries]]
         /\ sessions'[p][q].key = sessions[p][q].key
         /\ sessions'[p][q].rx = sessions[p][q].rx
         /\ sessions'[p][q].tx = sessions[p][q].tx + 1
         /\ \A a, b \in Peers : a # p \/ b # q => sessions'[a][b] = sessions[a][b]
<1> DEFINE new == [key |-> sessions[p][q].key, rx |-> sessions[p][q].rx,
                   tx |-> sessions[p][q].tx + 1]
<1>1. new \in Entries /\ sessions \in [Peers -> [Peers -> Entries]]
  BY DEF TypeOK, Entries
<1>2. sessions' = [sessions EXCEPT ![p][q] = new]
  BY DEF SendRelay
<1>3. /\ sessions' \in [Peers -> [Peers -> Entries]]
      /\ sessions'[p][q] = new
      /\ \A a, b \in Peers : a # p \/ b # q => sessions'[a][b] = sessions[a][b]
  <2> HIDE DEF new
  <2> QED BY <1>1, <1>2, ReplaceEntry
<1> QED
  BY <1>3

LEMMA HandleEffect ==
  ASSUME TypeOK, NEW p \in Peers, NEW q \in Peers, NEW m \in net, NEW sent \in BOOLEAN,
         HandleRelay(p, q, m, sent)
  PROVE  /\ sessions' \in [Peers -> [Peers -> Entries]]
         /\ sessions'[p][q].key = sessions[p][q].key
         /\ sessions'[p][q].rx = m.seqno
         /\ sessions'[p][q].tx =
              sessions[p][q].tx + (IF m.body = "request" THEN 1 ELSE 0)
         /\ \A a, b \in Peers : a # p \/ b # q => sessions'[a][b] = sessions[a][b]
<1> DEFINE new == [key |-> sessions[p][q].key, rx |-> m.seqno,
                   tx |-> sessions[p][q].tx + (IF m.body = "request" THEN 1 ELSE 0)]
<1>1. new \in Entries /\ sessions \in [Peers -> [Peers -> Entries]]
  BY TypeFacts DEF Entries
<1>2. sessions' = [sessions EXCEPT ![p][q] = new]
  BY DEF HandleRelay, Advanced
<1>3. /\ sessions' \in [Peers -> [Peers -> Entries]]
      /\ sessions'[p][q] = new
      /\ \A a, b \in Peers : a # p \/ b # q => sessions'[a][b] = sessions[a][b]
  <2> HIDE DEF new
  <2> QED BY <1>1, <1>2, ReplaceEntry
<1> QED
  BY <1>3

-----------------------------------------------------------------------------
LEMMA InitInv == Init => Inv
<1> SUFFICES ASSUME Init PROVE Inv
  OBVIOUS
<1>1. TypeOK
  BY DEF Init, TypeOK, NoSession
<1> QED
  BY <1>1 DEF Init, Inv, Unused, KeyShape, SeqnoBelowTx, UniqueSeqno, Authentic,
              RxIsLastAccepted, AtMostOnceInOrder, Established, NoSession

\* offer and answer: only a session that did not exist changes.
LEMMA EstablishInv ==
  ASSUME Inv, NEW p \in Peers, NEW q \in Peers, Establish(p, q),
         UNCHANGED <<net, accepted>>, link' \in [Peers -> {"up", "down"}]
  PROVE  Inv'
<1>0. /\ \A a, b \in Peers : sessions[a][b].rx \in Nat /\ sessions[a][b].tx \in Nat
      /\ \A n \in net : n.from \in Peers /\ n.to \in Peers /\ n.seqno \in Nat
  BY TypeFacts DEF Inv
<1>1. /\ sessions' \in [Peers -> [Peers -> [key : Keys \cup {NoKey}, rx : Nat, tx : Nat]]]
      /\ \A a, b \in Peers :
           sessions'[a][b] = IF a = p /\ b = q /\ ~Established(p, q)
                               THEN NewSession(p, q) ELSE sessions[a][b]
  BY EstablishEffect DEF Inv
<1>2. \A a, b \in Peers : sessions'[a][b].rx = sessions[a][b].rx
                          /\ sessions'[a][b].tx = sessions[a][b].tx
  <2>1. CASE Established(p, q)
    BY <1>1, <2>1
  <2>2. CASE ~Established(p, q)
    <3>1. /\ sessions'[p][q].rx = 0 /\ sessions'[p][q].tx = 0
          /\ sessions[p][q].rx = 0 /\ sessions[p][q].tx = 0
      BY <1>1, <2>2, NewSessionType DEF Inv, Unused
    <3> QED
      BY <1>1, <3>1
  <2> QED
    BY <2>1, <2>2
<1>3. TypeOK'
  BY <1>1 DEF Inv, TypeOK
<1>4. Unused'
  <2>1. \A a, b \in Peers : ~Established(a, b)' => ~Established(a, b)
    <3>1. NewSession(p, q).key # NoKey
      BY NewSessionType, SessionAssumption DEF Keys
    <3> QED
      BY <1>1, <3>1 DEF Established
  <2> QED
    BY <1>2, <2>1 DEF Inv, Unused
<1>5. KeyShape'
  BY <1>1, ZenonT(30) DEF Inv, KeyShape, Established
<1>6. SeqnoBelowTx'
  BY <1>2, <1>0 DEF Inv, SeqnoBelowTx
<1>7. RxIsLastAccepted'
  BY <1>2 DEF Inv, RxIsLastAccepted
<1> QED
  BY <1>3, <1>4, <1>5, <1>6, <1>7 DEF Inv, UniqueSeqno, Authentic, AtMostOnceInOrder

LEMMA SendInv ==
  ASSUME Inv, NEW p \in Peers, NEW q \in Peers, NEW body \in Bodies,
         SendRelay(p, q, body)
  PROVE  Inv'
<1> DEFINE new == Sealed(p, q, body)
<1>0. /\ \A a, b \in Peers : sessions[a][b].rx \in Nat /\ sessions[a][b].tx \in Nat
      /\ \A n \in net : n.from \in Peers /\ n.to \in Peers /\ n.seqno \in Nat
  BY TypeFacts DEF Inv
<1>1. /\ sessions' \in [Peers -> [Peers -> Entries]]
      /\ sessions'[p][q].key = sessions[p][q].key
      /\ sessions'[p][q].rx = sessions[p][q].rx
      /\ sessions'[p][q].tx = sessions[p][q].tx + 1
      /\ \A a, b \in Peers : a # p \/ b # q => sessions'[a][b] = sessions[a][b]
  BY SendEffect DEF Inv
<1>2. /\ net' = net \cup {new} /\ UNCHANGED <<link, accepted>>
      /\ new \in Payloads
      /\ new.from = p /\ new.to = q /\ new.seqno = sessions[p][q].tx
  BY SealedType DEF Inv, SendRelay, Sealed
<1>3. TypeOK'
  BY <1>1, <1>2 DEF Inv, TypeOK, Entries
<1>4. Unused' /\ KeyShape'
  BY <1>1 DEF Inv, Unused, KeyShape, Established, SendRelay
<1>5. SeqnoBelowTx' /\ UniqueSeqno'
  <2>1. ASSUME NEW n \in net'
        PROVE  n \in net \/ n = new
    BY <1>2
  <2>2. \A a, b \in Peers : sessions'[a][b].tx >= sessions[a][b].tx
    BY <1>0, <1>1
  <2>3. SeqnoBelowTx'
    <3>1. ASSUME NEW n \in net PROVE n.seqno < sessions'[n.from][n.to].tx
      <4>1. n.seqno < sessions[n.from][n.to].tx
        BY DEF Inv, SeqnoBelowTx
      <4>2. sessions'[n.from][n.to].tx \in Nat
        BY <1>0, <1>1 DEF Entries
      <4> QED
        BY <1>0, <2>2, <4>1, <4>2
    <3>2. new.seqno < sessions'[new.from][new.to].tx
      BY <1>0, <1>1, <1>2
    <3> QED
      BY <2>1, <3>1, <3>2 DEF SeqnoBelowTx
  <2> HIDE DEF new
  <2>4. \A n \in net : n.from = p /\ n.to = q => n.seqno # new.seqno
    BY <1>2, <1>0 DEF Inv, SeqnoBelowTx
  <2> QED
    BY <1>2, <2>1, <2>3, <2>4 DEF Inv, UniqueSeqno
<1>6. Authentic' /\ AtMostOnceInOrder'
  BY <1>2 DEF Inv, Authentic, AtMostOnceInOrder
<1>7. RxIsLastAccepted'
  BY <1>1, <1>2 DEF Inv, RxIsLastAccepted
<1> QED
  BY <1>3, <1>4, <1>5, <1>6, <1>7 DEF Inv

LEMMA HandleInv ==
  ASSUME Inv, NEW p \in Peers, NEW q \in Peers, NEW m \in net, NEW sent \in BOOLEAN,
         HandleRelay(p, q, m, sent)
  PROVE  Inv'
<1> DEFINE new == Sealed(p, q, "notification")
<1>0. /\ \A a, b \in Peers : sessions[a][b].rx \in Nat /\ sessions[a][b].tx \in Nat
      /\ \A n \in net : n.from \in Peers /\ n.to \in Peers /\ n.seqno \in Nat
  BY TypeFacts DEF Inv
<1>1. /\ sessions' \in [Peers -> [Peers -> Entries]]
      /\ sessions'[p][q].key = sessions[p][q].key
      /\ sessions'[p][q].rx = m.seqno
      /\ sessions'[p][q].tx =
           sessions[p][q].tx + (IF m.body = "request" THEN 1 ELSE 0)
      /\ \A a, b \in Peers : a # p \/ b # q => sessions'[a][b] = sessions[a][b]
  BY HandleEffect DEF Inv
<1>2. /\ net' = net \/ (net' = net \cup {new} /\ m.body = "request")
      /\ link' \in [Peers -> {"up", "down"}]
  BY DEF HandleRelay, Inv, TypeOK
<1>3. new \in Payloads /\ new.from = p /\ new.to = q /\ new.seqno = sessions[p][q].tx
  BY SealedType DEF Inv, Sealed, Bodies, HandleRelay, Readable
<1>4. /\ m \in Payloads /\ m.from = q /\ m.to = p /\ m.seqno > sessions[p][q].rx
      /\ Established(p, q)
  BY DEF HandleRelay, Readable, OpensFor, IsFresh, Inv, TypeOK
<1> HIDE DEF new
<1>5. /\ accepted' \in [Peers -> [Peers -> Seq(Payloads)]]
      /\ accepted'[p][q] = Append(accepted[p][q], m)
      /\ \A a, b \in Peers : a # p \/ b # q => accepted'[a][b] = accepted[a][b]
  BY <1>4, SMTT(20) DEF HandleRelay, Inv, TypeOK
<1>6. TypeOK'
  BY <1>1, <1>2, <1>3, <1>5 DEF Inv, TypeOK, Entries
<1>7. Unused' /\ KeyShape'
  <2>1. \A a, b \in Peers : sessions'[a][b].key = sessions[a][b].key
    BY <1>1
  <2>2. \A a, b \in Peers : ~Established(a, b) => sessions'[a][b] = sessions[a][b]
    BY <1>1, <1>4
  <2> QED
    BY <2>1, <2>2 DEF Inv, Unused, KeyShape, Established
<1>8. SeqnoBelowTx' /\ UniqueSeqno'
  <2>1. ASSUME NEW n \in net'
        PROVE  n \in net \/ (n = new /\ m.body = "request")
    BY <1>2
  <2>2. \A a, b \in Peers : sessions'[a][b].tx >= sessions[a][b].tx
    BY <1>0, <1>1
  <2>3. SeqnoBelowTx'
    <3>1. ASSUME NEW n \in net PROVE n.seqno < sessions'[n.from][n.to].tx
      <4>1. n.seqno < sessions[n.from][n.to].tx
        BY DEF Inv, SeqnoBelowTx
      <4>2. sessions'[n.from][n.to].tx \in Nat
        BY <1>0, <1>1 DEF Entries
      <4> QED
        BY <1>0, <2>2, <4>1, <4>2
    <3>2. m.body = "request" => new.seqno < sessions'[new.from][new.to].tx
      BY <1>0, <1>1, <1>3
    <3> QED
      BY <2>1, <3>1, <3>2 DEF SeqnoBelowTx
  <2>4. \A n \in net : n.from = p /\ n.to = q => n.seqno # new.seqno
    BY <1>3, <1>0 DEF Inv, SeqnoBelowTx
  <2> QED
    BY <1>3, <2>1, <2>3, <2>4 DEF Inv, UniqueSeqno
<1>9. /\ Len(accepted'[p][q]) = Len(accepted[p][q]) + 1
      /\ DOMAIN accepted'[p][q] = 1 .. Len(accepted[p][q]) + 1
      /\ DOMAIN accepted[p][q] = 1 .. Len(accepted[p][q])
      /\ Len(accepted[p][q]) \in Nat
      /\ accepted'[p][q][Len(accepted[p][q]) + 1] = m
      /\ \A i \in DOMAIN accepted[p][q] : accepted'[p][q][i] = accepted[p][q][i]
  <2>1. accepted[p][q] \in Seq(Payloads)
    BY TypeFacts DEF Inv
  <2> QED
    BY <1>4, <1>5, <2>1
<1>10. Authentic'
  <2>1. ASSUME NEW a \in Peers, NEW b \in Peers, NEW i \in DOMAIN accepted'[a][b]
        PROVE  /\ accepted'[a][b][i] \in net'
               /\ accepted'[a][b][i].from = b /\ accepted'[a][b][i].to = a
    <3>1. \A n \in net : n \in net'
      BY <1>2
    <3>2. CASE a # p \/ b # q
      <4>1. accepted'[a][b] = accepted[a][b]
        BY <1>5, <3>2
      <4> QED
        BY <2>1, <3>1, <4>1 DEF Inv, Authentic
    <3>3. CASE a = p /\ b = q
      <4>1. CASE i = Len(accepted[p][q]) + 1
        BY <1>4, <1>9, <3>1, <3>3, <4>1
      <4>2. CASE i # Len(accepted[p][q]) + 1
        <5>1. i \in DOMAIN accepted[p][q] /\ accepted'[a][b][i] = accepted[p][q][i]
          BY <1>9, <2>1, <3>3, <4>2, SMTT(20)
        <5> QED
          BY <3>1, <3>3, <5>1 DEF Inv, Authentic
      <4> QED
        BY <4>1, <4>2
    <3> QED
      BY <3>2, <3>3
  <2> QED
    BY <2>1 DEF Authentic
<1>11. RxIsLastAccepted'
  <2>1. accepted'[p][q] # <<>>
    BY <1>9
  <2>2. sessions'[p][q].rx = accepted'[p][q][Len(accepted'[p][q])].seqno
    BY <1>1, <1>9
  <2>3. ASSUME NEW a \in Peers, NEW b \in Peers, a # p \/ b # q
        PROVE  sessions'[a][b] = sessions[a][b] /\ accepted'[a][b] = accepted[a][b]
    BY <1>1, <1>5, <2>3
  <2>4. ASSUME NEW a \in Peers, NEW b \in Peers
        PROVE  sessions'[a][b].rx = IF accepted'[a][b] = <<>> THEN 0
                                    ELSE accepted'[a][b][Len(accepted'[a][b])].seqno
    <3>1. CASE a = p /\ b = q
      BY <2>1, <2>2, <3>1
    <3>2. CASE a # p \/ b # q
      <4>1. sessions'[a][b] = sessions[a][b] /\ accepted'[a][b] = accepted[a][b]
        BY <2>3, <3>2
      <4>2. sessions[a][b].rx = IF accepted[a][b] = <<>> THEN 0
                                ELSE accepted[a][b][Len(accepted[a][b])].seqno
        BY DEF Inv, RxIsLastAccepted
      <4> QED
        BY <4>1, <4>2
    <3> QED
      BY <3>1, <3>2
  <2> QED
    BY <2>4 DEF RxIsLastAccepted
<1>12. AtMostOnceInOrder'
  <2>1. \A i \in DOMAIN accepted[p][q] :
          /\ accepted[p][q][i].seqno \in Nat
          /\ accepted[p][q][i].seqno <= sessions[p][q].rx
    <3>1. ASSUME NEW i \in DOMAIN accepted[p][q]
          PROVE  accepted[p][q][i].seqno \in Nat /\ accepted[p][q][i] \in net
      BY TypeFacts DEF Inv, Authentic
    <3>2. accepted[p][q] # <<>> =>
            sessions[p][q].rx = accepted[p][q][Len(accepted[p][q])].seqno
      BY DEF Inv, RxIsLastAccepted
    <3> QED
      BY <1>9, <3>1, <3>2, SMTT(20) DEF Inv, AtMostOnceInOrder
  <2>2. m.seqno \in Nat /\ sessions[p][q].rx \in Nat
    BY <1>0
  <2>3. ASSUME NEW i \in DOMAIN accepted'[p][q], NEW j \in DOMAIN accepted'[p][q], i < j
        PROVE  accepted'[p][q][i].seqno < accepted'[p][q][j].seqno
    <3>1. CASE j = Len(accepted[p][q]) + 1
      <4>1. i \in DOMAIN accepted[p][q] /\ accepted'[p][q][i] = accepted[p][q][i]
        BY <1>9, <2>3, <3>1
      <4>2. accepted'[p][q][j] = m
        BY <1>9, <3>1
      <4> QED
        BY <1>4, <2>1, <2>2, <4>1, <4>2
    <3>2. CASE j # Len(accepted[p][q]) + 1
      BY <1>9, <2>3, <3>2, SMTT(20) DEF Inv, AtMostOnceInOrder
    <3> QED
      BY <3>1, <3>2
  <2>4. ASSUME NEW a \in Peers, NEW b \in Peers, a # p \/ b # q
        PROVE  accepted'[a][b] = accepted[a][b]
    BY <1>5, <2>4
  <2> QED
    BY <2>3, <2>4 DEF Inv, AtMostOnceInOrder
<1> QED
  BY <1>6, <1>7, <1>8, <1>10, <1>11, <1>12 DEF Inv

LEMMA NextInv == Inv /\ [Next]_vars => Inv'
<1> SUFFICES ASSUME Inv, [Next]_vars PROVE Inv'
  OBVIOUS
<1>1. ASSUME NEW p \in Peers, NEW q \in Peers, NEW sent \in BOOLEAN,
             HandleOffer(p, q, sent)
      PROVE  Inv'
  <2>1. link' \in [Peers -> {"up", "down"}]
    BY <1>1 DEF HandleOffer, Inv, TypeOK
  <2> QED
    BY <1>1, <2>1, EstablishInv DEF HandleOffer
<1>2. ASSUME NEW p \in Peers, NEW q \in Peers, HandleAnswer(p, q) PROVE Inv'
  <2>1. link' \in [Peers -> {"up", "down"}]
    BY <1>2 DEF HandleAnswer, Inv, TypeOK
  <2> QED
    BY <1>2, <2>1, EstablishInv DEF HandleAnswer
<1>3. ASSUME UNCHANGED <<sessions, net, accepted>>, link' \in [Peers -> {"up", "down"}]
      PROVE  Inv'
  BY <1>3 DEF Inv, TypeOK, Unused, KeyShape, SeqnoBelowTx, UniqueSeqno, Authentic,
              RxIsLastAccepted, AtMostOnceInOrder, Established
<1>4. ASSUME NEW p \in Peers, NEW q \in Peers, NEW m \in net, RefuseRelay(p, q, m)
      PROVE  Inv'
  BY <1>3, <1>4 DEF RefuseRelay, Inv, TypeOK
<1>5. ASSUME NEW p \in Peers, Drop(p) \/ Reconnect(p) PROVE Inv'
  BY <1>3, <1>5 DEF Drop, Reconnect, Inv, TypeOK
<1>6. CASE UNCHANGED vars
  BY <1>3, <1>6 DEF vars, Inv, TypeOK
<1> QED
  BY <1>1, <1>2, <1>4, <1>5, <1>6, SendInv, HandleInv DEF Next

\* The invariant holds in every reachable state.
LEMMA InvHolds == Spec => []Inv
BY InitInv, NextInv, PTL DEF Spec

\* Sessions, payloads and histories keep their types.
THEOREM TypeCorrect == Spec => []TypeOK
<1>1. Inv => TypeOK
  BY DEF Inv
<1> QED
  BY InvHolds, <1>1, PTL

(* No payload is accepted twice or after a later one from its sender,      *)
(* whatever the relay does and however often link and handshake repeat.    *)
THEOREM AtMostOnceHolds == Spec => []AtMostOnceInOrder
<1>1. Inv => AtMostOnceInOrder
  BY DEF Inv
<1> QED
  BY InvHolds, <1>1, PTL

\* What is accepted from a peer was sealed by that peer for the one accepting.
THEOREM AuthenticHolds == Spec => []Authentic
<1>1. Inv => Authentic
  BY DEF Inv
<1> QED
  BY InvHolds, <1>1, PTL

\* encrypt_relay_payload never uses a seqno twice for one peer.
THEOREM UniqueSeqnoHolds == Spec => []UniqueSeqno
<1>1. Inv => UniqueSeqno
  BY DEF Inv
<1> QED
  BY InvHolds, <1>1, PTL

\* rx_seqno is the seqno of the last payload accepted, and nothing else moves it.
THEOREM RxIsLastAcceptedHolds == Spec => []RxIsLastAccepted
<1>1. Inv => RxIsLastAccepted
  BY DEF Inv
<1> QED
  BY InvHolds, <1>1, PTL

\* Both ends of an established pair of sessions hold one key.
THEOREM KeyAgreementHolds == Spec => []KeyAgreement
<1>1. Inv => KeyAgreement
  BY KeySymmetric DEF Inv, KeyShape, KeyAgreement
<1> QED
  BY InvHolds, <1>1, PTL

\* No step takes a counter of a session back or changes an established key.
THEOREM CountersMonotoneHolds == Spec => CountersMonotone
<1>1. ASSUME Inv, [Next]_vars PROVE [CounterStep]_vars
  <2>0. \A a, b \in Peers : sessions[a][b].rx \in Nat /\ sessions[a][b].tx \in Nat
    BY <1>1, TypeFacts DEF Inv
  <2>1. ASSUME NEW p \in Peers, NEW q \in Peers, Establish(p, q) PROVE CounterStep
    <3>1. \A a, b \in Peers :
            sessions'[a][b] = IF a = p /\ b = q /\ ~Established(p, q)
                                THEN NewSession(p, q) ELSE sessions[a][b]
      BY <1>1, <2>1, EstablishEffect DEF Inv
    <3>2. ~Established(p, q) => sessions[p][q].rx = 0 /\ sessions[p][q].tx = 0
      BY <1>1 DEF Inv, Unused
    <3>3. ASSUME NEW a \in Peers, NEW b \in Peers
          PROVE  /\ sessions'[a][b].tx >= sessions[a][b].tx
                 /\ sessions'[a][b].rx >= sessions[a][b].rx
                 /\ Established(a, b) => sessions'[a][b].key = sessions[a][b].key
      <4>1. CASE a = p /\ b = q /\ ~Established(p, q)
        <5>1. sessions'[a][b] = NewSession(p, q)
          BY <3>1, <4>1
        <5> QED
          BY <3>2, <4>1, <5>1, NewSessionType
      <4>2. CASE ~(a = p /\ b = q /\ ~Established(p, q))
        <5>1. sessions'[a][b] = sessions[a][b]
          BY <3>1, <4>2
        <5> QED
          BY <2>0, <5>1
      <4> QED
        BY <4>1, <4>2
    <3> QED
      BY <3>3 DEF CounterStep
  <2>2. ASSUME NEW p \in Peers, NEW q \in Peers, NEW body \in Bodies, SendRelay(p, q, body)
        PROVE  CounterStep
    <3>1. /\ sessions'[p][q].key = sessions[p][q].key
          /\ sessions'[p][q].rx = sessions[p][q].rx
          /\ sessions'[p][q].tx = sessions[p][q].tx + 1
          /\ \A a, b \in Peers : a # p \/ b # q => sessions'[a][b] = sessions[a][b]
      BY <1>1, <2>2, SendEffect DEF Inv
    <3> QED
      BY <2>0, <3>1 DEF CounterStep
  <2>3. ASSUME NEW p \in Peers, NEW q \in Peers, NEW m \in net, NEW sent \in BOOLEAN,
               HandleRelay(p, q, m, sent)
        PROVE  CounterStep
    <3>1. /\ sessions'[p][q].key = sessions[p][q].key
          /\ sessions'[p][q].rx = m.seqno
          /\ sessions'[p][q].tx =
               sessions[p][q].tx + (IF m.body = "request" THEN 1 ELSE 0)
          /\ \A a, b \in Peers : a # p \/ b # q => sessions'[a][b] = sessions[a][b]
      BY <1>1, <2>3, HandleEffect DEF Inv
    <3>2. m.seqno > sessions[p][q].rx /\ m.seqno \in Nat
      BY <1>1, <2>3, TypeFacts DEF Inv, HandleRelay, Readable, IsFresh
    <3> QED
      BY <2>0, <3>1, <3>2 DEF CounterStep
  <2>4. ASSUME UNCHANGED sessions PROVE CounterStep
    BY <2>0, <2>4 DEF CounterStep
  <2> QED
    BY <1>1, <2>1, <2>2, <2>3, <2>4
       DEF Next, HandleOffer, HandleAnswer, RefuseRelay, Drop, Reconnect
<1> QED
  BY InvHolds, <1>1, PTL DEF Spec, CountersMonotone

=============================================================================
