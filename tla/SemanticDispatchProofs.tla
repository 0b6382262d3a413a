----------------------- MODULE SemanticDispatchProofs -----------------------
(***************************************************************************)
(* Proofs about SemanticDispatch, for any number of threads, intents,      *)
(* attempts and observations.  The invariant follows an operation through  *)
(* the ledger: entered once, with no terminal while a thread works on it,  *)
(* and never reported retry_safe after it took effect; for that, nothing   *)
(* is needed about the cache but that a request carries its observation's  *)
(* expiry.  The bound of the cache is an invariant of its own.             *)
(***************************************************************************)
EXTENDS SemanticDispatch, SequenceTheorems, FunctionTheorems, FiniteSetTheorems, TLAPS

InHand == {"ready", "running", "acted"}

AtWork == {"running", "acted"}

Shape ==
  /\ phase \in [Threads -> {"idle", "observed", "ready", "running", "acted"}]
  /\ request = [t \in Threads |-> request[t]]
  /\ ledger \in [Operations -> [hash : Hashes \cup {NoHash},
                                terminals : SUBSET Terminals]]
  /\ attempt \in [Intents -> 0 .. MaxAttempts]
  /\ told \in SUBSET Operations
  /\ effect = [o \in Operations |-> effect[o]]
  /\ \A o \in Operations : effect[o].count \in Nat

\* A request names an operation of the present or of an earlier attempt.
RequestShape ==
  \A t \in Threads : phase[t] \in InHand =>
    /\ request[t].op \in Operations
    /\ request[t].hash \in Hashes
    /\ request[t].op[2] <= attempt[request[t].op[1]]

\* The operation a thread works on has a ledger entry without terminals, the
\* thread has it to itself, and it has taken effect only if the thread acted.
Working ==
  \A t \in Threads : phase[t] \in AtWork =>
    /\ ledger[request[t].op].hash # NoHash
    /\ ledger[request[t].op].terminals = {}
    /\ phase[t] = "running" => effect[request[t].op].count = 0
    /\ \A u \in Threads :
         phase[u] \in AtWork /\ request[u].op = request[t].op => u = t

\* An operation that took effect did so once and is in the ledger.
OnLedger ==
  \A o \in Operations : effect[o].count > 0 =>
    /\ effect[o].count = 1
    /\ ledger[o].hash # NoHash
    /\ ~RetrySafe(ledger[o].terminals)

Attempted ==
  \A o \in Operations : ledger[o].hash # NoHash => o[2] <= attempt[o[1]]

ToldSafe == \A o \in told : RetrySafe(ledger[o].terminals)

EarlierTold ==
  \A i \in Intents : \A n \in 0 .. MaxAttempts : n < attempt[i] => <<i, n>> \in told

Inv ==
  /\ Shape
  /\ RequestShape
  /\ Working
  /\ OnLedger
  /\ Attempted
  /\ ToldSafe
  /\ EarlierTold

\* The mark of an empty ledger entry is not the hash of a request.
LEMMA HashesAssumption == NoHash \notin Hashes
BY DispatchAssumption

(* No operation is in the ledger and no thread is at work at the start.    *)
LEMMA InitInv == Init => Inv
<1> SUFFICES ASSUME Init PROVE Inv OBVIOUS
<1>1. Shape
  BY DispatchAssumption DEF Init, Shape, NoEntry, NoEffect, Operations
<1>2. RequestShape /\ Working
  BY DEF Init, RequestShape, Working, InHand, AtWork
<1>3. OnLedger /\ Attempted /\ ToldSafe /\ EarlierTold
  BY DispatchAssumption
  DEF Init, OnLedger, Attempted, ToldSafe, EarlierTold, NoEntry, NoEffect
<1> QED BY <1>1, <1>2, <1>3 DEF Inv

(* Steps that touch neither the ledger nor the effects nor what the client *)
(* knows, and by which no thread takes a request in hand.                  *)
LEMMA QuietStep ==
  ASSUME Inv, UNCHANGED <<ledger, attempt, told, effect>>,
         phase' \in [Threads -> {"idle", "observed", "ready", "running", "acted"}],
         request' = [t \in Threads |-> request'[t]],
         \A t \in Threads : phase'[t] \in InHand =>
           phase'[t] = phase[t] /\ request'[t] = request[t]
  PROVE  Inv'
<1>1. Shape'
  BY DEF Inv, Shape
<1>2. RequestShape'
  BY DEF Inv, RequestShape
<1>3. Working'
  BY DEF Inv, Working, InHand, AtWork
<1>4. OnLedger' /\ Attempted' /\ ToldSafe' /\ EarlierTold'
  BY DEF Inv, OnLedger, Attempted, ToldSafe, EarlierTold
<1> QED BY <1>1, <1>2, <1>3, <1>4 DEF Inv

(* Taking a request in hand.                                               *)
LEMMA CallInv ==
  ASSUME Inv, NEW t \in Threads, NEW op \in Operations, NEW h \in Hashes,
         Call(t, op, h)
  PROVE  Inv'
<1>1. /\ phase' = [phase EXCEPT ![t] = "ready"]
      /\ UNCHANGED <<ledger, attempt, told, effect>>
      /\ op[2] = attempt[op[1]]
  BY DEF Call, Execute
<1>2. PICK k \in DOMAIN cache :
        request' = [request EXCEPT ![t] =
                      [op |-> op, hash |-> h, deadline |-> Deadline(cache[k]),
                       expires |-> cache[k].expires]]
  BY DEF Call, Execute
<1>3. Shape'
  BY <1>1, <1>2 DEF Inv, Shape
<1>4. RequestShape'
  BY <1>1, <1>2 DEF Inv, Shape, RequestShape, InHand, Operations
<1>5. Working'
  BY <1>1, <1>2 DEF Inv, Shape, Working, AtWork
<1>6. OnLedger' /\ Attempted' /\ ToldSafe' /\ EarlierTold'
  BY <1>1 DEF Inv, OnLedger, Attempted, ToldSafe, EarlierTold
<1> QED BY <1>3, <1>4, <1>5, <1>6 DEF Inv

(* The ledger entry of an operation is made once, by one thread.           *)
LEMMA AcceptInv ==
  ASSUME Inv, NEW t \in Threads, Accept(t)
  PROVE  Inv'
<1> DEFINE op == request[t].op
<1>1. /\ op \in Operations
      /\ request[t].hash \in Hashes
      /\ op[2] <= attempt[op[1]]
  BY DEF Accept, Inv, RequestShape, InHand
<1>2. /\ ledger[op] = NoEntry
      /\ ledger' = [ledger EXCEPT ![op] = [hash |-> request[t].hash, terminals |-> {}]]
      /\ phase[t] = "ready"
      /\ phase' = [phase EXCEPT ![t] = "running"]
      /\ UNCHANGED <<request, attempt, told, effect>>
  BY DEF Accept
<1>3. effect[op].count = 0
  BY <1>1, <1>2 DEF Inv, Shape, OnLedger, NoEntry
<1>4. op \notin told
  BY <1>1, <1>2 DEF Inv, ToldSafe, RetrySafe, NoEntry
<1>5. \A u \in Threads : phase[u] \in AtWork => request[u].op # op
  BY <1>1, <1>2 DEF Inv, Working, NoEntry
<1> HIDE DEF op
<1>6. Shape'
  BY <1>1, <1>2 DEF Inv, Shape
<1>7. RequestShape'
  BY <1>1, <1>2 DEF Inv, Shape, RequestShape, InHand
<1>8. Working'
  <2> SUFFICES ASSUME NEW u \in Threads, phase'[u] \in AtWork
               PROVE  /\ ledger'[request[u].op].hash # NoHash
                      /\ ledger'[request[u].op].terminals = {}
                      /\ phase'[u] = "running" => effect[request[u].op].count = 0
                      /\ \A v \in Threads :
                           phase'[v] \in AtWork /\ request[v].op = request[u].op => v = u
    BY <1>2 DEF Working
  <2>1. \A v \in Threads : v # t => phase'[v] = phase[v]
    BY <1>2 DEF Inv, Shape
  <2>2. CASE u = t
    <3>1. request[u].op = op
      BY <2>2 DEF op
    <3>2. ledger'[op] = [hash |-> request[t].hash, terminals |-> {}]
      BY <1>1, <1>2 DEF Inv, Shape
    <3>3. request[t].hash # NoHash
      BY <1>1, HashesAssumption
    <3> QED BY <3>1, <3>2, <3>3, <1>3, <1>5, <2>1, <2>2
  <2>3. CASE u # t
    <3>1. phase[u] \in AtWork /\ phase'[u] = phase[u]
      BY <2>1, <2>3
    <3>2. request[u].op \in Operations /\ request[u].op # op
      BY <3>1, <1>5 DEF Inv, RequestShape, AtWork, InHand
    <3>3. ledger'[request[u].op] = ledger[request[u].op]
      BY <3>2, <1>1, <1>2 DEF Inv, Shape
    <3>4. request[t].op = op
      BY DEF op
    <3> QED BY <3>1, <3>2, <3>3, <3>4, <2>1 DEF Inv, Working
  <2> QED BY <2>2, <2>3
<1>9. OnLedger'
  BY <1>1, <1>2, <1>3 DEF Inv, Shape, OnLedger
<1>10. Attempted'
  BY <1>1, <1>2 DEF Inv, Shape, Attempted
<1>11. ToldSafe' /\ EarlierTold'
  BY <1>1, <1>2, <1>4 DEF Inv, Shape, ToldSafe, EarlierTold
<1> QED BY <1>6, <1>7, <1>8, <1>9, <1>10, <1>11 DEF Inv

(* A repeated request learns what the ledger says and changes nothing.     *)
LEMMA ReplayInv ==
  ASSUME Inv, NEW t \in Threads, Replay(t)
  PROVE  Inv'
<1> DEFINE op == request[t].op
<1>1. /\ phase[t] = "ready"
      /\ phase' = [phase EXCEPT ![t] = "idle"]
      /\ request' = [request EXCEPT ![t] = NoRequest]
      /\ told' = IF RetrySafe(ledger[op].terminals) THEN told \cup {op} ELSE told
      /\ UNCHANGED <<ledger, attempt, effect>>
  BY DEF Replay, Reply
<1>2. op \in Operations
  BY <1>1 DEF Inv, RequestShape, InHand
<1> HIDE DEF op
<1>3. Shape'
  BY <1>1, <1>2 DEF Inv, Shape
<1>4. RequestShape' /\ Working'
  BY <1>1 DEF Inv, Shape, RequestShape, Working, InHand, AtWork
<1>5. ToldSafe'
  BY <1>1 DEF Inv, ToldSafe
<1>6. OnLedger' /\ Attempted' /\ EarlierTold'
  BY <1>1 DEF Inv, OnLedger, Attempted, EarlierTold
<1> QED BY <1>3, <1>4, <1>5, <1>6 DEF Inv

(* Only the thread that entered an operation acts on it, and only once.    *)
LEMMA ActInv ==
  ASSUME Inv, NEW t \in Threads, Act(t)
  PROVE  Inv'
<1> DEFINE op == request[t].op
<1>1. PICK e : /\ e.count = effect[op].count + 1
               /\ effect' = [effect EXCEPT ![op] = e]
  BY DEF Act
<1>2. /\ phase[t] = "running"
      /\ phase' = [phase EXCEPT ![t] = "acted"]
      /\ UNCHANGED <<request, ledger, attempt, told>>
  BY DEF Act
<1>3. /\ op \in Operations
      /\ ledger[op].hash # NoHash
      /\ ledger[op].terminals = {}
      /\ effect[op].count = 0
      /\ \A u \in Threads : phase[u] \in AtWork /\ request[u].op = op => u = t
  BY <1>2 DEF Inv, RequestShape, Working, InHand, AtWork
<1>4. ~RetrySafe(ledger[op].terminals)
  BY <1>3 DEF RetrySafe
<1>5. request[t].op = op
  OBVIOUS
<1> HIDE DEF op
<1>6. Shape'
  BY <1>1, <1>2, <1>3 DEF Inv, Shape
<1>7. RequestShape'
  BY <1>2 DEF Inv, Shape, RequestShape, InHand
<1>8. Working'
  <2>1. \A u \in Threads : u # t /\ phase[u] \in AtWork =>
          /\ request[u].op \in Operations
          /\ effect'[request[u].op] = effect[request[u].op]
    BY <1>1, <1>3 DEF Inv, Shape, RequestShape, InHand, AtWork
  <2>2. phase'[t] = "acted" /\ \A u \in Threads : u # t => phase'[u] = phase[u]
    BY <1>2 DEF Inv, Shape
  <2>3. \A u \in Threads : phase'[u] \in AtWork => phase[u] \in AtWork
    BY <1>2, <2>2 DEF AtWork
  <2> QED BY <1>2, <1>3, <1>5, <2>1, <2>2, <2>3 DEF Inv, Working
<1>9. OnLedger'
  <2>1. effect'[op] = e /\ e.count = 1
    BY <1>1, <1>3 DEF Inv, Shape
  <2>2. \A o \in Operations : o # op => effect'[o] = effect[o]
    BY <1>1 DEF Inv, Shape
  <2> QED BY <1>2, <1>3, <1>4, <2>1, <2>2 DEF Inv, OnLedger
<1>10. Attempted' /\ ToldSafe' /\ EarlierTold'
  BY <1>2 DEF Inv, Attempted, ToldSafe, EarlierTold
<1> QED BY <1>6, <1>7, <1>8, <1>9, <1>10 DEF Inv

(* A report on an operation that took effect does not prove that it had    *)
(* none: this is where RetrySafe has to look at every terminal.            *)
LEMMA ReportInv ==
  ASSUME Inv, NEW t \in Threads, NEW terminals \in Reports, Report(t, terminals)
  PROVE  Inv'
<1> DEFINE op == request[t].op
<1>1. /\ phase[t] \in AtWork
      /\ phase' = [phase EXCEPT ![t] = "idle"]
      /\ request' = [request EXCEPT ![t] = NoRequest]
      /\ ledger' = [ledger EXCEPT ![op].terminals = terminals]
      /\ told' = IF RetrySafe(terminals) THEN told \cup {op} ELSE told
      /\ UNCHANGED <<attempt, effect>>
  BY DEF Report, Reply, AtWork
<1>2. /\ op \in Operations
      /\ ledger[op].hash # NoHash
      /\ ledger[op].terminals = {}
      /\ phase[t] = "running" => effect[op].count = 0
      /\ \A u \in Threads : phase[u] \in AtWork /\ request[u].op = op => u = t
  BY <1>1 DEF Inv, RequestShape, Working, InHand, AtWork
<1>3. effect[op].count > 0 => ~RetrySafe(terminals)
  <2>1. phase[t] = "acted" => ~RetrySafe(terminals)
    BY DEF Report, Honest, RetrySafe, ProvesNoEffect
  <2> QED BY <2>1, <1>1, <1>2 DEF AtWork
<1>4. op \notin told
  BY <1>2 DEF Inv, ToldSafe, RetrySafe
<1>5. terminals \in SUBSET Terminals
  BY DispatchAssumption
<1>6. /\ ledger'[op].terminals = terminals
      /\ ledger'[op].hash = ledger[op].hash
      /\ \A o \in Operations : o # op => ledger'[o] = ledger[o]
  BY <1>1, <1>2 DEF Inv, Shape
<1> HIDE DEF op
<1>7. Shape'
  BY <1>1, <1>2, <1>5 DEF Inv, Shape
<1>8. /\ phase'[t] = "idle"
      /\ \A u \in Threads : u # t => phase'[u] = phase[u] /\ request'[u] = request[u]
  BY <1>1 DEF Inv, Shape
<1>9. RequestShape'
  BY <1>1, <1>8 DEF Inv, RequestShape, InHand
<1>10. Working'
  <2> SUFFICES ASSUME NEW u \in Threads, phase'[u] \in AtWork
               PROVE  /\ ledger'[request'[u].op].hash # NoHash
                      /\ ledger'[request'[u].op].terminals = {}
                      /\ phase'[u] = "running" => effect[request'[u].op].count = 0
                      /\ \A v \in Threads :
                           phase'[v] \in AtWork /\ request'[v].op = request'[u].op => v = u
    BY <1>1 DEF Working
  <2>1. u # t /\ phase[u] \in AtWork /\ request'[u] = request[u]
    BY <1>8 DEF AtWork
  <2>2. request[u].op \in Operations /\ request[u].op # op
    BY <2>1, <1>2 DEF Inv, RequestShape, AtWork, InHand
  <2>3. \A v \in Threads : phase'[v] \in AtWork =>
           v # t /\ phase[v] \in AtWork /\ request'[v] = request[v]
    BY <1>8 DEF AtWork
  <2> QED BY <2>1, <2>2, <2>3, <1>6, <1>8 DEF Inv, Working
<1>11. OnLedger'
  BY <1>1, <1>2, <1>3, <1>6 DEF Inv, OnLedger
<1>12. Attempted'
  BY <1>1, <1>2, <1>6 DEF Inv, Attempted
<1>13. ToldSafe'
  BY <1>1, <1>4, <1>6, <1>7 DEF Inv, Shape, ToldSafe
<1>14. EarlierTold'
  BY <1>1 DEF Inv, EarlierTold
<1> QED BY <1>7, <1>9, <1>10, <1>11, <1>12, <1>13, <1>14 DEF Inv

(* The client goes on to the next attempt once it was told it may.         *)
LEMMA NextAttemptInv ==
  ASSUME Inv, NEW i \in Intents, NextAttempt(i)
  PROVE  Inv'
<1>1. /\ attempt[i] < MaxAttempts
      /\ <<i, attempt[i]>> \in told
      /\ attempt' = [attempt EXCEPT ![i] = attempt[i] + 1]
      /\ UNCHANGED <<phase, request, ledger, told, effect>>
  BY DEF NextAttempt
<1>2. attempt \in [Intents -> 0 .. MaxAttempts] /\ MaxAttempts \in Nat
  BY DispatchAssumption DEF Inv, Shape
<1>3. \A j \in Intents : attempt'[j] >= attempt[j] /\ attempt'[j] \in 0 .. MaxAttempts
  BY <1>1, <1>2
<1>4. \A o \in Operations : o[1] \in Intents /\ o[2] \in 0 .. MaxAttempts
  BY DEF Operations
<1>5. Shape'
  BY <1>1, <1>2 DEF Inv, Shape
<1>6. RequestShape'
  BY <1>1, <1>2, <1>3, <1>4 DEF Inv, RequestShape
<1>7. Working' /\ OnLedger' /\ ToldSafe'
  BY <1>1 DEF Inv, Working, OnLedger, ToldSafe
<1>8. Attempted'
  BY <1>1, <1>2, <1>3, <1>4 DEF Inv, Attempted
<1>9. EarlierTold'
  BY <1>1, <1>2 DEF Inv, EarlierTold
<1> QED BY <1>5, <1>6, <1>7, <1>8, <1>9 DEF Inv

LEMMA NextInv == Inv /\ [Next]_vars => Inv'
<1> SUFFICES ASSUME Inv, [Next]_vars PROVE Inv' OBVIOUS
<1>1. ASSUME NEW t \in Threads, NEW id \in ObservationIds, Observe(t, id)
      PROVE  Inv'
  <2>1. phase' \in [Threads -> {"idle", "observed", "ready", "running", "acted"}]
    BY <1>1 DEF Observe, Inv, Shape
  <2> QED BY <1>1, <2>1, QuietStep DEF Observe, Inv, Shape, InHand
<1>2. ASSUME NEW t \in Threads, Discard(t) \/ Insert(t)
      PROVE  Inv'
  <2>1. /\ phase' = [phase EXCEPT ![t] = "idle"]
        /\ UNCHANGED <<request, ledger, attempt, told, effect>>
    BY <1>2 DEF Discard, Insert
  <2>2. phase' \in [Threads -> {"idle", "observed", "ready", "running", "acted"}]
    BY <2>1 DEF Inv, Shape
  <2> QED BY <2>1, <2>2, QuietStep DEF Inv, Shape, InHand
<1>3. ASSUME NEW t \in Threads, Fail(t)
      PROVE  Inv'
  <2>1. /\ phase' = [phase EXCEPT ![t] = "idle"]
        /\ request' = [request EXCEPT ![t] = NoRequest]
        /\ UNCHANGED <<ledger, attempt, told, effect>>
    BY <1>3 DEF Fail
  <2>2. phase' \in [Threads -> {"idle", "observed", "ready", "running", "acted"}]
    BY <2>1 DEF Inv, Shape
  <2>3. request' = [u \in Threads |-> request'[u]]
    BY <2>1 DEF Inv, Shape
  <2> QED BY <2>1, <2>2, <2>3, QuietStep DEF Inv, Shape, InHand
<1>4. CASE Restart
  BY <1>4, QuietStep DEF Restart, InHand
<1>5. CASE Tick
  BY <1>5, QuietStep DEF Tick, Inv, Shape, InHand
<1>6. CASE UNCHANGED vars
  BY <1>6, QuietStep DEF vars, Inv, Shape, InHand
<1> QED
  BY <1>1, <1>2, <1>3, <1>4, <1>5, <1>6, CallInv, AcceptInv, ReplayInv, ActInv,
     ReportInv, NextAttemptInv
  DEF Next

(* Two operations of one intent that both took effect are the same one: an *)
(* earlier attempt's ID was only left after it was reported retry_safe.    *)
LEMMA InvAtMostOnce == Inv => AtMostOncePerIntent
<1> SUFFICES ASSUME Inv, NEW o \in Operations, NEW p \in Operations
             PROVE  /\ effect[o].count <= 1
                    /\ o[1] = p[1] /\ effect[o].count > 0 /\ effect[p].count > 0 => o = p
  BY DEF AtMostOncePerIntent
<1>1. effect[o].count <= 1
  BY DEF Inv, Shape, OnLedger
<1>2. \A q \in Operations : effect[q].count > 0 =>
        q \notin told /\ q[2] <= attempt[q[1]]
  BY DEF Inv, OnLedger, ToldSafe, Attempted
<1>3. \A q \in Operations :
        /\ q = <<q[1], q[2]>> /\ q[1] \in Intents /\ q[2] \in 0 .. MaxAttempts
        /\ effect[q].count > 0 => ~(q[2] < attempt[q[1]])
  BY <1>2 DEF Operations, Inv, EarlierTold
<1>4. ASSUME o[1] = p[1], effect[o].count > 0, effect[p].count > 0
      PROVE  o = p
  <2>1. o[2] = attempt[o[1]] /\ p[2] = attempt[p[1]]
    BY <1>2, <1>3, <1>4, DispatchAssumption, SMTT(20) DEF Inv, Shape
  <2> QED BY <2>1, <1>3, <1>4
<1> QED BY <1>1, <1>4

(* At most one effect per intent, whatever the code's callers repeat and   *)
(* whenever the daemon crashes.                                            *)
THEOREM AtMostOnceHolds == Spec => []AtMostOncePerIntent
<1>1. Init => Inv BY InitInv
<1>2. Inv /\ [Next]_vars => Inv' BY NextInv
<1>3. Inv => AtMostOncePerIntent BY InvAtMostOnce
<1> QED BY <1>1, <1>2, <1>3, PTL DEF Spec

\* What EffectWhileFresh needs beyond Inv: the deadline is the expiry.
FreshInv ==
  /\ Inv
  /\ \A t \in Threads : phase[t] \in InHand => request[t].deadline = request[t].expires
  /\ EffectWhileFresh

LEMMA NextFresh == FreshInv /\ [Next]_vars => FreshInv'
<1> SUFFICES ASSUME FreshInv, [Next]_vars PROVE FreshInv' OBVIOUS
<1> DEFINE Expiring == \A t \in Threads :
             phase[t] \in InHand => request[t].deadline = request[t].expires
<1>1. Inv' BY NextInv DEF FreshInv
<1>2. ASSUME NEW t \in Threads, NEW op \in Operations, NEW h \in Hashes, Call(t, op, h)
      PROVE  Expiring' /\ EffectWhileFresh'
  <2>1. PICK k \in DOMAIN cache :
          request' = [request EXCEPT ![t] =
                        [op |-> op, hash |-> h, deadline |-> cache[k].expires,
                         expires |-> cache[k].expires]]
    BY <1>2 DEF Call, Execute, Deadline
  <2>2. phase' = [phase EXCEPT ![t] = "ready"] /\ UNCHANGED effect
    BY <1>2 DEF Call
  <2> QED BY <2>1, <2>2 DEF FreshInv, Inv, Shape, EffectWhileFresh
<1>3. ASSUME NEW t \in Threads, Act(t)
      PROVE  Expiring' /\ EffectWhileFresh'
  <2> DEFINE op == request[t].op
  <2>1. /\ phase[t] = "running"
        /\ now < request[t].deadline
        /\ phase' = [phase EXCEPT ![t] = "acted"]
        /\ UNCHANGED request
        /\ effect' = [effect EXCEPT ![op] =
                        [count |-> effect[op].count + 1, at |-> now,
                         expires |-> request[t].expires]]
    BY <1>3 DEF Act
  <2>2. op \in Operations /\ request[t].deadline = request[t].expires
    BY <2>1 DEF FreshInv, Inv, RequestShape, InHand
  <2>3. Expiring'
    BY <2>1 DEF FreshInv, Inv, Shape, InHand
  <2>4. effect'[op].at < effect'[op].expires
    BY <2>1, <2>2 DEF FreshInv, Inv, Shape
  <2>5. \A o \in Operations : o # op => effect'[o] = effect[o]
    BY <2>1 DEF FreshInv, Inv, Shape
  <2>6. EffectWhileFresh'
    BY <2>4, <2>5 DEF FreshInv, EffectWhileFresh
  <2> QED BY <2>3, <2>6
<1>4. ASSUME UNCHANGED effect,
             \A t \in Threads : phase'[t] \in InHand =>
               phase[t] \in InHand /\ request'[t] = request[t]
      PROVE  Expiring' /\ EffectWhileFresh'
  BY <1>4 DEF FreshInv, EffectWhileFresh
<1>5. ASSUME NEW t \in Threads,
             \/ \E id \in ObservationIds : Observe(t, id)
             \/ Discard(t) \/ Insert(t) \/ Accept(t) \/ Replay(t) \/ Fail(t)
             \/ \E terminals \in Reports : Report(t, terminals)
      PROVE  Expiring' /\ EffectWhileFresh'
  <2>1. /\ UNCHANGED effect
        /\ \A u \in Threads \ {t} : phase'[u] = phase[u] /\ request'[u] = request[u]
        /\ \/ phase'[t] \in {"idle", "observed"}
           \/ phase[t] = "ready" /\ phase'[t] = "running" /\ request'[t] = request[t]
    BY <1>5 DEF Observe, Discard, Insert, Accept, Replay, Fail, Report, Reply,
                FreshInv, Inv, Shape
  <2> QED BY <2>1, <1>4 DEF InHand
<1>6. ASSUME \/ \E i \in Intents : NextAttempt(i)
             \/ Restart \/ Tick \/ UNCHANGED vars
      PROVE  Expiring' /\ EffectWhileFresh'
  BY <1>6, <1>4 DEF NextAttempt, Restart, Tick, vars, InHand
<1> QED BY <1>1, <1>2, <1>3, <1>5, <1>6 DEF Next, FreshInv

(* Whatever happens between the cache lookup and the dispatch, nothing is  *)
(* done to a target whose observation has expired.                         *)
THEOREM EffectWhileFreshHolds == Spec => []EffectWhileFresh
<1>1. Init => FreshInv
  BY InitInv DEF Init, FreshInv, EffectWhileFresh, NoEffect, InHand
<1>2. FreshInv /\ [Next]_vars => FreshInv'
  BY NextFresh
<1>3. FreshInv => EffectWhileFresh
  BY DEF FreshInv
<1> QED BY <1>1, <1>2, <1>3, PTL DEF Spec

-----------------------------------------------------------------------------
(* The observation cache.                                                  *)

\* An observation's place among those that are kept is its rank, and every
\* rank is some entry's: the ranks are distinct and there are no more of them.
LEMMA KeptPlaces ==
  ASSUME NEW n \in Nat, NEW places \in SUBSET (1 .. n)
  PROVE  /\ Cardinality(places) \in Nat
         /\ \A i \in 1 .. Cardinality(places) : KeptAt(places, i) \in places
         /\ \A i, j \in 1 .. Cardinality(places) :
              KeptAt(places, i) = KeptAt(places, j) => i = j
<1> DEFINE Upto(k) == {j \in places : j <= k}
           rank == [k \in places |-> Cardinality(Upto(k))]
           size == Cardinality(places)
<1>1. IsFiniteSet(places) /\ size \in Nat
  <2>1. IsFiniteSet(1 .. n)
    BY FS_Interval
  <2>2. IsFiniteSet(places)
    BY <2>1, FS_Subset
  <2> QED
    BY <2>2, FS_CardinalityType
<1>2. ASSUME NEW k \in places
      PROVE  /\ IsFiniteSet(Upto(k)) /\ Cardinality(Upto(k)) \in 1 .. size
  <2>1. Upto(k) \in SUBSET places /\ k \in Upto(k)
    OBVIOUS
  <2>2. IsFiniteSet(Upto(k)) /\ Cardinality(Upto(k)) <= size
    BY <1>1, <2>1, FS_Subset
  <2>3. Cardinality(Upto(k)) \in Nat /\ Cardinality(Upto(k)) # 0
    BY <2>1, <2>2, FS_CardinalityType, FS_EmptySet
  <2> QED
    BY <1>1, <2>2, <2>3
<1>3. rank \in [places -> 1 .. size]
  BY <1>2
<1>4. ASSUME NEW k \in places, NEW l \in places, k < l
      PROVE  rank[k] # rank[l]
  <2>1. Upto(k) \in SUBSET Upto(l) /\ l \in Upto(l) /\ l \notin Upto(k)
    <3>1. k \in Nat /\ l \in Nat /\ places \subseteq Nat
      OBVIOUS
    <3>2. \A j \in places : j <= k => j <= l
      BY <1>4, <3>1
    <3>3. l <= l /\ ~(l <= k)
      BY <1>4, <3>1
    <3> QED
      BY <3>2, <3>3, Zenon
  <2>2. Cardinality(Upto(k)) # Cardinality(Upto(l))
    BY <1>2, <2>1, FS_Subset
  <2> QED
    BY <2>2
<1>5. \A k, l \in places : rank[k] = rank[l] => k = l
  BY <1>4
<1>6. rank \in Injection(places, 1 .. size)
  BY <1>3, <1>5, Fun_IsInj
<1>7. IsFiniteSet(1 .. size) /\ Cardinality(1 .. size) = size
  BY <1>1, FS_Interval
<1>8. rank \in Surjection(places, 1 .. size)
  BY <1>6, <1>7, FS_Injection
<1>9. \A i \in 1 .. size : \E k \in places : Cardinality(Upto(k)) = i
  <2>1. \A i \in 1 .. size : \E k \in places : rank[k] = i
    <3> HIDE DEF rank
    <3> QED
      BY <1>8, Fun_SurjectionProperties
  <2> QED
    BY <2>1
<1>10. ASSUME NEW i \in 1 .. size
       PROVE  KeptAt(places, i) \in places /\ Cardinality(Upto(KeptAt(places, i))) = i
  BY <1>9 DEF KeptAt
<1> QED
  BY <1>1, <1>10

\* retain keeps the entries' types and repeats none.
LEMMA RetainFacts ==
  ASSUME NEW S, NEW s \in Seq(S), NEW places \in SUBSET DOMAIN s
  PROVE  /\ Retain(s, places) \in Seq(S)
         /\ \A i \in DOMAIN Retain(s, places) :
              \E k \in places : Retain(s, places)[i] = s[k]
         /\ \A i, j \in DOMAIN Retain(s, places) : i # j =>
              \E k, l \in places : /\ k # l
                                   /\ Retain(s, places)[i] = s[k]
                                   /\ Retain(s, places)[j] = s[l]
<1> DEFINE size == Cardinality(places)
           kept == Retain(s, places)
<1>1. Len(s) \in Nat /\ DOMAIN s = 1 .. Len(s) /\ places \in SUBSET (1 .. Len(s))
  OBVIOUS
<1>2. /\ size \in Nat
      /\ \A i \in 1 .. size : KeptAt(places, i) \in places
      /\ \A i, j \in 1 .. size : KeptAt(places, i) = KeptAt(places, j) => i = j
  BY <1>1, KeptPlaces
<1>3. DOMAIN kept = 1 .. size /\ \A i \in 1 .. size : kept[i] = s[KeptAt(places, i)]
  BY DEF Retain
<1>4. \A i \in 1 .. size : s[KeptAt(places, i)] \in S
  BY <1>1, <1>2
<1>5. kept \in [1 .. size -> S]
  BY <1>4 DEF Retain
<1>6. kept \in Seq(S)
  BY <1>2, <1>5, SeqDef, SMTT(20)
<1> QED
  BY <1>2, <1>3, <1>6

\* Entries of a cache in which no ID occurs twice.
DistinctIds(s) == \A j, k \in DOMAIN s : s[j].id = s[k].id => j = k

\* The loop of pop_front leaves the newest entries, at most MAX_CACHED_OBSERVATIONS.
LEMMA TrimmedFacts ==
  ASSUME NEW S, NEW s \in Seq(S), DistinctIds(s)
  PROVE  Trimmed(s) \in Seq(S) /\ Len(Trimmed(s)) <= MaxCached /\ DistinctIds(Trimmed(s))
<1>1. MaxCached \in Nat /\ Len(s) \in Nat
  BY DispatchAssumption
<1>2. CASE Len(s) > MaxCached
  <2> DEFINE m == Len(s) - MaxCached + 1
             t == SubSeq(s, m, Len(s))
  <2>1. m \in 1 .. Len(s) + 1 /\ \A i \in m .. Len(s) : s[i] \in S
    BY <1>1, <1>2
  <2>2. /\ t \in Seq(S) /\ Len(t) = MaxCached
        /\ \A i \in 1 .. MaxCached : t[i] = s[m + i - 1]
    BY <1>1, <1>2, <2>1, SubSeqProperties
  <2>3. DistinctIds(t)
    <3> HIDE DEF t
    <3>1. ASSUME NEW j \in DOMAIN t, NEW k \in DOMAIN t, t[j].id = t[k].id PROVE j = k
      <4>1. /\ j \in 1 .. MaxCached /\ k \in 1 .. MaxCached
            /\ m + j - 1 \in DOMAIN s /\ m + k - 1 \in DOMAIN s
        BY <1>1, <1>2, <2>2
      <4>2. m + j - 1 = m + k - 1
        BY <2>2, <3>1, <4>1 DEF DistinctIds
      <4> QED
        BY <1>1, <4>1, <4>2
    <3> QED
      BY <3>1 DEF DistinctIds
  <2>4. Trimmed(s) = t
    BY <1>2 DEF Trimmed
  <2> HIDE DEF t
  <2> QED
    BY <1>1, <2>2, <2>3, <2>4
<1>3. CASE ~(Len(s) > MaxCached)
  BY <1>1, <1>3 DEF Trimmed
<1> QED
  BY <1>2, <1>3

CacheInv ==
  /\ now \in Nat
  /\ cache \in Seq(Observations)
  /\ held = [t \in Threads |-> held[t]]
  /\ \A t \in Threads : phase[t] = "observed" => held[t] \in Observations
  /\ CacheBound

\* What is inserted takes the place of an entry with its ID, so none is there twice.
LEMMA InsertCache ==
  ASSUME CacheInv, NEW t \in Threads, Insert(t)
  PROVE  cache' \in Seq(Observations) /\ CacheBound'
<1> DEFINE places == {k \in DOMAIN cache : Valid(cache[k]) /\ ~Replaces(held[t], cache[k])}
           kept == Retain(cache, places)
           o == held[t]
           longer == Append(kept, o)
<1>1. /\ o \in Observations /\ cache \in Seq(Observations) /\ DistinctIds(cache)
      /\ cache' = Trimmed(longer)
  BY DEF Insert, CacheInv, CacheBound, DistinctIds
<1>2. places \in SUBSET DOMAIN cache /\ \A k \in places : cache[k].id # o.id
  BY DEF Replaces
<1> HIDE DEF places, o
<1>3. /\ kept \in Seq(Observations)
      /\ \A i \in DOMAIN kept : \E k \in places : kept[i] = cache[k]
      /\ \A i, j \in DOMAIN kept : i # j =>
           \E k, l \in places : k # l /\ kept[i] = cache[k] /\ kept[j] = cache[l]
  BY <1>1, <1>2, RetainFacts
<1> HIDE DEF kept
<1>4. \A i \in DOMAIN kept : kept[i].id # o.id
  BY <1>2, <1>3
<1>5. DistinctIds(kept)
  BY <1>1, <1>2, <1>3 DEF DistinctIds
<1>6. /\ longer \in Seq(Observations) /\ Len(longer) = Len(kept) + 1 /\ Len(kept) \in Nat
      /\ \A i \in 1 .. Len(kept) : longer[i] = kept[i]
      /\ longer[Len(kept) + 1] = o
  BY <1>1, <1>3, AppendProperties
<1>7. DistinctIds(longer)
  <2>1. ASSUME NEW j \in DOMAIN longer, NEW k \in DOMAIN longer, longer[j].id = longer[k].id
        PROVE  j = k
    <3>1. DOMAIN longer = 1 .. Len(kept) + 1 /\ DOMAIN kept = 1 .. Len(kept)
      BY <1>3, <1>6
    <3> HIDE DEF longer
    <3>2. CASE j \in DOMAIN kept /\ k \in DOMAIN kept
      BY <1>5, <1>6, <2>1, <3>1, <3>2 DEF DistinctIds
    <3>3. CASE j = Len(kept) + 1 \/ k = Len(kept) + 1
      BY <1>4, <1>6, <2>1, <3>1, <3>3
    <3> QED
      BY <1>6, <3>1, <3>2, <3>3
  <2> QED
    BY <2>1 DEF DistinctIds
<1> HIDE DEF longer
<1>8. Trimmed(longer) \in Seq(Observations) /\ Len(Trimmed(longer)) <= MaxCached
      /\ DistinctIds(Trimmed(longer))
  BY <1>6, <1>7, TrimmedFacts
<1> QED
  BY <1>1, <1>8 DEF CacheBound, DistinctIds

\* Steps of a thread that leave the cache and what the others hold alone.
LEMMA NextCache == Shape /\ CacheInv /\ [Next]_vars => CacheInv'
<1> SUFFICES ASSUME Shape, CacheInv, [Next]_vars PROVE CacheInv'
  OBVIOUS
<1> USE DispatchAssumption
<1>0. \A t \in Threads : phase' = [phase EXCEPT ![t] = phase'[t]] =>
        \A u \in Threads \ {t} : phase'[u] = phase[u]
  BY DEF Shape
<1>1. ASSUME NEW t \in Threads, NEW id \in ObservationIds, Observe(t, id)
      PROVE  CacheInv'
  <2>1. /\ UNCHANGED <<cache, now>>
        /\ held' = [held EXCEPT ![t] = [id |-> id, expires |-> now + Lifetime]]
        /\ phase' = [phase EXCEPT ![t] = "observed"]
    BY <1>1 DEF Observe
  <2>2. [id |-> id, expires |-> now + Lifetime] \in Observations
    BY DEF CacheInv, Observations
  <2> QED
    BY <2>1, <2>2 DEF CacheInv, CacheBound, Shape
<1>2. ASSUME NEW t \in Threads, Discard(t) \/ Insert(t) PROVE CacheInv'
  <2>1. /\ now' = now
        /\ held' = [held EXCEPT ![t] = NoObservation]
        /\ phase' = [phase EXCEPT ![t] = "idle"]
    BY <1>2 DEF Discard, Insert
  <2>2. cache' \in Seq(Observations) /\ CacheBound'
    BY <1>2, InsertCache DEF Discard, CacheInv, CacheBound
  <2> QED
    BY <2>1, <2>2 DEF CacheInv, Shape
<1>3. ASSUME UNCHANGED <<cache, now, held>>,
             \A t \in Threads : phase'[t] = "observed" => phase[t] = "observed"
      PROVE  CacheInv'
  BY <1>3 DEF CacheInv, CacheBound
<1>4. ASSUME NEW t \in Threads,
             \/ \E op \in Operations, h \in Hashes : Call(t, op, h)
             \/ Accept(t) \/ Replay(t) \/ Fail(t) \/ Act(t)
             \/ \E terminals \in Reports : Report(t, terminals)
      PROVE  CacheInv'
  <2>1. UNCHANGED <<cache, now, held>>
    BY <1>4 DEF Call, Accept, Replay, Fail, Act, Report
  <2>2. \E ph \in {"idle", "ready", "running", "acted"} : phase' = [phase EXCEPT ![t] = ph]
    BY <1>4 DEF Call, Accept, Replay, Fail, Act, Report, Reply
  <2> QED
    BY <1>3, <2>1, <2>2 DEF Shape
<1>5. CASE (\E i \in Intents : NextAttempt(i)) \/ UNCHANGED vars
  BY <1>3, <1>5 DEF NextAttempt, vars
<1>6. CASE Restart
  <2>1. /\ cache' = <<>> /\ now' = now
        /\ held' = [t \in Threads |-> NoObservation]
        /\ phase' = [t \in Threads |-> "idle"]
    BY <1>6 DEF Restart
  <2> QED
    BY <2>1 DEF CacheInv, CacheBound
<1>7. CASE Tick
  BY <1>7 DEF Tick, CacheInv, CacheBound
<1> QED
  BY <1>1, <1>2, <1>4, <1>5, <1>6, <1>7 DEF Next

LEMMA InitCache == Init => CacheInv
BY DispatchAssumption DEF Init, CacheInv, CacheBound

(* However snapshots interleave, the cache never holds more than           *)
(* MAX_CACHED_OBSERVATIONS entries and never two with one ID.              *)
THEOREM CacheBoundHolds == Spec => []CacheBound
<1>1. Inv => Shape
  BY DEF Inv
<1>2. CacheInv => CacheBound
  BY DEF CacheInv
<1> QED
  BY InitInv, NextInv, InitCache, NextCache, <1>1, <1>2, PTL DEF Spec

-----------------------------------------------------------------------------
(* Types.                                                                  *)

\* What TypeOK needs beyond Inv and CacheInv.
Typed ==
  /\ \A t \in Threads : phase[t] \in InHand => request[t] \in RequestType
  /\ effect \in [Operations -> [count : Nat, at : Nat, expires : Nat]]

LEMMA NextTyped == Inv /\ CacheInv /\ Typed /\ [Next]_vars => Typed'
<1> SUFFICES ASSUME Inv, CacheInv, Typed, [Next]_vars PROVE Typed'
  OBVIOUS
<1>0. Shape
  BY DEF Inv
<1>1. ASSUME NEW t \in Threads, NEW op \in Operations, NEW h \in Hashes, Call(t, op, h)
      PROVE  Typed'
  <2>1. PICK k \in DOMAIN cache :
          request' = [request EXCEPT ![t] =
                        [op |-> op, hash |-> h, deadline |-> cache[k].expires,
                         expires |-> cache[k].expires]]
    BY <1>1 DEF Call, Execute, Deadline
  <2>2. cache[k].expires \in Nat
    <3>1. cache[k] \in Observations
      BY ElementOfSeq, LenProperties DEF CacheInv
    <3> QED
      BY <3>1 DEF Observations
  <2>3. phase' = [phase EXCEPT ![t] = "ready"] /\ UNCHANGED effect
    BY <1>1 DEF Call
  <2> QED
    BY <1>0, <2>1, <2>2, <2>3 DEF Typed, Shape, RequestType
<1>2. ASSUME NEW t \in Threads, Act(t) PROVE Typed'
  <2> DEFINE op == request[t].op
             e == [count |-> effect[op].count + 1, at |-> now, expires |-> request[t].expires]
  <2>1. /\ phase[t] \in InHand
        /\ phase' = [phase EXCEPT ![t] = "acted"]
        /\ UNCHANGED request
        /\ effect' = [effect EXCEPT ![op] = e]
    BY <1>2 DEF Act, InHand
  <2>2. request[t] \in RequestType /\ op \in Operations /\ now \in Nat
    BY <2>1 DEF Typed, RequestType, CacheInv
  <2>3. e \in [count : Nat, at : Nat, expires : Nat]
    BY <2>2 DEF Typed, RequestType
  <2> HIDE DEF op, e
  <2> QED
    BY <1>0, <2>1, <2>2, <2>3 DEF Typed, Shape
<1>3. ASSUME UNCHANGED effect,
             \A t \in Threads : phase'[t] \in InHand =>
               phase[t] \in InHand /\ request'[t] = request[t]
      PROVE  Typed'
  BY <1>3 DEF Typed
<1>4. ASSUME NEW t \in Threads,
             \/ \E id \in ObservationIds : Observe(t, id)
             \/ Discard(t) \/ Insert(t) \/ Accept(t) \/ Replay(t) \/ Fail(t)
             \/ \E terminals \in Reports : Report(t, terminals)
      PROVE  Typed'
  <2>1. /\ UNCHANGED effect
        /\ \A u \in Threads \ {t} : phase'[u] = phase[u] /\ request'[u] = request[u]
        /\ \/ phase'[t] \in {"idle", "observed"}
           \/ phase[t] = "ready" /\ phase'[t] = "running" /\ request'[t] = request[t]
    BY <1>0, <1>4 DEF Observe, Discard, Insert, Accept, Replay, Fail, Report, Reply, Shape
  <2> QED
    BY <1>3, <2>1 DEF InHand
<1>5. CASE (\E i \in Intents : NextAttempt(i)) \/ Restart \/ Tick \/ UNCHANGED vars
  BY <1>3, <1>5 DEF NextAttempt, Restart, Tick, vars, InHand
<1> QED
  BY <1>1, <1>2, <1>4, <1>5 DEF Next

(* The cache, the requests, the ledger and the histories keep their types: *)
(* in particular every observation in the cache and in a thread's hands is *)
(* one the executor gave.                                                  *)
THEOREM TypeCorrect == Spec => []TypeOK
<1>1. Init => Typed
  BY DispatchAssumption DEF Init, Typed, InHand, NoEffect
<1>2. Inv /\ CacheInv /\ Typed => TypeOK
  BY DEF Inv, Shape, CacheInv, Typed, TypeOK, InHand
<1>3. Inv => Shape
  BY DEF Inv
<1> QED
  BY InitInv, NextInv, InitCache, NextCache, NextTyped, <1>1, <1>2, <1>3, PTL DEF Spec

=============================================================================
