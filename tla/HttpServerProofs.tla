-------------------------- MODULE HttpServerProofs --------------------------
(***************************************************************************)
(* Proofs about the HTTP transport, for any number of connections, any set *)
(* of requests and any limits.  BufferBound rests on ReadingBound, what    *)
(* the read loop knows when it goes round; SseLimit on SlotAccount, since  *)
(* a slot is only given when the counter, and so the number of holders, is *)
(* below the limit.  ToolsGetWholeBodies rests on AnsweredAtEnd: a thread  *)
(* answers only as it ends, so its buffer stays what it answered from.     *)
(***************************************************************************)
EXTENDS HttpServer, FiniteSetTheorems, TLAPS

(* While the loop goes round, the buffer is below the end of the request   *)
(* or, as long as that is unknown, within the header limit.                *)
ReadingBound ==
  \A c \in Connections :
    /\ expected[c] <= MaxHeader + 4 + MaxBody
    /\ phase[c] \in {"new", "reading"} =>
         got[c] <= MaxHeader \/ got[c] < expected[c]

BufferInv == TypeOK /\ ReadingBound /\ BufferBound

LEMMA RequestFacts ==
  ASSUME NEW r \in Requests
  PROVE  /\ r.size \in Nat /\ r.at \in Nat /\ r.width \in {2, 4} /\ r.length \in Nat
         /\ RequestEnd(r) \in Nat
         /\ ~TooLong(r) => RequestEnd(r) <= MaxHeader + 4 + MaxBody
BY HttpAssumption DEF RequestType, RequestEnd, TooLong

LEMMA InitBuffer == Init => BufferInv
BY HttpAssumption DEF Init, BufferInv, TypeOK, Phases, ReadingBound, BufferBound

LEMMA ReadBuffer ==
  ASSUME BufferInv, NEW c \in Connections, NEW n \in 1 .. Chunk, Read(c, n)
  PROVE  BufferInv'
<1> USE HttpAssumption
<1> DEFINE r == req[c]
           total == got[c] + n
           found == expected[c] = -1 /\ HeaderEnd(r, total)
           want == IF found THEN RequestEnd(r) ELSE expected[c]
<1>1. /\ r \in Requests /\ RequestEnd(r) \in Nat
      /\ got[c] \in Nat /\ total \in Nat /\ expected[c] \in Nat \cup {-1}
      /\ ~TooLong(r) => RequestEnd(r) <= MaxHeader + 4 + MaxBody
  BY RequestFacts DEF BufferInv, TypeOK
<1>2. /\ phase[c] = "reading"
      /\ got' = [got EXCEPT ![c] = total]
      /\ UNCHANGED <<client, req, sse>>
  BY DEF Read
<1>3. total < MaxHeader + 4 + MaxBody + Chunk
  BY <1>1, <1>2 DEF BufferInv, ReadingBound
<1>4. BufferBound'
  BY <1>2, <1>3 DEF BufferInv, TypeOK, BufferBound
<1>5. CASE \E code \in {400, 413} : Respond(c, code) /\ UNCHANGED expected
  BY <1>1, <1>2, <1>4, <1>5
     DEF BufferInv, TypeOK, Phases, ReadingBound, Respond
<1>6. CASE /\ ~(found /\ TooLong(r)) /\ want # -1
           /\ expected' = [expected EXCEPT ![c] = want]
           /\ phase' = [phase EXCEPT ![c] = IF total >= want THEN "parsed" ELSE @]
           /\ UNCHANGED status
  <2>1. want \in Nat /\ want <= MaxHeader + 4 + MaxBody
    BY <1>1, <1>6 DEF BufferInv, ReadingBound
  <2> HIDE DEF want, total, found, r
  <2>2. TypeOK'
    BY <1>1, <1>2, <1>6, <2>1 DEF BufferInv, TypeOK, Phases
  <2>3. ReadingBound'
    BY <1>1, <1>2, <1>6, <2>1 DEF BufferInv, TypeOK, ReadingBound
  <2> QED
    BY <1>4, <2>2, <2>3 DEF BufferInv
<1>7. CASE want = -1 /\ ~Overrun(total) /\ UNCHANGED <<phase, status, expected>>
  <2>1. total <= MaxHeader
    BY <1>1, <1>7 DEF Overrun
  <2> QED
    BY <1>1, <1>2, <1>4, <1>7, <2>1 DEF BufferInv, TypeOK, ReadingBound
<1> QED
  BY <1>5, <1>6, <1>7 DEF Read

\* Every other step leaves the buffers alone and starts no second loop.
LEMMA OtherBuffer ==
  ASSUME BufferInv, NEW c \in Connections, NEW ph \in Phases \ {"new"},
         ph = "reading" => phase[c] = "new",
         phase' = [phase EXCEPT ![c] = ph], UNCHANGED <<req, got, expected>>,
         client' = client, sse' \in Nat,
         status' \in [Connections -> {0, 200, 202, 400, 401, 403, 404, 413, 503}]
  PROVE  BufferInv'
<1>1. TypeOK'
  BY ZenonT(30) DEF BufferInv, TypeOK
<1>2. ReadingBound'
  BY DEF BufferInv, TypeOK, ReadingBound
<1> QED
  BY <1>1, <1>2 DEF BufferInv, BufferBound

LEMMA ResponseCodes ==
  /\ \A r \in Requests, n \in Nat : Screen(r, n) \in {0, 400, 401, 403}
  /\ \A t \in DOMAIN FixedAnswer : FixedAnswer[t] \in {200, 403, 404}
BY DEF Screen, FixedAnswer

(* SlotAccount is needed here: that the counter stays a natural number is  *)
(* that no thread takes back what it has not added.                        *)
LEMMA CounterPositive ==
  ASSUME SlotAccount, NEW c \in Counted
  PROVE  sse \in Nat /\ sse > 0
<1>1. IsFiniteSet(Counted)
  BY HttpAssumption, FS_Subset DEF Counted
<1>2. Cardinality(Counted) \in Nat /\ Cardinality(Counted) # 0
  BY <1>1, FS_CardinalityType, FS_EmptySet
<1> QED
  BY <1>2 DEF SlotAccount

-----------------------------------------------------------------------------
(* The slots.                                                              *)

\* A thread that neither enters nor leaves the counted phases.
LEMMA SameSlots ==
  ASSUME TypeOK, SlotAccount, SseLimit, NEW c \in Connections, NEW ph \in Phases,
         phase' = [phase EXCEPT ![c] = ph], sse' = sse,
         \/ /\ phase[c] \notin {"over", "streaming", "release"}
            /\ ph \notin {"over", "streaming", "release"}
         \/ phase[c] = "streaming" /\ ph = "release"
  PROVE  SlotAccount' /\ SseLimit'
<1>1. Counted' = Counted /\ Holders' = Holders
  BY DEF TypeOK, Counted, Holders
<1> QED
  BY <1>1 DEF SlotAccount, SseLimit

LEMMA AcquireSlots ==
  ASSUME TypeOK, SlotAccount, SseLimit, NEW c \in Connections, Acquire(c)
  PROVE  SlotAccount' /\ SseLimit'
<1>1. IsFiniteSet(Counted) /\ IsFiniteSet(Holders) /\ Holders \subseteq Counted
  BY HttpAssumption, FS_Subset DEF Counted, Holders
<1>2. c \notin Counted /\ c \notin Holders
  BY DEF Acquire, Counted, Holders
<1>3. Counted' = Counted \cup {c}
  BY DEF Acquire, TypeOK, Counted
<1>4. Cardinality(Counted') = Cardinality(Counted) + 1
  BY <1>1, <1>2, <1>3, FS_AddElement
<1>5. SlotAccount'
  BY <1>4 DEF Acquire, SlotAccount
<1>6. CASE SlotFree(sse)
  <2>1. Holders' = Holders \cup {c}
    BY <1>6 DEF Acquire, TypeOK, Holders
  <2>2. Cardinality(Holders') = Cardinality(Holders) + 1
    BY <1>1, <1>2, <2>1, FS_AddElement
  <2>3. Cardinality(Holders) <= Cardinality(Counted)
    BY <1>1, FS_Subset
  <2>4. Cardinality(Holders) \in Nat /\ Cardinality(Counted) \in Nat
    BY <1>1, FS_CardinalityType
  <2> QED
    BY <1>5, <1>6, <2>2, <2>3, <2>4, HttpAssumption DEF SlotAccount, SlotFree, SseLimit
<1>7. CASE ~SlotFree(sse)
  <2>1. Holders' = Holders
    BY <1>7 DEF Acquire, TypeOK, Holders
  <2> QED
    BY <1>5, <2>1 DEF SseLimit
<1> QED
  BY <1>6, <1>7

LEMMA LeaveSlots ==
  ASSUME TypeOK, SlotAccount, SseLimit, NEW c \in Counted,
         phase' = [phase EXCEPT ![c] = "done"], sse' = sse - 1
  PROVE  SlotAccount' /\ SseLimit'
<1>1. /\ IsFiniteSet(Counted) /\ IsFiniteSet(Holders)
      /\ c \in Connections
  BY HttpAssumption, FS_Subset DEF Counted, Holders
<1>2. Counted' = Counted \ {c} /\ Holders' \subseteq Holders
  BY <1>1 DEF TypeOK, Counted, Holders
<1>3. Cardinality(Counted') = Cardinality(Counted) - 1
  BY <1>1, <1>2, FS_RemoveElement
<1>4. Cardinality(Holders') <= Cardinality(Holders)
  BY <1>1, <1>2, FS_Subset
<1>5. /\ Cardinality(Holders) \in Nat /\ Cardinality(Holders') \in Nat
      /\ IsFiniteSet(Holders')
  BY <1>1, <1>2, FS_CardinalityType, FS_Subset
<1> QED
  BY <1>3, <1>4, <1>5, HttpAssumption DEF SlotAccount, SseLimit

-----------------------------------------------------------------------------
Inv == BufferInv /\ SlotAccount /\ SseLimit

LEMMA InitInv == Init => Inv
<1> SUFFICES ASSUME Init PROVE Inv
  OBVIOUS
<1>1. Counted = {} /\ Holders = {}
  BY DEF Init, Counted, Holders
<1>2. Cardinality({}) = 0
  BY FS_EmptySet
<1> QED
  BY <1>1, <1>2, InitBuffer, HttpAssumption DEF Init, Inv, SlotAccount, SseLimit

LEMMA NextInv == Inv /\ [Next]_vars => Inv'
<1> SUFFICES ASSUME Inv, [Next]_vars PROVE Inv'
  OBVIOUS
<1> DEFINE Codes == {0, 200, 202, 400, 401, 403, 404, 413, 503}
<1>0. TypeOK /\ BufferInv /\ SlotAccount /\ SseLimit
  BY DEF Inv, BufferInv
<1>1. ASSUME NEW c \in Connections, Stall(c) \/ Hangup(c) PROVE Inv'
  <2>1. UNCHANGED <<phase, req, got, expected, status, sse>>
    BY <1>1 DEF Stall, Hangup
  <2>2. client' \in [Connections -> {"sending", "stalled", "closed"}]
    BY <1>0, <1>1 DEF Stall, Hangup, TypeOK
  <2>3. TypeOK'
    BY <1>0, <2>1, <2>2 DEF TypeOK
  <2>4. ReadingBound' /\ BufferBound'
    BY <1>0, <2>1 DEF BufferInv, ReadingBound, BufferBound
  <2>5. SlotAccount' /\ SseLimit'
    BY <1>0, <2>1 DEF SlotAccount, SseLimit, Counted, Holders
  <2> QED
    BY <2>3, <2>4, <2>5 DEF Inv, BufferInv
<1>2. ASSUME NEW c \in Connections, NEW ph \in Phases \ {"new"},
             ph = "reading" => phase[c] = "new",
             \/ /\ phase[c] \notin {"over", "streaming", "release"}
                /\ ph \notin {"over", "streaming", "release"}
             \/ phase[c] = "streaming" /\ ph = "release",
             phase' = [phase EXCEPT ![c] = ph],
             UNCHANGED <<client, req, got, expected, sse>>,
             status' \in [Connections -> Codes]
      PROVE  Inv'
  <2>1. BufferInv'
    BY <1>0, <1>2, OtherBuffer, ZenonT(30) DEF TypeOK
  <2>2. SlotAccount' /\ SseLimit'
    BY <1>0, <1>2, SameSlots
  <2> QED
    BY <2>1, <2>2 DEF Inv
<1>3. ASSUME NEW c \in Connections, Accept(c) PROVE Inv'
  BY <1>0, <1>2, <1>3 DEF Accept, TypeOK, Phases
<1>4. ASSUME NEW c \in Connections, NEW n \in 1 .. Chunk, Read(c, n) PROVE Inv'
  <2>1. BufferInv'
    BY <1>0, <1>4, ReadBuffer
  <2>2. PICK ph \in {"reading", "parsed", "done"} : phase' = [phase EXCEPT ![c] = ph]
    <3>1. phase[c] = "reading" /\ phase = [phase EXCEPT ![c] = phase[c]]
      BY <1>0, <1>4 DEF Read, TypeOK
    <3> QED
      BY <1>4, <3>1 DEF Read, Respond
  <2>3. phase[c] = "reading" /\ sse' = sse
    BY <1>4 DEF Read
  <2>4. SlotAccount' /\ SseLimit'
    BY <1>0, <2>2, <2>3, SameSlots DEF Phases
  <2> QED
    BY <2>1, <2>4 DEF Inv
<1>5. ASSUME NEW c \in Connections, Eof(c) \/ ReadTimeout(c) PROVE Inv'
  BY <1>0, <1>2, <1>5 DEF Eof, ReadTimeout, TypeOK, Phases
<1>6. ASSUME NEW c \in Connections, NEW code \in Codes, Respond(c, code),
             phase[c] = "parsed", UNCHANGED <<client, req, got, expected, sse>>
      PROVE  Inv'
  <2>1. phase' = [phase EXCEPT ![c] = "done"] /\ "done" \in Phases
    BY <1>6 DEF Respond, Phases
  <2>2. status' \in [Connections -> Codes]
    <3> HIDE DEF Codes
    <3>1. status \in [Connections -> Codes]
      BY <1>0 DEF TypeOK, Codes
    <3> QED
      BY <1>6, <3>1 DEF Respond
  <2> HIDE DEF Codes
  <2> QED
    BY <1>2, <1>6, <2>1, <2>2
<1>7. ASSUME NEW c \in Connections, Answer(c) PROVE Inv'
  BY <1>0, <1>6, <1>7, ResponseCodes DEF Answer, TypeOK
<1>8. ASSUME NEW c \in Connections, Post(c) PROVE Inv'
  BY <1>0, <1>6, <1>8 DEF Post
<1>9. ASSUME NEW c \in Connections, OpenSse(c) \/ StreamEnds(c) PROVE Inv'
  BY <1>0, <1>2, <1>9 DEF OpenSse, StreamEnds, TypeOK, Phases
<1>10. ASSUME NEW c \in Connections, Acquire(c) PROVE Inv'
  <2>1. BufferInv'
    <3>1. PICK ph \in {"streaming", "over"} : phase' = [phase EXCEPT ![c] = ph]
      BY <1>10 DEF Acquire
    <3>2. sse' \in Nat /\ status' \in [Connections -> Codes]
          /\ UNCHANGED <<client, req, got, expected>>
      BY <1>0, <1>10 DEF Acquire, TypeOK
    <3> QED
      BY <1>0, <3>1, <3>2, OtherBuffer DEF Phases
  <2> QED
    BY <1>0, <1>10, <2>1, AcquireSlots DEF Inv
<1>11. ASSUME NEW c \in Connections, BackOff(c) \/ Release(c) PROVE Inv'
  <2>1. c \in Counted /\ phase' = [phase EXCEPT ![c] = "done"] /\ sse' = sse - 1
    BY <1>11 DEF BackOff, Release, Respond, AfterRelease, Counted
  <2>2. sse - 1 \in Nat
    BY <1>0, <2>1, CounterPositive
  <2>3. status' \in [Connections -> Codes] /\ UNCHANGED <<client, req, got, expected>>
    BY <1>0, <1>11 DEF BackOff, Release, Respond, TypeOK
  <2>4. BufferInv'
    BY <1>0, <2>1, <2>2, <2>3, OtherBuffer DEF Phases
  <2> QED
    BY <1>0, <2>1, <2>4, LeaveSlots DEF Inv
<1>12. CASE UNCHANGED vars
  <2>1. UNCHANGED <<phase, client, req, got, expected, status, sse>>
    BY <1>12 DEF vars
  <2>2. TypeOK'
    BY <1>0, <2>1 DEF TypeOK
  <2>3. ReadingBound' /\ BufferBound'
    BY <1>0, <2>1 DEF BufferInv, ReadingBound, BufferBound
  <2>4. SlotAccount' /\ SseLimit'
    BY <1>0, <2>1 DEF SlotAccount, SseLimit, Counted, Holders
  <2> QED
    BY <2>2, <2>3, <2>4 DEF Inv, BufferInv
<1> QED
  BY <1>1, <1>3, <1>4, <1>5, <1>7, <1>8, <1>9, <1>10, <1>11, <1>12
     DEF Next, ThreadStep, ReadStep

\* The invariant holds in every reachable state.
LEMMA InvHolds == Spec => []Inv
BY InitInv, NextInv, PTL DEF Spec

\* Phases, buffers, answers and the counter keep their types: it never goes below 0.
THEOREM TypeCorrect == Spec => []TypeOK
<1>1. Inv => TypeOK
  BY DEF Inv, BufferInv
<1> QED
  BY InvHolds, <1>1, PTL

\* No thread buffers more than the header and body limits and one chunk.
THEOREM BufferBoundHolds == Spec => []BufferBound
<1>1. Inv => BufferBound
  BY DEF Inv, BufferInv
<1> QED
  BY InvHolds, <1>1, PTL

\* SSE_CLIENTS is the number of threads between their fetch_add and fetch_sub.
THEOREM SlotAccountHolds == Spec => []SlotAccount
<1>1. Inv => SlotAccount
  BY DEF Inv
<1> QED
  BY InvHolds, <1>1, PTL

\* At most MAX_SSE_CLIENTS streams are open, though the counter may overshoot.
THEOREM SseLimitHolds == Spec => []SseLimit
<1>1. Inv => SseLimit
  BY DEF Inv
<1> QED
  BY InvHolds, <1>1, PTL

-----------------------------------------------------------------------------
(* What handle_message gets.                                               *)

(* A thread that has not ended has not answered, so neither its buffer nor *)
(* the phase it read it in changes under an answer.                        *)
AnsweredAtEnd == \A c \in Connections : phase[c] # "done" => status[c] = 0

WholeBody(r, n) ==
  /\ r.auth /\ ~r.origin
  /\ r.length \in 1 .. MaxBody /\ RequestEnd(r) <= n

\* A request that passes the screen for the tools names the bearer and no origin.
LEMMA ScreenPasses ==
  ASSUME NEW r \in Requests, NEW n \in Nat, Screen(r, n) = 0, r.target = "message"
  PROVE  r.auth /\ ~r.origin
<1>1. 400 # 0 /\ 401 # 0 /\ 403 # 0 /\ r.target \in {"sse", "message"}
  OBVIOUS
<1>2. HeaderEnd(r, n)
  BY <1>1, Zenon DEF Screen
<1>3. ~r.origin
  BY <1>1, <1>2, Zenon DEF Screen
<1>4. r.auth
  BY <1>1, <1>2, <1>3, Zenon DEF Screen
<1> QED
  BY <1>3, <1>4

LEMMA FixedAnswerTargets == "message" \notin DOMAIN FixedAnswer
BY DEF FixedAnswer

\* The only answers a POST gets with a tool's result or an acknowledgement.
LEMMA PostAnswers ==
  ASSUME TypeOK, NEW c \in Connections, Post(c), status'[c] \in {200, 202}
  PROVE  WholeBody(req[c], got[c])
<1> DEFINE r == req[c]
<1>1. r \in Requests /\ got[c] \in Nat /\ r.length \in Nat
  BY RequestFacts DEF TypeOK
<1>2. r.auth /\ ~r.origin
  BY <1>1, ScreenPasses DEF Post
<1>3. r.length <= MaxBody /\ BodyHere(r, got[c])
  BY <1>1, HttpAssumption DEF Post, Respond, TypeOK
<1>4. r.length \in 1 .. MaxBody /\ RequestEnd(r) <= got[c]
  BY <1>1, <1>3, HttpAssumption DEF BodyHere
<1> QED
  BY <1>2, <1>4 DEF WholeBody

\* Everyone but the thread that answers keeps its request, buffer and answer.
LEMMA NextBodies ==
  ASSUME Inv, AnsweredAtEnd, ToolsGetWholeBodies, [Next]_vars
  PROVE  AnsweredAtEnd' /\ ToolsGetWholeBodies'
<1>0. TypeOK
  BY DEF Inv, BufferInv
<1>1. ASSUME NEW c \in Connections,
             \A d \in Connections \ {c} :
               phase'[d] = phase[d] /\ status'[d] = status[d] /\ got'[d] = got[d],
             req' = req,
             phase'[c] # "done" => status'[c] = 0,
             status'[c] \in {200, 202} /\ req[c].target = "message" =>
               \/ status'[c] = status[c] /\ got'[c] = got[c]
               \/ WholeBody(req[c], got'[c])
      PROVE  AnsweredAtEnd' /\ ToolsGetWholeBodies'
  <2>1. AnsweredAtEnd'
    BY <1>1 DEF AnsweredAtEnd
  <2>2. ASSUME NEW d \in Connections, status'[d] \in {200, 202}, req[d].target = "message"
        PROVE  WholeBody(req[d], got'[d])
    <3>1. status[d] \in {200, 202} => WholeBody(req[d], got[d])
      BY <2>2, Zenon DEF ToolsGetWholeBodies, WholeBody
    <3>2. CASE d # c
      BY <1>1, <2>2, <3>1, <3>2
    <3>3. CASE d = c
      BY <1>1, <2>2, <3>1, <3>3
    <3> QED
      BY <3>2, <3>3
  <2> QED
    BY <1>1, <2>1, <2>2, Zenon DEF ToolsGetWholeBodies, WholeBody
<1>2. ASSUME NEW c \in Connections, Stall(c) \/ Hangup(c)
      PROVE  AnsweredAtEnd' /\ ToolsGetWholeBodies'
  BY <1>1, <1>2 DEF Stall, Hangup, AnsweredAtEnd
<1>3. ASSUME NEW c \in Connections,
             \/ Accept(c) \/ Eof(c) \/ ReadTimeout(c) \/ OpenSse(c)
             \/ Acquire(c) \/ StreamEnds(c) \/ Release(c)
      PROVE  AnsweredAtEnd' /\ ToolsGetWholeBodies'
  <2>1. /\ phase[c] # "done" /\ status' = status /\ got' = got /\ req' = req
        /\ \A d \in Connections \ {c} : phase'[d] = phase[d]
    BY <1>0, <1>3 DEF Accept, Eof, ReadTimeout, OpenSse, Acquire, StreamEnds, Release, TypeOK
  <2> QED
    BY <1>1, <2>1 DEF AnsweredAtEnd
<1>4. ASSUME NEW c \in Connections, NEW n \in 1 .. Chunk, Read(c, n)
      PROVE  AnsweredAtEnd' /\ ToolsGetWholeBodies'
  <2>1. /\ phase[c] = "reading" /\ req' = req
        /\ \A d \in Connections \ {c} : got'[d] = got[d]
    BY <1>0, <1>4 DEF Read, TypeOK
  <2>2. /\ \A d \in Connections \ {c} : phase'[d] = phase[d] /\ status'[d] = status[d]
        /\ \/ status'[c] \in {400, 413} /\ phase'[c] = "done"
           \/ status' = status
    BY <1>0, <1>4 DEF Read, Respond, TypeOK
  <2>3. status[c] = 0
    BY <2>1 DEF AnsweredAtEnd
  <2> QED
    BY <1>1, <2>1, <2>2, <2>3
<1>5. ASSUME NEW c \in Connections, NEW code, Respond(c, code), UNCHANGED <<req, got>>,
             code \in {200, 202} /\ req[c].target = "message" => WholeBody(req[c], got[c])
      PROVE  AnsweredAtEnd' /\ ToolsGetWholeBodies'
  <2>1. /\ phase'[c] = "done" /\ status'[c] = code
        /\ \A d \in Connections \ {c} : phase'[d] = phase[d] /\ status'[d] = status[d]
    BY <1>0, <1>5 DEF Respond, TypeOK
  <2> QED
    BY <1>1, <1>5, <2>1
<1>6. ASSUME NEW c \in Connections, Answer(c)
      PROVE  AnsweredAtEnd' /\ ToolsGetWholeBodies'
  <2>1. req[c] \in Requests /\ got[c] \in Nat
    BY <1>0 DEF TypeOK
  <2>2. Screen(req[c], got[c]) \notin {200, 202}
    BY <2>1, ResponseCodes
  <2> QED
    BY <1>5, <1>6, <2>2, FixedAnswerTargets DEF Answer
<1>7. ASSUME NEW c \in Connections, BackOff(c)
      PROVE  AnsweredAtEnd' /\ ToolsGetWholeBodies'
  BY <1>5, <1>7 DEF BackOff
<1>8. ASSUME NEW c \in Connections, Post(c)
      PROVE  AnsweredAtEnd' /\ ToolsGetWholeBodies'
  <2>1. PICK code : Respond(c, code) /\ UNCHANGED <<req, got>>
    BY <1>8 DEF Post
  <2>2. status'[c] = code
    BY <1>0, <2>1 DEF Respond, TypeOK
  <2> QED
    BY <1>0, <1>5, <1>8, <2>1, <2>2, PostAnswers
<1>9. CASE UNCHANGED vars
  BY <1>9 DEF vars, AnsweredAtEnd, ToolsGetWholeBodies
<1> QED
  BY <1>2, <1>3, <1>4, <1>6, <1>7, <1>8, <1>9 DEF Next, ThreadStep, ReadStep

(* A tool runs only on a body that was announced, is within the limit and  *)
(* has been read to its last byte, from a client with the bearer and       *)
(* without an origin.                                                      *)
THEOREM ToolsGetWholeBodiesHolds == Spec => []ToolsGetWholeBodies
<1>1. Init => AnsweredAtEnd /\ ToolsGetWholeBodies
  BY DEF Init, AnsweredAtEnd, ToolsGetWholeBodies
<1>2. Inv /\ AnsweredAtEnd /\ ToolsGetWholeBodies /\ [Next]_vars
        => (Inv /\ AnsweredAtEnd /\ ToolsGetWholeBodies)'
  BY NextInv, NextBodies
<1> QED
  BY InitInv, <1>1, <1>2, PTL DEF Spec

=============================================================================
