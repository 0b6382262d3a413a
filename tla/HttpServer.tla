----------------------------- MODULE HttpServer -----------------------------
(***************************************************************************)
(* The HTTP transport of folk-transport/src/lib.rs: run_http starts one    *)
(* thread per connection, which reads one request (handle_http_client),    *)
(* answers it and ends, or streams server-sent events until the client is  *)
(* gone.  The threads share only the atomic counter SSE_CLIENTS.           *)
(*                                                                         *)
(* A request is the record of what the code looks at: how many bytes the   *)
(* client has for it (size), where its header block ends (at, and the      *)
(* width of the terminator: 4 or 2; at = size when it never ends), the     *)
(* content-length in it (0 when there is none), whether it names an origin *)
(* and the right bearer, its method and path (target) and what its body is *)
(* to handle_message.                                                      *)
(***************************************************************************)
EXTENDS Integers, FiniteSets

CONSTANTS
  Connections,  \* connections accepted by run_http, each used once
  Requests,     \* requests a client may have to send
  MaxHeader,    \* MAX_HTTP_HEADER_BYTES
  MaxBody,      \* MAX_HTTP_BODY_BYTES
  Chunk,        \* size of `chunk` in the read loop
  MaxSse        \* MAX_SSE_CLIENTS

Targets == {"options", "health", "sse", "message", "other"}

RequestType ==
  [size : Nat, at : Nat, width : {2, 4}, length : Nat, origin : BOOLEAN,
   auth : BOOLEAN, target : Targets, body : {"request", "notification", "invalid"}]

ASSUME HttpAssumption ==
  /\ IsFiniteSet(Connections)
  /\ Requests \subseteq RequestType
  /\ MaxHeader \in Nat /\ MaxBody \in Nat
  /\ Chunk \in Nat \ {0}
  /\ MaxSse \in Nat

VARIABLES
  phase,      \* where each connection's thread is
  client,     \* "sending": more bytes arrive in time; "stalled"; "closed"
  req,        \* the request the client is sending
  got,        \* buffer.len()
  expected,   \* expected_len, -1 for None
  status,     \* status code of the response, 0 while there is none
  sse         \* SSE_CLIENTS

vars == <<phase, client, req, got, expected, status, sse>>

Phases == {"new", "reading", "parsed", "acquire", "over", "streaming", "release", "done"}

TypeOK ==
  /\ phase \in [Connections -> Phases]
  /\ client \in [Connections -> {"sending", "stalled", "closed"}]
  /\ req \in [Connections -> Requests]
  /\ got \in [Connections -> Nat]
  /\ expected \in [Connections -> Nat \cup {-1}]
  /\ status \in [Connections -> {0, 200, 202, 400, 401, 403, 404, 413, 503}]
  /\ sse \in Nat

Init ==
  /\ phase = [c \in Connections |-> "new"]
  /\ client = [c \in Connections |-> "sending"]
  /\ req \in [Connections -> Requests]
  /\ got = [c \in Connections |-> 0]
  /\ expected = [c \in Connections |-> -1]
  /\ status = [c \in Connections |-> 0]
  /\ sse = 0

-----------------------------------------------------------------------------
(* The client.                                                             *)

Stall(c) ==
  /\ client[c] = "sending"
  /\ client' = [client EXCEPT ![c] = "stalled"]
  /\ UNCHANGED <<phase, req, got, expected, status, sse>>

Hangup(c) ==
  /\ client[c] # "closed"
  /\ client' = [client EXCEPT ![c] = "closed"]
  /\ UNCHANGED <<phase, req, got, expected, status, sse>>

-----------------------------------------------------------------------------
(* run_http and the read loop of handle_http_client.                       *)

Accept(c) ==
  /\ phase[c] = "new"
  /\ phase' = [phase EXCEPT ![c] = "reading"]
  /\ UNCHANGED <<client, req, got, expected, status, sse>>

\* The thread answers (the write may fail, which changes nothing here) and ends.
Respond(c, code) ==
  /\ phase' = [phase EXCEPT ![c] = "done"]
  /\ status' = [status EXCEPT ![c] = code]

\* header_end finds the terminator in the first n bytes.
HeaderEnd(r, n) == r.at + r.width <= n

RequestEnd(r) == r.at + r.width + r.length

\* Mutant of TooLong: the body's length is not checked.
HeaderTooLong(r) == r.at > MaxHeader

\* The header block, once its end is found, announces too much.
TooLong(r) == r.at > MaxHeader \/ r.length > MaxBody

\* Mutant of Overrun: the limit holds only once the header's end is known.
NeverOverrun(n) == FALSE

\* No end of the header block within the limit.
Overrun(n) == n > MaxHeader

(* One turn of the loop: n bytes are appended, the end of the header block *)
(* is looked for until it is known, and the limits are checked.            *)
Read(c, n) ==
  LET r     == req[c]
      total == got[c] + n
      found == expected[c] = -1 /\ HeaderEnd(r, total)
      want  == IF found THEN RequestEnd(r) ELSE expected[c]
  IN  /\ phase[c] = "reading" /\ client[c] = "sending"
      /\ total <= r.size
      /\ got' = [got EXCEPT ![c] = total]
      /\ \/ /\ found /\ TooLong(r)
            /\ Respond(c, IF r.at > MaxHeader THEN 400 ELSE 413)
            /\ UNCHANGED expected
         \/ /\ ~(found /\ TooLong(r)) /\ want # -1
            /\ expected' = [expected EXCEPT ![c] = want]
            /\ phase' = [phase EXCEPT ![c] = IF total >= want THEN "parsed" ELSE @]
            /\ UNCHANGED status
         \/ /\ want = -1 /\ Overrun(total)
            /\ Respond(c, 400)
            /\ UNCHANGED expected
         \/ /\ want = -1 /\ ~Overrun(total)
            /\ UNCHANGED <<phase, status, expected>>
      /\ UNCHANGED <<client, req, sse>>

\* `n == 0`: the loop ends with what has been read.
Eof(c) ==
  /\ phase[c] = "reading" /\ client[c] = "closed"
  /\ phase' = [phase EXCEPT ![c] = "parsed"]
  /\ UNCHANGED <<client, req, got, expected, status, sse>>

\* Mutant of TimedOut: set_read_timeout forgotten.
NeverTimesOut(c) == FALSE

\* No byte within HTTP_READ_TIMEOUT.
TimedOut(c) == client[c] = "stalled" \/ (client[c] = "sending" /\ got[c] = req[c].size)

\* stream.read fails: the thread ends without an answer.
ReadTimeout(c) ==
  /\ phase[c] = "reading" /\ TimedOut(c)
  /\ phase' = [phase EXCEPT ![c] = "done"]
  /\ UNCHANGED <<client, req, got, expected, status, sse>>

ReadStep(c) == (\E n \in 1 .. Chunk : Read(c, n)) \/ Eof(c) \/ ReadTimeout(c)

-----------------------------------------------------------------------------
(* Dispatch.                                                               *)

\* What every request is checked for before it is looked at further; 0: pass.
Screen(r, n) ==
  CASE ~HeaderEnd(r, n) -> 400
    [] HeaderEnd(r, n) /\ r.origin -> 403
    [] HeaderEnd(r, n) /\ ~r.origin /\ r.target \in {"sse", "message"} /\ ~r.auth -> 401
    [] OTHER -> 0

FixedAnswer == [options |-> 403, health |-> 200, other |-> 404]

\* Everything that is answered without tools and without a slot.
Answer(c) ==
  LET code == Screen(req[c], got[c])
  IN  /\ phase[c] = "parsed"
      /\ \/ code # 0 /\ Respond(c, code)
         \/ /\ code = 0 /\ req[c].target \in DOMAIN FixedAnswer
            /\ Respond(c, FixedAnswer[req[c].target])
      /\ UNCHANGED <<client, req, got, expected, sse>>

\* Mutant of BodyHere: only the header block is waited for.
BodyAnnounced(r, n) == r.length > 0

\* A body was announced and all of it has been read.
BodyHere(r, n) == r.length > 0 /\ RequestEnd(r) <= n

\* handle_http_post, with the tool that handle_message may run.
Post(c) ==
  LET r == req[c]
  IN  /\ phase[c] = "parsed" /\ Screen(r, got[c]) = 0 /\ r.target = "message"
      /\ Respond(c, CASE r.length > MaxBody -> 413
                      [] r.length <= MaxBody /\ (~BodyHere(r, got[c]) \/ r.body = "invalid")
                           -> 400
                      [] r.length <= MaxBody /\ BodyHere(r, got[c]) /\ r.body = "request"
                           -> 200
                      [] OTHER -> 202)
      /\ UNCHANGED <<client, req, got, expected, sse>>

\* send_sse is entered.
OpenSse(c) ==
  /\ phase[c] = "parsed" /\ Screen(req[c], got[c]) = 0 /\ req[c].target = "sse"
  /\ phase' = [phase EXCEPT ![c] = "acquire"]
  /\ UNCHANGED <<client, req, got, expected, status, sse>>

-----------------------------------------------------------------------------
(* acquire_sse_slot, send_sse_inner and release_sse_slot.                  *)

\* Mutant of SlotFree: `prev > MAX`.
SlotFreeOrOneMore(prev) == prev <= MaxSse

SlotFree(prev) == prev < MaxSse

\* fetch_add, and the comparison of what it returned.
Acquire(c) ==
  /\ phase[c] = "acquire"
  /\ sse' = sse + 1
  /\ phase' = [phase EXCEPT ![c] = IF SlotFree(sse) THEN "streaming" ELSE "over"]
  /\ UNCHANGED <<client, req, got, expected, status>>

\* fetch_sub after a failed comparison, and the 503.
BackOff(c) ==
  /\ phase[c] = "over"
  /\ sse' = sse - 1
  /\ Respond(c, 503)
  /\ UNCHANGED <<client, req, got, expected>>

\* A write of the stream fails: send_sse_inner returns.
StreamEnds(c) ==
  /\ phase[c] = "streaming"
  /\ phase' = [phase EXCEPT ![c] = "release"]
  /\ UNCHANGED <<client, req, got, expected, status, sse>>

\* Mutant of AfterRelease: `send_sse_inner(...)?` returns before the release.
NotReleased == sse

\* Mutant of AfterRelease: a slot is given back twice.
ReleasedTwice == sse - 2

AfterRelease == sse - 1

Release(c) ==
  /\ phase[c] = "release"
  /\ sse' = AfterRelease
  /\ phase' = [phase EXCEPT ![c] = "done"]
  /\ UNCHANGED <<client, req, got, expected, status>>

ThreadStep(c) ==
  ReadStep(c) \/ Answer(c) \/ OpenSse(c) \/ Acquire(c) \/ BackOff(c) \/ Release(c)

Next ==
  \E c \in Connections :
    Accept(c) \/ Stall(c) \/ Hangup(c) \/ ThreadStep(c) \/ Post(c) \/ StreamEnds(c)

(* A runnable thread runs, and a read returns within its timeout.  A tool  *)
(* may run for ever, so nothing is assumed of Post; the keepalive writes   *)
(* to a client that is gone fail in the end.                               *)
Fairness ==
  \A c \in Connections :
    WF_vars(ThreadStep(c)) /\ WF_vars(client[c] = "closed" /\ StreamEnds(c))

Spec == Init /\ [][Next]_vars /\ Fairness

-----------------------------------------------------------------------------
(* Properties.                                                             *)

\* Threads whose fetch_add is in the counter, and those that stream.
Counted == {c \in Connections : phase[c] \in {"over", "streaming", "release"}}
Holders == {c \in Connections : phase[c] \in {"streaming", "release"}}

(* However a client cuts its bytes up, no thread ever buffers more than    *)
(* the two limits and one chunk.                                           *)
BufferBound ==
  \A c \in Connections : got[c] < MaxHeader + 4 + MaxBody + Chunk

(* handle_message only ever gets a whole body within the limit, with a     *)
(* bearer and without an origin: not the part read before the client       *)
(* closed.                                                                 *)
ToolsGetWholeBodies ==
  \A c \in Connections :
    status[c] \in {200, 202} /\ req[c].target = "message" =>
      /\ req[c].auth /\ ~req[c].origin
      /\ req[c].length \in 1 .. MaxBody /\ RequestEnd(req[c]) <= got[c]

\* The counter is the number of threads between their fetch_add and fetch_sub.
SlotAccount == sse = Cardinality(Counted)

\* Although the counter overshoots, no more than MAX_SSE_CLIENTS stream at once.
SseLimit == Cardinality(Holders) <= MaxSse

(* Every read loop ends: a client that stalls runs into the timeout, one   *)
(* that trickles bytes into the limits.                                    *)
ReadEnds == \A c \in Connections : phase[c] = "reading" ~> phase[c] # "reading"

(* Once all clients are gone every slot comes back, those of streams that  *)
(* were being opened included.                                             *)
SlotsDrain == (\A c \in Connections : client[c] = "closed") ~> (sse = 0)

(* The 503 says "too many sse clients" (lib.rs:316), and the test          *)
(* sse_slot_should_enforce_connection_limit (lib.rs:932) that a released   *)
(* slot can be had again: a thread is turned away only when MAX_SSE_CLIENTS *)
(* hold a slot.                                                            *)
RefusedOnlyWhenFull ==
  [][\A c \in Connections :
       phase[c] = "acquire" /\ phase'[c] = "over" => Cardinality(Holders) >= MaxSse]_vars

=============================================================================
