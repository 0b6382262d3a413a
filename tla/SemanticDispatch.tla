-------------------------- MODULE SemanticDispatch --------------------------
(***************************************************************************)
(* The semantic computer-use tools: folk_ui_snapshot / folk_see, folk_click*)
(* and folk_set_value, from handle_message (folk-mcp) through their        *)
(* handlers and the observation cache (folk-computer-use) to the Praefectus*)
(* engine with its durable ledger, which is external.                      *)
(*                                                                         *)
(* Each member of Threads is a server thread that runs one tool call at a  *)
(* time (handle_http_client spawns one per connection), so calls run       *)
(* concurrently; the daemon may crash at any moment, which loses the cache *)
(* and the running calls and keeps the ledger.                             *)
(*                                                                         *)
(* A client works on intents ("press this button once").  It names an      *)
(* attempt at intent i by the operation ID <<i, n>>, repeats the same ID   *)
(* as often as it likes (lost reply, timeout), and goes on to <<i, n + 1>> *)
(* only after a report for <<i, n>> said `retry_safe: true`.               *)
(*                                                                         *)
(* Calls that only earn an error (bad arguments, unknown tag, missing or   *)
(* expired observation, unsupported action) change nothing and are         *)
(* stuttering steps, as are the methods initialize, ping and tools/list.   *)
(***************************************************************************)
EXTENDS Integers, Sequences, FiniteSets

CONSTANTS
  Mode,            \* ToolTable.mode, fixed when the daemon starts
  Threads,         \* threads that run tool calls
  Intents,         \* what clients want done, each at most once
  MaxAttempts,     \* bound of the model: operation IDs per intent, less one
  ObservationIds,  \* observation_id values the executor hands out
  NoHash,          \* an operation without a ledger entry
  Supported,       \* capabilities().supported_actions
  MaxCached,       \* MAX_CACHED_OBSERVATIONS
  Lifetime,        \* expires_at_ms - observed_at_ms of an observation
  Reports,         \* sets of terminals an engine report may carry
  MaxTime          \* bound of the model: the clock stops here

Modes == {"full", "limited", "sandbox"}

InteractionModes == {"interactive", "background_only"}

Actions == {"invoke", "set_value"}

Terminals == {"rejected", "cancelled_before_effect", "expired_before_effect",
              "succeeded", "failed", "outcome_unknown"}

\* The terminals with which the engine says that nothing was delivered.
BeforeEffect == {"rejected", "cancelled_before_effect", "expired_before_effect"}

Hashes == [action : Actions, observation : ObservationIds, mode : InteractionModes]

Operations == Intents \X (0 .. MaxAttempts)

ASSUME DispatchAssumption ==
  /\ Mode \in Modes
  /\ MaxAttempts \in Nat
  /\ NoHash \notin Hashes
  /\ Supported \subseteq Actions
  /\ MaxCached \in Nat \ {0}
  /\ Lifetime \in Nat \ {0}
  /\ Reports \subseteq SUBSET Terminals
  /\ MaxTime \in Nat

VARIABLES
  cache,    \* OBSERVATIONS, oldest first
  now,      \* now_ms()
  phase,    \* how far each thread's call has come
  held,     \* thread -> the observation it is about to cache
  request,  \* thread -> the request it hands to the engine
  ledger,   \* external: operation -> the hash and the terminals recorded for it
  attempt,  \* the client's: intent -> the attempt it is at
  told,     \* history: operations some report called retry_safe
  effect    \* history: operation -> how often it took effect, and the last time

vars == <<cache, now, phase, held, request, ledger, attempt, told, effect>>

NoEntry == [hash |-> NoHash, terminals |-> {}]

NoEffect == [count |-> 0, at |-> 0, expires |-> 0]

Observations == [id : ObservationIds, expires : Nat]

RequestType == [op : Operations, hash : Hashes, deadline : Nat, expires : Nat]

TypeOK ==
  /\ cache \in Seq(Observations)
  /\ now \in Nat
  /\ phase \in [Threads ->
                  {"idle", "observed", "ready", "running", "acted"}]
  /\ \A t \in Threads :
       /\ phase[t] = "observed" => held[t] \in Observations
       /\ phase[t] \in {"ready", "running", "acted"} => request[t] \in RequestType
  /\ ledger \in [Operations -> [hash : Hashes \cup {NoHash},
                                terminals : SUBSET Terminals]]
  /\ attempt \in [Intents -> 0 .. MaxAttempts]
  /\ told \in SUBSET Operations
  /\ effect \in [Operations -> [count : Nat, at : Nat, expires : Nat]]

NoObservation == [id |-> NoHash, expires |-> 0]

NoRequest == [op |-> NoHash, hash |-> NoHash, deadline |-> 0, expires |-> 0]

Init ==
  /\ cache = <<>>
  /\ now = 0
  /\ phase = [t \in Threads |-> "idle"]
  /\ held = [t \in Threads |-> NoObservation]
  /\ request = [t \in Threads |-> NoRequest]
  /\ ledger = [o \in Operations |-> NoEntry]
  /\ attempt = [i \in Intents |-> 0]
  /\ told = {}
  /\ effect = [o \in Operations |-> NoEffect]

-----------------------------------------------------------------------------
(* Observing: folk_ui_snapshot and folk_see.                               *)

\* register_tools keeps the observing tools only if some action is supported.
Observing == Supported # {}

\* observation.validate and the retain of cache_observation: not yet expired.
Valid(o) == o.expires > now

\* The executor's observe_semantic returns an observation of this moment.
Observe(t, id) ==
  /\ Observing
  /\ phase[t] = "idle"
  /\ phase' = [phase EXCEPT ![t] = "observed"]
  /\ held' = [held EXCEPT ![t] = [id |-> id, expires |-> now + Lifetime]]
  /\ UNCHANGED <<cache, now, request, ledger, attempt, told, effect>>

\* cache_observation's own validate finds the observation expired: an error.
Discard(t) ==
  /\ phase[t] = "observed"
  /\ ~Valid(held[t])
  /\ phase' = [phase EXCEPT ![t] = "idle"]
  /\ held' = [held EXCEPT ![t] = NoObservation]
  /\ UNCHANGED <<cache, now, request, ledger, attempt, told, effect>>

\* Mutant of Replaces: an earlier observation with the same ID is kept.
NeverReplaces(o, old) == FALSE

\* The new observation takes the place of one with the same ID.
Replaces(o, old) == old.id = o.id

\* Mutant of Trimmed: the oldest entry goes one insertion too late.
TrimmedLate(s) ==
  IF Len(s) > MaxCached + 1 THEN SubSeq(s, Len(s) - MaxCached, Len(s)) ELSE s

\* `while observations.len() > MAX_CACHED_OBSERVATIONS { pop_front }`.
Trimmed(s) ==
  IF Len(s) > MaxCached THEN SubSeq(s, Len(s) - MaxCached + 1, Len(s)) ELSE s

\* The place in the queue of the i-th entry that is kept.
KeptAt(places, i) == CHOOSE k \in places : Cardinality({j \in places : j <= k}) = i

\* VecDeque::retain: the entries of s at the given places, in their order.
Retain(s, places) == [i \in 1 .. Cardinality(places) |-> s[KeptAt(places, i)]]

\* cache_observation under the lock, with the time read again.  The validate
\* came before the lock was waited for, so the observation may have expired.
Insert(t) ==
  LET kept == {k \in DOMAIN cache : Valid(cache[k]) /\ ~Replaces(held[t], cache[k])}
  IN  /\ phase[t] = "observed"
      /\ cache' = Trimmed(Append(Retain(cache, kept), held[t]))
      /\ phase' = [phase EXCEPT ![t] = "idle"]
      /\ held' = [held EXCEPT ![t] = NoObservation]
      /\ UNCHANGED <<now, request, ledger, attempt, told, effect>>

-----------------------------------------------------------------------------
(* Acting: folk_click and folk_set_value.                                  *)

\* ensure_mutation, asked by the handler and again by the adapter.
EnsureMutation == Mode = "full"

\* Mutant of Deadline: every request gets the executor's full time.
FullDeadline(o) == now + Lifetime

\* Mutant of Deadline: a margin longer than the observation lives is kept.
DeadlineWithMargin(o) == o.expires - 2 * Lifetime

\* cached_target hands the observation's expiry on as the request's deadline.
Deadline(o) == o.expires

\* cached_target finds the first entry with the ID.
Finds(k, id) ==
  /\ cache[k].id = id
  /\ \A j \in DOMAIN cache : j < k => cache[j].id # id

\* execute_click and execute_set_value, up to the engine; any condition that
\* does not hold is an error reply.
Execute(t, op, h) ==
  /\ EnsureMutation
  /\ \E k \in DOMAIN cache :
       /\ Finds(k, h.observation)
       /\ Valid(cache[k])
       /\ request' = [request EXCEPT ![t] =
                        [op |-> op, hash |-> h, deadline |-> Deadline(cache[k]),
                         expires |-> cache[k].expires]]
  /\ h.action \in Supported

\* ToolTable::call finds the tool only if register_tools kept it.
Advertised(action) == action \in Supported

(* A tools/call for operation op, run by handle_message.  One without an   *)
(* id is a notification and runs nothing.                                  *)
Call(t, op, h) ==
  /\ phase[t] = "idle"
  /\ op[2] = attempt[op[1]]
  /\ Advertised(h.action)
  /\ Execute(t, op, h)
  /\ phase' = [phase EXCEPT ![t] = "ready"]
  /\ UNCHANGED <<cache, now, held, ledger, attempt, told, effect>>

\* Mutant of ProvesNoEffect: a failed dispatch is taken for no effect.
FailedToo(terminal) == terminal \in BeforeEffect \cup {"failed"}

\* terminal_proves_no_effect.
ProvesNoEffect(terminal) == terminal \in BeforeEffect

\* Mutant of RetrySafe: one good terminal is enough.
RetrySafeIfAny(terminals) == \E terminal \in terminals : ProvesNoEffect(terminal)

\* Mutant of RetrySafe: a report without a terminal counts as safe.
RetrySafeIfNone(terminals) == \A terminal \in terminals : ProvesNoEffect(terminal)

\* report_is_retry_safe: there is a terminal and every one proves no effect.
RetrySafe(terminals) ==
  /\ terminals # {}
  /\ \A terminal \in terminals : ProvesNoEffect(terminal)

\* report_result: the reply to the client, after which the thread is free.
Reply(t, terminals) ==
  /\ told' = IF RetrySafe(terminals) THEN told \cup {request[t].op} ELSE told
  /\ phase' = [phase EXCEPT ![t] = "idle"]
  /\ request' = [request EXCEPT ![t] = NoRequest]

\* External: the first request with this operation ID is entered in the ledger.
Accept(t) ==
  LET op == request[t].op
  IN  /\ phase[t] = "ready"
      /\ ledger[op] = NoEntry
      /\ ledger' = [ledger EXCEPT ![op] = [hash |-> request[t].hash, terminals |-> {}]]
      /\ phase' = [phase EXCEPT ![t] = "running"]
      /\ UNCHANGED <<cache, now, held, request, attempt, told, effect>>

\* External: the same ID and hash again is answered from the ledger.
Replay(t) ==
  LET entry == ledger[request[t].op]
  IN  /\ phase[t] = "ready"
      /\ entry.hash = request[t].hash
      /\ Reply(t, entry.terminals)
      /\ UNCHANGED <<cache, now, held, ledger, attempt, effect>>

\* External: execute returns an error (the ID is taken by another hash, or the
\* ledger cannot be read or written); the reply says nothing about retrying.
Fail(t) ==
  /\ phase[t] \in {"ready", "running", "acted"}
  /\ phase' = [phase EXCEPT ![t] = "idle"]
  /\ request' = [request EXCEPT ![t] = NoRequest]
  /\ UNCHANGED <<cache, now, held, ledger, attempt, told, effect>>

\* External: the executor acts on the target before the request's deadline.
Act(t) ==
  LET r == request[t]
  IN  /\ phase[t] = "running"
      /\ now < r.deadline
      /\ phase' = [phase EXCEPT ![t] = "acted"]
      /\ effect' = [effect EXCEPT ![r.op] =
                      [count |-> @.count + 1, at |-> now,
                       expires |-> r.expires]]
      /\ UNCHANGED <<cache, now, held, request, ledger, attempt, told>>

\* External: what a report may say.  After an effect it never consists of
\* terminals that all deny the effect.
Honest(t, terminals) ==
  /\ terminals # {}
  /\ phase[t] = "acted" => ~(terminals \subseteq BeforeEffect)

\* The engine records the outcome; execute_semantic reports it to the client.
Report(t, terminals) ==
  /\ phase[t] \in {"running", "acted"}
  /\ Honest(t, terminals)
  /\ ledger' = [ledger EXCEPT ![request[t].op].terminals = terminals]
  /\ Reply(t, terminals)
  /\ UNCHANGED <<cache, now, held, attempt, effect>>

-----------------------------------------------------------------------------
(* The client, the process and the clock.                                  *)

\* External: told that it is safe, the client tries again under a new ID.
NextAttempt(i) ==
  /\ attempt[i] < MaxAttempts
  /\ <<i, attempt[i]>> \in told
  /\ attempt' = [attempt EXCEPT ![i] = @ + 1]
  /\ UNCHANGED <<cache, now, phase, held, request, ledger, told, effect>>

\* The daemon dies and is started again: OBSERVATIONS and HOST_AUTHORITY are
\* process-wide, the ledger is a file.
Restart ==
  /\ cache' = <<>>
  /\ phase' = [t \in Threads |-> "idle"]
  /\ held' = [t \in Threads |-> NoObservation]
  /\ request' = [t \in Threads |-> NoRequest]
  /\ UNCHANGED <<now, ledger, attempt, told, effect>>

Tick ==
  /\ now < MaxTime
  /\ now' = now + 1
  /\ UNCHANGED <<cache, phase, held, request, ledger, attempt, told, effect>>

Next ==
  \/ \E t \in Threads, id \in ObservationIds : Observe(t, id)
  \/ \E t \in Threads : Discard(t) \/ Insert(t)
  \/ \E t \in Threads, op \in Operations, h \in Hashes : Call(t, op, h)
  \/ \E t \in Threads : Accept(t) \/ Replay(t) \/ Fail(t) \/ Act(t)
  \/ \E t \in Threads, terminals \in Reports : Report(t, terminals)
  \/ \E i \in Intents : NextAttempt(i)
  \/ Restart
  \/ Tick

Spec == Init /\ [][Next]_vars

-----------------------------------------------------------------------------
(* Properties.                                                             *)

(* An intent takes effect at most once, whatever is repeated, raced, lost  *)
(* or cut short by a crash, as long as the client changes the operation ID *)
(* only when report_is_retry_safe said so.                                 *)
AtMostOncePerIntent ==
  \A o, p \in Operations :
    /\ effect[o].count <= 1
    /\ o[1] = p[1] /\ effect[o].count > 0 /\ effect[p].count > 0 => o = p

(* A click or a set_value lands only while the observation its target was  *)
(* taken from has not expired: time passes between the lookup in the cache *)
(* and the dispatch, and the deadline of the request bounds it.            *)
EffectWhileFresh ==
  \A o \in Operations : effect[o].count > 0 => effect[o].at < effect[o].expires

(* The cache holds at most MAX_CACHED_OBSERVATIONS entries and never two   *)
(* with the same ID, however concurrent snapshots interleave.              *)
CacheBound ==
  /\ Len(cache) <= MaxCached
  /\ \A j, k \in DOMAIN cache : cache[j].id = cache[k].id => j = k

=============================================================================
