# folk-around in TLA+

TLA+ models of folk-around: a daemon that exposes MCP tools of the computer it
runs on over stdio, HTTP or an end-to-end encrypted relay, and the Cloudflare
signalling server that introduces the peers. TLC checks small instances
of the models; TLAPS proves the main safety properties for all values of the
constants. Every module is translated from the code; `PROJECT.json` maps each
definition to its lines.

## Inventory

| component | code | state | operations |
|---|---|---|---|
| signalling room | `signal-server/src/index.ts` `SignalRoom` | `peers`, `sockets`, `rateLimit` maps | WebSocket connect, join (reject, replace, accept), offer/answer, relay, close |
| worker entry | same file, default `fetch` | none | route to a room, health, assets |
| relay sessions | `folk-transport` `P2PManager`, `start_p2p` | `sessions`: key, `rx_seqno`, `tx_seqno` per peer; one WebSocket | join, offer, answer, relay, sleep and reconnect |
| HTTP/SSE transport | `folk-transport` `run_http` … | one buffer per thread, `SSE_CLIENTS` | read loop, screening, POST, SSE slots |
| stdio transport | `folk-transport` `run_stdio` | position in the input | read a line or a counted body, handle, write |
| start-up | `folk-around` `run`, `folk-core` | files `config` and `http-token` | load, save, create or read the credential |
| MCP handling | `folk-mcp` | tool table, fixed at start | `handle_message`, `ToolTable::call` |
| semantic tools | `folk-computer-use`, `praefectus_adapter.rs` | observation cache (8 entries), per-process key; external durable ledger | observe, click, set value, `retry_safe` |
| other tools | `folk-computer-use` | the host; the mode is fixed at start | shell, spawn, clipboard, permissions, capture, and tools that registration drops again |
| artifacts | `folk-core` `create_artifact_file`, `screenshot_reference` | directory `artifacts` and its files | make and restrict directories, create, capture, discard, restrict, hash |

How they interact: `run` loads the configuration, builds the tool table and
starts a P2P thread and/or the HTTP server, or stdio. HTTP starts a thread per
connection; each thread and the P2P thread call `handle_message`, so tool calls
run concurrently and share the observation cache and the ledger. The P2P
thread joins a room, establishes sessions from offers and answers, and executes
decrypted relays. Several daemons of one user share the two files and the
artifact directory.

What is hard: joins, replacements and late close events of one identity; sends
that throw half way through a broadcast; duplicated, reordered and redirected
relays; handshakes that repeat at every reconnection; counters that overshoot;
clients that stall, trickle or hang up; first starts that race for the
credential; crashes between two writes; repeated clicks after a timeout or a
crash; observations that expire between lookup and dispatch; reconnections that
run into the grace period of the daemon's own old connection; input whose
stated lengths are wrong; captures of two daemons that share a directory one of
them was still making when it died.

## Modules

`X.tla` is the specification with its properties and the mutated forms of its
definitions, `MCX.tla` the instance for TLC, `XProofs.tla` the proofs.

**SignalRoom.** One action per event handler, because a durable object runs one
handler at a time: `Connect`, `RejectJoin`, `AcceptJoin`, `Relay`, `Close`.
`peers`, `sockets` and `rateLimit` are the three maps; `conn` is the life of each
WebSocket (a closed one still delivers what was under way, and its close event);
`roster` and `passed` are histories. A send to a WebSocket that is not open may
throw, which ends a broadcast (`Reaches`) and, in the close handler, skips
`sockets.delete`. `SingleJoin` restricts clients to one join per WebSocket, as
`join_signal_room` does; with FALSE any client is allowed. Messages that earn
only an error, and forwarded offers and answers, change nothing in the room.

**RelaySession.** `sessions[p][q]` is p's entry for q. X25519 is a symmetric
`shared` set and HKDF is injective; an AEAD box opens with its key and its
associated data and cannot be forged. The relay is not trusted: `net` keeps every
payload, and any of them may be delivered to any peer under any sender's name at
any time. An error in a handler drops the link; the manager, and with it the
sessions, survives. u64 wrap-around is out of reach and capped by `MaxSeqno`.

**RelayChannel** is the abstract specification of the above: per ordered pair of
peers a channel that may lose messages, but delivers only what was sent, at most
once and in order. `RelaySession` implements it (`ImplementsChannel`) under the
mapping that forgets keys, links and boxes: `next` is `tx_seqno`, `sent` the
contents of the payloads on the wire, `delivered` the contents of `accepted`.

**SignalRelay** puts daemons on one side of WebSockets and `SignalRoom`, unchanged,
on the other. A WebSocket is two FIFO queues until it breaks; then each direction
keeps some prefix, and each end finds out on its own. `DaemonReceives` is one turn
of `join_signal_room`'s loop; `EndLink` its return and `start_p2p`'s sleep. In
this module `SingleJoin` is FALSE: that a daemon joins once per WebSocket is
what its code does, not an assumption. Of a session it keeps `rx_seqno` and
`tx_seqno` (keys are the business of `RelaySession`). The daemon only answers; the
request comes from an MCP client that speaks the same wire format (external). Such
a client starts numbering at 0 as the daemon does, so the first request is refused,
which gives the run its refused relays.

**HostTools** is the tool table and the artifact directory. Arguments are reduced
to what handlers branch on; a tool that is not a capture is one call to the host,
which may fail. A capture walks through `create_artifact_file`,
the backend (external: it may replace the file, fail or be ephemeral),
`image_result` and `screenshot_reference`, and every daemon may die at each step.
The backend is taken to report the path it was given; `image_result` goes on with,
and for an ephemeral capture deletes, whatever path it reports. `changed` records
what calls changed on the host, the files and directories of captures included
("artifact").

**StdioServer** extends it with `run_stdio`, `read_stdio_message` and
`handle_message`. Input is a sequence of tokens, one per line or body, so that a wrong
`Content-Length` shifts what the reader takes for a line. `read_exact` takes as many
bytes as were stated: `Extents` lets too large a length take the body and any number
of tokens behind it, perhaps with the beginning of one more (`part`), and too small
a length a part of the body. The input may end after any token or within one (`torn`);
a last line that lacks only its newline is not torn, for the code handles it. `spoilt`
is a history: the tokens of which a reader of another length took bytes. A cut token
is never JSON, which is what single-line JSON objects give; bodies with newlines
of their own are not modelled. A line that need not be UTF-8 may end `run_stdio`
(`ReadInvalid`), because `read_line` fails on it.

**HttpServer.** A request is the record of what the code extracts from it; the
client may cut its bytes in any way, stall, or hang up. `acquire_sse_slot` is
two actions where it is two atomic instructions. The header block has one
terminator, `\r\n\r\n` or `\n\n`; blocks that contain both are not modelled.

**Startup.** Each process walks through `run`: `Load`, `Truncate` and `Write`
(`fs::write` is not atomic), then `CreateToken`/`WriteToken` or
`FindToken`/`CheckToken`/`ReadToken`; it may `Die` anywhere, also half way
through a write (`TearWrite`, at line granularity), and two saves may overlap
(`Overlays`). The signalling URL is saved and reused exactly where the pairing
code is and is left out.

**SemanticDispatch.** Threads run `Observe`/`Insert` (snapshots) and
`Call` … `Report` (click, set value). The Praefectus engine is external and modelled
from how the adapter and README.md:34 use it: the first request with an operation
ID is entered in a durable ledger, the same ID and hash is answered from it,
another hash is an error, the deadline is checked before the effect, and a report
after an effect never consists of no-effect terminals only. Clients are modelled
by the rule of README.md:34: any repetition of the same ID, a new ID only after
`retry_safe: true`. `Restart` loses the cache and the running calls.

## Runs

| run | instance | result |
|---|---|---|
| `room` | 3 sockets, 2 identities, any client, grace 1, window 2, clock to 2, one relay per window | `SenderOwnsRoute`, `EndedOwnsNoRoute`, `RateBound` hold |
| `room_ghost` | 2 sockets, any client | `PeersConnected` violated: a re-join leaves a ghost |
| `relay` | 2 peers, 3 payloads each way | at most once, in order, authentic, counters never reused or reset; implements `RelayChannel` |
| `relay_first` | 2 peers, 2 payloads | `RefusesOnlyReplays` violated: seqno 0 refused |
| `http` | 2 connections, 14 requests, limits of 2 and 3 bytes, 1 slot | bounds, whole bodies, slots; `ReadEnds`, `SlotsDrain` |
| `http_refusal` | 3 connections, 1 slot | `RefusedOnlyWhenFull` violated by the overshoot |
| `startup` | 3 processes, 6 command lines | `TokenAgreement`, `TokenStable`, `PairingKept` hold |
| `startup_mode` | same | `LastModeSaved` violated by stdio runs |
| `dispatch` | 2 threads, 1 intent with 2 IDs, 3 observations, cache of 2, clock to 2 | `AtMostOncePerIntent`, `EffectWhileFresh`, `CacheBound` hold |
| `signal` | 2 daemons, 7 WebSockets, 3 requests or 1 request and 1 broken WebSocket, grace 2, sleep 1 | `RouteOpen`, `RosterExact`, `NoOrphanRelay` hold; `Converges`, if nobody stays half-open for ever |
| `stdio` | 2 daemons, every tool, argument and mode, up to 3 messages in 7 framings, input that ends anywhere, 2 identifiers, 3 images | `StdioExact`, `LinesResynchronise`, `AnswersExact`; `LocatorExact`, `ImagesPrivate`, `MutationOnlyInFull` hold |
| `stdio_clipboard` | same | `ClipboardInEveryMode` violated: a write is blocked outside full mode |

Why the bounds are enough. *room*: a replacement needs an old and a new
connection, a third member to be told, and a time beyond the grace period; three
sockets on two identities also give a replacement of a replacement. A second join
on one WebSocket leaves a dead entry in `peers`, and the close of another connection
then throws at it. `RouteOpen` and `RosterExact` need clients that join once, so
they are checked in *signal*, whose clients are the daemons. *relay*:
seqno 0 is always refused, so three payloads leave two that can be reordered
and repeated, in both directions. *http*: requests end before, at and behind every
limit; one slot and two connections reach full, overshoot and free. *startup*:
two racing processes and one later reader. *dispatch*: two threads race on one
operation or on two IDs of an intent, three observations overflow a cache of
two, and an observation can be valid at the lookup and expired at the dispatch.
*signal*: a break and a refused relay make each daemon reconnect, into and
after the grace period; of three requests the first is refused, the second
accepted and its answer refused, the third accepted with its answer; seven WebSockets are exactly as many as the two
daemons can use under these bounds, so none is ever missing. The grace period is
longer than the sleep, as 5 s and 2 s are in the code. *stdio*: one message
with a wrong length, up to two that are swallowed or damaged by it or come behind it; two daemons
with two identifiers reach every collision, and a third image one daemon's
second capture beside the other's.
Threads, sockets, identities, observations and processes are alike, so
symmetry is used in the runs of those modules; never in a run with liveness
properties.

Deadlock is checked in the runs that can always go on (`relay`, `dispatch`). The
others end: sockets, connections and processes are used once and clocks stop.

Fairness is assumed in `HttpServer` and `SignalRelay`. In the first, a runnable thread is scheduled by the
operating system, and a read returns within `HTTP_READ_TIMEOUT`, hence
`WF(ThreadStep)`. A stream to a client that is gone ends because keepalive
writes fail. Nothing is assumed of `Post` (a tool may run for ever), of accepting
a connection, or of clients. In the second, as long as a daemon's P2P
thread, the room's event loop or the clock can move, one of them does
(`WF(Progress)`). That is less than
fair scheduling of each, which the operating system and the Workers runtime
give, and it is enough because every exchange of handshakes and reconnections ends. Nothing is assumed of `RoomCloses`: the room may never
learn that a connection broke, and the replacement after the grace period
is what lets the daemon back in. Nor is anything assumed of a daemon's read on a
WebSocket whose network is gone (`HalfOpen`): `join_signal_room` sets no read
timeout, sends no ping and no keepalive, so the read may block for ever, and
with it the daemon. `Converges` therefore has a premise: no daemon stays half-open
for ever, because the operating system or a proxy fails the read at some point.
Without it the property is false of the code. `Converges` says nothing about a
network that goes on breaking or clients that go on sending (`MaxTrouble`).

## Proofs

Everything below is proved by TLAPS for all values of the constants, from the
named assumptions in the modules (sets disjoint from their "none" values, bounds
natural numbers, `Connections` and the daemons finite, the scripts in `Starts` well
typed and cut within what they encode to, a torn blank line excepted, which is read
like a whole one).

* **SignalRoomProofs**: `TypeOK`, `SenderOwnsRoute` and `EndedOwnsNoRoute` for any client.
  `SenderOwnsRoute` with types is inductive: a join gives the route and the
  sender's right together and takes both from the older connection. A close
  takes the route from the connection before the broadcast that may throw, so an
  entry of `sockets` that stays behind owns nothing (`EndedOwnsNoRoute`). `RouteOpen`
  and `RosterExact` assume `SingleJoin`; their invariant adds that a socket that
  has not joined has no entry (`Silent`) and that every route is open, from
  which no broadcast throws and every announcement reaches all. `RateBound` holds for
  any client: `RateInv` ties the counter of the running window to the last
  entries of the history of accepted relays; those before it were accepted in
  windows that had ended, and `MaxRelay` entries further back lie two windows before
  the running one's end.
* **RelaySessionProofs**: all six properties of `relay`. The invariant says that a
  key is always the one `NewSession` computes for the pair (`KeyShape`), that every
  payload on the wire has a seqno below its sender's `tx_seqno`, and that
  `rx_seqno` bounds what was accepted; order and uniqueness follow.
* **HttpServerProofs**: `TypeOK`, `BufferBound`, `SlotAccount`, `SseLimit`. A thread
  that goes on reading is below the limit its next chunk can cross (`ReadingBound`);
  the counter is the cardinality of the threads between their two atomic
  instructions, and a thread that sees a smaller previous value than the limit is
  one of fewer holders than that. `ToolsGetWholeBodies`: no status is set before a thread
  is done (`AnsweredAtEnd`), and the one step that answers with 200 or 202 on the message
  path starts from a request whose end has been read.
* **StartupProofs**: `TypeOK`, `TokenAgreement`, `TokenStable`, `PairingKept`. `TokenInv`
  says a complete credential belongs to the process that created the file and
  every process past its check knows it; `PairInv` that a process that is saving
  carries the last pairing code.
* **SemanticDispatchProofs**: `AtMostOncePerIntent`, `EffectWhileFresh`. The invariant
  follows an operation through the ledger: one entry, one thread at work on it and
  no terminal recorded meanwhile; an operation reported `retry_safe` has a
  recorded outcome that proves no effect; IDs of earlier attempts were all
  reported so. `CacheBound` and `TypeOK` rest on lemmas about `Retain` (it keeps order
  and distinctness of what it keeps) and `Trimmed`.
* **RelayRefinementProofs**: `RelaySession` implements `RelayChannel`. The initial
  state maps to the initial state; a step that appends to `accepted` maps to a
  delivery, because what is accepted is on the wire, addressed to the
  receiver and newer than `rx_seqno`, which bounds everything accepted before; a
  handshake, a drop or a refused relay maps to a stutter. It rests on the
  invariant of `RelaySessionProofs`.
* **StdioServerProofs**: `LocatorExact`, `ImagesPrivate`, `MutationOnlyInFull`, for any
  number of daemons. Every step of the transport is a step of the tools or leaves
  them alone (`StepIsHostStep`). The invariant adds who holds which file: a
  call between creating its file and its reply holds it alone and no reply has named
  it (`Holding`), and the directory is private from the first file on (`DirReady`).
  `TypeOK`, `StdioExact`, `LinesResynchronise` and `AnswersExact`, for scripts of any length:
  `StdioInv` says which token of the input may follow which (`Framed`), that the token
  read last fits the reader's state (`InPlace`), which messages were handled of those
  behind the reader (`Caught`) and which of these were answered (`AnswersOK`). What a
  read of a wrong length takes lies in front of the reader, so tokens behind it stay
  spoilt or intact for good; every message handled has a smaller number than the
  tokens still in front (`HandledBefore`), so a body that is skipped now is never
  handled later and the line that sticks to it may be lost. All other lines begin where the
  reader looks for one, which is what `LinesResynchronise` rests on. That the input is framed at all is a fact
  about `FlattenSeq`, a recursive function; it is shown for the shortest sequence for
  which it could fail, in place of an induction.
* **SignalRelayProofs**: `RelayTypeOK`, `RouteOpen`, `NoOrphanRelay`, for any number of
  daemons, WebSockets, breaks and requests. `RouteOpen` no longer assumes `SingleJoin`: that
  no daemon joins twice on a WebSocket is part of `Wiring`, with who owns which
  WebSocket, that its join goes first and that whoever speaks in a daemon's name
  does so on its present one. `Named` says that whoever is named in a message or a
  session has joined, so the room can route to it. `OfferFirst` follows a pair
  that has lost no WebSocket: from e to a d without a session for e, an offer or answer
  precedes every relay, and is still under way if e already takes the session for
  established. Together with the room's invariant they are inductive (`RelayInv`).

Every safety property of the passing runs is thus a theorem. Checked by TLC only: the
liveness properties `ReadEnds`, `SlotsDrain` and `Converges`, since TLAPS handles
neither fairness nor ENABLED. `StdioInv` and `RelayInv`
were checked by TLC on the runs' instances before they were proved.

`NoOrphanRelay` is stated for pairs of which neither has lost a WebSocket. After a
loss it fails: a daemon that reconnects can get a relay before the handshake of
a peer whose own first offer was lost. The run shows that this heals
(`Converges`).

## Disagreements found

Five, each with a violation run (`findings` in `PROJECT.json`): the ghost after a
second join; the first payload of every session, refused as a replay, which also
drops the connection; the SSE refusal while a slot is free; the mode of a stdio run, which is not saved; the clipboard,
which README.md:108-109 list as "all" in limited and sandbox mode, where
`clipboard_write` is blocked by `ensure_mutation`. Of the last, the test
`restricted_clipboard_write_should_be_blocked_before_effect` wants what the code does,
so the table is out of date; `MutationOnlyInFull` states the shell and mutation
columns only.

One more needs no run: the close handler's "clean rate limit entry" (index.ts:125)
deletes under the WebSocket, while `checkRateLimit` files entries under the identity,
so nothing is deleted (`RateLimitAfterClose`). `RateBound` depends on that: its mutant
cleans by identity, and reconnecting then gives a fresh window.

## Not modelled

The worker entry is a stateless routing table. The installer, web pages and
build files have no state machine. The text of tool descriptions, schemas, log
lines and answers is left out, and so are the non-Unix branches, which
refuse. `verbose` only logs. The archived Zig sources named in the repository's README are not
part of the build.

## Plan

1. Proofs: what a step may never do, where the modules state it only of states (the
   slot counter, the history of accepted relays), and what an agreed session
   means for the room and the sessions together.
2. `SignalRelay` with three daemons, which the state space allows only without
   a break; the proofs already cover any number.
