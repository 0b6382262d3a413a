--------------------------- MODULE MCStdioServer ----------------------------
(* Two daemons of one user: the first meets every kind of client, the      *)
(* second takes a picture at the same time or has nothing to do.           *)
EXTENDS StdioServer

Message(framing, kind, tool, arg) ==
  [framing |-> framing, kind |-> kind, tool |-> tool, arg |-> arg]

Shot == Message("line", "call", "folk_image", "plain")

\* Every tool with every argument, as a request.
EveryTool == {<<Message("exact", "call", tool, arg)>> : tool \in Registered, arg \in Args}

\* Messages with every framing, one after the other.
Plain == {Message(framing, "request", "none", "none") : framing \in Framings}

Odd == {Message("line", "garbage", "none", "none"),
        Message("exact", "notification", "folk_clipboard_write", "plain"),
        Message("line", "initialized", "none", "none"),
        Message("line", "call", "folk_clipboard_write", "plain")}

EveryFraming == [1 .. 3 -> Plain] \cup [1 .. 2 -> Plain \cup Odd]

\* Captures, well and badly asked for.
Captures == {<<Shot, Shot>>,
             <<Message("line", "call", "folk_image", "invalid")>>,
             <<Message("line", "call", "folk_see", "plain")>>}

Client(m, s, cut, within) == [mode |-> m, script |-> s, cut |-> cut, torn |-> within]

\* All of s arrives.
All(m, s) == Client(m, s, Len(EncodeAll(s)), FALSE)

\* The last token of s does not arrive, or not in full.
Ends(m, s) == {Client(m, s, Len(EncodeAll(s)) - 1, FALSE), Client(m, s, Len(EncodeAll(s)), TRUE)}

\* The input ends anywhere in the only message.
EndsAnywhere ==
  {c \in {Client("full", <<m>>, cut, within) : m \in Plain, cut \in 0 .. 4, within \in BOOLEAN} :
     LET all == EncodeAll(c.script)
     IN  c.cut <= Len(all) /\ (c.torn => c.cut > 0 /\ all[c.cut].t # "blank")}

Pair(a, b) == [p \in Procs |-> IF p = 1 THEN a ELSE b]

Idle == All("limited", <<>>)

MCStarts ==
  {Pair(All(m, s), Idle) : m \in Modes, s \in EveryTool}
  \cup {Pair(All("full", s), Idle) : s \in EveryFraming}
  \cup {Pair(c, Idle) : c \in EndsAnywhere \cup UNION {Ends("full", s) : s \in EveryFraming}}
  \cup {Pair(All("sandbox", s), All("limited", <<Shot>>)) : s \in Captures}

MCProcs == {1, 2}

=============================================================================
