---------------------------- MODULE StdioServer -----------------------------
(***************************************************************************)
(* run_stdio and read_stdio_message of folk-transport/src/lib.rs with      *)
(* handle_message of folk-mcp/src/lib.rs, in front of the tools of         *)
(* HostTools.  Each daemon reads the standard input its client writes.     *)
(*                                                                         *)
(* The input is a sequence of tokens.  "line", "header", "extra" (another  *)
(* header) and "blank" end with a newline; "body" does not.  A message is  *)
(* one line, or headers, a blank line and a body of one line of JSON.  The *)
(* length the client states is right ("exact"; "typed" and "retyped" with  *)
(* an extra header behind or before it), unreadable ("zero"), too small    *)
(* ("short") or too large by any number of bytes ("long").                 *)
(*                                                                         *)
(* The input may end after any token or within one, which is then torn;    *)
(* a last token that lacks nothing but its newline is not.  A token that a *)
(* wrong length or the end of the input cuts is not JSON, and perhaps not  *)
(* UTF-8.                                                                  *)
(***************************************************************************)
EXTENDS HostTools, Sequences, SequencesExt

CONSTANT
  Starts     \* what the daemons' clients may do: functions from Procs to
             \* [mode, script, cut, torn]; the input ends after cut tokens, or
             \* within the last of them

VARIABLES
  script,    \* the messages of each client: [framing, kind, tool, arg]
  input,     \* the tokens that arrive before the input ends: [t, n]
  torn,      \* the input ends within its last token
  pos,       \* tokens read
  part,      \* the beginning of the next token has been read too
  rd,        \* where read_stdio_message is: "first", "headers" or "body"
  spoilt,    \* history: tokens that the reader of another length took bytes from
  handled,   \* history: numbers of the messages given to handle_message
  replied,   \* history: numbers of the messages answered on standard output
  exit       \* "running", or how run_stdio returned: "ok", "error"

\* What a client does is fixed; where the reader is.
clientVars == <<script, input, torn>>
readerVars == <<pos, part, rd, spoilt>>

stdioVars == <<clientVars, readerVars, handled, replied, exit>>

vars == <<hostVars, stdioVars>>

-----------------------------------------------------------------------------
(* Input.                                                                  *)

Framings == {"line", "exact", "typed", "retyped", "zero", "short", "long"}

\* "initialized": notifications/initialized, with an id or without.
Kinds == {"call", "request", "notification", "initialized", "garbage"}

Messages == [framing : Framings, kind : Kinds, tool : Registered \cup {"none"}, arg : Args]

Tokens == [t : {"line", "header", "extra", "blank", "body"}, n : Nat]

Token(t, n) == [t |-> t, n |-> n]

\* The tokens of message n.
Encode(framing, n) ==
  CASE framing = "line" -> <<Token("line", n)>>
    [] framing = "typed" ->
         <<Token("header", n), Token("extra", n), Token("blank", n), Token("body", n)>>
    [] framing = "retyped" ->
         <<Token("extra", n), Token("header", n), Token("blank", n), Token("body", n)>>
    [] OTHER -> <<Token("header", n), Token("blank", n), Token("body", n)>>

EncodeAll(s) == FlattenSeq([n \in DOMAIN s |-> Encode(s[n].framing, n)])

\* A torn blank line is read like a whole one.
ASSUME StdioAssumption ==
  /\ Starts \subseteq [Procs -> [mode : Modes, script : Seq(Messages), cut : Nat, torn : BOOLEAN]]
  /\ \A start \in Starts, p \in Procs :
       LET all == EncodeAll(start[p].script)
       IN  /\ start[p].cut <= Len(all)
           /\ start[p].torn => start[p].cut > 0 /\ all[start[p].cut].t # "blank"

EndsLine(token) == token.t # "body"

Init ==
  /\ HostInit
  /\ \E start \in Starts :
       /\ mode = [p \in Procs |-> start[p].mode]
       /\ script = [p \in Procs |-> start[p].script]
       /\ input = [p \in Procs |-> SubSeq(EncodeAll(start[p].script), 1, start[p].cut)]
       /\ torn = [p \in Procs |-> start[p].torn]
  /\ pos = [p \in Procs |-> 0]
  /\ part = [p \in Procs |-> FALSE]
  /\ spoilt = [p \in Procs |-> {}]
  /\ rd = [p \in Procs |-> "first"]
  /\ handled = [p \in Procs |-> <<>>]
  /\ replied = [p \in Procs |-> <<>>]
  /\ exit = [p \in Procs |-> "running"]

Reading(p) == pc[p] = "idle" /\ exit[p] = "running"

AtEnd(p) == pos[p] = Len(input[p])

Head1(p) == input[p][pos[p] + 1]

Framing(p, n) == script[p][n].framing

RightLength(p, n) == Framing(p, n) \notin {"zero", "short", "long"}

\* The input ends within token i.
Torn(p, i) == torn[p] /\ i = Len(input[p])

\* Nothing is missing of token i, which has not been passed yet.
Whole(p, i) == ~Torn(p, i) /\ ~(part[p] /\ i = pos[p] + 1)

\* What read_line takes: everything up to and with the next newline.
LineLength(p) ==
  CHOOSE k \in 1 .. Len(input[p]) - pos[p] :
    /\ \A i \in 1 .. k - 1 : ~EndsLine(input[p][pos[p] + i])
    /\ EndsLine(input[p][pos[p] + k]) \/ pos[p] + k = Len(input[p])

-----------------------------------------------------------------------------
(* handle_message, and writing what it returns.                            *)

\* Mutant of Silent: the handler looks at the method before it looks at the id.
SilentUnlessCall(m) ==
  m.kind \in {"garbage", "initialized"} \/ (m.kind = "notification" /\ m.tool = "none")

\* Not JSON, not an object, no method, without an id or notifications/initialized:
\* nothing is said and nothing is done.
Silent(m) == m.kind \in {"garbage", "notification", "initialized"}

Handled(p, n) == handled' = [handled EXCEPT ![p] = Append(@, n)]

\* Nothing is done and nothing is answered.
Quiet == UNCHANGED <<replied, exit>> /\ UNCHANGED hostVars

\* The answer is written, or standard output is closed and run_stdio returns.
Reply(p, n) ==
  \/ /\ replied' = [replied EXCEPT ![p] = Append(@, n)]
     /\ UNCHANGED exit
  \/ /\ exit' = [exit EXCEPT ![p] = "error"]
     /\ UNCHANGED replied

HandleMessage(p, n) ==
  LET m == script[p][n]
  IN  /\ Handled(p, n)
      /\ \/ Silent(m) /\ Quiet
         \/ ~Silent(m) /\ m.kind = "request" /\ Reply(p, n) /\ UNCHANGED hostVars
         \/ /\ ~Silent(m) /\ m.tool # "none"
            /\ CallTool(p, m.tool, m.arg) /\ UNCHANGED <<replied, exit>>

\* Mutant of Reject: `break` for `continue`.
RejectAndStop(p) ==
  /\ exit' = [exit EXCEPT ![p] = "ok"]
  /\ UNCHANGED <<handled, replied>> /\ UNCHANGED hostVars

\* What was read is not one JSON value: run_stdio goes on with the next message.
Reject(p) == Quiet /\ UNCHANGED handled

\* read_line or read_exact fails and run_stdio returns the error.
Fail(p) ==
  /\ exit' = [exit EXCEPT ![p] = "error"]
  /\ UNCHANGED <<handled, replied>> /\ UNCHANGED hostVars

-----------------------------------------------------------------------------
(* read_stdio_message.                                                     *)

\* Mutant of Consume: an off-by-one.
ConsumeOneMore(p, k, cut) ==
  pos' = [pos EXCEPT ![p] = @ + k + 1] /\ part' = [part EXCEPT ![p] = cut]

\* k tokens are read, and the beginning of another if cut.
Consume(p, k, cut) ==
  pos' = [pos EXCEPT ![p] = @ + k] /\ part' = [part EXCEPT ![p] = cut]

\* Standard input has ended between two messages, or within the headers.
ReadEnd(p) ==
  /\ Reading(p) /\ AtEnd(p) /\ rd[p] # "body"
  /\ exit' = [exit EXCEPT ![p] = "ok"]
  /\ UNCHANGED <<clientVars, readerVars, handled, replied>>
  /\ UNCHANGED hostVars

\* The first line: a message on its own, an empty line or the start of headers.
\* Bytes that were left over stick to the line that follows them.
ReadFirst(p) ==
  LET k == LineLength(p)
      token == Head1(p)
      whole == Whole(p, pos[p] + 1)
      message == k = 1 /\ whole /\ token.t \in {"line", "body"}
      headers == whole /\ token.t = "header"
  IN  /\ Reading(p) /\ ~AtEnd(p) /\ rd[p] = "first"
      /\ Consume(p, k, FALSE)
      /\ rd' = [rd EXCEPT ![p] = IF headers THEN "headers" ELSE "first"]
      /\ \/ message /\ HandleMessage(p, token.n)
         \/ (headers \/ token.t = "blank") /\ Quiet /\ UNCHANGED handled
         \/ ~message /\ ~headers /\ token.t # "blank" /\ Reject(p)
      /\ UNCHANGED <<clientVars, spoilt>>

\* A line that need not be UTF-8: garbage, or a message that was cut.
ReadInvalid(p) ==
  /\ Reading(p) /\ ~AtEnd(p) /\ rd[p] = "first"
  /\ \E i \in pos[p] + 1 .. pos[p] + LineLength(p) :
       /\ input[p][i].t \in {"line", "body"}
       /\ ~Whole(p, i) \/ script[p][input[p][i].n].kind = "garbage"
  /\ Fail(p)
  /\ UNCHANGED <<clientVars, readerVars>>

\* Headers are read up to the empty line.
ReadHeaders(p) ==
  /\ Reading(p) /\ ~AtEnd(p) /\ rd[p] = "headers"
  /\ Consume(p, LineLength(p), FALSE)
  /\ rd' = [rd EXCEPT ![p] = IF Head1(p).t = "blank" THEN "body" ELSE "headers"]
  /\ Quiet
  /\ UNCHANGED <<clientVars, spoilt, handled>>

\* The message's own body, no more and no less.
Own == [k |-> 1, cut |-> FALSE]

\* Mutant of Extents: the body is read like a line.
BodyAsLine(p, n) == IF AtEnd(p) THEN {} ELSE {[k |-> LineLength(p), cut |-> FALSE]}

(* What read_exact may take for the stated length: k tokens, and the       *)
(* beginning of another if cut.  Too large a length takes the body and as  *)
(* much of what follows as it states.                                      *)
Extents(p, n) ==
  {e \in [k : 0 .. Len(input[p]) - pos[p], cut : BOOLEAN] :
     /\ e.cut => pos[p] + e.k < Len(input[p])
     /\ CASE Framing(p, n) = "zero" -> e.k = 0 /\ ~e.cut
          [] Framing(p, n) = "short" -> e.k = 0 /\ e.cut
          [] Framing(p, n) = "long" -> e.k >= 1 /\ e # Own
          [] OTHER -> e = Own /\ ~Torn(p, pos[p] + 1)}

\* Tokens of which the read takes bytes.
Touched(p, e) == pos[p] + 1 .. pos[p] + e.k + (IF e.cut THEN 1 ELSE 0)

\* The input may end before the stated length has been read; a read of no bytes
\* always succeeds.
MayEnd(p, n) ==
  \/ Framing(p, n) = "long"
  \/ Framing(p, n) # "zero" /\ (AtEnd(p) \/ Torn(p, pos[p] + 1))

\* The body, which is one JSON value only if the length is right.
ReadBody(p) ==
  LET n == input[p][pos[p]].n
  IN  /\ Reading(p) /\ rd[p] = "body"
      /\ \/ MayEnd(p, n) /\ Fail(p) /\ UNCHANGED readerVars
         \/ \E e \in Extents(p, n) :
              /\ Consume(p, e.k, e.cut)
              /\ rd' = [rd EXCEPT ![p] = "first"]
              /\ \/ e = Own /\ HandleMessage(p, n) /\ UNCHANGED spoilt
                 \/ /\ e # Own /\ Reject(p)
                    /\ spoilt' = [spoilt EXCEPT ![p] = @ \cup Touched(p, e)]
      /\ UNCHANGED clientVars

\* run_stdio writes what the tool returned.
WriteAnswer(p) ==
  /\ exit[p] = "running"
  /\ Answer(p)
  /\ Reply(p, Last(handled[p]))
  /\ UNCHANGED <<clientVars, readerVars, handled>>

Next ==
  \E p \in Procs :
    \/ ReadEnd(p) \/ ReadFirst(p) \/ ReadInvalid(p) \/ ReadHeaders(p) \/ ReadBody(p)
    \/ WriteAnswer(p)
    \/ CaptureStep(p) /\ UNCHANGED stdioVars
    \/ exit[p] = "running" /\ Die(p) /\ UNCHANGED stdioVars

Spec == Init /\ [][Next]_vars

-----------------------------------------------------------------------------
(* Properties.                                                             *)

TypeOK ==
  /\ HostTypeOK
  /\ script \in [Procs -> Seq(Messages)]
  /\ input \in [Procs -> Seq(Tokens)]
  /\ torn \in [Procs -> BOOLEAN]
  /\ pos \in [Procs -> Nat]
  /\ part \in [Procs -> BOOLEAN]
  /\ \A p \in Procs : pos[p] <= Len(input[p]) /\ (part[p] => ~AtEnd(p))
  /\ rd \in [Procs -> {"first", "headers", "body"}]
  /\ spoilt \in [Procs -> SUBSET Nat]
  /\ handled \in [Procs -> Seq(Nat)]
  /\ replied \in [Procs -> Seq(Nat)]
  /\ exit \in [Procs -> {"running", "ok", "error"}]

\* Tokens behind the reader; all of them once run_stdio has returned without error.
Passed(p) == 1 .. (IF exit[p] = "ok" THEN Len(input[p]) ELSE pos[p])

\* The end of a message of which no byte was lost or counted to another.
Intact(p, i) == input[p][i].t \in {"line", "body"} /\ ~Torn(p, i) /\ i \notin spoilt[p]

IsHandled(p, n) == \E i \in DOMAIN handled[p] : handled[p][i] = n

(* Whatever lengths the client states, no message is handled twice or out  *)
(* of order, and none of which a wrong length or the end of the input has  *)
(* cut off a part.  A client that states the lengths right has every       *)
(* message handled that was sent in full, however each is framed.          *)
StdioExact ==
  \A p \in Procs :
    /\ \A i \in 2 .. Len(handled[p]) : handled[p][i - 1] < handled[p][i]
    /\ \A n \in Range(handled[p]) : \E i \in 1 .. pos[p] : Intact(p, i) /\ input[p][i].n = n
    /\ (\A n \in DOMAIN script[p] : RightLength(p, n)) =>
         \A i \in Passed(p) : Intact(p, i) => IsHandled(p, input[p][i].n)

(* A wrong length costs the messages it counts to its own, and the line    *)
(* that sticks to what is left of a body; then the reader has found its    *)
(* way back.  Every other line is handled, whatever went before it, unless *)
(* run_stdio has returned with an error.                                   *)
LinesResynchronise ==
  \A p \in Procs : \A i \in Passed(p) :
    /\ Intact(p, i) /\ input[p][i].t = "line"
    /\ i > 1 /\ input[p][i - 1].t = "body" => IsHandled(p, input[p][i - 1].n)
    => IsHandled(p, input[p][i].n)

\* The messages handled that ask for an answer.
Due(p) == {n \in Range(handled[p]) : script[p][n].kind \in {"call", "request"}}

(* Every request handled is answered, once and in order; at most the one   *)
(* in progress lacks its answer, and that for good only when the daemon    *)
(* ends.  Messages without an id get no answer and run no tool.            *)
AnswersExact ==
  \A p \in Procs :
    /\ \A i \in 2 .. Len(replied[p]) : replied[p][i - 1] < replied[p][i]
    /\ Range(replied[p]) \subseteq Due(p)
    /\ \A n \in Due(p) \ Range(replied[p]) : ~Reading(p) /\ n = Last(handled[p])
    /\ pc[p] \notin {"idle", "dead"} =>
         handled[p] # <<>> /\ Last(handled[p]) \in Due(p) \ Range(replied[p])

(* README.md:108-109 list the clipboard as "all" in limited and sandbox    *)
(* mode: the mode check lets every call of a clipboard tool through.       *)
ClipboardInEveryMode ==
  \A p \in Procs : \A n \in Due(p) :
    script[p][n].tool \in {"folk_clipboard_read", "folk_clipboard_write"} =>
      Permitted(mode[p], script[p][n].tool, script[p][n].arg)

=============================================================================
