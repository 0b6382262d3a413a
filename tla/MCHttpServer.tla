---------------------------- MODULE MCHttpServer ----------------------------
(***************************************************************************)
(* HttpServer with limits of a few bytes.  The requests lie on both sides  *)
(* of every limit: header blocks that end at, behind or never before the   *)
(* limit, bodies of the allowed length and one more, bodies that are cut   *)
(* off or missing, and bytes behind the end of the request.                *)
(***************************************************************************)
EXTENDS HttpServer

Request(target, at, length, size) ==
  [size |-> size, at |-> at, width |-> 2, length |-> length, origin |-> FALSE,
   auth |-> TRUE, target |-> target, body |-> "request"]

SseRequest == Request("sse", 1, 0, 3)

SseRequests == {SseRequest}

MixedRequests ==
  { SseRequest,
    [SseRequest EXCEPT !.auth = FALSE],
    Request("health", 3, 0, 5),
    [Request("options", 2, 0, 6) EXCEPT !.width = 4],
    Request("other", 4, 0, 6),           \* ends one byte behind MaxHeader
    Request("message", 12, 0, 12),       \* never ends
    [Request("message", 3, 2, 12) EXCEPT !.width = 4],  \* the longest, and more bytes
    [Request("message", 1, 1, 4) EXCEPT !.body = "notification"],
    [Request("message", 1, 1, 4) EXCEPT !.body = "invalid"],
    [Request("message", 1, 1, 4) EXCEPT !.origin = TRUE],
    Request("message", 3, 3, 8),         \* one byte more than MaxBody
    Request("message", 3, 9, 12),        \* many more
    Request("message", 1, 2, 4),         \* cut off
    Request("message", 2, 0, 4) }        \* no body

=============================================================================
