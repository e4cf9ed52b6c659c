------------------------------ MODULE BodyLimit ------------------------------
(***************************************************************************)
(* RequestSizeLimitMiddleware (api.py:41-94) between an ASGI server and    *)
(* the application, for one HTTP request.  Requests share nothing here, so *)
(* one is enough.                                                          *)
(*                                                                         *)
(* The client's bytes reach the server in chunks while the middleware and  *)
(* the application take them by receive(), and the client may hang up at   *)
(* any time.  A chunk is its place in the body; `upload.sizes' gives its   *)
(* size.  The server and the application are external.  The server knows   *)
(* from the framing where a body ends.  A Content-Length is a number of    *)
(* its own: it is the size of the body when it frames the body, but h11    *)
(* accepts it beside Transfer-Encoding: chunked, which then prevails, and  *)
(* the number says nothing.                                                *)
(***************************************************************************)
EXTENDS Integers, Sequences, Functions

CONSTANTS
  Uploads,    \* the requests that may come
  MaxBytes,   \* MAX_REQUEST_BYTES
  Nothing     \* no answer yet

Headers == {"absent", "invalid", "declared"}

ASSUME BodyLimitAssumption ==
  /\ Uploads \subseteq [header : Headers, declared : Nat, sizes : Seq(Nat)]
  /\ \A u \in Uploads : u.sizes # <<>>
  /\ MaxBytes \in Nat \ {0}
  /\ Nothing \notin {"400", "413", "silent", "application"}

VARIABLES
  upload,     \* the request: its Content-Length, what it declares, its chunks
  arrived,    \* how many chunks have reached the server
  gone,       \* the client has hung up
  taken,      \* how many chunks receive() has handed out
  stage,      \* where the middleware is
  chunks,     \* its local chunks
  received,   \* its local received
  replayed,   \* the flag of replay_receive
  seen,       \* the chunks the application has read
  whole,      \* the application was told that the body is complete
  answer      \* how the request ended

client == <<upload, arrived, gone>>
buffer == <<chunks, received, replayed>>
reader == <<seen, whole>>
bodyVars == <<client, taken, stage, buffer, reader, answer>>

Chunks == Len(upload.sizes)

(* The bytes of a sequence of chunks. *)
Bytes(s) == SumFunction([i \in 1..Len(s) |-> upload.sizes[s[i]]])

Total == Bytes([i \in 1..Chunks |-> i])

BodyInit ==
  /\ upload \in Uploads
  /\ arrived = 0 /\ taken = 0
  /\ gone = FALSE
  /\ stage = "called"
  /\ chunks = <<>> /\ received = 0 /\ replayed = FALSE
  /\ seen = <<>> /\ whole = FALSE
  /\ answer = Nothing

-----------------------------------------------------------------------------
(* The client and the server: a chunk arrives; the client hangs up. *)
Arrive ==
  /\ ~ gone /\ arrived < Chunks
  /\ arrived' = arrived + 1
  /\ UNCHANGED <<upload, gone, taken, stage, buffer, reader, answer>>

HangUp ==
  /\ ~ gone
  /\ gone' = TRUE
  /\ UNCHANGED <<upload, arrived, taken, stage, buffer, reader, answer>>

(* receive() hands out the next chunk.  After a hang-up it returns         *)
(* http.disconnect, at once or once what has arrived is handed out.        *)
Receives ==
  /\ taken < arrived
  /\ taken' = taken + 1

More == taken' < Chunks        \* message["more_body"]

Ends(how) ==
  /\ answer' = how
  /\ stage' = "ended"

-----------------------------------------------------------------------------
(* The middleware: with a Content-Length it decides by what that says. *)
InvalidLength ==
  /\ stage = "called" /\ upload.header = "invalid"
  /\ Ends("400")
  /\ UNCHANGED <<client, taken, buffer, reader>>

DeclaredTooLarge ==
  /\ stage = "called" /\ upload.header = "declared"
  /\ upload.declared > MaxBytes
  /\ Ends("413")
  /\ UNCHANGED <<client, taken, buffer, reader>>

PassThrough ==
  /\ stage = "called" /\ upload.header = "declared"
  /\ upload.declared <= MaxBytes
  /\ stage' = "application"
  /\ UNCHANGED <<client, taken, buffer, reader, answer>>

(* Without one it reads the body itself, chunk by chunk. *)
BeginReading ==
  /\ stage = "called" /\ upload.header = "absent"
  /\ stage' = "reading"
  /\ UNCHANGED <<client, taken, buffer, reader, answer>>

(* Bug: an upload that just reaches the limit is refused. *)
ChunkAtLimit ==
  /\ stage = "reading"
  /\ Receives
  /\ received' = received + upload.sizes[taken']
  /\ received' >= MaxBytes
  /\ Ends("413")
  /\ UNCHANGED <<client, chunks, replayed, reader>>

(* Bug: a disconnect is taken for the end of the body. *)
ReadDisconnectAsEnd ==
  /\ stage = "reading" /\ gone
  /\ stage' = "application"
  /\ UNCHANGED <<client, taken, buffer, reader, answer>>

(* Bug: a disconnect is skipped as a message without a body. *)
ReadDisconnectSkipped ==
  /\ stage = "reading" /\ gone
  /\ UNCHANGED bodyVars

KeepChunk ==
  /\ stage = "reading"
  /\ Receives
  /\ received' = received + upload.sizes[taken']
  /\ received' <= MaxBytes
  /\ chunks' = Append(chunks, taken')
  /\ stage' = IF More THEN "reading" ELSE "application"
  /\ UNCHANGED <<client, replayed, reader, answer>>

ChunkTooLarge ==
  /\ stage = "reading"
  /\ Receives
  /\ received' = received + upload.sizes[taken']
  /\ received' > MaxBytes
  /\ Ends("413")
  /\ UNCHANGED <<client, chunks, replayed, reader>>

(* The client left before the body was complete: no response, no call.    *)
ReadDisconnect ==
  /\ stage = "reading" /\ gone
  /\ Ends("silent")
  /\ UNCHANGED <<client, taken, buffer, reader>>

-----------------------------------------------------------------------------
(* The application, which reads by replay_receive or, when the request     *)
(* was passed through, by the server's own receive.                        *)
Replays == upload.header = "absent" /\ ~ replayed

AppReadsReplay ==
  /\ stage = "application" /\ ~ whole
  /\ Replays
  /\ replayed' = TRUE
  /\ seen' = seen \o chunks
  /\ whole' = TRUE                \* more_body is False
  /\ UNCHANGED <<client, taken, stage, chunks, received, answer>>

AppReadsServer ==
  /\ stage = "application" /\ ~ whole
  /\ ~ Replays
  /\ Receives
  /\ seen' = Append(seen, taken')
  /\ whole' = ~ More
  /\ UNCHANGED <<client, stage, buffer, answer>>

(* The body is needed and the client has left: the framework gives up.    *)
AppDisconnect ==
  /\ stage = "application" /\ ~ whole
  /\ ~ Replays
  /\ gone
  /\ Ends("application")
  /\ UNCHANGED <<client, taken, buffer, reader>>

(* A response, to the whole body or, from a route that takes none, unread. *)
AppResponds ==
  /\ stage = "application"
  /\ whole \/ seen = <<>>
  /\ Ends("application")
  /\ UNCHANGED <<client, taken, buffer, reader>>

Middleware ==
  \/ InvalidLength \/ DeclaredTooLarge \/ PassThrough
  \/ BeginReading \/ KeepChunk \/ ChunkTooLarge \/ ReadDisconnect

Application == AppReadsReplay \/ AppReadsServer \/ AppDisconnect \/ AppResponds

BodyNext == Arrive \/ HangUp \/ Middleware \/ Application

BodySpec == BodyInit /\ [][BodyNext]_bodyVars

(* The event loop resumes a coroutine whose message is there; nothing is   *)
(* assumed of the client.                                                  *)
BodyFairSpec == BodySpec /\ WF_bodyVars(Middleware) /\ WF_bodyVars(Application)

-----------------------------------------------------------------------------
(* Type correctness. *)
BodyTypeOK ==
  /\ upload \in Uploads
  /\ arrived \in 0..Chunks /\ taken \in 0..arrived
  /\ gone \in BOOLEAN /\ replayed \in BOOLEAN /\ whole \in BOOLEAN
  /\ stage \in {"called", "reading", "application", "ended"}
  /\ chunks \in Seq(1..Chunks) /\ seen \in Seq(1..Chunks)
  /\ received \in Nat
  /\ answer \in {Nothing, "400", "413", "silent", "application"}

(* What the application takes for the complete body is the client's body,  *)
(* every chunk once and in order, whether it came through the buffer or    *)
(* not and whenever the client hung up (api.py:78-90).                     *)
WholeOrNothing == whole => seen = [i \in 1..Chunks |-> i]

(* The size the middleware goes by. *)
Size == IF upload.header = "declared" THEN upload.declared ELSE Total

(* The limit is exact for the size the middleware goes by.  It never holds *)
(* more than the limit (api.py:42); no upload of a larger size gets to the *)
(* application, and none of a smaller one is refused for it, however it    *)
(* was cut.  So the application reads no more than the limit either, by    *)
(* the buffer or past it, unless the body is larger than its               *)
(* Content-Length says (api.py:59-63, 73-76).                              *)
LimitIsExact ==
  /\ Bytes(chunks) <= MaxBytes
  /\ stage = "application" => Size <= MaxBytes
  /\ answer = "413" => Size > MaxBytes
  /\ Total <= Size => Bytes(seen) <= MaxBytes

(* A request whose client has sent everything, or has left, is ended: no   *)
(* coroutine waits for a message that will not come (api.py:69-71).        *)
AlwaysEnds == (arrived = Chunks \/ gone) ~> stage = "ended"
=============================================================================
