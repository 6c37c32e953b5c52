------------------------------- MODULE Control -------------------------------
(***************************************************************************)
(* The control connections: vcablectl processes (crates/vcablectl), each   *)
(* with one request, and the accept loop of vcabled (crates/vcabled),      *)
(* which serves one connection after the other, without timeouts.          *)
(*                                                                         *)
(* A connection is two byte streams with bounded buffers.  Bytes move one  *)
(* at a time, so that a process may be killed after any of them.  What     *)
(* handle does to the daemon's state is module Daemon; here a request      *)
(* succeeds or not, and a success is in the state file.                    *)
(***************************************************************************)
EXTENDS Protocol

CONSTANTS Clients,
          Arguments,  \* client -> what it may be started with: a command and texts
          Strays,     \* frames of a client of another version
          Texts,      \* the texts of responses
          Buffer      \* bytes a socket holds in one direction

Nobody == "nobody"

\* A stray begins with a length, too, and is no longer than one frame.
ASSUME ControlAssumption ==
  /\ Buffer \in Nat \ {0} /\ Nobody \notin Clients
  /\ \A bytes \in Strays :
       /\ IsText(bytes) /\ bytes # << >> /\ Head(bytes) \in Nat
       /\ ~TooLarge(bytes) => Len(bytes) <= 1 + Head(bytes)

VARIABLES pc,        \* client -> new, write, read, or how it has ended
          asked,     \* client -> the request it was started with, if there is one
          left,      \* client -> bytes it has still to write
          got,       \* client -> bytes it has read
          up, down,  \* client -> bytes in its socket, to the daemon and from it
          backlog,   \* connections that wait to be accepted
          daemon,    \* accept, read, write, or how the process has ended
          stream,    \* the client that is served
          dgot,      \* bytes of its request
          dleft,     \* bytes of the response to it that are still to be written
          shutdown,  \* whether it was a shutdown
          file,      \* the state file
          routes,    \* the routes saved last
          done       \* history: client -> what was handled for it

clientVars == <<pc, asked, left, got>>
daemonVars == <<daemon, stream, dgot, dleft, shutdown>>
vars == <<clientVars, up, down, backlog, daemonVars, file, routes, done>>

Ended == {"success", "refused", "failed", "killed"}
Gone == {"exited", "killed"}

\* The daemon has its end of the connection open; the client has its own until it ends.
DaemonOpen(c) == daemon \notin Gone /\ (stream = c \/ Contains(backlog, c))
ClientOpen(c) == pc[c] \notin Ended

Init ==
  /\ pc = [c \in Clients |-> "new"] /\ asked = [c \in Clients |-> {}]
  /\ left = [c \in Clients |-> << >>] /\ got = [c \in Clients |-> << >>]
  /\ up = [c \in Clients |-> << >>] /\ down = [c \in Clients |-> << >>]
  /\ backlog = << >>
  /\ daemon = "accept" /\ stream = Nobody /\ dgot = << >> /\ dleft = << >> /\ shutdown = FALSE
  /\ file = << >> /\ routes = {}
  /\ done = [c \in Clients |-> << >>]

-----------------------------------------------------------------------------
(* vcablectl *)

\* The process ends with no response; its memory goes with it, what it has sent does not.
Ends(c, how) ==
  /\ pc' = [pc EXCEPT ![c] = how]
  /\ left' = [left EXCEPT ![c] = << >>]
  /\ got' = [got EXCEPT ![c] = << >>]

\* The request that the arguments ask for; without a matrix it has no coefficients.
request(args) ==
  LET op == Head(args)
      matrix == IF Len(args) = 5 THEN {<< >>} ELSE IF args[6] = << >> THEN {} ELSE decode_matrix(args[6])
  IN  CASE Len(args) = 1 /\ op \in {"ping", "status", "shutdown"} -> {[op |-> op]}
        [] Len(args) = 6 /\ op = "create" ->
             {[op |-> op, id |-> args[2], name |-> args[3], input_channels |-> inputs,
               output_channels |-> outputs, sample_rate |-> rate] :
                inputs \in parse_u32(args[4]), outputs \in parse_u32(args[5]), rate \in parse_u32(args[6])}
        [] Len(args) = 2 /\ op \in {"delete", "disconnect"} -> {[op |-> op, id |-> args[2]]}
        [] Len(args) \in {5, 6} /\ op = "connect" ->
             {[op |-> op, id |-> args[2], source |-> args[3], sink |-> args[4], gain |-> gain, matrix |-> m] :
                gain \in parse(args[5]), m \in matrix}
        [] OTHER -> {}

\* The arguments are no request, or there is no daemon to connect to.
StartFail(c, args) ==
  /\ pc[c] = "new"
  /\ request(args) = {} \/ daemon \in Gone
  /\ Ends(c, "failed")
  /\ UNCHANGED <<asked, up, down, backlog, daemonVars, file, routes, done>>

\* UnixStream::connect, for a client that will write `bytes`.
Connect(c, bytes, next) ==
  /\ pc[c] = "new" /\ daemon \notin Gone
  /\ backlog' = Append(backlog, c)
  /\ left' = [left EXCEPT ![c] = bytes]
  /\ pc' = [pc EXCEPT ![c] = next]
  /\ UNCHANGED <<got, up, down, daemonVars, file, routes, done>>

\* write_message begins no message that is too large.
Start(c, args) ==
  \E r \in request(args) :
    LET bytes == frame(encode(r))
    IN  /\ Connect(c, bytes, IF TooLarge(bytes) THEN "failed" ELSE "write")
        /\ asked' = [asked EXCEPT ![c] = {r}]

StartOther(c, bytes) == Connect(c, bytes, "write") /\ UNCHANGED asked

ClientWrite(c) ==
  /\ pc[c] = "write" /\ DaemonOpen(c) /\ Len(up[c]) < Buffer
  /\ up' = [up EXCEPT ![c] = Append(@, Head(left[c]))]
  /\ left' = [left EXCEPT ![c] = Tail(@)]
  /\ pc' = [pc EXCEPT ![c] = IF Len(left[c]) = 1 THEN "read" ELSE @]
  /\ UNCHANGED <<asked, got, down, backlog, daemonVars, file, routes, done>>

ClientWriteFail(c) ==
  /\ pc[c] = "write" /\ ~DaemonOpen(c)
  /\ Ends(c, "failed")
  /\ UNCHANGED <<asked, up, down, backlog, daemonVars, file, routes, done>>

ClientRead(c) ==
  /\ pc[c] = "read" /\ down[c] # << >> /\ ~Complete(got[c])
  /\ got' = [got EXCEPT ![c] = Append(@, Head(down[c]))]
  /\ down' = [down EXCEPT ![c] = Tail(@)]
  /\ UNCHANGED <<pc, asked, left, up, backlog, daemonVars, file, routes, done>>

\* read_message returns; vcablectl prints the response, or an error, and ends.
ClientDone(c) ==
  /\ pc[c] = "read" /\ Complete(got[c])
  /\ UNCHANGED <<asked, left, got, up, down, backlog, daemonVars, file, routes, done>>
  /\ \/ \E r \in decode_response(Body(got[c])) :
          pc' = [pc EXCEPT ![c] = IF r.op = "ok" THEN "success" ELSE "refused"]
     \/ decode_response(Body(got[c])) = {} /\ pc' = [pc EXCEPT ![c] = "failed"]

\* Fault: the end of the stream is taken for the end of the message.
ClientEofDone(c) ==
  /\ pc[c] = "read" /\ down[c] = << >> /\ ~Complete(got[c]) /\ ~DaemonOpen(c)
  /\ pc' = [pc EXCEPT ![c] = IF Len(got[c]) > 1 /\ got[c][2] = "ok" THEN "success" ELSE "failed"]
  /\ UNCHANGED <<asked, left, got, up, down, backlog, daemonVars, file, routes, done>>

\* Truncated: the daemon has closed the connection before the end of the message.
ClientEof(c) ==
  /\ pc[c] = "read" /\ down[c] = << >> /\ ~Complete(got[c]) /\ ~DaemonOpen(c)
  /\ Ends(c, "failed")
  /\ UNCHANGED <<asked, up, down, backlog, daemonVars, file, routes, done>>

Kill(c) ==
  /\ pc[c] \in {"write", "read"}
  /\ Ends(c, "killed")
  /\ UNCHANGED <<asked, up, down, backlog, daemonVars, file, routes, done>>

-----------------------------------------------------------------------------
(* vcabled: run and serve_connection *)

\* Fault: the bytes read are kept for the next connection.
CloseKeepingBytes == stream' = Nobody /\ dgot' = dgot /\ dleft' = << >> /\ shutdown' = FALSE

\* The loop goes on to the next connection; the stream that was served is closed.
Close == stream' = Nobody /\ dgot' = << >> /\ dleft' = << >> /\ shutdown' = FALSE
NextConnection == daemon' = "accept" /\ Close

Accept ==
  /\ daemon = "accept" /\ backlog # << >>
  /\ daemon' = "read" /\ stream' = Head(backlog)
  /\ backlog' = Tail(backlog)
  /\ UNCHANGED <<clientVars, up, down, dgot, dleft, shutdown, file, routes, done>>

\* The connection was closed before it was accepted: an accept error.
AcceptFail ==
  /\ daemon = "accept" /\ backlog # << >> /\ ~ClientOpen(Head(backlog))
  /\ backlog' = Tail(backlog)
  /\ UNCHANGED <<clientVars, up, down, daemonVars, file, routes, done>>

DaemonRead ==
  /\ daemon = "read" /\ up[stream] # << >> /\ ~Complete(dgot) /\ ~TooLarge(dgot)
  /\ dgot' = Append(dgot, Head(up[stream]))
  /\ up' = [up EXCEPT ![stream] = Tail(@)]
  /\ UNCHANGED <<clientVars, down, backlog, daemon, stream, dleft, shutdown, file, routes, done>>

\* Fault: the end of a stream is waited out.
BadRequestWaiting ==
  /\ daemon = "read"
  /\ TooLarge(dgot) \/ (Complete(dgot) /\ decode_request(Body(dgot)) = {})
  /\ NextConnection
  /\ UNCHANGED <<clientVars, up, down, backlog, file, routes, done>>

\* read_message fails: the length is too large, the client has closed the connection
\* before the end of its message, or the message does not decode.
BadRequest ==
  /\ daemon = "read"
  /\ \/ TooLarge(dgot)
     \/ Complete(dgot) /\ decode_request(Body(dgot)) = {}
     \/ ~Complete(dgot) /\ up[stream] = << >> /\ ~ClientOpen(stream)
  /\ NextConnection
  /\ UNCHANGED <<clientVars, up, down, backlog, file, routes, done>>

\* EndpointId::new and RouteId::new take what escape keeps but for spaces and slashes.
IsId(text) == text # << >> /\ \A k \in DOMAIN text : text[k] \notin DOMAIN Codes \cup {" ", "/"}

\* Whether handle can succeed: it refuses an id that is no id, one that is taken or unknown.
CanSucceed(r) ==
  CASE r.op = "connect" -> IsId(r.id) /\ IsId(r.source) /\ IsId(r.sink) /\ \A q \in routes : q.id # r.id
    [] r.op = "disconnect" -> \E q \in routes : q.id = r.id
    [] r.op \in {"create", "delete"} -> IsId(r.id)
    [] OTHER -> TRUE

\* Ping and Shutdown have answers of their own; Status may have any text, and the others
\* may fail whatever they ask for.
Responses(r) ==
  [op : {"ok"}, message : CASE ~CanSucceed(r) -> {} [] r.op = "status" -> Texts [] OTHER -> {<<"a">>}]
  \cup
  [op : {"error"}, code : {<<"a">>}, message : IF r.op \in {"ping", "status", "shutdown"} THEN {} ELSE Texts]

\* The saved routes after a success, and after an error of Disconnect that comes after its save;
\* after any other error they are those of before, unless undoing fails too (see Daemon).
Saved(r) ==
  CASE r.op = "connect" -> routes \cup {r}
    [] r.op = "disconnect" -> {q \in routes : q.id # r.id}
    [] OTHER -> routes

\* handle, and the check of the response's size with which write_message begins.
Handle ==
  /\ daemon = "read" /\ Complete(dgot)
  /\ UNCHANGED <<clientVars, up, down, backlog>>
  /\ \E r \in decode_request(Body(dgot)) : \E response \in Responses(r) :
       /\ \/ CanSucceed(r) /\ (response.op = "ok" \/ r.op = "disconnect") /\ routes' = Saved(r)
          \/ response.op = "error" /\ UNCHANGED routes
       /\ file' = IF routes' # routes THEN save_routes(routes') ELSE file
       /\ done' = [done EXCEPT ![stream] = Append(@, [request |-> r, response |-> response])]
       /\ \E bytes \in {frame(encode(response))} :
            IF TooLarge(bytes) THEN NextConnection
            ELSE daemon' = "write" /\ dleft' = bytes /\ shutdown' = (r.op = "shutdown") /\ UNCHANGED <<stream, dgot>>

DaemonWrite ==
  /\ daemon = "write" /\ dleft # << >> /\ ClientOpen(stream) /\ Len(down[stream]) < Buffer
  /\ down' = [down EXCEPT ![stream] = Append(@, Head(dleft))]
  /\ dleft' = Tail(dleft)
  /\ UNCHANGED <<clientVars, up, backlog, daemon, stream, dgot, shutdown, file, routes, done>>

\* Fault: a shutdown ends the loop whether or not it could be answered.
DaemonWriteFailExits ==
  /\ daemon = "write" /\ dleft # << >> /\ ~ClientOpen(stream)
  /\ IF shutdown
     THEN daemon' = "exited" /\ UNCHANGED <<stream, dgot, dleft, shutdown>>
     ELSE NextConnection
  /\ UNCHANGED <<clientVars, up, down, backlog, file, routes, done>>

\* The client is gone: serve_connection fails, even for a shutdown.
DaemonWriteFail ==
  /\ daemon = "write" /\ dleft # << >> /\ ~ClientOpen(stream)
  /\ NextConnection
  /\ UNCHANGED <<clientVars, up, down, backlog, file, routes, done>>

\* The response is written: the loop goes on, or ends after a shutdown.
Served ==
  /\ daemon = "write" /\ dleft = << >>
  /\ IF shutdown
     THEN daemon' = "exited" /\ UNCHANGED <<stream, dgot, dleft, shutdown>>
     ELSE NextConnection
  /\ UNCHANGED <<clientVars, up, down, backlog, file, routes, done>>

DaemonKilled ==
  /\ daemon \notin Gone
  /\ daemon' = "killed" /\ Close /\ backlog' = << >>
  /\ UNCHANGED <<clientVars, up, down, file, routes, done>>

-----------------------------------------------------------------------------
ClientStep(c) == ClientWrite(c) \/ ClientWriteFail(c) \/ ClientRead(c) \/ ClientDone(c) \/ ClientEof(c)

DaemonStep ==
  \/ Accept \/ AcceptFail
  \/ DaemonRead \/ BadRequest
  \/ Handle \/ DaemonWrite \/ DaemonWriteFail \/ Served

Next ==
  \/ \E c \in Clients :
       \/ \E args \in Arguments[c] : StartFail(c, args) \/ Start(c, args)
       \/ \E bytes \in Strays : StartOther(c, bytes)
       \/ ClientStep(c) \/ Kill(c)
  \/ DaemonStep \/ DaemonKilled

\* Processes run: a client that has connected goes on until it ends, and so does the loop of
\* the daemon.  Nobody has to start a client or to kill a process.
Fairness == WF_vars(DaemonStep) /\ \A c \in Clients : WF_vars(ClientStep(c))

Spec == Init /\ [][Next]_vars /\ Fairness

-----------------------------------------------------------------------------
(* What the connections take from the texts *)

\* What may be asked and answered.
Requests == UNION {UNION {request(args) : args \in Arguments[c]} : c \in Clients}
Answers ==
  [op : {"ok"}, message : Texts \cup {<<"a">>}]
  \cup [op : {"error"}, code : {<<"a">>}, message : Texts]

\* decode gives back what was encoded, or refuses a request (but no response).
ReadsBack ==
  /\ \A r \in Requests : IsText(encode(r)) /\ decode_request(encode(r)) \subseteq {r}
  /\ \A response \in Answers : IsText(encode(response)) /\ decode_response(encode(response)) = {response}

-----------------------------------------------------------------------------
(* Properties *)

\* A request is handled at most once, and only as it was sent: not cut short by a client that
\* dies in the middle of read_exact, not mixed with another's bytes, not changed by the
\* escaping, the separators or the numbers of its text.
HandledAsSent ==
  \A c \in Clients :
    /\ Len(done[c]) <= 1
    /\ \A k \in DOMAIN done[c] : asked[c] # {} => asked[c] = {done[c][k].request}

\* vcablectl reports a success or an error only if the daemon has handled its own request with
\* this very response; any connection that breaks before the end of the response is a failure.
Told ==
  \A c \in Clients :
    pc[c] \in {"success", "refused"} /\ asked[c] # {} =>
      /\ Len(done[c]) = 1
      /\ decode_response(Body(got[c])) = {done[c][1].response}
      /\ pc[c] = "success" <=> done[c][1].response.op = "ok"

\* DaemonState::load reads from the state file the routes that save_routes wrote, all of them
\* and unchanged, whatever was connected and disconnected.
FileReadsBack == load(file) = {routes}

\* The daemon ends by itself only after a shutdown whose response has been written to the last
\* byte, so that its client, if it lives, has the response or can still read it.
ExitAnswered ==
  daemon = "exited" =>
    /\ dleft = << >>
    /\ \E k \in DOMAIN done[stream] : done[stream][k].request.op = "shutdown"
    /\ pc[stream] = "killed" \/ Complete(got[stream] \o down[stream])

\* A client that has connected ends: the daemon comes round to it whatever the clients before
\* it sent, died of or left unread, or closes the connection when it ends itself.
EverybodyServed == \A c \in Clients : pc[c] = "write" ~> pc[c] \in Ended
=============================================================================
