---------------------------- MODULE Control_proofs ----------------------------
(***************************************************************************)
(* The connections, for any number of clients with any arguments, any size *)
(* of the sockets, any interleaving of single bytes and any kills: what is *)
(* handled is what was asked, and what is told is what was handled.  The   *)
(* encoding enters as the hypothesis ReadsBack.                            *)
(***************************************************************************)
EXTENDS Control, TLAPS

\* Everything that is written into a socket.
Frames ==
  {frame(encode(r)) : r \in Requests} \cup Strays \cup {frame(encode(response)) : response \in Answers}
Bytes == UNION {{bytes[k] : k \in 1..Len(bytes)} : bytes \in Frames}

TypeInv ==
  /\ pc \in [Clients -> {"new", "write", "read"} \cup Ended]
  /\ asked \in [Clients -> {{}} \cup {{r} : r \in Requests}]
  /\ left \in [Clients -> Seq(Bytes)] /\ got \in [Clients -> Seq(Bytes)]
  /\ up \in [Clients -> Seq(Bytes)] /\ down \in [Clients -> Seq(Bytes)]
  /\ backlog \in Seq(Clients)
  /\ daemon \in {"accept", "read", "write"} \cup Gone
  /\ stream \in Clients \cup {Nobody}
  /\ dgot \in Seq(Bytes) /\ dleft \in Seq(Bytes)
  /\ DOMAIN done = Clients

\* What was handled for client c: nothing yet, or one request.
Handled(c) ==
  \/ done[c] = << >>
  \/ \E response \in Answers : done[c] = <<[request |-> done[c][1].request, response |-> response]>>

Waiting == {backlog[k] : k \in 1..Len(backlog)}

\* Every connection is accepted at most once, and the daemon serves one or none.
Queue ==
  /\ \A j, k \in 1..Len(backlog) : backlog[j] = backlog[k] => j = k
  /\ stream \notin Waiting
  /\ daemon \in {"accept", "killed"} <=> stream = Nobody
  /\ stream = Nobody => dgot = << >>

\* s is what comes after the first n bytes of F, or the beginning of it.
Run(s, F, n) == n + Len(s) <= Len(F) /\ \A k \in 1..Len(s) : s[k] = F[n + k]

\* What client c writes.
Sent(c) == IF asked[c] = {} THEN Strays ELSE {frame(encode(r)) : r \in asked[c]}

\* Bytes of F on their way from client c: read by the daemon, in the socket, to be written.
Read(c) == IF stream = c THEN dgot ELSE << >>
Upward(c, F) ==
  /\ Run(Read(c), F, 0)
  /\ Run(up[c], F, Len(Read(c)))
  /\ pc[c] = "write" =>
       /\ left[c] # << >> /\ Run(left[c], F, Len(Read(c)) + Len(up[c]))
       /\ Len(Read(c)) + Len(up[c]) + Len(left[c]) = Len(F)

Connected(c) == c \in Waiting \/ stream = c

Sending(c) ==
  Connected(c) =>
    /\ pc[c] # "new"
    /\ \E F \in Sent(c) : Upward(c, F)
    /\ daemon \notin Gone /\ pc[c] = "failed" => up[c] = << >> /\ Read(c) = << >>

\* A request is handled as it was asked, once its client is served.
AsAsked(c) ==
  /\ Handled(c)
  /\ pc[c] = "new" => asked[c] = {} /\ done[c] = << >> /\ up[c] = << >>
  /\ c \in Waiting \/ (stream = c /\ daemon = "read") => done[c] = << >>
  /\ \A k \in DOMAIN done[c] : asked[c] # {} => asked[c] = {done[c][k].request}

Lost(c) == pc[c] \in {"failed", "killed"}
Response(c) == frame(encode(done[c][1].response))

\* Bytes of the response on their way to client c, unless it has ended without it.
Downward(c) ==
  /\ done[c] = << >> => got[c] = << >> /\ down[c] = << >>
  /\ done[c] # << >> /\ ~Lost(c) => Run(got[c], Response(c), 0) /\ Run(down[c], Response(c), Len(got[c]))

\* The daemon is writing, or has ended after writing, the response to client c.
Serving(c) ==
  stream = c /\ daemon \in {"write", "exited"} =>
    /\ done[c] # << >> /\ ~TooLarge(Response(c))
    /\ pc[c] \in {"read", "success", "refused", "killed"}
    /\ shutdown = (done[c][1].request.op = "shutdown")
    /\ daemon = "exited" => dleft = << >> /\ shutdown
    /\ ~Lost(c) =>
         /\ Run(dleft, Response(c), Len(got[c]) + Len(down[c]))
         /\ Len(got[c]) + Len(down[c]) + Len(dleft) = Len(Response(c))

\* What client c reports is what it has read.
Reported(c) ==
  pc[c] \in {"success", "refused"} =>
    /\ done[c] # << >>
    /\ decode_response(Body(got[c])) = {done[c][1].response}
    /\ pc[c] = "success" <=> done[c][1].response.op = "ok"

ClientInv(c) == Sending(c) /\ AsAsked(c) /\ Downward(c) /\ Serving(c) /\ Reported(c)

ControlInv == TypeInv /\ Queue /\ \A c \in Clients : ClientInv(c)
-----------------------------------------------------------------------------
(* Sequences of bytes *)

(* A frame begins with the length of its text. *)
LEMMA FrameOfText ==
  ASSUME NEW text, IsText(text)
  PROVE  /\ frame(text) # << >> /\ Len(frame(text)) = 1 + Len(text) /\ Len(text) \in Nat
         /\ Head(frame(text)) = Len(text) /\ Tail(frame(text)) = text
         /\ frame(text) \in Seq({frame(text)[k] : k \in 1..Len(frame(text))})
<1> DEFINE S == {text[k] : k \in 1..Len(text)}
           T == S \cup {Len(text)}
<1>1. text \in Seq(S) /\ Len(text) \in Nat
  <2>1. Len(text) \in Nat /\ text = [k \in 1..Len(text) |-> text[k]]
    BY DEF IsText
  <2>2. text \in [1..Len(text) -> S]
    BY <2>1
  <2> QED BY <2>1, <2>2
<1>2. text \in Seq(T) /\ <<Len(text)>> \in Seq(T)
  BY <1>1
<1> HIDE DEF S, T
<1>3. /\ frame(text) \in Seq(T) /\ Len(frame(text)) = 1 + Len(text) /\ frame(text)[1] = Len(text)
      /\ \A k \in 1..Len(text) : frame(text)[k + 1] = text[k]
  BY <1>1, <1>2 DEF frame
<1>4. frame(text) # << >> /\ Head(frame(text)) = Len(text)
  BY <1>1, <1>3
<1>5. Tail(frame(text)) = text
  BY <1>1, <1>2 DEF frame
<1>6. frame(text) \in Seq({frame(text)[k] : k \in 1..Len(frame(text))})
  <2>1. PICK f : f = frame(text)
    OBVIOUS
  <2>2. f \in Seq(T) /\ f \in [1..Len(f) -> {f[k] : k \in 1..Len(f)}] /\ Len(f) \in Nat
    BY <1>3, <2>1
  <2> QED BY <2>1, <2>2
<1> QED BY <1>1, <1>3, <1>4, <1>5, <1>6

(* What is written is a sequence of bytes, the first of them a length. *)
LEMMA FramesAreBytes ==
  ASSUME ReadsBack, NEW F \in Frames
  PROVE  /\ F \in Seq(Bytes) /\ F # << >> /\ Len(F) \in Nat \ {0} /\ Head(F) \in Nat
         /\ ~TooLarge(F) => Len(F) <= 1 + Head(F)
<1>1. /\ F \in Seq({F[k] : k \in 1..Len(F)}) /\ F # << >> /\ Head(F) \in Nat
      /\ ~TooLarge(F) => Len(F) <= 1 + Head(F)
  <2>1. CASE F \in Strays
    <3>1. /\ IsText(F) /\ F # << >> /\ Head(F) \in Nat
          /\ ~TooLarge(F) => Len(F) <= 1 + Head(F)
      BY <2>1, ControlAssumption
    <3>2. Len(F) \in Nat /\ F \in [1..Len(F) -> {F[k] : k \in 1..Len(F)}]
      <4>1. Len(F) \in Nat /\ F = [k \in 1..Len(F) |-> F[k]]
        BY <3>1 DEF IsText
      <4> QED BY <4>1
    <3>3. F \in Seq({F[k] : k \in 1..Len(F)})
      BY <3>2
    <3> QED BY <3>1, <3>3
  <2>2. CASE F \notin Strays
    <3>1. PICK text : IsText(text) /\ F = frame(text)
      BY <2>2 DEF Frames, ReadsBack
    <3> QED BY <3>1, FrameOfText
  <2> QED BY <2>1, <2>2
<1>2. Len(F) \in Nat \ {0}
  BY <1>1
<1>3. \A k \in 1..Len(F) : F[k] \in Bytes
  BY DEF Bytes
<1>4. F \in Seq(Bytes)
  BY <1>1, <1>2, <1>3
<1> QED BY <1>1, <1>2, <1>4

(* A run grows by the byte that comes next. *)
LEMMA RunAppend ==
  ASSUME NEW S, NEW s \in Seq(S), NEW F \in Seq(S), NEW n \in Nat, NEW e \in S,
         Run(s, F, n), n + Len(s) < Len(F), e = F[n + Len(s) + 1]
  PROVE  Append(s, e) \in Seq(S) /\ Len(Append(s, e)) = Len(s) + 1 /\ Run(Append(s, e), F, n)
<1>1. Len(s) \in Nat /\ Len(F) \in Nat /\ Append(s, e) \in Seq(S) /\ Len(Append(s, e)) = Len(s) + 1
  OBVIOUS
<1>2. ASSUME NEW k \in 1..(Len(s) + 1) PROVE Append(s, e)[k] = F[n + k]
  <2>1. CASE k = Len(s) + 1
    <3>1. n + k = n + Len(s) + 1
      BY <1>1, <2>1
    <3> QED BY <2>1, <3>1
  <2>2. CASE k # Len(s) + 1
    <3>1. k \in 1..Len(s)
      BY <1>1, <2>2
    <3> QED BY <3>1 DEF Run
  <2> QED BY <2>1, <2>2
<1>3. n + (Len(s) + 1) <= Len(F)
  BY <1>1
<1> QED BY <1>1, <1>2, <1>3 DEF Run

(* It loses its first byte, and the rest comes one byte later. *)
LEMMA RunTail ==
  ASSUME NEW S, NEW s \in Seq(S), NEW F \in Seq(S), NEW n \in Nat, Run(s, F, n), s # << >>
  PROVE  /\ Head(s) = F[n + 1] /\ Head(s) \in S /\ Tail(s) \in Seq(S) /\ Len(Tail(s)) = Len(s) - 1
         /\ n < Len(F) /\ Run(Tail(s), F, n + 1)
<1>1. /\ Len(s) \in Nat \ {0} /\ Len(F) \in Nat /\ Tail(s) \in Seq(S) /\ Len(Tail(s)) = Len(s) - 1
      /\ Head(s) = s[1] /\ Head(s) \in S
  OBVIOUS
<1>2. n + Len(s) <= Len(F) /\ \A k \in 1..Len(s) : s[k] = F[n + k]
  BY DEF Run
<1>3. Head(s) = F[n + 1]
  BY <1>1, <1>2
<1>4. ASSUME NEW k \in 1..(Len(s) - 1) PROVE Tail(s)[k] = F[n + 1 + k]
  <2>1. k + 1 \in 1..Len(s) /\ Tail(s)[k] = s[k + 1] /\ n + (k + 1) = n + 1 + k
    BY <1>1
  <2> QED BY <1>2, <2>1
<1>5. n < Len(F) /\ n + 1 + (Len(s) - 1) <= Len(F)
  BY <1>1, <1>2
<1> QED BY <1>1, <1>3, <1>4, <1>5 DEF Run

(* Nothing is the beginning of everything, and everything comes first. *)
LEMMA RunEnds ==
  ASSUME NEW S, NEW F \in Seq(S)
  PROVE  /\ \A n \in 0..Len(F) : Run(<< >>, F, n)
         /\ Run(F, F, 0)
         /\ \A s \in Seq(S) : Run(s, F, 0) /\ Len(s) = Len(F) => s = F
         /\ \A s \in Seq(S) : Run(s, F, 0) /\ s # << >> => Head(s) = Head(F) /\ F # << >>
<1>1. Len(F) \in Nat
  OBVIOUS
<1>2. \A n \in 0..Len(F) : Run(<< >>, F, n)
  BY <1>1 DEF Run
<1>3. Run(F, F, 0)
  BY <1>1 DEF Run
<1>4. ASSUME NEW s \in Seq(S), Run(s, F, 0), Len(s) = Len(F) PROVE s = F
  BY <1>1, <1>4 DEF Run
<1>5. ASSUME NEW s \in Seq(S), Run(s, F, 0), s # << >> PROVE Head(s) = Head(F) /\ F # << >>
  BY <1>1, <1>5 DEF Run
<1> QED BY <1>2, <1>3, <1>4, <1>5

(* A message of which no more than its frame was sent is that frame when it is complete. *)
LEMMA CompleteMessage ==
  ASSUME NEW S, NEW s \in Seq(S), NEW F \in Seq(S), Run(s, F, 0), Complete(s),
         Head(F) \in Nat, ~TooLarge(F) => Len(F) <= 1 + Head(F)
  PROVE  s = F
<1>1. s # << >> /\ Head(s) = Head(F) /\ F # << >>
  BY RunEnds DEF Complete
<1>2. ~TooLarge(F) /\ Len(s) = 1 + Head(F)
  BY <1>1 DEF Complete, TooLarge
<1>3. Len(s) <= Len(F) /\ Len(s) \in Nat /\ Len(F) \in Nat
  BY DEF Run
<1>4. Len(s) = Len(F)
  BY <1>2, <1>3
<1> QED BY <1>4, RunEnds

-----------------------------------------------------------------------------
(* The clients *)

(* A step that leaves a client alone, and the daemon too while it serves that client,
   keeps what is known of it. *)
LEMMA Untouched ==
  ASSUME NEW c \in Clients, ClientInv(c),
         pc'[c] = pc[c], asked'[c] = asked[c], left'[c] = left[c], got'[c] = got[c],
         up'[c] = up[c], down'[c] = down[c], done'[c] = done[c],
         stream' = c => stream = c /\ daemon' = daemon /\ dgot' = dgot /\ dleft' = dleft /\ shutdown' = shutdown,
         c \in Waiting' => c \in Waiting /\ stream # c,
         daemon' \notin Gone => daemon \notin Gone
  PROVE  ClientInv(c)'
<1>1. Connected(c)' => Connected(c) /\ Read(c)' = Read(c)
  BY DEF Connected, Read
<1>2. Sending(c)'
  <2> SUFFICES ASSUME Connected(c)'
               PROVE  /\ (pc[c] # "new")'
                      /\ (\E F \in Sent(c) : Upward(c, F))'
                      /\ (daemon \notin Gone /\ pc[c] = "failed" => up[c] = << >> /\ Read(c) = << >>)'
    BY DEF Sending
  <2>1. /\ pc[c] # "new" /\ \E F \in Sent(c) : Upward(c, F)
        /\ daemon \notin Gone /\ pc[c] = "failed" => up[c] = << >> /\ Read(c) = << >>
    BY <1>1 DEF ClientInv, Sending
  <2>2. Sent(c)' = Sent(c) /\ Read(c)' = Read(c)
    BY <1>1 DEF Sent
  <2>3. \A F : Upward(c, F) => Upward(c, F)'
    BY <2>2 DEF Upward
  <2> QED BY <2>1, <2>2, <2>3
<1>3. AsAsked(c)' /\ Downward(c)' /\ Reported(c)'
  <2>1. Handled(c)'
    BY DEF ClientInv, AsAsked, Handled
  <2>2. AsAsked(c)'
    BY <2>1 DEF ClientInv, AsAsked
  <2>3. Downward(c)'
    BY DEF ClientInv, Downward, Lost, Response
  <2>4. Reported(c)'
    BY DEF ClientInv, Reported
  <2> QED BY <2>2, <2>3, <2>4
<1>4. Serving(c)'
  BY DEF ClientInv, Serving, Lost, Response
<1> QED BY <1>2, <1>3, <1>4 DEF ClientInv
(* A step of one client that leaves the daemon and the others alone. *)
LEMMA OneClient ==
  ASSUME ControlInv, NEW c \in Clients, TypeInv', Queue', ClientInv(c)', UNCHANGED daemonVars,
         Waiting' \subseteq Waiting \cup {c},
         \A d \in Clients \ {c} :
           /\ pc'[d] = pc[d] /\ asked'[d] = asked[d] /\ left'[d] = left[d] /\ got'[d] = got[d]
           /\ up'[d] = up[d] /\ down'[d] = down[d] /\ done'[d] = done[d]
  PROVE  ControlInv'
<1>1. ASSUME NEW d \in Clients \ {c} PROVE ClientInv(d)'
  <2>1. d \in Waiting' => d \in Waiting /\ stream # d
    BY DEF ControlInv, Queue
  <2>2. daemon' = daemon /\ stream' = stream /\ dgot' = dgot /\ dleft' = dleft /\ shutdown' = shutdown
    BY DEF daemonVars
  <2>3. ClientInv(d)
    BY DEF ControlInv
  <2> QED BY <2>1, <2>2, <2>3, Untouched
<1> QED BY <1>1 DEF ControlInv

(* Nothing changes for anybody but in what the daemon does with its connection. *)
LEMMA AllUntouched ==
  ASSUME ControlInv, TypeInv', Queue', UNCHANGED <<clientVars, up, down, done>>,
         \A c \in Clients : stream' = c =>
           stream = c /\ daemon' = daemon /\ dgot' = dgot /\ dleft' = dleft /\ shutdown' = shutdown,
         Waiting' \subseteq Waiting,
         daemon' \notin Gone => daemon \notin Gone
  PROVE  ControlInv'
<1>1. ASSUME NEW c \in Clients PROVE ClientInv(c)'
  <2>1. c \in Waiting' => c \in Waiting /\ stream # c
    BY DEF ControlInv, Queue
  <2>2. pc' = pc /\ asked' = asked /\ left' = left /\ got' = got /\ up' = up /\ down' = down /\ done' = done
    BY DEF clientVars
  <2>3. ClientInv(c)
    BY DEF ControlInv
  <2> QED BY <2>1, <2>2, <2>3, Untouched
<1> QED BY <1>1 DEF ControlInv

(* The backlog unchanged, so is the queue. *)
LEMMA SameQueue ==
  ASSUME Queue, UNCHANGED <<backlog, stream, daemon, dgot>>
  PROVE  Queue' /\ Waiting' = Waiting
BY DEF Queue, Waiting

(* What connects is a new client, and the last in the queue. *)
LEMMA JoinQueue ==
  ASSUME TypeInv, Queue, NEW c \in Clients, ~Connected(c), backlog' = Append(backlog, c), UNCHANGED daemonVars
  PROVE  Queue' /\ Waiting' = Waiting \cup {c} /\ backlog' \in Seq(Clients)
<1>1. backlog \in Seq(Clients) /\ Len(backlog) \in Nat /\ c \notin Waiting /\ stream # c
  BY DEF TypeInv, Connected
<1>2. PICK b : b = Append(backlog, c)
  OBVIOUS
<1>3. /\ b \in Seq(Clients) /\ Len(b) = Len(backlog) + 1 /\ b[Len(backlog) + 1] = c
      /\ \A k \in 1..Len(backlog) : b[k] = backlog[k]
  BY <1>1, <1>2
<1>4. \A k \in 1..Len(backlog) : backlog[k] \in Waiting /\ backlog[k] # c
  BY <1>1 DEF Waiting
<1>5. \A k \in 1..(Len(backlog) + 1) : k \in 1..Len(backlog) \/ k = Len(backlog) + 1
  BY <1>1
<1>6. {b[k] : k \in 1..Len(b)} = Waiting \cup {c}
  <2>1. Len(backlog) + 1 \in 1..Len(b) /\ \A k \in 1..Len(backlog) : k \in 1..Len(b)
    BY <1>1, <1>3
  <2> QED BY <1>3, <1>4, <1>5, <2>1 DEF Waiting
<1>7. \A j, k \in 1..Len(b) : b[j] = b[k] => j = k
  <2>1. \A j, k \in 1..Len(backlog) : backlog[j] = backlog[k] => j = k
    BY DEF Queue
  <2> QED BY <1>3, <1>4, <1>5, <2>1
<1>8. Waiting' = Waiting \cup {c}
  BY <1>2, <1>6 DEF Waiting
<1>9. Queue'
  <2>1. stream \notin Waiting \cup {c}
    BY <1>1 DEF Queue
  <2>2. \A j, k \in 1..Len(backlog') : backlog'[j] = backlog'[k] => j = k
    BY <1>2, <1>7
  <2> QED BY <1>8, <2>1, <2>2 DEF Queue, daemonVars
<1> QED BY <1>2, <1>3, <1>8, <1>9

(* The first one leaves it. *)
LEMMA LeaveQueue ==
  ASSUME TypeInv, Queue, backlog # << >>, backlog' = Tail(backlog)
  PROVE  /\ backlog' \in Seq(Clients) /\ Head(backlog) \in Waiting /\ Head(backlog) \in Clients
         /\ Waiting' = Waiting \ {Head(backlog)}
         /\ \A j, k \in 1..Len(backlog') : backlog'[j] = backlog'[k] => j = k
<1>1. backlog \in Seq(Clients) /\ Len(backlog) \in Nat \ {0} /\ Head(backlog) = backlog[1] /\ 1 \in 1..Len(backlog)
      /\ Head(backlog) \in Clients
  <2>1. PICK q : q = backlog
    OBVIOUS
  <2>2. q \in Seq(Clients) /\ q # << >>
    BY <2>1 DEF TypeInv
  <2>3. Len(q) \in Nat \ {0} /\ Head(q) = q[1] /\ Head(q) \in Clients
    BY <2>2
  <2> QED BY <2>1, <2>2, <2>3
<1>2. PICK b, h : b = Tail(backlog) /\ h = Head(backlog)
  OBVIOUS
<1>3. /\ b \in Seq(Clients) /\ Len(b) = Len(backlog) - 1
      /\ \A k \in 1..(Len(backlog) - 1) : b[k] = backlog[k + 1] /\ k + 1 \in 1..Len(backlog) /\ k + 1 # 1
  BY <1>1, <1>2
<1>4. \A j, k \in 1..Len(backlog) : backlog[j] = backlog[k] => j = k
  BY DEF Queue
<1>5. ASSUME NEW j \in 1..Len(b), NEW k \in 1..Len(b), b[j] = b[k] PROVE j = k
  <2>1. j \in 1..(Len(backlog) - 1) /\ k \in 1..(Len(backlog) - 1)
    BY <1>3
  <2>2. j + 1 = k + 1
    BY <1>3, <1>4, <1>5, <2>1
  <2> QED BY <2>2
<1>6. {b[k] : k \in 1..Len(b)} = Waiting \ {h}
  <2>1. ASSUME NEW k \in 1..Len(b) PROVE b[k] \in Waiting \ {h}
    <3>1. b[k] = backlog[k + 1] /\ k + 1 \in 1..Len(backlog) /\ k + 1 # 1
      BY <1>3
    <3>2. backlog[k + 1] # backlog[1]
      BY <1>1, <1>4, <3>1
    <3> QED BY <1>1, <1>2, <3>1, <3>2 DEF Waiting
  <2>2. ASSUME NEW w \in Waiting \ {h} PROVE \E k \in 1..Len(b) : b[k] = w
    <3>1. PICK i \in 1..Len(backlog) : w = backlog[i]
      BY DEF Waiting
    <3>2. i # 1
      BY <1>1, <1>2, <3>1
    <3>3. i - 1 \in 1..(Len(backlog) - 1) /\ i - 1 + 1 = i
      BY <1>1, <3>2
    <3>4. b[i - 1] = backlog[i] /\ i - 1 \in 1..Len(b)
      BY <1>3, <3>3
    <3> QED BY <3>1, <3>4
  <2> QED BY <2>1, <2>2
<1> QED BY <1>1, <1>2, <1>3, <1>5, <1>6 DEF Waiting

(* The backlog holds those who wait. *)
LEMMA Backlog ==
  ASSUME NEW c
  PROVE  Contains(backlog, c) <=> c \in Waiting
BY DEF Contains, Waiting

(* What a client writes is a frame. *)
LEMMA SentFrames ==
  ASSUME ReadsBack, TypeInv, NEW c \in Clients, NEW F \in Sent(c)
  PROVE  F \in Frames /\ F \in Seq(Bytes) /\ Len(F) \in Nat \ {0}
<1>1. F \in Frames
  <2>1. CASE asked[c] = {}
    BY <2>1 DEF Sent, Frames
  <2>2. CASE asked[c] # {}
    <3>1. PICK r \in Requests : asked[c] = {r}
      BY <2>2 DEF TypeInv
    <3> QED BY <2>2, <3>1 DEF Sent, Frames
  <2> QED BY <2>1, <2>2
<1> QED BY <1>1, FramesAreBytes

(* The response to a client reads back as what was answered. *)
LEMMA Answered ==
  ASSUME ReadsBack, NEW c \in Clients, AsAsked(c), done[c] # << >>
  PROVE  /\ Len(done[c]) = 1 /\ DOMAIN done[c] = {1} /\ done[c][1].response \in Answers
         /\ Response(c) \in Frames /\ Response(c) \in Seq(Bytes) /\ Len(Response(c)) \in Nat \ {0}
         /\ Len(Response(c)) = 1 + Head(Response(c)) /\ Head(Response(c)) \in Nat
         /\ decode_response(Body(Response(c))) = {done[c][1].response}
<1>1. PICK response \in Answers : done[c] = <<[request |-> done[c][1].request, response |-> response]>>
  BY DEF AsAsked, Handled
<1>2. done[c][1].response = response /\ Len(done[c]) = 1 /\ DOMAIN done[c] = {1}
  <2>1. PICK h : h = [request |-> done[c][1].request, response |-> response]
    OBVIOUS
  <2>2. done[c] = <<h>> /\ h.response = response
    BY <1>1, <2>1
  <2> QED BY <2>2
<1>3. IsText(encode(response)) /\ decode_response(encode(response)) = {response}
  BY DEF ReadsBack
<1>4. Response(c) = frame(encode(response)) /\ Response(c) \in Frames
  BY <1>2 DEF Response, Frames
<1>5. Response(c) \in Seq(Bytes) /\ Len(Response(c)) \in Nat \ {0}
  BY <1>4, FramesAreBytes
<1>6. /\ Len(Response(c)) = 1 + Head(Response(c)) /\ Tail(Response(c)) = encode(response)
      /\ Head(Response(c)) \in Nat
  BY <1>3, <1>4, FrameOfText
<1> QED BY <1>2, <1>3, <1>4, <1>5, <1>6 DEF Body

(* A client that has all bytes of the response has a complete message. *)
LEMMA ResponseComplete ==
  ASSUME ReadsBack, NEW c \in Clients, AsAsked(c), done[c] # << >>, ~TooLarge(Response(c))
  PROVE  Complete(Response(c))
<1>1. Response(c) \in Seq(Bytes) /\ Len(Response(c)) \in Nat \ {0} /\ Len(Response(c)) = 1 + Head(Response(c))
  BY Answered
<1>2. Response(c) # << >>
  BY <1>1
<1> QED BY <1>1, <1>2 DEF Complete

(* The types of one client's state. *)
LEMMA ClientTypes ==
  ASSUME TypeInv, NEW c \in Clients
  PROVE  /\ left[c] \in Seq(Bytes) /\ got[c] \in Seq(Bytes) /\ up[c] \in Seq(Bytes) /\ down[c] \in Seq(Bytes)
         /\ dgot \in Seq(Bytes) /\ dleft \in Seq(Bytes) /\ Read(c) \in Seq(Bytes) /\ << >> \in Seq(Bytes)
         /\ Len(left[c]) \in Nat /\ Len(got[c]) \in Nat /\ Len(up[c]) \in Nat /\ Len(down[c]) \in Nat
         /\ Len(dgot) \in Nat /\ Len(dleft) \in Nat /\ Len(Read(c)) \in Nat
         /\ pc[c] \in {"new", "write", "read"} \cup Ended
<1>1. /\ left[c] \in Seq(Bytes) /\ got[c] \in Seq(Bytes) /\ up[c] \in Seq(Bytes) /\ down[c] \in Seq(Bytes)
      /\ dgot \in Seq(Bytes) /\ dleft \in Seq(Bytes) /\ << >> \in Seq(Bytes)
      /\ pc[c] \in {"new", "write", "read"} \cup Ended
  BY DEF TypeInv
<1>2. Read(c) \in Seq(Bytes)
  BY <1>1 DEF Read
<1> QED BY <1>1, <1>2

-----------------------------------------------------------------------------
(* vcablectl *)

(* A client connects. *)
LEMMA ConnectControl ==
  ASSUME ReadsBack, ControlInv, NEW c \in Clients, NEW bytes \in Frames, NEW next \in {"write", "failed"},
         Connect(c, bytes, next), asked' \in [Clients -> {{}} \cup {{r} : r \in Requests}],
         \A d \in Clients \ {c} : asked'[d] = asked[d], bytes \in Sent(c)'
  PROVE  ControlInv'
<1>1. TypeInv /\ Queue /\ ClientInv(c)
  BY DEF ControlInv
<1>2. /\ pc[c] = "new" /\ backlog' = Append(backlog, c)
      /\ left' = [left EXCEPT ![c] = bytes] /\ pc' = [pc EXCEPT ![c] = next]
      /\ got' = got /\ up' = up /\ down' = down /\ done' = done /\ UNCHANGED daemonVars
      /\ stream' = stream /\ dgot' = dgot /\ daemon' = daemon
  BY DEF Connect, daemonVars
<1>3. ~Connected(c) /\ done[c] = << >> /\ up[c] = << >>
  BY <1>1, <1>2 DEF ClientInv, Sending, AsAsked
<1>4. got[c] = << >> /\ down[c] = << >>
  BY <1>1, <1>3 DEF ClientInv, Downward
<1>5. Queue' /\ Waiting' = Waiting \cup {c} /\ backlog' \in Seq(Clients)
  BY <1>1, <1>2, <1>3, JoinQueue
<1>6. bytes \in Seq(Bytes) /\ Len(bytes) \in Nat \ {0} /\ bytes # << >>
  BY FramesAreBytes
<1>7. TypeInv'
  BY <1>1, <1>2, <1>5, <1>6 DEF TypeInv, Ended, daemonVars
<1>8. pc'[c] = next /\ left'[c] = bytes /\ stream # c
  BY <1>1, <1>2, <1>3 DEF TypeInv, Connected
<1>9. Sending(c)'
  <2>1. Read(c)' = << >> /\ up'[c] = << >>
    BY <1>2, <1>3, <1>8 DEF Read
  <2>2. Run(<< >>, bytes, 0) /\ Run(bytes, bytes, 0)
    BY <1>6, RunEnds
  <2>3. Upward(c, bytes)'
    BY <1>6, <1>8, <2>1, <2>2 DEF Upward
  <2> QED BY <1>8, <2>1, <2>3 DEF Sending
<1>10. AsAsked(c)'
  BY <1>2, <1>3, <1>8 DEF AsAsked, Handled
<1>11. Downward(c)' /\ Serving(c)' /\ Reported(c)'
  BY <1>2, <1>3, <1>4, <1>8 DEF Downward, Serving, Reported
<1>12. \A d \in Clients \ {c} :
         /\ pc'[d] = pc[d] /\ asked'[d] = asked[d] /\ left'[d] = left[d] /\ got'[d] = got[d]
         /\ up'[d] = up[d] /\ down'[d] = down[d] /\ done'[d] = done[d]
  BY <1>1, <1>2 DEF TypeInv
<1> QED BY <1>2, <1>5, <1>7, <1>9, <1>10, <1>11, <1>12, OneClient DEF ClientInv

(* A client ends without a response: it has failed only when nothing can answer it. *)
LEMMA EndsControl ==
  ASSUME ControlInv, NEW c \in Clients, NEW how \in {"failed", "killed"}, Ends(c, how),
         pc[c] \in {"new", "write", "read"}, how = "failed" => ~Connected(c) \/ (daemon \in Gone /\ stream # c),
         UNCHANGED <<asked, up, down, backlog, daemonVars, done>>
  PROVE  ControlInv'
<1>1. TypeInv /\ Queue /\ ClientInv(c)
  BY DEF ControlInv
<1>2. /\ pc' = [pc EXCEPT ![c] = how] /\ left' = [left EXCEPT ![c] = << >>] /\ got' = [got EXCEPT ![c] = << >>]
      /\ asked' = asked /\ up' = up /\ down' = down /\ backlog' = backlog /\ done' = done
      /\ UNCHANGED daemonVars
      /\ stream' = stream /\ dgot' = dgot /\ daemon' = daemon /\ dleft' = dleft /\ shutdown' = shutdown
  BY DEF Ends, daemonVars
<1>3. Queue' /\ Waiting' = Waiting
  BY <1>1, <1>2, SameQueue
<1>4. pc'[c] = how /\ left'[c] = << >> /\ got'[c] = << >>
  BY <1>1, <1>2 DEF TypeInv
<1>5. TypeInv'
  <2>1. << >> \in Seq(Bytes)
    OBVIOUS
  <2> QED BY <1>1, <1>2, <2>1 DEF TypeInv, Ended, daemonVars
<1>6. Sending(c)'
  <2> SUFFICES ASSUME Connected(c)' PROVE Sending(c)'
    BY DEF Sending
  <2>1. Connected(c) /\ Read(c)' = Read(c) /\ Sent(c)' = Sent(c)
    BY <1>2, <1>3 DEF Connected, Read, Sent
  <2>2. PICK F \in Sent(c) : Upward(c, F)
    BY <1>1, <2>1 DEF ClientInv, Sending
  <2>3. Upward(c, F)'
    BY <1>2, <1>4, <2>1, <2>2 DEF Upward
  <2>4. ~(daemon \notin Gone /\ pc[c] = "failed")'
    BY <1>2, <1>4, <2>1
  <2> QED BY <1>4, <2>1, <2>2, <2>3, <2>4 DEF Sending
<1>7. AsAsked(c)'
  BY <1>1, <1>2, <1>3, <1>4 DEF ClientInv, AsAsked, Handled
<1>8. Downward(c)'
  BY <1>1, <1>2, <1>4 DEF ClientInv, Downward, Lost
<1>9. Serving(c)'
  <2> SUFFICES ASSUME stream = c, daemon \in {"write", "exited"} PROVE Serving(c)'
    BY <1>2 DEF Serving
  <2>1. how = "killed"
    BY DEF Connected
  <2>2. /\ done[c] # << >> /\ ~TooLarge(Response(c))
        /\ shutdown = (done[c][1].request.op = "shutdown")
        /\ daemon = "exited" => dleft = << >> /\ shutdown
    BY <1>1 DEF ClientInv, Serving
  <2>3. Response(c)' = Response(c)
    BY <1>2 DEF Response
  <2> QED BY <1>2, <1>4, <2>1, <2>2, <2>3 DEF Serving, Lost
<1>10. Reported(c)'
  BY <1>4 DEF Reported
<1>11. \A d \in Clients \ {c} :
         /\ pc'[d] = pc[d] /\ asked'[d] = asked[d] /\ left'[d] = left[d] /\ got'[d] = got[d]
         /\ up'[d] = up[d] /\ down'[d] = down[d] /\ done'[d] = done[d]
  BY <1>1, <1>2 DEF TypeInv
<1> QED BY <1>2, <1>3, <1>5, <1>6, <1>7, <1>8, <1>9, <1>10, <1>11, OneClient DEF ClientInv

(* A byte goes from the client into its socket. *)
LEMMA ClientWriteControl ==
  ASSUME ReadsBack, ControlInv, NEW c \in Clients, ClientWrite(c)
  PROVE  ControlInv'
<1>1. TypeInv /\ Queue /\ ClientInv(c)
  BY DEF ControlInv
<1>2. /\ pc[c] = "write" /\ DaemonOpen(c)
      /\ got' = got /\ down' = down /\ asked' = asked /\ done' = done /\ backlog' = backlog
      /\ UNCHANGED daemonVars
      /\ stream' = stream /\ dgot' = dgot /\ daemon' = daemon /\ dleft' = dleft /\ shutdown' = shutdown
  BY DEF ClientWrite, daemonVars
<1>3. Connected(c) /\ daemon \notin Gone
  BY <1>2, Backlog DEF DaemonOpen, Connected
<1>4. PICK F \in Sent(c) : Upward(c, F)
  BY <1>1, <1>3 DEF ClientInv, Sending
<1>5. F \in Seq(Bytes) /\ Len(F) \in Nat \ {0}
  BY <1>1, SentFrames
<1>6. PICK n, m, x, y, z : /\ n = Len(Read(c)) /\ m = Len(up[c]) /\ x = left[c] /\ y = up[c] /\ z = Len(x)
  OBVIOUS
<1>7. /\ n \in Nat /\ m \in Nat /\ y \in Seq(Bytes) /\ x \in Seq(Bytes) /\ z \in Nat /\ m = Len(y)
  BY <1>1, <1>6, ClientTypes
<1>8. /\ Run(Read(c), F, 0) /\ Run(y, F, n) /\ x # << >> /\ Run(x, F, n + m) /\ n + m + z = Len(F)
  BY <1>2, <1>4, <1>6 DEF Upward
<1>9. PICK l, e, p, u : l = Tail(x) /\ e = Head(x) /\ u = Append(y, e) /\ p = IF z = 1 THEN "read" ELSE pc[c]
  OBVIOUS
<1>10. /\ e = F[n + m + 1] /\ e \in Bytes /\ l \in Seq(Bytes) /\ Len(l) = z - 1
       /\ n + m < Len(F) /\ Run(l, F, n + m + 1)
  <2>1. PICK k : k = n + m
    OBVIOUS
  <2>2. k \in Nat /\ Run(x, F, k)
    BY <1>7, <1>8, <2>1
  <2>3. /\ Head(x) = F[k + 1] /\ Head(x) \in Bytes /\ Tail(x) \in Seq(Bytes) /\ Len(Tail(x)) = Len(x) - 1
        /\ k < Len(F) /\ Run(Tail(x), F, k + 1)
    BY <1>5, <1>7, <1>8, <2>2, RunTail
  <2> QED BY <1>6, <1>9, <2>1, <2>3
<1>11. u \in Seq(Bytes) /\ Len(u) = m + 1 /\ Run(u, F, n)
  <2>1. n + Len(y) < Len(F) /\ e = F[n + Len(y) + 1]
    BY <1>7, <1>10
  <2>2. /\ Append(y, e) \in Seq(Bytes) /\ Len(Append(y, e)) = Len(y) + 1 /\ Run(Append(y, e), F, n)
    BY <1>5, <1>7, <1>8, <1>10, <2>1, RunAppend
  <2> QED BY <1>7, <1>9, <2>2
<1>12. /\ pc' = [pc EXCEPT ![c] = p] /\ left' = [left EXCEPT ![c] = l] /\ got' = [got EXCEPT ![c] = got[c]]
       /\ up' = [up EXCEPT ![c] = u] /\ down' = [down EXCEPT ![c] = down[c]]
  BY <1>1, <1>2, <1>6, <1>9 DEF ClientWrite, TypeInv
<1>13. /\ pc'[c] = p /\ left'[c] = l /\ up'[c] = u /\ got'[c] = got[c] /\ down'[c] = down[c]
       /\ asked'[c] = asked[c] /\ done'[c] = done[c]
       /\ \A d \in Clients \ {c} :
            /\ pc'[d] = pc[d] /\ asked'[d] = asked[d] /\ left'[d] = left[d] /\ got'[d] = got[d]
            /\ up'[d] = up[d] /\ down'[d] = down[d] /\ done'[d] = done[d]
  BY <1>1, <1>2, <1>12 DEF TypeInv
<1>14. p \in {"write", "read"}
  BY <1>2, <1>9
<1>15. Queue' /\ Waiting' = Waiting
  BY <1>1, <1>2, SameQueue
<1>16. TypeInv'
  BY <1>1, <1>2, <1>10, <1>11, <1>12, <1>14 DEF TypeInv, daemonVars
<1>17. Sending(c)'
  <2>1. Read(c)' = Read(c) /\ Sent(c)' = Sent(c)
    BY <1>2 DEF Read, Sent
  <2>2. p = "write" => l # << >>
    <3>1. p = "write" => z # 1
      BY <1>9
    <3>2. z # 0
      BY <1>6, <1>7, <1>8
    <3>3. p = "write" => Len(l) # 0
      BY <1>7, <1>10, <3>1, <3>2
    <3> QED BY <3>3
  <2>3. n + (m + 1) = n + m + 1 /\ n + (m + 1) + Len(l) = Len(F)
    <3>1. n + m + z = Len(F)
      BY <1>8
    <3>2. Len(l) = z - 1
      BY <1>10
    <3>3. n \in Nat /\ m \in Nat /\ z \in Nat
      BY <1>7
    <3> QED BY <3>1, <3>2, <3>3
  <2>4. Upward(c, F)'
    <3>1. Run(Read(c)', F, 0) /\ Run(up'[c], F, Len(Read(c)'))
      BY <1>6, <1>8, <1>11, <1>13, <2>1
    <3>2. Len(Read(c)') = n /\ Len(up'[c]) = m + 1
      BY <1>6, <1>11, <1>13, <2>1
    <3>3. Run(left'[c], F, n + (m + 1))
      BY <1>10, <1>13, <2>3
    <3>4. pc'[c] = "write" => /\ left'[c] # << >> /\ Run(left'[c], F, Len(Read(c)') + Len(up'[c]))
                              /\ Len(Read(c)') + Len(up'[c]) + Len(left'[c]) = Len(F)
      BY <1>13, <2>2, <2>3, <3>2, <3>3
    <3> QED BY <3>1, <3>4 DEF Upward
  <2> QED BY <1>4, <1>13, <1>14, <2>1, <2>4 DEF Sending
<1>18. AsAsked(c)'
  <2>1. Handled(c)' /\ (c \in Waiting \/ (stream = c /\ daemon = "read") => done[c] = << >>)'
    BY <1>1, <1>2, <1>15 DEF ClientInv, AsAsked, Handled
  <2> QED BY <1>1, <1>2, <1>13, <1>14, <2>1 DEF ClientInv, AsAsked
<1>19. Downward(c)'
  BY <1>1, <1>2, <1>13, <1>14 DEF ClientInv, Downward, Lost, Response
<1>20. Serving(c)'
  BY <1>1, <1>2 DEF ClientInv, Serving
<1>21. Reported(c)'
  BY <1>13, <1>14 DEF Reported
<1> QED BY <1>2, <1>13, <1>15, <1>16, <1>17, <1>18, <1>19, <1>20, <1>21, OneClient DEF ClientInv

(* A byte of the response goes from the socket to the client. *)
LEMMA ClientReadControl ==
  ASSUME ReadsBack, ControlInv, NEW c \in Clients, ClientRead(c)
  PROVE  ControlInv'
<1>1. TypeInv /\ Queue /\ ClientInv(c)
  BY DEF ControlInv
<1>2. /\ pc[c] = "read" /\ down[c] # << >>
      /\ pc' = pc /\ left' = left /\ up' = up /\ asked' = asked /\ done' = done /\ backlog' = backlog
      /\ UNCHANGED daemonVars
      /\ stream' = stream /\ dgot' = dgot /\ daemon' = daemon /\ dleft' = dleft /\ shutdown' = shutdown
  BY DEF ClientRead, daemonVars
<1>3. done[c] # << >> /\ ~Lost(c)
  BY <1>1, <1>2 DEF ClientInv, Downward, Lost
<1>4. PICK R : R = Response(c)
  OBVIOUS
<1>5. R \in Seq(Bytes) /\ Len(R) \in Nat \ {0}
  BY <1>1, <1>3, <1>4, Answered DEF ClientInv
<1>6. PICK n, x, y, z : n = Len(y) /\ x = down[c] /\ y = got[c] /\ z = Len(x)
  OBVIOUS
<1>7. n \in Nat /\ y \in Seq(Bytes) /\ x \in Seq(Bytes) /\ z \in Nat
  BY <1>1, <1>6, ClientTypes
<1>8. Run(y, R, 0) /\ Run(x, R, n) /\ x # << >>
  BY <1>1, <1>2, <1>3, <1>4, <1>6 DEF ClientInv, Downward
<1>9. PICK e, g, w : e = Head(x) /\ g = Append(y, e) /\ w = Tail(x)
  OBVIOUS
<1>10. /\ e = R[n + 1] /\ e \in Bytes /\ w \in Seq(Bytes) /\ Len(w) = z - 1
       /\ n < Len(R) /\ Run(w, R, n + 1)
  <2>1. /\ Head(x) = R[n + 1] /\ Head(x) \in Bytes /\ Tail(x) \in Seq(Bytes) /\ Len(Tail(x)) = Len(x) - 1
        /\ n < Len(R) /\ Run(Tail(x), R, n + 1)
    BY <1>5, <1>7, <1>8, RunTail
  <2> QED BY <1>6, <1>9, <2>1
<1>11. g \in Seq(Bytes) /\ Len(g) = n + 1 /\ Run(g, R, 0)
  <2>1. 0 + Len(y) < Len(R) /\ e = R[0 + Len(y) + 1]
    BY <1>5, <1>6, <1>7, <1>10
  <2>2. /\ Append(y, e) \in Seq(Bytes) /\ Len(Append(y, e)) = Len(y) + 1 /\ Run(Append(y, e), R, 0)
    BY <1>5, <1>7, <1>8, <1>10, <2>1, RunAppend
  <2> QED BY <1>6, <1>9, <2>2
<1>12. /\ pc' = [pc EXCEPT ![c] = pc[c]] /\ left' = [left EXCEPT ![c] = left[c]]
       /\ got' = [got EXCEPT ![c] = g] /\ up' = [up EXCEPT ![c] = up[c]] /\ down' = [down EXCEPT ![c] = w]
  BY <1>1, <1>2, <1>6, <1>9 DEF ClientRead, TypeInv
<1>13. /\ pc'[c] = pc[c] /\ left'[c] = left[c] /\ up'[c] = up[c] /\ got'[c] = g /\ down'[c] = w
       /\ asked'[c] = asked[c] /\ done'[c] = done[c]
       /\ \A d \in Clients \ {c} :
            /\ pc'[d] = pc[d] /\ asked'[d] = asked[d] /\ left'[d] = left[d] /\ got'[d] = got[d]
            /\ up'[d] = up[d] /\ down'[d] = down[d] /\ done'[d] = done[d]
  BY <1>1, <1>2, <1>12 DEF TypeInv
<1>14. Queue' /\ Waiting' = Waiting
  BY <1>1, <1>2, SameQueue
<1>15. TypeInv'
  BY <1>1, <1>2, <1>10, <1>11, <1>12 DEF TypeInv, daemonVars
<1>16. Sending(c)'
  <2>1. Read(c)' = Read(c) /\ Sent(c)' = Sent(c) /\ (Connected(c)' => Connected(c))
    BY <1>2, <1>14 DEF Read, Sent, Connected
  <2>2. \A F : Upward(c, F) => Upward(c, F)'
    BY <1>2, <2>1 DEF Upward
  <2> QED BY <1>1, <1>2, <2>1, <2>2 DEF ClientInv, Sending
<1>17. AsAsked(c)'
  BY <1>1, <1>2, <1>14 DEF ClientInv, AsAsked, Handled
<1>18. Response(c)' = R /\ Lost(c)' = FALSE
  BY <1>2, <1>4 DEF Response, Lost
<1>19. Downward(c)'
  BY <1>3, <1>10, <1>11, <1>13, <1>18 DEF Downward
<1>20. Serving(c)'
  <2> SUFFICES ASSUME stream = c, daemon \in {"write", "exited"} PROVE Serving(c)'
    BY <1>2 DEF Serving
  <2>1. /\ ~TooLarge(R) /\ shutdown = (done[c][1].request.op = "shutdown")
        /\ daemon = "exited" => dleft = << >> /\ shutdown
        /\ Run(dleft, R, n + z) /\ n + z + Len(dleft) = Len(R)
    BY <1>1, <1>3, <1>4, <1>6 DEF ClientInv, Serving
  <2>2. Len(g) + Len(w) = n + z
    BY <1>7, <1>10, <1>11
  <2>3. Run(dleft, R, Len(g) + Len(w)) /\ Len(g) + Len(w) + Len(dleft) = Len(R)
    BY <2>1, <2>2
  <2> QED BY <1>2, <1>3, <1>13, <1>18, <2>1, <2>3 DEF Serving
<1>21. Reported(c)'
  BY <1>2 DEF Reported
<1> QED BY <1>2, <1>13, <1>14, <1>15, <1>16, <1>17, <1>19, <1>20, <1>21, OneClient DEF ClientInv

(* A client that has read a message has read the response to its request. *)
LEMMA ClientDoneControl ==
  ASSUME ReadsBack, ControlInv, NEW c \in Clients, ClientDone(c)
  PROVE  ControlInv'
<1>1. TypeInv /\ Queue /\ ClientInv(c)
  BY DEF ControlInv
<1>2. /\ pc[c] = "read" /\ Complete(got[c])
      /\ got' = got /\ down' = down /\ left' = left /\ up' = up /\ asked' = asked /\ done' = done
      /\ backlog' = backlog /\ UNCHANGED daemonVars
      /\ stream' = stream /\ dgot' = dgot /\ daemon' = daemon /\ dleft' = dleft /\ shutdown' = shutdown
  BY DEF ClientDone, daemonVars
<1>3. done[c] # << >> /\ ~Lost(c)
  <2>1. got[c] # << >>
    BY <1>2 DEF Complete
  <2> QED BY <1>1, <1>2, <2>1 DEF ClientInv, Downward, Lost
<1>4. /\ Response(c) \in Seq(Bytes) /\ Len(Response(c)) = 1 + Head(Response(c)) /\ Head(Response(c)) \in Nat
      /\ Len(Response(c)) \in Nat
      /\ decode_response(Body(Response(c))) = {done[c][1].response}
  BY <1>1, <1>3, Answered DEF ClientInv
<1>5. got[c] = Response(c)
  <2>1. Run(got[c], Response(c), 0) /\ got[c] \in Seq(Bytes)
    BY <1>1, <1>3, ClientTypes DEF ClientInv, Downward
  <2>2. Len(Response(c)) <= 1 + Head(Response(c))
    BY <1>4
  <2> QED BY <1>2, <1>4, <2>1, <2>2, CompleteMessage
<1>6. decode_response(Body(got[c])) = {done[c][1].response}
  BY <1>4, <1>5
<1>7. PICK p : p = IF done[c][1].response.op = "ok" THEN "success" ELSE "refused"
  OBVIOUS
<1>8. /\ pc' = [pc EXCEPT ![c] = p] /\ left' = [left EXCEPT ![c] = left[c]]
      /\ got' = [got EXCEPT ![c] = got[c]] /\ up' = [up EXCEPT ![c] = up[c]]
      /\ down' = [down EXCEPT ![c] = down[c]]
  <2>1. pc' = [pc EXCEPT ![c] = p]
    BY <1>6, <1>7 DEF ClientDone
  <2> QED BY <1>1, <1>2, <2>1 DEF TypeInv
<1>9. /\ pc'[c] = p /\ left'[c] = left[c] /\ up'[c] = up[c] /\ got'[c] = got[c] /\ down'[c] = down[c]
      /\ asked'[c] = asked[c] /\ done'[c] = done[c]
      /\ \A d \in Clients \ {c} :
           /\ pc'[d] = pc[d] /\ asked'[d] = asked[d] /\ left'[d] = left[d] /\ got'[d] = got[d]
           /\ up'[d] = up[d] /\ down'[d] = down[d] /\ done'[d] = done[d]
  BY <1>1, <1>2, <1>8 DEF TypeInv
<1>10. p \in {"success", "refused"}
  BY <1>7
<1>11. Queue' /\ Waiting' = Waiting
  BY <1>1, <1>2, SameQueue
<1>12. TypeInv'
  BY <1>1, <1>2, <1>8, <1>10 DEF TypeInv, Ended, daemonVars
<1>13. Sending(c)'
  <2>1. Read(c)' = Read(c) /\ Sent(c)' = Sent(c) /\ (Connected(c)' => Connected(c))
    BY <1>2, <1>11 DEF Read, Sent, Connected
  <2>2. \A F : Upward(c, F) => Upward(c, F)'
    BY <1>2, <1>9, <1>10, <2>1 DEF Upward
  <2> QED BY <1>1, <1>9, <1>10, <2>1, <2>2 DEF ClientInv, Sending
<1>14. AsAsked(c)'
  <2>1. Handled(c)' /\ (c \in Waiting \/ (stream = c /\ daemon = "read") => done[c] = << >>)'
    BY <1>1, <1>2, <1>11 DEF ClientInv, AsAsked, Handled
  <2> QED BY <1>1, <1>2, <1>9, <1>10, <2>1 DEF ClientInv, AsAsked
<1>15. Response(c)' = Response(c) /\ ~Lost(c)'
  BY <1>2, <1>9, <1>10 DEF Response, Lost
<1>16. Downward(c)'
  BY <1>1, <1>2, <1>3, <1>15 DEF ClientInv, Downward
<1>17. Serving(c)'
  BY <1>1, <1>2, <1>3, <1>9, <1>10, <1>15 DEF ClientInv, Serving
<1>18. Reported(c)'
  BY <1>2, <1>3, <1>6, <1>7, <1>9 DEF Reported
<1> QED BY <1>2, <1>9, <1>11, <1>12, <1>13, <1>14, <1>16, <1>17, <1>18, OneClient DEF ClientInv

(* A client is told of the end of the stream only by a daemon that has given it up. *)
LEMMA ClientEofControl ==
  ASSUME ReadsBack, ControlInv, NEW c \in Clients, ClientEof(c) \/ ClientWriteFail(c)
  PROVE  ControlInv'
<1>1. TypeInv /\ Queue /\ ClientInv(c)
  BY DEF ControlInv
<1>2. /\ pc[c] \in {"write", "read"} /\ ~DaemonOpen(c) /\ Ends(c, "failed")
      /\ UNCHANGED <<asked, up, down, backlog, daemonVars, done>>
  BY DEF ClientEof, ClientWriteFail
<1>3. ~Connected(c) \/ daemon \in Gone
  BY <1>2, Backlog DEF DaemonOpen, Connected
<1>4. ASSUME stream = c, daemon \in Gone PROVE FALSE
  <2>1. daemon = "exited"
    <3>1. c # Nobody
      BY ControlAssumption
    <3>2. daemon # "killed"
      BY <1>1, <1>4, <3>1 DEF Queue
    <3> QED BY <1>4, <3>2 DEF Gone
  <2>2. pc[c] = "read" /\ ClientEof(c)
    BY <1>1, <1>2, <1>4, <2>1 DEF ClientInv, Serving, ClientEof, ClientWriteFail
  <2>3. /\ done[c] # << >> /\ ~TooLarge(Response(c)) /\ dleft = << >>
        /\ Len(got[c]) + Len(down[c]) + Len(dleft) = Len(Response(c))
        /\ Run(got[c], Response(c), 0)
    BY <1>1, <1>4, <2>1, <2>2 DEF ClientInv, Serving, Downward, Lost
  <2>4. down[c] = << >> /\ ~Complete(got[c])
    BY <2>2 DEF ClientEof
  <2>5. PICK g, n : g = got[c] /\ n = Len(Response(c))
    OBVIOUS
  <2>6. g \in Seq(Bytes) /\ Len(g) \in Nat /\ Response(c) \in Seq(Bytes) /\ n \in Nat
    BY <1>1, <2>3, <2>5, ClientTypes, Answered DEF ClientInv
  <2>7. Len(g) = n
    <3>1. Len(g) + 0 + 0 = n
      BY <2>3, <2>4, <2>5
    <3> QED BY <2>6, <3>1
  <2>8. g = Response(c)
    BY <2>3, <2>5, <2>6, <2>7, RunEnds
  <2> QED BY <1>1, <2>3, <2>4, <2>5, <2>8, ResponseComplete DEF ClientInv
<1>5. "failed" \in {"failed", "killed"} /\ pc[c] \in {"new", "write", "read"}
  BY <1>2
<1> QED BY <1>2, <1>3, <1>4, <1>5, EndsControl

(* Everything that a client may be started with. *)
LEMMA StartControl ==
  ASSUME ReadsBack, ControlInv, NEW c \in Clients,
         \/ \E args \in Arguments[c] : StartFail(c, args) \/ Start(c, args)
         \/ \E bytes \in Strays : StartOther(c, bytes)
  PROVE  ControlInv'
<1>1. TypeInv /\ ClientInv(c)
  BY DEF ControlInv
<1>2. ASSUME NEW args \in Arguments[c], StartFail(c, args) PROVE ControlInv'
  <2>1. /\ pc[c] = "new" /\ Ends(c, "failed")
        /\ UNCHANGED <<asked, up, down, backlog, daemonVars, done>>
    BY <1>2 DEF StartFail
  <2>2. ~Connected(c)
    BY <1>1, <2>1 DEF ClientInv, Sending
  <2> QED BY <2>1, <2>2, EndsControl
<1>3. ASSUME NEW args \in Arguments[c], Start(c, args) PROVE ControlInv'
  <2>1. PICK r \in request(args) :
          /\ Connect(c, frame(encode(r)), IF TooLarge(frame(encode(r))) THEN "failed" ELSE "write")
          /\ asked' = [asked EXCEPT ![c] = {r}]
    BY <1>3 DEF Start
  <2>2. r \in Requests
    BY DEF Requests
  <2>3. PICK F, next : F = frame(encode(r)) /\ next = IF TooLarge(frame(encode(r))) THEN "failed" ELSE "write"
    OBVIOUS
  <2>4. F \in Frames /\ next \in {"write", "failed"} /\ Connect(c, F, next)
    BY <2>1, <2>2, <2>3 DEF Frames
  <2>5. /\ asked' \in [Clients -> {{}} \cup {{q} : q \in Requests}]
        /\ \A d \in Clients \ {c} : asked'[d] = asked[d]
        /\ asked'[c] = {r}
    BY <1>1, <2>1, <2>2 DEF TypeInv
  <2>6. F \in Sent(c)'
    BY <2>3, <2>5 DEF Sent
  <2> QED BY <2>4, <2>5, <2>6, ConnectControl
<1>4. ASSUME NEW bytes \in Strays, StartOther(c, bytes) PROVE ControlInv'
  <2>1. Connect(c, bytes, "write") /\ asked' = asked
    BY <1>4 DEF StartOther
  <2>2. pc[c] = "new"
    BY <2>1 DEF Connect
  <2>3. bytes \in Frames /\ bytes \in Sent(c)'
    BY <1>1, <2>1, <2>2 DEF Frames, Sent, ClientInv, AsAsked
  <2>4. asked' \in [Clients -> {{}} \cup {{q} : q \in Requests}]
    BY <1>1, <2>1 DEF TypeInv
  <2> QED BY <2>1, <2>3, <2>4, ConnectControl
<1> QED BY <1>2, <1>3, <1>4

(* Everything that a client does. *)
LEMMA ClientControl ==
  ASSUME ReadsBack, ControlInv, NEW c \in Clients, ClientStep(c) \/ Kill(c)
  PROVE  ControlInv'
<1>1. CASE Kill(c)
  <2>1. /\ Ends(c, "killed") /\ pc[c] \in {"new", "write", "read"}
        /\ UNCHANGED <<asked, up, down, backlog, daemonVars, done>>
    BY <1>1 DEF Kill
  <2> QED BY <2>1, EndsControl
<1>2. CASE ClientStep(c)
  BY <1>2, ClientWriteControl, ClientReadControl, ClientDoneControl, ClientEofControl DEF ClientStep
<1> QED BY <1>1, <1>2

-----------------------------------------------------------------------------
(* vcabled *)

(* The daemon gives up its connection. *)
LEMMA CloseControl ==
  ASSUME ControlInv, Close, daemon \notin Gone, daemon' \in {"accept", "killed"},
         backlog' = backlog \/ backlog' = << >>, UNCHANGED <<clientVars, up, down, done>>
  PROVE  ControlInv'
<1>1. TypeInv /\ Queue
  BY DEF ControlInv
<1>2. stream' = Nobody /\ dgot' = << >> /\ dleft' = << >>
  BY DEF Close
<1>3. backlog' \in Seq(Clients) /\ Waiting' \subseteq Waiting
  <2>1. CASE backlog' = backlog
    BY <1>1, <2>1 DEF TypeInv, Waiting
  <2>2. CASE backlog' = << >>
    <3>1. Waiting' = {}
      BY <2>2 DEF Waiting
    <3> QED BY <2>2, <3>1
  <2> QED BY <2>1, <2>2
<1>4. Queue'
  <2>1. \A j, k \in 1..Len(backlog') : backlog'[j] = backlog'[k] => j = k
    <3>1. CASE backlog' = backlog
      BY <1>1, <3>1 DEF Queue
    <3>2. CASE backlog' = << >>
      <4>1. Len(<< >>) = 0 /\ \A k : k \notin 1..0
        OBVIOUS
      <4> QED BY <3>2, <4>1
    <3> QED BY <3>1, <3>2
  <2>2. Waiting \subseteq Clients
    <3>1. backlog \in Seq(Clients)
      BY <1>1 DEF TypeInv
    <3>2. \A k \in 1..Len(backlog) : backlog[k] \in Clients
      BY <3>1
    <3> QED BY <3>2 DEF Waiting
  <2>3. Nobody \notin Waiting'
    BY <1>3, <2>2, ControlAssumption
  <2> QED BY <1>2, <2>1, <2>3 DEF Queue
<1>5. TypeInv'
  <2>1. << >> \in Seq(Bytes)
    OBVIOUS
  <2> QED BY <1>1, <1>2, <1>3, <2>1 DEF TypeInv, Gone, clientVars
<1>6. \A c \in Clients : stream' # c
  BY <1>2, ControlAssumption
<1> QED BY <1>3, <1>4, <1>5, <1>6, AllUntouched

(* The daemon takes the first connection that waits, or finds it closed. *)
LEMMA AcceptControl ==
  ASSUME ReadsBack, ControlInv, Accept \/ AcceptFail
  PROVE  ControlInv'
<1>1. TypeInv /\ Queue
  BY DEF ControlInv
<1>2. /\ daemon = "accept" /\ backlog # << >> /\ backlog' = Tail(backlog)
      /\ pc' = pc /\ asked' = asked /\ left' = left /\ got' = got /\ up' = up /\ down' = down /\ done' = done
      /\ dgot' = dgot /\ dleft' = dleft /\ shutdown' = shutdown
  BY DEF Accept, AcceptFail, clientVars, daemonVars
<1>3. PICK h : h = Head(backlog)
  OBVIOUS
<1>4. /\ backlog' \in Seq(Clients) /\ h \in Waiting /\ h \in Clients /\ Waiting' = Waiting \ {h}
      /\ \A j, k \in 1..Len(backlog') : backlog'[j] = backlog'[k] => j = k
  BY <1>1, <1>2, <1>3, LeaveQueue
<1>5. stream = Nobody /\ dgot = << >> /\ daemon \notin Gone
  BY <1>1, <1>2 DEF Queue, Gone
<1>6. CASE AcceptFail
  <2>1. daemon' = daemon /\ stream' = stream
    BY <1>6 DEF AcceptFail, daemonVars
  <2>2. TypeInv'
    BY <1>1, <1>2, <1>4, <2>1 DEF TypeInv
  <2>3. Queue'
    BY <1>1, <1>2, <1>4, <2>1 DEF Queue
  <2>4. UNCHANGED <<clientVars, up, down, done>> /\ Waiting' \subseteq Waiting
    BY <1>2, <1>4 DEF clientVars
  <2> QED BY <1>2, <2>1, <2>2, <2>3, <2>4, AllUntouched
<1>7. CASE Accept
  <2>1. daemon' = "read" /\ stream' = h
    BY <1>3, <1>7 DEF Accept
  <2>2. TypeInv'
    BY <1>1, <1>2, <1>4, <2>1 DEF TypeInv
  <2>3. Queue'
    <3>1. h # Nobody
      BY <1>4, ControlAssumption
    <3> QED BY <1>4, <2>1, <3>1 DEF Queue
  <2>4. ASSUME NEW d \in Clients \ {h} PROVE ClientInv(d)'
    <3>1. stream' # d /\ (d \in Waiting' => d \in Waiting /\ stream # d)
      BY <1>4, <1>5, <2>1, ControlAssumption
    <3>2. ClientInv(d)
      BY DEF ControlInv
    <3> QED BY <1>2, <1>5, <3>1, <3>2, Untouched
  <2>5. ClientInv(h)'
    <3>1. ClientInv(h) /\ Connected(h) /\ stream # h
      BY <1>4, <1>5, ControlAssumption DEF ControlInv, Connected
    <3>2. Read(h)' = Read(h) /\ Sent(h)' = Sent(h)
      BY <1>2, <1>5, <2>1, <3>1 DEF Read, Sent
    <3>3. \A F : Upward(h, F) => Upward(h, F)'
      BY <1>2, <3>2 DEF Upward
    <3>4. Sending(h)'
      BY <1>2, <1>5, <3>1, <3>2, <3>3 DEF ClientInv, Sending
    <3>5. AsAsked(h)'
      BY <1>2, <1>4, <3>1 DEF ClientInv, AsAsked, Handled
    <3>6. Downward(h)' /\ Reported(h)'
      BY <1>2, <3>1 DEF ClientInv, Downward, Reported, Lost, Response
    <3>7. Serving(h)'
      BY <2>1 DEF Serving
    <3> QED BY <3>4, <3>5, <3>6, <3>7 DEF ClientInv
  <2> QED BY <2>2, <2>3, <2>4, <2>5 DEF ControlInv
<1> QED BY <1>6, <1>7

(* A byte goes from the socket of the client that is served to the daemon. *)
LEMMA DaemonReadControl ==
  ASSUME ReadsBack, ControlInv, DaemonRead
  PROVE  ControlInv'
<1>1. TypeInv /\ Queue
  BY DEF ControlInv
<1>2. /\ daemon = "read" /\ up[stream] # << >>
      /\ pc' = pc /\ asked' = asked /\ left' = left /\ got' = got /\ down' = down /\ done' = done
      /\ backlog' = backlog /\ daemon' = daemon /\ stream' = stream /\ dleft' = dleft /\ shutdown' = shutdown
  BY DEF DaemonRead, clientVars
<1>3. PICK c : c = stream
  OBVIOUS
<1>4. c \in Clients /\ stream # Nobody /\ c # Nobody
  BY <1>1, <1>2, <1>3 DEF TypeInv, Queue
<1>5. ClientInv(c) /\ Connected(c) /\ Read(c) = dgot
  BY <1>3, <1>4 DEF ControlInv, Connected, Read
<1>6. PICK F \in Sent(c) : Upward(c, F)
  BY <1>5 DEF ClientInv, Sending
<1>7. F \in Seq(Bytes) /\ Len(F) \in Nat \ {0}
  BY <1>1, <1>4, SentFrames
<1>8. PICK n, y, x, z : n = Len(y) /\ y = dgot /\ x = up[c] /\ z = Len(x)
  OBVIOUS
<1>9. n \in Nat /\ y \in Seq(Bytes) /\ x \in Seq(Bytes) /\ z \in Nat
  BY <1>1, <1>4, <1>8, ClientTypes
<1>10. Run(y, F, 0) /\ Run(x, F, n) /\ x # << >>
  BY <1>2, <1>3, <1>5, <1>6, <1>8 DEF Upward
<1>11. PICK e, g, u : e = Head(x) /\ g = Append(y, e) /\ u = Tail(x)
  OBVIOUS
<1>12. /\ e = F[n + 1] /\ e \in Bytes /\ u \in Seq(Bytes) /\ Len(u) = z - 1
       /\ n < Len(F) /\ Run(u, F, n + 1)
  <2>1. /\ Head(x) = F[n + 1] /\ Head(x) \in Bytes /\ Tail(x) \in Seq(Bytes) /\ Len(Tail(x)) = Len(x) - 1
        /\ n < Len(F) /\ Run(Tail(x), F, n + 1)
    BY <1>7, <1>9, <1>10, RunTail
  <2> QED BY <1>8, <1>11, <2>1
<1>13. g \in Seq(Bytes) /\ Len(g) = n + 1 /\ Run(g, F, 0) /\ g # << >>
  <2>1. 0 + Len(y) < Len(F) /\ e = F[0 + Len(y) + 1]
    BY <1>7, <1>8, <1>9, <1>12
  <2>2. /\ Append(y, e) \in Seq(Bytes) /\ Len(Append(y, e)) = Len(y) + 1 /\ Run(Append(y, e), F, 0)
    BY <1>7, <1>9, <1>10, <1>12, <2>1, RunAppend
  <2>3. Len(g) # 0
    BY <1>8, <1>9, <1>11, <2>2
  <2> QED BY <1>8, <1>11, <2>2, <2>3
<1>14. dgot' = g /\ up' = [up EXCEPT ![c] = u]
  BY <1>1, <1>3, <1>4, <1>8, <1>11 DEF DaemonRead, TypeInv
<1>15. TypeInv'
  BY <1>1, <1>2, <1>12, <1>13, <1>14 DEF TypeInv
<1>16. Waiting' = Waiting /\ Queue'
  BY <1>1, <1>2, <1>4 DEF Queue, Waiting
<1>17. ASSUME NEW d \in Clients \ {c} PROVE ClientInv(d)'
  <2>1. up'[d] = up[d] /\ stream' # d
    BY <1>1, <1>2, <1>3, <1>14 DEF TypeInv
  <2>2. d \in Waiting' => d \in Waiting /\ stream # d
    BY <1>3, <1>16
  <2>3. ClientInv(d)
    BY DEF ControlInv
  <2> QED BY <1>2, <2>1, <2>2, <2>3, Untouched
<1>18. ClientInv(c)'
  <2>1. Read(c)' = g /\ up'[c] = u /\ Sent(c)' = Sent(c)
    BY <1>1, <1>2, <1>3, <1>4, <1>14 DEF Read, Sent, TypeInv
  <2>2. Upward(c, F)'
    <3>1. pc[c] = "write" => /\ left[c] # << >> /\ Run(left[c], F, n + z) /\ n + z + Len(left[c]) = Len(F)
      BY <1>5, <1>6, <1>8 DEF Upward
    <3>2. Len(g) + Len(u) = n + z
      BY <1>9, <1>12, <1>13
    <3>3. pc[c] = "write" => /\ left[c] # << >> /\ Run(left[c], F, Len(g) + Len(u))
                             /\ Len(g) + Len(u) + Len(left[c]) = Len(F)
      BY <3>1, <3>2
    <3> QED BY <1>2, <1>12, <1>13, <2>1, <3>3 DEF Upward
  <2>3. pc[c] # "new" /\ pc[c] # "failed"
    BY <1>2, <1>3, <1>5 DEF ClientInv, Sending, Gone
  <2>4. Sending(c)'
    BY <1>2, <1>6, <2>1, <2>2, <2>3 DEF Sending
  <2>5. AsAsked(c)'
    BY <1>2, <1>5, <1>16, <2>3 DEF ClientInv, AsAsked, Handled
  <2>6. Downward(c)' /\ Reported(c)'
    BY <1>2, <1>5 DEF ClientInv, Downward, Reported, Lost, Response
  <2>7. Serving(c)'
    BY <1>2 DEF Serving
  <2> QED BY <2>4, <2>5, <2>6, <2>7 DEF ClientInv
<1> QED BY <1>15, <1>16, <1>17, <1>18 DEF ControlInv

(* A byte of the response goes from the daemon into the socket. *)
LEMMA DaemonWriteControl ==
  ASSUME ReadsBack, ControlInv, DaemonWrite
  PROVE  ControlInv'
<1>1. TypeInv /\ Queue
  BY DEF ControlInv
<1>2. /\ daemon = "write" /\ dleft # << >> /\ ClientOpen(stream)
      /\ pc' = pc /\ asked' = asked /\ left' = left /\ got' = got /\ up' = up /\ done' = done
      /\ backlog' = backlog /\ daemon' = daemon /\ stream' = stream /\ dgot' = dgot /\ shutdown' = shutdown
  BY DEF DaemonWrite, clientVars
<1>3. PICK c : c = stream
  OBVIOUS
<1>4. c \in Clients /\ stream # Nobody
  BY <1>1, <1>2, <1>3 DEF TypeInv, Queue
<1>5. ClientInv(c) /\ ~Lost(c)
  BY <1>2, <1>3, <1>4 DEF ControlInv, ClientOpen, Ended, Lost
<1>6. PICK R, n, y, x, z, m : /\ R = Response(c) /\ n = Len(got[c]) /\ y = down[c] /\ m = Len(y)
                              /\ x = dleft /\ z = Len(x)
  OBVIOUS
<1>7. /\ done[c] # << >> /\ ~TooLarge(R) /\ pc[c] \in {"read", "success", "refused", "killed"}
      /\ shutdown = (done[c][1].request.op = "shutdown")
      /\ Run(x, R, n + m) /\ n + m + z = Len(R) /\ x # << >>
      /\ Run(got[c], R, 0) /\ Run(y, R, n)
  BY <1>2, <1>3, <1>5, <1>6 DEF ClientInv, Serving, Downward
<1>8. R \in Seq(Bytes) /\ Len(R) \in Nat \ {0}
  BY <1>4, <1>5, <1>6, <1>7, Answered DEF ClientInv
<1>9. n \in Nat /\ y \in Seq(Bytes) /\ m \in Nat /\ x \in Seq(Bytes) /\ z \in Nat
  BY <1>1, <1>4, <1>6, ClientTypes
<1>10. PICK e, w, l, k : e = Head(x) /\ w = Append(y, e) /\ l = Tail(x) /\ k = n + m
  OBVIOUS
<1>11. e = R[k + 1] /\ e \in Bytes /\ l \in Seq(Bytes) /\ Len(l) = z - 1 /\ k < Len(R) /\ Run(l, R, k + 1)
  <2>1. k \in Nat /\ Run(x, R, k)
    BY <1>7, <1>9, <1>10
  <2>2. /\ Head(x) = R[k + 1] /\ Head(x) \in Bytes /\ Tail(x) \in Seq(Bytes) /\ Len(Tail(x)) = Len(x) - 1
        /\ k < Len(R) /\ Run(Tail(x), R, k + 1)
    BY <1>7, <1>8, <1>9, <2>1, RunTail
  <2> QED BY <1>6, <1>10, <2>2
<1>12. w \in Seq(Bytes) /\ Len(w) = m + 1 /\ Run(w, R, n)
  <2>1. n + Len(y) < Len(R) /\ e = R[n + Len(y) + 1]
    BY <1>6, <1>9, <1>10, <1>11
  <2>2. /\ Append(y, e) \in Seq(Bytes) /\ Len(Append(y, e)) = Len(y) + 1 /\ Run(Append(y, e), R, n)
    BY <1>7, <1>8, <1>9, <1>11, <2>1, RunAppend
  <2> QED BY <1>6, <1>10, <2>2
<1>13. dleft' = l /\ down' = [down EXCEPT ![c] = w]
  BY <1>1, <1>3, <1>4, <1>6, <1>10 DEF DaemonWrite, TypeInv
<1>14. TypeInv'
  BY <1>1, <1>2, <1>11, <1>12, <1>13 DEF TypeInv
<1>15. Waiting' = Waiting /\ Queue'
  BY <1>1, <1>2, SameQueue
<1>16. ASSUME NEW d \in Clients \ {c} PROVE ClientInv(d)'
  <2>1. down'[d] = down[d] /\ stream' # d
    BY <1>1, <1>2, <1>3, <1>13 DEF TypeInv
  <2>2. d \in Waiting' => d \in Waiting /\ stream # d
    BY <1>3, <1>15
  <2>3. ClientInv(d)
    BY DEF ControlInv
  <2> QED BY <1>2, <2>1, <2>2, <2>3, Untouched
<1>17. ClientInv(c)'
  <2>1. down'[c] = w /\ Response(c)' = R /\ Lost(c)' = FALSE
    BY <1>1, <1>2, <1>4, <1>5, <1>6, <1>13 DEF TypeInv, Response, Lost
  <2>2. Sending(c)'
    <3>1. Read(c)' = Read(c) /\ Sent(c)' = Sent(c) /\ (Connected(c)' => Connected(c))
      BY <1>2, <1>15 DEF Read, Sent, Connected
    <3>2. \A F : Upward(c, F) => Upward(c, F)'
      BY <1>2, <3>1 DEF Upward
    <3> QED BY <1>2, <1>5, <3>1, <3>2 DEF ClientInv, Sending
  <2>3. AsAsked(c)'
    BY <1>2, <1>5, <1>15 DEF ClientInv, AsAsked, Handled
  <2>4. Downward(c)'
    BY <1>2, <1>6, <1>7, <1>12, <2>1 DEF Downward
  <2>5. Reported(c)'
    BY <1>2, <1>5 DEF ClientInv, Reported
  <2>6. Serving(c)'
    <3>1. n + Len(w) = k + 1 /\ n + Len(w) + Len(l) = Len(R)
      <4>1. n + m + z = Len(R) /\ k = n + m
        BY <1>7, <1>10
      <4>2. Len(w) = m + 1 /\ Len(l) = z - 1
        BY <1>11, <1>12
      <4> QED BY <1>9, <4>1, <4>2
    <3>2. Run(l, R, n + Len(w))
      BY <1>11, <3>1
    <3> QED BY <1>2, <1>6, <1>7, <1>13, <2>1, <3>1, <3>2 DEF Serving
  <2> QED BY <2>2, <2>3, <2>4, <2>5, <2>6 DEF ClientInv
<1> QED BY <1>14, <1>15, <1>16, <1>17 DEF ControlInv

(* The response is written. *)
LEMMA ServedControl ==
  ASSUME ReadsBack, ControlInv, Served
  PROVE  ControlInv'
<1>1. TypeInv /\ Queue
  BY DEF ControlInv
<1>2. daemon = "write" /\ dleft = << >> /\ UNCHANGED <<clientVars, up, down, backlog, done>>
  BY DEF Served
<1>3. CASE ~shutdown
  BY <1>2, <1>3, CloseControl DEF Served, NextConnection, Gone
<1>4. CASE shutdown
  <2>1. /\ daemon' = "exited" /\ stream' = stream /\ dgot' = dgot /\ dleft' = dleft /\ shutdown' = shutdown
        /\ pc' = pc /\ asked' = asked /\ left' = left /\ got' = got /\ up' = up /\ down' = down /\ done' = done
        /\ backlog' = backlog
    BY <1>2, <1>4 DEF Served, clientVars
  <2>2. TypeInv'
    BY <1>1, <2>1 DEF TypeInv, Gone
  <2>3. Waiting' = Waiting /\ Queue'
    BY <1>1, <1>2, <2>1 DEF Queue, Waiting
  <2>4. ASSUME NEW c \in Clients, stream # c PROVE ClientInv(c)'
    <3>1. stream' # c /\ (c \in Waiting' => c \in Waiting /\ stream # c) /\ daemon' \in Gone /\ ClientInv(c)
      BY <2>1, <2>3, <2>4 DEF ControlInv, Gone
    <3> QED BY <2>1, <3>1, Untouched
  <2>5. ASSUME NEW c \in Clients, stream = c PROVE ClientInv(c)'
    <3>1. ClientInv(c)
      BY DEF ControlInv
    <3>2. Sending(c)'
      <4>1. Read(c)' = Read(c) /\ Sent(c)' = Sent(c) /\ (Connected(c)' => Connected(c))
        BY <2>1, <2>3 DEF Read, Sent, Connected
      <4>2. \A F : Upward(c, F) => Upward(c, F)'
        BY <2>1, <4>1 DEF Upward
      <4> QED BY <2>1, <3>1, <4>1, <4>2 DEF ClientInv, Sending, Gone
    <3>3. AsAsked(c)'
      BY <2>1, <2>3, <3>1 DEF ClientInv, AsAsked, Handled
    <3>4. Downward(c)' /\ Reported(c)'
      BY <2>1, <3>1 DEF ClientInv, Downward, Reported, Lost, Response
    <3>5. Serving(c)'
      BY <1>2, <1>4, <2>1, <2>5, <3>1 DEF ClientInv, Serving, Lost, Response
    <3> QED BY <3>2, <3>3, <3>4, <3>5 DEF ClientInv
  <2> QED BY <2>2, <2>3, <2>4, <2>5 DEF ControlInv
<1> QED BY <1>3, <1>4

(* What handle answers. *)
LEMMA ResponsesAreAnswers ==
  ASSUME NEW r
  PROVE  Responses(r) \subseteq Answers
<1>1. PICK M, T : /\ M = (CASE ~CanSucceed(r) -> {} [] r.op = "status" -> Texts [] OTHER -> {<<"a">>})
                  /\ T = (IF r.op \in {"ping", "status", "shutdown"} THEN {} ELSE Texts)
  OBVIOUS
<1>2. M \subseteq Texts \cup {<<"a">>} /\ T \subseteq Texts
  BY <1>1
<1>3. Responses(r) = [op : {"ok"}, message : M] \cup [op : {"error"}, code : {<<"a">>}, message : T]
  BY <1>1 DEF Responses
<1>4. [op : {"ok"}, message : M] \subseteq [op : {"ok"}, message : Texts \cup {<<"a">>}]
  BY <1>2
<1>5. [op : {"error"}, code : {<<"a">>}, message : T] \subseteq [op : {"error"}, code : {<<"a">>}, message : Texts]
  BY <1>2
<1> QED BY <1>3, <1>4, <1>5 DEF Answers

(* A complete request is handled: it is the one that its client was asked, and its first. *)
LEMMA HandleControl ==
  ASSUME ReadsBack, ControlInv, Handle
  PROVE  ControlInv'
<1>1. TypeInv /\ Queue
  BY DEF ControlInv
<1>2. /\ daemon = "read" /\ Complete(dgot)
      /\ pc' = pc /\ asked' = asked /\ left' = left /\ got' = got /\ up' = up /\ down' = down /\ backlog' = backlog
  BY DEF Handle, clientVars
<1>3. PICK c : c = stream
  OBVIOUS
<1>4. c \in Clients /\ c # Nobody
  BY <1>1, <1>2, <1>3 DEF TypeInv, Queue
<1>5. PICK r \in decode_request(Body(dgot)) : \E response \in Responses(r) :
        /\ done' = [done EXCEPT ![stream] = Append(@, [request |-> r, response |-> response])]
        /\ IF TooLarge(frame(encode(response))) THEN NextConnection
           ELSE /\ daemon' = "write" /\ dleft' = frame(encode(response)) /\ shutdown' = (r.op = "shutdown")
                /\ UNCHANGED <<stream, dgot>>
  BY DEF Handle
<1>6. PICK response \in Responses(r) :
        /\ done' = [done EXCEPT ![stream] = Append(@, [request |-> r, response |-> response])]
        /\ IF TooLarge(frame(encode(response))) THEN NextConnection
           ELSE /\ daemon' = "write" /\ dleft' = frame(encode(response)) /\ shutdown' = (r.op = "shutdown")
                /\ UNCHANGED <<stream, dgot>>
  BY <1>5
<1>7. PICK R, h : R = frame(encode(response)) /\ h = [request |-> r, response |-> response]
  OBVIOUS
<1>8. response \in Answers /\ R \in Frames /\ h.request = r /\ h.response = response
  BY <1>7, ResponsesAreAnswers DEF Frames
<1>9. R \in Seq(Bytes) /\ Len(R) \in Nat \ {0}
  BY <1>8, FramesAreBytes
<1>10. ClientInv(c) /\ Connected(c) /\ Read(c) = dgot /\ done[c] = << >>
  BY <1>2, <1>3, <1>4 DEF ControlInv, ClientInv, AsAsked, Connected, Read
<1>11. got[c] = << >> /\ down[c] = << >>
  BY <1>10 DEF ClientInv, Downward
<1>12. DOMAIN done' = Clients /\ done'[c] = <<h>> /\ \A d \in Clients \ {c} : done'[d] = done[d]
  BY <1>1, <1>3, <1>4, <1>6, <1>7, <1>10 DEF TypeInv
<1>13. PICK F \in Sent(c) : Upward(c, F)
  BY <1>10 DEF ClientInv, Sending
<1>14. F \in Frames /\ F \in Seq(Bytes) /\ Len(F) \in Nat \ {0}
  BY <1>1, <1>4, SentFrames
<1>15. dgot = F
  <2>1. dgot \in Seq(Bytes) /\ Run(dgot, F, 0)
    BY <1>1, <1>10, <1>13 DEF TypeInv, Upward
  <2> QED BY <1>2, <1>14, <2>1, FramesAreBytes, CompleteMessage
<1>16. asked[c] # {} => asked[c] = {r}
  <2> SUFFICES ASSUME asked[c] # {} PROVE asked[c] = {r}
    OBVIOUS
  <2>1. PICK q \in Requests : asked[c] = {q}
    BY <1>1, <1>4 DEF TypeInv
  <2>2. F = frame(encode(q))
    BY <2>1 DEF Sent
  <2>3. IsText(encode(q)) /\ decode_request(encode(q)) \subseteq {q}
    BY DEF ReadsBack
  <2>4. Body(dgot) = encode(q)
    BY <1>15, <2>2, <2>3, FrameOfText DEF Body
  <2> QED BY <1>5, <2>1, <2>3, <2>4
<1>17. pc[c] \in {"read", "success", "refused", "killed"}
  <2>1. pc[c] # "new"
    BY <1>10 DEF ClientInv, Sending
  <2>2. pc[c] # "failed"
    <3>1. Read(c) # << >> /\ daemon \notin Gone
      BY <1>2, <1>10 DEF Complete, Gone
    <3> QED BY <1>10, <3>1 DEF ClientInv, Sending
  <2>3. pc[c] # "write"
    <3> SUFFICES ASSUME pc[c] = "write" PROVE FALSE
      OBVIOUS
    <3>1. PICK x, y : x = left[c] /\ y = Len(up[c])
      OBVIOUS
    <3>2. x # << >> /\ Len(F) + y + Len(x) = Len(F)
      BY <1>10, <1>13, <1>15, <3>1 DEF Upward
    <3>3. x \in Seq(Bytes) /\ y \in Nat /\ Len(x) \in Nat
      BY <1>1, <1>4, <3>1, ClientTypes
    <3>4. Len(x) = 0
      BY <1>14, <3>2, <3>3
    <3> QED BY <3>2, <3>3, <3>4
  <2> QED BY <1>1, <1>4, <2>1, <2>2, <2>3, ClientTypes DEF Ended
<1>18. Response(c)' = R
  BY <1>7, <1>8, <1>12 DEF Response
<1>19. DOMAIN done'[c] = {1} /\ done'[c][1] = h /\ done'[c] # << >>
  BY <1>12
<1>20. \/ stream' = Nobody /\ daemon' = "accept" /\ dgot' = << >> /\ dleft' = << >>
       \/ /\ stream' = c /\ daemon' = "write" /\ dgot' = dgot /\ dleft' = R /\ ~TooLarge(R)
          /\ shutdown' = (r.op = "shutdown")
  BY <1>3, <1>6, <1>7 DEF NextConnection, Close
<1>21. TypeInv'
  <2>1. << >> \in Seq(Bytes)
    OBVIOUS
  <2> QED BY <1>1, <1>2, <1>4, <1>9, <1>12, <1>20, <2>1 DEF TypeInv
<1>22. Waiting' = Waiting /\ Queue'
  <2>1. Waiting \subseteq Clients
    BY <1>1 DEF TypeInv, Waiting
  <2>2. Waiting' = Waiting
    BY <1>2 DEF Waiting
  <2>3. stream' \notin Waiting' /\ (daemon' \in {"accept", "killed"} <=> stream' = Nobody)
    BY <1>1, <1>3, <1>4, <1>20, <2>1, <2>2, ControlAssumption DEF Queue
  <2> QED BY <1>1, <1>2, <1>4, <1>20, <2>2, <2>3 DEF Queue
<1>23. ASSUME NEW d \in Clients \ {c} PROVE ClientInv(d)'
  <2>1. stream' # d
    BY <1>20, ControlAssumption
  <2>2. d \in Waiting' => d \in Waiting /\ stream # d
    BY <1>3, <1>22
  <2>3. ClientInv(d) /\ daemon \notin Gone
    BY <1>2 DEF ControlInv, Gone
  <2> QED BY <1>2, <1>12, <2>1, <2>2, <2>3, Untouched
<1>24. ClientInv(c)'
  <2>1. c \notin Waiting
    BY <1>1, <1>3 DEF Queue
  <2>2. Sending(c)'
    <3> SUFFICES ASSUME Connected(c)' PROVE Sending(c)'
      BY DEF Sending
    <3>1. stream' = c /\ dgot' = dgot
      BY <1>4, <1>20, <1>22, <2>1 DEF Connected
    <3>2. Read(c)' = Read(c) /\ Sent(c)' = Sent(c)
      BY <1>2, <1>3, <3>1 DEF Read, Sent
    <3>3. Upward(c, F)'
      BY <1>2, <1>13, <3>2 DEF Upward
    <3> QED BY <1>2, <1>13, <1>17, <3>2, <3>3 DEF Sending
  <2>3. AsAsked(c)'
    <3>1. Handled(c)'
      <4>1. done'[c][1].request = r
        BY <1>8, <1>19
      <4>2. done'[c] = <<[request |-> done'[c][1].request, response |-> response]>>
        BY <1>7, <1>12, <4>1
      <4> QED BY <1>8, <4>2 DEF Handled
    <3>2. ~(c \in Waiting \/ (stream = c /\ daemon = "read"))'
      BY <1>4, <1>20, <1>22, <2>1
    <3>3. \A k \in DOMAIN done'[c] : asked'[c] # {} => asked'[c] = {done'[c][k].request}
      BY <1>2, <1>8, <1>16, <1>19
    <3> QED BY <1>2, <1>17, <3>1, <3>2, <3>3 DEF AsAsked
  <2>4. Len(<< >>) = 0 /\ Run(<< >>, R, 0)
    BY <1>9, RunEnds
  <2>5. Downward(c)'
    BY <1>2, <1>11, <1>18, <1>19, <2>4 DEF Downward
  <2>6. Serving(c)'
    <3> SUFFICES ASSUME stream' = c, daemon' \in {"write", "exited"} PROVE Serving(c)'
      BY DEF Serving
    <3>1. daemon' = "write" /\ dleft' = R /\ ~TooLarge(R) /\ shutdown' = (r.op = "shutdown")
      BY <1>4, <1>20
    <3>2. Run(R, R, 0)
      BY <1>9, RunEnds
    <3>3. Len(got'[c]) + Len(down'[c]) = 0
      BY <1>2, <1>11, <2>4
    <3>4. Run(R, R, Len(got'[c]) + Len(down'[c])) /\ Len(got'[c]) + Len(down'[c]) + Len(R) = Len(R)
      <4>1. PICK k : k = Len(got'[c]) + Len(down'[c])
        OBVIOUS
      <4>2. k = 0
        BY <3>3, <4>1
      <4>3. Run(R, R, k) /\ k + Len(R) = Len(R)
        BY <1>9, <3>2, <4>2
      <4> QED BY <4>1, <4>3
    <3>5. done'[c][1].request = r
      BY <1>8, <1>19
    <3> QED BY <1>2, <1>17, <1>18, <1>19, <3>1, <3>4, <3>5 DEF Serving
  <2>7. Reported(c)'
    <3>1. pc[c] \notin {"success", "refused"}
      BY <1>10 DEF ClientInv, Reported
    <3> QED BY <1>2, <3>1 DEF Reported
  <2> QED BY <2>2, <2>3, <2>5, <2>6, <2>7 DEF ClientInv
<1> QED BY <1>21, <1>22, <1>23, <1>24 DEF ControlInv

(* Everything that the daemon does. *)
LEMMA DaemonControl ==
  ASSUME ReadsBack, ControlInv, DaemonStep \/ DaemonKilled
  PROVE  ControlInv'
<1>1. CASE BadRequest \/ DaemonWriteFail
  <2>1. /\ daemon \notin Gone /\ NextConnection /\ backlog' = backlog
        /\ UNCHANGED <<clientVars, up, down, done>>
    BY <1>1 DEF BadRequest, DaemonWriteFail, Gone
  <2> QED BY <2>1, CloseControl DEF NextConnection
<1>2. CASE DaemonKilled
  <2>1. /\ daemon \notin Gone /\ Close /\ daemon' = "killed" /\ backlog' = << >>
        /\ UNCHANGED <<clientVars, up, down, done>>
    BY <1>2 DEF DaemonKilled
  <2> QED BY <2>1, CloseControl
<1> QED BY <1>1, <1>2, AcceptControl, DaemonReadControl, HandleControl, DaemonWriteControl, ServedControl
        DEF DaemonStep

-----------------------------------------------------------------------------
(* Theorems *)

(* Nothing is connected at first. *)
LEMMA InitControl ==
  ASSUME Init
  PROVE  ControlInv
<1>1. TypeInv
  <2>1. << >> \in Seq(Bytes) /\ << >> \in Seq(Clients)
    OBVIOUS
  <2> QED BY <2>1 DEF Init, TypeInv
<1>2. Waiting = {}
  BY DEF Init, Waiting
<1>3. Queue
  BY <1>2 DEF Init, Queue
<1>4. ASSUME NEW c \in Clients PROVE ClientInv(c)
  <2>1. /\ pc[c] = "new" /\ asked[c] = {} /\ done[c] = << >> /\ got[c] = << >> /\ up[c] = << >> /\ down[c] = << >>
        /\ stream # c /\ daemon = "accept"
    BY ControlAssumption DEF Init
  <2>2. ~Connected(c)
    BY <1>2, <2>1 DEF Connected
  <2> QED BY <2>1, <2>2 DEF ClientInv, Sending, AsAsked, Handled, Downward, Serving, Reported
<1> QED BY <1>1, <1>3, <1>4 DEF ControlInv

(* Every step keeps the invariant. *)
LEMMA NextControl ==
  ASSUME ReadsBack, ControlInv, [Next]_vars
  PROVE  ControlInv'
<1>1. CASE UNCHANGED vars
  <2>1. /\ UNCHANGED <<clientVars, up, down, done>> /\ UNCHANGED <<backlog, stream, daemon, dgot, dleft, shutdown>>
    BY <1>1 DEF vars, daemonVars
  <2>2. TypeInv'
    BY <2>1 DEF ControlInv, TypeInv, clientVars
  <2>3. Queue' /\ Waiting' = Waiting
    BY <2>1, SameQueue DEF ControlInv
  <2> QED BY <2>1, <2>2, <2>3, AllUntouched
<1>2. CASE Next
  <2>1. \/ \E c \in Clients :
             \/ \E args \in Arguments[c] : StartFail(c, args) \/ Start(c, args)
             \/ \E bytes \in Strays : StartOther(c, bytes)
             \/ ClientStep(c) \/ Kill(c)
        \/ DaemonStep \/ DaemonKilled
    BY <1>2 DEF Next
  <2>2. CASE DaemonStep \/ DaemonKilled
    BY <2>2, DaemonControl
  <2>3. CASE ~(DaemonStep \/ DaemonKilled)
    <3>1. PICK c \in Clients :
             \/ \E args \in Arguments[c] : StartFail(c, args) \/ Start(c, args)
             \/ \E bytes \in Strays : StartOther(c, bytes)
             \/ ClientStep(c) \/ Kill(c)
      BY <2>1, <2>3
    <3> QED BY <3>1, StartControl, ClientControl
  <2> QED BY <2>2, <2>3
<1> QED BY <1>1, <1>2

(* The connections between the processes: the bytes of a request and of its response on   *)
(* their way, in the sockets and in both processes, at every step of run,                  *)
(* serve_connection, send_request, write_message and read_message.                         *)
THEOREM ControlInvariance ==
  ASSUME ReadsBack
  PROVE  Spec => []ControlInv
<1>1. Init => ControlInv
  BY InitControl
<1>2. ControlInv /\ [Next]_vars => ControlInv'
  BY NextControl
<1> QED BY <1>1, <1>2, PTL DEF Spec

(* Whatever clients are killed in the middle of, vcabled handles nothing but whole requests, *)
(* as their clients sent them, and each of them at most once.                                *)
THEOREM RequestsHandledAsSent ==
  ASSUME ReadsBack
  PROVE  Spec => []HandledAsSent
<1>1. ControlInv => HandledAsSent
  <2> SUFFICES ASSUME ControlInv, NEW c \in Clients
               PROVE  /\ Len(done[c]) <= 1
                      /\ \A k \in DOMAIN done[c] : asked[c] # {} => asked[c] = {done[c][k].request}
    BY DEF HandledAsSent
  <2>1. AsAsked(c)
    BY DEF ControlInv, ClientInv
  <2>2. Len(done[c]) <= 1
    <3>1. CASE done[c] = << >>
      <4>1. Len(done[c]) = 0
        BY <3>1
      <4> QED BY <4>1
    <3>2. CASE done[c] # << >>
      <4>1. Len(done[c]) = 1
        BY <2>1, <3>2, Answered
      <4> QED BY <4>1
    <3> QED BY <3>1, <3>2
  <2> QED BY <2>1, <2>2 DEF AsAsked
<1> QED BY <1>1, ControlInvariance, PTL

(* vcablectl reports what the daemon answered to its own request, or a failure. *)
THEOREM ClientsToldTheTruth ==
  ASSUME ReadsBack
  PROVE  Spec => []Told
<1>1. ControlInv => Told
  <2> SUFFICES ASSUME ControlInv, NEW c \in Clients, pc[c] \in {"success", "refused"}
               PROVE  /\ Len(done[c]) = 1
                      /\ decode_response(Body(got[c])) = {done[c][1].response}
                      /\ pc[c] = "success" <=> done[c][1].response.op = "ok"
    BY DEF Told
  <2>1. AsAsked(c) /\ Reported(c)
    BY DEF ControlInv, ClientInv
  <2>2. done[c] # << >>
    BY <2>1 DEF Reported
  <2>3. Len(done[c]) = 1
    BY <2>1, <2>2, Answered
  <2> QED BY <2>1, <2>3 DEF Reported
<1> QED BY <1>1, ControlInvariance, PTL

(* vcabled leaves its loop only when a shutdown has been answered to the last byte. *)
THEOREM ExitIsAnswered ==
  ASSUME ReadsBack
  PROVE  Spec => []ExitAnswered
<1>1. ControlInv => ExitAnswered
  <2> SUFFICES ASSUME ControlInv, daemon = "exited"
               PROVE  /\ dleft = << >>
                      /\ \E k \in DOMAIN done[stream] : done[stream][k].request.op = "shutdown"
                      /\ pc[stream] = "killed" \/ Complete(got[stream] \o down[stream])
    BY DEF ExitAnswered
  <2>1. PICK c : c = stream
    OBVIOUS
  <2>2. c \in Clients
    BY <2>1 DEF ControlInv, TypeInv, Queue
  <2>3. TypeInv /\ AsAsked(c) /\ Downward(c) /\ Serving(c)
    BY <2>2 DEF ControlInv, ClientInv
  <2>4. /\ done[c] # << >> /\ ~TooLarge(Response(c)) /\ dleft = << >> /\ done[c][1].request.op = "shutdown"
        /\ pc[c] \in {"read", "success", "refused", "killed"}
    BY <2>1, <2>3 DEF Serving
  <2>5. DOMAIN done[c] = {1} /\ Response(c) \in Seq(Bytes) /\ Len(Response(c)) \in Nat
    BY <2>2, <2>3, <2>4, Answered
  <2>6. ASSUME pc[c] # "killed" PROVE Complete(got[c] \o down[c])
    <3>1. PICK R, x, y : R = Response(c) /\ x = got[c] /\ y = down[c]
      OBVIOUS
    <3>2. /\ Run(x, R, 0) /\ Run(y, R, Len(x)) /\ Len(x) + Len(y) + Len(dleft) = Len(R)
      BY <2>1, <2>3, <2>4, <2>6, <3>1 DEF Downward, Serving, Lost
    <3>3. x \in Seq(Bytes) /\ y \in Seq(Bytes) /\ R \in Seq(Bytes) /\ Len(x) \in Nat /\ Len(y) \in Nat /\ Len(R) \in Nat
      BY <2>2, <2>3, <2>5, <3>1, ClientTypes
    <3>4. Len(x) + Len(y) = Len(R)
      <4>1. Len(dleft) = 0
        BY <2>4
      <4>2. Len(x) + Len(y) + 0 = Len(R)
        BY <3>2, <4>1
      <4> QED BY <3>3, <4>2
    <3>5. x \o y = R
      <4>1. x \o y \in Seq(Bytes) /\ Len(x \o y) = Len(R)
        BY <3>3, <3>4
      <4>2. ASSUME NEW k \in 1..Len(R) PROVE (x \o y)[k] = R[k]
        <5>1. CASE k \in 1..Len(x)
          <6>1. x[k] = R[0 + k]
            BY <3>2, <5>1 DEF Run
          <6> QED BY <3>3, <5>1, <6>1
        <5>2. CASE k \notin 1..Len(x)
          <6>1. PICK j : j = k - Len(x)
            OBVIOUS
          <6>2. j \in 1..Len(y) /\ k = Len(x) + j
            BY <3>3, <3>4, <5>2, <6>1
          <6>3. y[j] = R[Len(x) + j]
            BY <3>2, <6>2 DEF Run
          <6>4. (x \o y)[k] = y[j]
            BY <3>3, <6>1, <6>2
          <6> QED BY <6>2, <6>3, <6>4
        <5> QED BY <5>1, <5>2
      <4>3. PICK s : s = x \o y
        OBVIOUS
      <4>4. s \in Seq(Bytes) /\ Len(s) = Len(R) /\ \A k \in 1..Len(R) : s[k] = R[k]
        BY <4>1, <4>2, <4>3
      <4>5. Run(s, R, 0)
        <5>1. 0 + Len(s) <= Len(R) /\ \A k \in 1..Len(s) : s[k] = R[0 + k]
          BY <3>3, <4>4
        <5> QED BY <5>1 DEF Run
      <4> QED BY <3>3, <4>3, <4>4, <4>5, RunEnds
    <3> QED BY <2>2, <2>3, <2>4, <3>1, <3>5, ResponseComplete
  <2> QED BY <2>1, <2>4, <2>5, <2>6
<1> QED BY <1>1, ControlInvariance, PTL
=============================================================================
