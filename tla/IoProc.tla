------------------------------- MODULE IoProc -------------------------------
(***************************************************************************)
(* What the callbacks of a Router do with the buffers of their device      *)
(* (platform.rs): audio_device_io_proc, which pushes the samples of an     *)
(* AudioBufferList into the rings of the outgoing routes and adds the      *)
(* frames of the incoming ones to another, and pcm_audio_device_io_proc,   *)
(* its counterpart for the single context of a PCM stream.  ChannelMatrix  *)
(* (vcable-core/src/matrix.rs) is the reference for the mixing.            *)
(*                                                                         *)
(* The buffers are the callback's alone, so all it does to a list is one   *)
(* step here; how two callbacks meet in a ring is module RouteStream.      *)
(* Samples, coefficients and gains are integers, so nothing is rounded and *)
(* all are finite; samples of the input are the places they are read from. *)
(* A ring has room, or a frame, or not.                                    *)
(***************************************************************************)
EXTENDS Router, SequencesExt

CONSTANTS Lists,        \* the buffer lists of Core Audio
          Outgoing,     \* device -> its outgoing routes: how many channels they have
          Incoming,     \* device -> its incoming routes: matrix and gain
          Channels,     \* of a PCM stream
          Patterns,     \* which <<route, frame>> the rings have room, or a frame, for
          MaxFrames     \* bound of the frames of a buffer

Nothing == [op |-> "none"]

VARIABLES stage,  \* device -> what its callback does next: in, out, end
          io      \* history: what the last step did to a buffer list, or Nothing

ioVars == <<vars, stage, io>>

\* A buffer has number_channels, data_byte_size and, unless its data is null, memory.
SizeOfF32 == 4
Samples(buffer) == buffer.bytes \div SizeOfF32
Cells(list) == UNION {{b} \X (0..(Samples(list[b]) - 1)) : b \in {b \in DOMAIN list : list[b].data}}

ChannelsBefore(list, b) == FoldLeft(LAMBDA sum, buffer : sum + buffer.channels, 0, SubSeq(list, 1, b - 1))

-----------------------------------------------------------------------------
(* Buffer lists *)

\* Fault: buffers without data are not looked for.
audio_buffer_list_framesUnchecked(list) ==
  IF list = << >> THEN {0}
  ELSE IF \E b \in DOMAIN list : list[b].channels = 0 \/ list[b].bytes % (list[b].channels * SizeOfF32) # 0
  THEN {}
  ELSE {n \in 0..MaxFrames : \A b \in DOMAIN list : n * list[b].channels = Samples(list[b])}

\* The number of frames, if all buffers have the same; none without buffers.
audio_buffer_list_frames(list) ==
  IF list = << >> THEN {0}
  ELSE IF \E b \in DOMAIN list :
            \/ list[b].channels = 0 \/ ~list[b].data
            \/ list[b].bytes % (list[b].channels * SizeOfF32) # 0
  THEN {}
  ELSE {n \in 0..MaxFrames : \A b \in DOMAIN list : n * list[b].channels = Samples(list[b])}

audio_buffer_list_channels(list) == ChannelsBefore(list, Len(list) + 1)

\* The place of a sample, if there is one: in the first buffer that reaches to its channel.
\* read_audio_sample and add_audio_sample look for it alike.
SampleAt(list, frame, channel) ==
  LET reaching == {b \in DOMAIN list : channel < ChannelsBefore(list, b) + list[b].channels}
      first == CHOOSE b \in reaching : \A a \in reaching : b <= a
      n == frame * list[first].channels + channel - ChannelsBefore(list, first)
  IN  IF reaching = {} \/ n >= Samples(list[first]) THEN {} ELSE {<<first, n>>}


clear_audio_buffer_list(list) == [cell \in Cells(list) |-> 0]

\* Loops over the indices of samples end at the first that is not there.
Index(route, frame, channel) == [route |-> route, frame |-> frame, channel |-> channel]
Place(list, i) == SampleAt(list, i.frame, i.channel)
Reached(list, indices) ==
  LET missing == SelectInSeq(indices, LAMBDA i : Place(list, i) = {})
  IN  IF missing = 0 THEN indices ELSE SubSeq(indices, 1, missing - 1)

\* What read_audio_sample reads: the route and the place of each sample.
Reads(list, indices) ==
  [n \in DOMAIN indices |-> <<indices[n].route, CHOOSE p \in Place(list, indices[n]) : TRUE>>]

\* What add_audio_sample makes of the memory, which gets a cell for a place it did not have.
Adds(list, memory, indices, values) ==
  FoldLeft(LAMBDA m, n : [p \in Place(list, indices[n]) |-> values[n] + IF p \in DOMAIN m THEN m[p] ELSE 0] @@ m,
           memory, [n \in DOMAIN indices |-> n])

-----------------------------------------------------------------------------
(* ChannelMatrix *)

Dot(row, frame) == FoldLeft(+, 0, [c \in DOMAIN row |-> row[c] * frame[c]])

new(outputs, inputs, coefficients) ==
  {[output_channels |-> outputs, input_channels |-> inputs, coefficients |-> c] :
     c \in {c \in {coefficients} : outputs # 0 /\ inputs # 0 /\ Len(c) = outputs * inputs}}

identity(n) == new(n, n, [k \in 1..(n * n) |-> IF (k - 1) \div n = (k - 1) % n THEN 1 ELSE 0])

Row(matrix, channel) ==
  SubSeq(matrix.coefficients, channel * matrix.input_channels + 1, (channel + 1) * matrix.input_channels)

\* The mix of interleaved frames, added to what there is.
mix_interleaved(matrix, frames, input, output, gain) ==
  LET inputs == matrix.input_channels
      outputs == matrix.output_channels
      frame(n) == SubSeq(input, n * inputs + 1, (n + 1) * inputs)
  IN  IF Len(input) # frames * inputs \/ Len(output) # frames * outputs THEN {}
      ELSE {[i \in DOMAIN output |->
               output[i] + Dot(Row(matrix, (i - 1) % outputs), frame((i - 1) \div outputs)) * gain]}

-----------------------------------------------------------------------------
(* Callbacks *)

\* The interpolated frame of a route; every sample has a value of its own.
interpolated(k, frame, channels) == [c \in 1..channels |-> 1 + c + 3 * frame + 7 * k]

mixed_sample(route, k, frame, channel) ==
  Dot(Row(route.matrix, channel), interpolated(k, frame, route.matrix.input_channels)) * route.gain

IoStep(d, next, what) ==
  /\ stage' = [stage EXCEPT ![d] = next]
  /\ io' = what
  /\ UNCHANGED vars

\* audio_device_io_proc, its input: frame by frame, to each route that has room for it.
PushFrames(d, list, room) ==
  /\ callback[d] /\ stage[d] = "in" /\ Outgoing[d] # << >>
  /\ \E frames \in audio_buffer_list_frames(list) :
       LET indices == FlattenSeq([f \in 1..frames |-> FlattenSeq([k \in DOMAIN Outgoing[d] |->
             [c \in 1..(IF <<k, f>> \in room THEN Outgoing[d][k] ELSE 0) |-> Index(k, f - 1, c - 1)]])])
           reached == Reached(list, indices)
       IN  IoStep(d, IF reached = indices THEN "out" ELSE "end",
                  [op |-> "push", device |-> d, list |-> list, frames |-> frames, ring |-> room,
                   reads |-> Reads(list, reached), whole |-> reached = indices])

\* A format error ends the callback, and the output stays as it was.
InputError(d, list) ==
  /\ callback[d] /\ stage[d] = "in" /\ Outgoing[d] # << >>
  /\ audio_buffer_list_frames(list) = {}
  /\ IoStep(d, "end", Nothing)

\* No list, or nobody to take it.
NoInput(d) ==
  /\ callback[d] /\ stage[d] = "in"
  /\ IoStep(d, "out", Nothing)

\* Its output: cleared, then route by route, each frame that there is.
MixFrames(d, list, ready) ==
  /\ callback[d] /\ stage[d] = "out" /\ Incoming[d] # << >>
  /\ \E frames \in audio_buffer_list_frames(list) :
       LET indices == FlattenSeq([k \in DOMAIN Incoming[d] |-> FlattenSeq([f \in 1..frames |->
             [c \in 1..(IF <<k, f>> \in ready THEN Incoming[d][k].matrix.output_channels ELSE 0) |->
                Index(k, f - 1, c - 1)]])])
           reached == Reached(list, indices)
       IN  IoStep(d, "end",
                  [op |-> "mix", device |-> d, list |-> list, frames |-> frames, ring |-> ready,
                   memory |-> Adds(list, clear_audio_buffer_list(list), reached,
                                   [n \in DOMAIN reached |-> LET i == reached[n]
                                      IN mixed_sample(Incoming[d][i.route], i.route, i.frame, i.channel)]),
                   whole |-> reached = indices])

\* A format error, no list, or nothing to write to it: the output stays as it was.
NoOutput(d) ==
  /\ callback[d] /\ stage[d] = "out"
  /\ IoStep(d, "end", Nothing)

\* pcm_audio_device_io_proc: a PCM stream has one route, and checks the channels too.
PcmFrames(list) ==
  IF audio_buffer_list_channels(list) = Channels THEN audio_buffer_list_frames(list) ELSE {}
PcmIndices(frames, ring) ==
  FlattenSeq([f \in 1..frames |-> [c \in 1..(IF <<1, f>> \in ring THEN Channels ELSE 0) |-> Index(1, f - 1, c - 1)]])

\* A frame is committed when all of it is in the scratch frame.
CaptureFrames(d, list, room) ==
  /\ callback[d] /\ stage[d] = "in" /\ Len(contexts) = 1
  /\ \E frames \in PcmFrames(list) :
       LET reached == Reached(list, PcmIndices(frames, room))
       IN  IoStep(d, "end",
                  [op |-> "capture", device |-> d, list |-> list, frames |-> frames, ring |-> room,
                   reads |-> Reads(list, SubSeq(reached, 1, (Len(reached) \div Channels) * Channels)),
                   whole |-> reached = PcmIndices(frames, room)])

\* The list is cleared before anything of it is checked.
PlayFrames(d, list, ready) ==
  /\ callback[d] /\ stage[d] = "in" /\ Len(contexts) = 1
  /\ \E frames \in IF PcmFrames(list) = {} THEN {0} ELSE PcmFrames(list) :
       LET reached == Reached(list, PcmIndices(frames, ready))
       IN  IoStep(d, "end",
                  [op |-> "play", device |-> d, list |-> list, frames |-> frames, ring |-> ready,
                   memory |-> Adds(list, clear_audio_buffer_list(list), reached,
                                   [n \in DOMAIN reached |->
                                      interpolated(1, reached[n].frame, Channels)[reached[n].channel + 1]]),
                   whole |-> reached = PcmIndices(frames, ready)])

\* No list, or one that a capture stream does not take.
PcmError(d) ==
  /\ callback[d] /\ stage[d] = "in" /\ Len(contexts) = 1
  /\ IoStep(d, "end", Nothing)

-----------------------------------------------------------------------------
IoInit == Init /\ stage = [d \in Devices |-> "in"] /\ io = Nothing

\* The callback returns; the next one begins at its beginning.
Return(d) ==
  /\ CallbackEnd(d)
  /\ stage[d] = "end" /\ stage' = [stage EXCEPT ![d] = "in"]
  /\ io' = Nothing

IoNext ==
  \/ Step /\ io' = Nothing /\ UNCHANGED stage
  \/ \E d \in Devices :
       \/ \E list \in Lists :
            \/ InputError(d, list)
            \/ \E ring \in Patterns :
                 PushFrames(d, list, ring) \/ MixFrames(d, list, ring)
                   \/ CaptureFrames(d, list, ring) \/ PlayFrames(d, list, ring)
       \/ NoInput(d) \/ NoOutput(d) \/ PcmError(d) \/ Return(d)

IoSpec == IoInit /\ [][IoNext]_ioVars

-----------------------------------------------------------------------------
(* Properties *)

\* Every sample that a callback reads or adds to lies in the memory of one of the list's buffers
\* (the "Safety" comments on the unsafe blocks), whatever list Core Audio passes: without data,
\* of unequal lengths, with more or fewer channels than the routes.
NoStrayAccess ==
  io # Nothing =>
    IF io.op \in {"push", "capture"}
    THEN \A n \in DOMAIN io.reads : io.reads[n][2] \in Cells(io.list)
    ELSE DOMAIN io.memory = Cells(io.list)

\* The places of a frame, channel after channel, however they are spread over buffers.
Frame(list, f) ==
  FlattenSeq([b \in DOMAIN list |-> [c \in 1..list[b].channels |-> <<b, (f - 1) * list[b].channels + c - 1>>]])

\* What a route of n channels gets of the input: its frames, whole and in order.
Received(k, n) ==
  FlattenSeq([f \in 1..io.frames |-> IF <<k, f>> \in io.ring THEN SubSeq(Frame(io.list, f), 1, n) ELSE << >>])

\* What ChannelMatrix::mix_interleaved makes of the routes' frames, one route after the other.
Mix(routes) ==
  LET silence(n) == [c \in 1..n |-> 0]
      input(k) == LET n == routes[k].matrix.input_channels
                  IN  FlattenSeq([f \in 1..io.frames |->
                        IF <<k, f>> \in io.ring THEN interpolated(k, f - 1, n) ELSE silence(n)])
  IN  FoldLeft(LAMBDA outs, k :
                 UNION {mix_interleaved(routes[k].matrix, io.frames, input(k), out, routes[k].gain) : out \in outs},
               {silence(io.frames * audio_buffer_list_channels(io.list))}, [k \in DOMAIN routes |-> k])

=============================================================================
