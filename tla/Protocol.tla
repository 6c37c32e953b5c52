------------------------------ MODULE Protocol ------------------------------
(***************************************************************************)
(* The texts of the control protocol (crates/vcable-protocol/src/lib.rs)   *)
(* and of the daemon's state file, which has a Connect request per line.   *)
(*                                                                         *)
(* A text is a sequence of bytes, a byte is a symbol; the letters of a     *)
(* keyword are one symbol, and so are the four bytes of a frame's length.  *)
(* A Result is the set of its Ok value: the empty set is an error, and a   *)
(* set constructor over several of them is the use of `?`.                 *)
(***************************************************************************)
EXTENDS Integers, Sequences, SequencesExt

CONSTANT MAX_MESSAGE_BYTES

ASSUME ProtocolAssumption == MAX_MESSAGE_BYTES \in Nat

Numbers == -9..9  \* bound: the integers of messages have one digit

Upper == <<"0", "1", "2", "3", "4", "5", "6", "7", "8", "9", "A", "B", "C", "D", "E", "F">>
Lower == <<"0", "1", "2", "3", "4", "5", "6", "7", "8", "9", "a", "b", "c", "d", "e", "f">>

\* The bytes that escape does not keep; C3 and A9 are those of an accented e.
Codes == "%" :> 37 @@ "TAB" :> 9 @@ "LF" :> 10 @@ "," :> 44 @@ "+" :> 43 @@ "xC3" :> 195 @@ "xA9" :> 169

\* str::from_utf8, for characters of one and of two bytes.
Utf8(text) ==
  \A k \in DOMAIN text :
    /\ text[k] = "xC3" => k < Len(text) /\ text[k + 1] = "xA9"
    /\ text[k] = "xA9" => k > 1 /\ text[k - 1] = "xC3"

Split(text, separator) ==
  LET cuts == {0, Len(text) + 1} \cup {k \in DOMAIN text : text[k] = separator}
      cut(n) == CHOOSE k \in cuts : Cardinality({j \in cuts : j < k}) = n
  IN  [n \in 1..(Cardinality(cuts) - 1) |-> SubSeq(text, cut(n - 1) + 1, cut(n) - 1)]

Join(parts, separator) ==
  FlattenSeq([k \in DOMAIN parts |-> IF k = 1 THEN parts[k] ELSE <<separator>> \o parts[k]])

-----------------------------------------------------------------------------
(* Fields *)

Escape(b) == LET code == Codes[b] IN <<"%", Upper[(code \div 16) + 1], Upper[(code % 16) + 1]>>

escape(value) ==
  FlattenSeq([k \in DOMAIN value |-> IF value[k] \in DOMAIN Codes THEN Escape(value[k]) ELSE <<value[k]>>])

\* u8::from_str_radix(digits, 16), which takes both cases and a leading plus sign.
Hex(digit) == {n \in 0..15 : digit \in {Upper[n + 1], Lower[n + 1]}}
FromHex(digits) ==
  LET codes == {16 * high + low : high \in IF digits[1] = "+" THEN {0} ELSE Hex(digits[1]), low \in Hex(digits[2])}
  IN  {b \in DOMAIN Codes : Codes[b] \in codes}
        \cup {Upper[code - 47] : code \in codes \cap 48..57} \cup {Upper[code - 54] : code \in codes \cap 65..70}
        \cup {Lower[code - 86] : code \in codes \cap 97..102}

\* No digit is a percent sign, so escapes that overlap are an error like those cut short.
unescape(text) ==
  LET escapes == {k \in DOMAIN text : text[k] = "%"}
      byte(k) == FromHex(<<text[k + 1], text[k + 2]>>)
      value == FlattenSeq([k \in DOMAIN text |->
                 IF k \in escapes THEN <<CHOOSE b \in byte(k) : TRUE>>
                 ELSE IF {k - 1, k - 2} \cap escapes # {} THEN << >> ELSE <<text[k]>>])
  IN  IF \A k \in escapes : k + 2 <= Len(text) /\ byte(k) # {}
      THEN {v \in {value} : Utf8(v)} ELSE {}

to_string(n) == IF n < 0 THEN <<"-", Lower[1 - n]>> ELSE <<Lower[n + 1]>>
parse(text) == {n \in Numbers : text = to_string(n) \/ (n >= 0 /\ text = <<"+">> \o to_string(n))}
parse_u32(text) == {n \in parse(text) : n >= 0}

-----------------------------------------------------------------------------
(* Messages *)

matrix_text(matrix) == Join([k \in DOMAIN matrix |-> to_string(matrix[k])], ",")

\* A list of results is the result of a list; no text is no coefficients.
MatrixOf(parts) ==
  IF \E k \in DOMAIN parts : parse(parts[k]) = {} THEN {}
  ELSE {[k \in DOMAIN parts |-> CHOOSE n \in parse(parts[k]) : TRUE]}

decode_matrix(text) ==
  IF text = << >> THEN {<< >>} ELSE UNION {MatrixOf(parts) : parts \in {Split(text, ",")}}

encode(m) ==
  Join(CASE m.op \in {"ping", "status", "shutdown"} -> <<<<m.op>>>>
         [] m.op = "create" -> <<<<m.op>>, escape(m.id), escape(m.name), to_string(m.input_channels),
                                 to_string(m.output_channels), to_string(m.sample_rate)>>
         [] m.op \in {"delete", "disconnect"} -> <<<<m.op>>, escape(m.id)>>
         [] m.op = "connect" -> <<<<m.op>>, escape(m.id), escape(m.source), escape(m.sink),
                                  to_string(m.gain), matrix_text(m.matrix)>>
         [] m.op = "ok" -> <<<<m.op>>, escape(m.message)>>
         [] m.op = "error" -> <<<<m.op>>, escape(m.code), escape(m.message)>>, "TAB")

\* The match of Request::decode on the fields.
RequestOf(f) ==
  LET op == IF Len(f[1]) = 1 THEN f[1][1] ELSE "none"
  IN  CASE Len(f) = 1 /\ op \in {"ping", "status", "shutdown"} -> {[op |-> op]}
        [] Len(f) = 6 /\ op = "create" ->
             {[op |-> op, id |-> id, name |-> name, input_channels |-> inputs, output_channels |-> outputs,
               sample_rate |-> rate] :
                id \in unescape(f[2]), name \in unescape(f[3]), inputs \in parse_u32(f[4]),
                outputs \in parse_u32(f[5]), rate \in parse_u32(f[6])}
        [] Len(f) = 2 /\ op \in {"delete", "disconnect"} -> {[op |-> op, id |-> id] : id \in unescape(f[2])}
        [] Len(f) = 6 /\ op = "connect" ->
             {[op |-> op, id |-> id, source |-> source, sink |-> sink, gain |-> gain, matrix |-> matrix] :
                id \in unescape(f[2]), source \in unescape(f[3]), sink \in unescape(f[4]),
                gain \in parse(f[5]), matrix \in decode_matrix(f[6])}
        [] OTHER -> {}

\* The match of Response::decode.
ResponseOf(f) ==
  CASE Len(f) = 2 /\ f[1] = <<"ok">> -> {[op |-> "ok", message |-> m] : m \in unescape(f[2])}
    [] Len(f) = 3 /\ f[1] = <<"error">> ->
         {[op |-> "error", code |-> code, message |-> m] : code \in unescape(f[2]), m \in unescape(f[3])}
    [] OTHER -> {}

decode_request(text) == UNION {RequestOf(fields) : fields \in {Split(text, "TAB")}}
decode_response(text) == UNION {ResponseOf(fields) : fields \in {Split(text, "TAB")}}

-----------------------------------------------------------------------------
(* Frames: what write_message sends, and how far read_message is with what it has got *)

\* A sequence, whatever its elements are.
IsText(text) == Len(text) \in Nat /\ text = [k \in 1..Len(text) |-> text[k]]

frame(text) == <<Len(text)>> \o text
TooLarge(got) == got # << >> /\ Head(got) > MAX_MESSAGE_BYTES

Complete(got) == got # << >> /\ ~TooLarge(got) /\ Len(got) = 1 + Head(got)
Body(got) == Tail(got)

-----------------------------------------------------------------------------
(* The state file: the saved routes, as a set of the Connect requests they come from *)

\* Fault: a route is saved without its matrix.
save_routesNoMatrix(routes) ==
  FlattenSeq(SetToSeq({Append(encode([r EXCEPT !.matrix = << >>]), "LF") : r \in routes}))

save_routes(routes) == FlattenSeq(SetToSeq({Append(encode(r), "LF") : r \in routes}))

\* DaemonState::load: nothing but routes, one for each id.
load(file) ==
  LET lines == SelectSeq(Split(file, "LF"), LAMBDA line : line # << >>)
      requests == [k \in DOMAIN lines |-> decode_request(lines[k])]
      loaded == UNION {requests[k] : k \in DOMAIN lines}
  IN  IF /\ \A k \in DOMAIN lines : \E r \in requests[k] : r.op = "connect"
         /\ \A j, k \in DOMAIN lines : \A r \in requests[j], q \in requests[k] : r.id = q.id => j = k
      THEN {loaded} ELSE {}
=============================================================================
