------------------------------ MODULE MCIoProc ------------------------------
(* The buffer lists and routes that TLC checks. *)
EXTENDS IoProc

CONSTANTS d1, d2, d3  \* the devices

Buffer(channels, bytes) == [channels |-> channels, bytes |-> bytes, data |-> TRUE]
NoData(channels, bytes) == [channels |-> channels, bytes |-> bytes, data |-> FALSE]

\* Two frames interleaved, planar, mixed; of one channel; none; and lists that are refused.
MCLists ==
  { <<Buffer(2, 16)>>, <<Buffer(1, 8), Buffer(1, 8)>>, <<Buffer(1, 8), Buffer(2, 16)>>, <<Buffer(1, 8)>>,
    << >>, <<Buffer(2, 0)>>,
    <<Buffer(1, 8), NoData(1, 8)>>, <<Buffer(1, 8), Buffer(1, 4)>>, <<Buffer(2, 12)>>, <<Buffer(0, 8)>> }

Matrix(outputs, inputs, coefficients) == CHOOSE m \in new(outputs, inputs, coefficients) : TRUE
Stereo == [matrix |-> Matrix(2, 2, <<1, 2, 3, 4>>), gain |-> 2]
FromMono == [matrix |-> Matrix(3, 1, <<1, -1, 2>>), gain |-> 1]
ToMono == [matrix |-> Matrix(1, 2, <<1, 2>>), gain |-> 1]

MCOutgoing == d1 :> <<2, 1>> @@ d2 :> << >> @@ d3 :> <<1, 3>>
MCIncoming == d1 :> <<ToMono>> @@ d2 :> <<Stereo, FromMono>> @@ d3 :> << >>

\* Every ring has room or frames; the second route has not; the second frame finds none.
MCPatterns == {(1..2) \X (1..2), {1} \X (1..2), (1..2) \X {1}, {}}
=============================================================================
