------------------------------ MODULE MCControl ------------------------------
(* The texts of the connections that TLC checks. *)
EXTENDS Control

CONSTANTS c1, c2  \* the clients

A == <<"a">>
B == <<"b">>
Long == <<"%", "TAB", "%", "TAB", "%">>

\* The commands of one client depend on what the other's have done.
MCArguments ==
  c1 :> { <<"ping">>, <<"status">>, <<"connect", A, A, B, <<"0">>>>,
          <<"create", A, <<"xC3", "xA9">>, <<"1">>, <<"+", "2">>, <<"3">>>>,
          <<"create", A, B, <<"-", "1">>, <<"2">>, <<"3">>>>,
          <<"connect", B, B, A, <<"-", "1">>, <<"1", ",", "2">>>>,
          <<"delete", <<"%", "0", "9">>>>, <<"delete", Long>> }
  @@ c2 :> { <<"shutdown">>, <<"connect", A, A, B, <<"0">>>>, <<"disconnect", A>> }

\* A length that is too large, an escape that is cut short.
MCStrays == {<<MAX_MESSAGE_BYTES + 1>>, frame(<<"delete", "TAB", "%", "2">>)}

MCTexts == {<<"%">>, Long}

\* The texts of these connections can be read back.
ASSUME TextsReadBack == ReadsBack
=============================================================================
