-------------------------- MODULE MCLlvmFunctions --------------------------
(***************************************************************************)
(* Two functions whose symbols and uris come as close to each other as     *)
(* text can, and a caller.                                                 *)
(***************************************************************************)
EXTENDS LlvmFunctions

CONSTANTS caller, foo, bar, T

u == <<"u">>
w == <<"w">>
a == <<"a">>
\* Pairs of a symbol and a uri: plain ones of different modules, of one module and
\* of one symbol, one twice, and two pairs that have one name
Names ==
  { << <<a, u>>, << <<"b">>, w >> >>, << <<a, u>>, << <<"a", "@">>, u >> >>,
    << <<a, u>>, <<a, <<>> >> >>, << <<a, w>>, <<a, w>> >>,
    << << <<"a", "@", "@", "@", "f">>, u >>, <<a, <<"f", "@", "@", "@", "u">> >> >>,
    << << <<"a", "@">>, u >>, <<a, <<"@", "u">> >> >> }
Signatures == { [params |-> <<>>, returns |-> ExpressionAny],
                [params |-> <<ExpressionAny, ExpressionAny>>, returns |-> ExpressionAny],
                [params |-> <<T>>, returns |-> ExpressionAny],
                [params |-> <<ExpressionAny>>, returns |-> T] }

Function(symbol, uri, s) ==
  [symbol |-> symbol, uri |-> uri, params |-> s.params, returns |-> s.returns]

Program3(names, tf, tb) ==
  caller :> Function(<<"c">>, u, [params |-> <<T>>, returns |-> ExpressionAny])
    @@ foo :> Function(names[1][1], names[1][2], tf)
    @@ bar :> Function(names[2][1], names[2][2], tb)

\* All names with two different signatures, and all signatures with plain names
MCPrograms ==
  { Program3(names, [params |-> <<>>, returns |-> ExpressionAny],
             [params |-> <<ExpressionAny>>, returns |-> T]) : names \in Names }
  \cup { Program3(<< <<a, u>>, << <<"b">>, w >> >>, tf, tb) : tf, tb \in Signatures }
=============================================================================
