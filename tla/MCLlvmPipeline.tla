--------------------------- MODULE MCLlvmPipeline ---------------------------
(***************************************************************************)
(* Small programs for LlvmPipeline: three functions, two modules.          *)
(***************************************************************************)
EXTENDS LlvmPipelineInv

CONSTANTS foo, bar, baz, A, B, sf, sg, sh

call(x) == [kind |-> "call", fn |-> x]
local(x) == [kind |-> "local", fn |-> x]
runtime == [kind |-> "runtime"]
unsupported == [kind |-> "unsupported"]

OwnSymbols == foo :> sf @@ bar :> sg @@ baz :> sh
Of(x, y, z) == foo :> x @@ bar :> y @@ baz :> z

\* Where foo, bar and baz live, and the orders in which their modules bind them
Layouts ==
  { [home |-> Of(A, A, A), stmts |-> A :> s @@ B :> <<>>]
      : s \in { <<foo, bar, baz>>, <<bar, baz, foo>>, <<baz, bar, foo>>,
                <<foo>> } }
  \cup { [home |-> Of(A, A, B), stmts |-> A :> s @@ B :> <<baz>>]
      : s \in { <<foo, bar>>, <<bar, foo>> } }
  \cup { [home |-> Of(A, B, B), stmts |-> A :> <<foo>> @@ B :> s]
      : s \in { <<bar, baz>>, <<baz, bar>> } }

FBodies == { <<>>, <<call(foo)>>, <<unsupported, call(bar)>>,
             <<call(bar), runtime>>, <<call(bar), call(baz)>>,
             <<call(baz), call(bar)>>, <<runtime, call(baz)>> }
GBodies == { <<>>, <<runtime, call(baz)>>, <<call(baz), call(foo)>> }
HBodies == { <<>>, <<runtime>>, <<call(foo)>>, <<call(bar)>> }

\* The body of baz, or that its signature is rejected
HKinds == { [body |-> d, opaque |-> {}] : d \in HBodies }
            \cup { [body |-> <<>>, opaque |-> {baz}] }

\* Calls within and across modules, forward, recursive and rejected
CallPrograms ==
  { [home |-> l.home, sym |-> OwnSymbols, stmts |-> l.stmts,
     body |-> Of(b, c, k.body), opaque |-> k.opaque]
      : l \in Layouts, b \in FBodies, c \in GBodies, k \in HKinds }

\* foo or bar binds the local function baz, which may share its symbol with bar
LocalPrograms ==
  { [home |-> Of(A, A, A), sym |-> foo :> sf @@ bar :> sg @@ baz :> s,
     stmts |-> A :> t @@ B :> <<>>, body |-> Of(b, c, k.body),
     opaque |-> k.opaque]
      : s \in {sg, sh}, t \in { <<foo, bar>>, <<bar, foo>> },
        b \in { <<local(baz)>>, <<runtime, local(baz), call(bar)>>,
                <<call(bar), local(baz)>> },
        c \in { <<>>, <<runtime>>, <<runtime, call(foo)>> },
        k \in HKinds }

\* foo calls another function of its own name
NamesakePrograms ==
  { [home |-> Of(A, A, A), sym |-> foo :> sf @@ bar :> sf @@ baz :> sh,
     stmts |-> A :> t @@ B :> <<>>, body |-> Of(b, c, <<>>), opaque |-> {}]
      : t \in { <<foo>>, <<foo, bar>>, <<bar, foo>> },
        b \in { <<call(bar)>>, <<call(baz), call(bar)>> },
        c \in { <<>>, <<runtime>> } }

MCPrograms == CallPrograms \cup LocalPrograms \cup NamesakePrograms
=============================================================================
