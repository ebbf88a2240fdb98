------------------------------- MODULE MCLinker -------------------------------
(***************************************************************************)
(* Linker for TLC: an application and three libraries.                     *)
(***************************************************************************)
EXTENDS Linker, TLC

\* Needs in a row, in a diamond and in circles, of one library more than there is room for,
\* and of one that cannot be loaded.
SomeGraphs ==
  {(App :> g[1]) @@ ("A" :> g[2]) @@ ("B" :> g[3]) @@ ("C" :> g[4]) :
     g \in {<< <<"A", "B">>, <<>>, <<>>, <<>> >>,
            << <<"A">>, <<"B">>, <<>>, <<>> >>,
            << <<"A", "B">>, <<>>, <<"A">>, <<>> >>,
            << <<"A", "B">>, <<"C", "B">>, <<"A">>, <<"C">> >>}}

SomeUnusable == {{}, {"C"}, {App}}
BothModes == {"interp", "alone"}

\* f is defined twice, g once, h by the interpreter, u nowhere; e is data.
TheDefines == (App :> {}) @@ ("A" :> {"f"}) @@ ("B" :> {"f", "g", "e"}) @@ ("C" :> {}) @@ (Interp :> {"h"})
TheEager == (App :> <<"e", "g">>) @@ ("A" :> <<>>) @@ ("B" :> <<"e", "u">>) @@ ("C" :> <<>>) @@ (Interp :> <<>>)
TheLazy == (App :> {"f", "h", "u"}) @@ ("A" :> {"g"}) @@ ("B" :> {"f"}) @@ ("C" :> {}) @@ (Interp :> {})
=============================================================================
