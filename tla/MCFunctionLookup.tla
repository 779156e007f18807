-------------------------- MODULE MCFunctionLookup --------------------------
(* A catalogue of four functions under two prefixes, one of them registered *)
(* by two units, and a program in which two places register the same uri.   *)
EXTENDS FunctionLookup

Spec1 == [texts |-> {"add"}, params |-> {<<"I", "floats">>, <<"O", "floats">>}]
Spec2 == [texts |-> {"blur"}, params |-> {<<"M", "bitmap">>, <<"I", "floats">>}]
Spec3 == [texts |-> {"add", "blur"}, params |-> {<<"O", "bitmap">>}]

Registration(unit, uri, srcLoc, spec) ==
  [unit |-> unit, uri |-> uri, srcLoc |-> srcLoc, spec |-> spec]

Catalogue ==
  {Registration(1, <<2, 1>>, "math", Spec1), Registration(2, <<2, 1>>, "math", Spec1),
   Registration(1, <<2>>, "math", Spec3), Registration(3, <<1, 2>>, "image", Spec2),
   Registration(3, <<2, 2, 1>>, "image", Spec3)}

Clash == {Registration(4, <<1, 2>>, "other", Spec1)}

LinkedPrograms == {Catalogue, Catalogue \cup Clash, {}}

\* A client may leave a value out, or give one without its filter.
ListRequests ==
  [filters : SUBSET {"URI_LIST", "PREFIX", "PAGE"},
   uriList : {NoValue, <<<<2, 2, 1>>, <<1, 2>>, <<3>>, <<2>>, <<2>>>>},
   prefix : {NoValue, <<2>>},
   pageStart : {-1, 0, 1, 7},
   pageSize : {NoValue, -1, 1, 2, 7}]

\* The pages that C++ code asks for.
TestPages == {<<0, 2>>, <<1, 2>>, <<4, 1>>}

LookupQueries ==
  {[NoQuery EXCEPT !.prefix = prefix, !.text = text, !.inputDType = in, !.outputDType = out,
                   !.page = page] :
     prefix \in {NoValue, <<2>>}, text \in {NoValue, "add"},
     in \in {NoValue, "floats", "bitmap"}, out \in {NoValue, "floats", "bitmap"},
     page \in {NoValue} \cup TestPages}
=============================================================================
