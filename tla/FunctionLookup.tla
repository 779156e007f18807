--------------------------- MODULE FunctionLookup ---------------------------
(***************************************************************************)
(* The catalogue of functions: FunctionRegistry, filled by constructors    *)
(* that run before main in an order the linker decides, the query builder  *)
(* FunctionLookup, and getAvailableFuncs of the Graph API, through which a *)
(* client reads the catalogue page by page.                                *)
(*                                                                         *)
(* A uri is a sequence of segments, ordered as its string is.  Of a spec   *)
(* the queries see the texts that its label or its description contains,   *)
(* and its parameters as <<access, dtype>>.                                *)
(***************************************************************************)
EXTENDS Integers, FiniteSets, SequencesExt

CONSTANTS
  Programs,      \* the sets of registrations [unit, uri, srcLoc, spec] a program is linked from
  Requests,      \* requests of getAvailableFuncs a client begins with
  Queries,       \* what C++ code asks of FunctionLookup directly
  HalfRange,     \* half the number of values of int32_t and of the size_t of wasm
  NoValue        \* std::nullopt

VARIABLES
  linked,     \* the registrations of this program
  pending,    \* those not made yet
  registry,   \* registry_: uri -> srcLoc and spec
  phase,      \* "loading", "running" or "aborted"
  query,      \* the last query
  answer,     \* the uris of the last answer
  request,    \* the last request of the client
  shown       \* the answers the client has put together since it began a listing

vars == <<linked, pending, registry, phase, query, answer, request, shown>>

IntRange == -HalfRange .. HalfRange - 1

\* The segments of a uri, in the order of their strings.
Uri == Seq(Int)

\* GetAvailableFuncsRequest: the filters wanted, and values given for some.
IsRequest(r) ==
  /\ r.filters \subseteq {"URI_LIST", "PREFIX", "PAGE"}
  /\ {"uriList", "prefix", "pageStart", "pageSize"} \subseteq DOMAIN r
  /\ r.uriList \in Seq(Uri) \cup {NoValue} /\ r.prefix \in Uri \cup {NoValue}
  /\ {r.pageStart, r.pageSize} \subseteq IntRange \cup {NoValue}

\* FunctionSpec, as far as the queries see it.
IsFunctionSpec(spec) ==
  /\ spec.texts \subseteq STRING
  /\ spec.params \subseteq {"I", "O", "M"} \X STRING

NoQuery ==
  [uriList |-> NoValue, prefix |-> NoValue, text |-> NoValue,
   inputDType |-> NoValue, outputDType |-> NoValue, page |-> NoValue]

\* What FunctionLookup is asked; a page is an offset and a size that do not add
\* up to more than a size_t holds.
IsQuery(q) ==
  /\ DOMAIN q = DOMAIN NoQuery
  /\ q.uriList \in Seq(Uri) \cup {NoValue} /\ q.prefix \in Uri \cup {NoValue}
  /\ q.page # NoValue =>
       q.page[1] \in Nat /\ q.page[2] \in Nat /\ q.page[1] + q.page[2] < 2 * HalfRange

\* One place in the code registers one spec.
IsProgram(program) ==
  /\ IsFiniteSet(program)
  /\ \A r \in program : r.uri \in Uri /\ IsFunctionSpec(r.spec)
  /\ \A r, s \in program : (r.uri = s.uri /\ r.srcLoc = s.srcLoc) => r.spec = s.spec

ASSUME LookupAssumption ==
  /\ HalfRange \in Nat \ {0} /\ NoValue \notin Int \X Int
  /\ \A r \in Requests : IsRequest(r)
  /\ \A q \in Queries : IsQuery(q)
  /\ \A program \in Programs : IsProgram(program)

Init ==
  /\ linked \in Programs /\ pending = linked
  /\ registry = [u \in {} |-> NoValue]
  /\ phase = "loading"
  /\ query = NoQuery /\ answer = << >>
  /\ request = NoValue /\ shown = << >>

----------------------------------------------------------------------------
(***************************************************************************)
(* Loading                                                                 *)
(***************************************************************************)

Entered(r) ==
  [u \in DOMAIN registry \cup {r.uri} |->
     IF u = r.uri THEN [srcLoc |-> r.srcLoc, spec |-> r.spec] ELSE registry[u]]

\* Mutant: the last registration wins.
RegisterFunction_Overwrite(r) ==
  registry' = Entered(r) /\ UNCHANGED phase

\* Made again from the same place a registration is ignored, from another
\* place it is a LOG(FATAL).
RegisterFunction(r) ==
  \/ /\ r.uri \notin DOMAIN registry
     /\ registry' = Entered(r) /\ UNCHANGED phase
  \/ /\ r.uri \in DOMAIN registry
     /\ phase' = IF registry[r.uri].srcLoc = r.srcLoc THEN phase ELSE "aborted"
     /\ UNCHANGED registry

RunConstructor ==
  /\ phase = "loading"
  /\ \E r \in pending : RegisterFunction(r) /\ pending' = pending \ {r}
  /\ UNCHANGED <<linked, query, answer, request, shown>>

EnterMain ==
  /\ phase = "loading" /\ pending = {}
  /\ phase' = "running"
  /\ UNCHANGED <<linked, pending, registry, query, answer, request, shown>>

----------------------------------------------------------------------------
(***************************************************************************)
(* Queries                                                                 *)
(***************************************************************************)

\* The order of strings.
Before(u, v) ==
  \/ IsStrictPrefix(u, v)
  \/ \E i \in 1 .. Len(u) :
       /\ i <= Len(v) /\ u[i] < v[i]
       /\ \A j \in 1 .. i - 1 : u[j] = v[j]

\* Uris in the order of the keys of a std::map: before each come as many as its
\* position says.
InOrder(uris) ==
  [i \in 1 .. Cardinality(uris) |->
     CHOOSE u \in uris : Cardinality({v \in uris : Before(v, u)}) = i - 1]

ContainsParamWithDType(spec, accesses, dtype) ==
  \E param \in spec.params : param[1] \in accesses /\ param[2] = dtype

\* Mutant: the prefix decides alone if there is one.
Matches_PrefixAlone(q, uri) ==
  IF q.prefix # NoValue THEN IsPrefix(q.prefix, uri)
  ELSE q.uriList # NoValue => uri \in ToSet(q.uriList)

\* One filter after the other, as far as they are set.
Matches(q, uri) ==
  LET spec == registry[uri].spec
  IN  /\ q.uriList # NoValue => uri \in ToSet(q.uriList)
      /\ q.prefix # NoValue => IsPrefix(q.prefix, uri)
      /\ q.text # NoValue => q.text \in spec.texts
      /\ q.inputDType # NoValue => ContainsParamWithDType(spec, {"I", "O", "M"}, q.inputDType)
      /\ q.outputDType # NoValue => ContainsParamWithDType(spec, {"O"}, q.outputDType)

\* The loop over the catalogue keeps what matches.
Matched(q) == InOrder({uri \in DOMAIN registry : Matches(q, uri)})

\* The end of the page of a list of n matches; a size_t wraps.
PageEnd(q, n) ==
  LET wrapped == (q.page[1] + q.page[2]) % (2 * HalfRange)
  IN  IF n <= wrapped THEN n ELSE wrapped

\* Mutant: the page is cut out of the catalogue and then filtered.
Fetch_PageFirst(q) ==
  LET uris == InOrder(DOMAIN registry)
      page == IF q.page = NoValue THEN uris
              ELSE SubSeq(uris, q.page[1] + 1, PageEnd(q, Len(uris)))
  IN  SelectSeq(page, LAMBDA uri : Matches(q, uri))

\* Mutant: the listed uris are taken as they are, unknown ones included.
Fetch_ListedUris(q) ==
  LET matched == Matched(q)
  IN  IF q.uriList # NoValue THEN q.uriList ELSE matched

\* After a sum that wrapped the page would end before it begins, which is
\* undefined: no request of the API and no query here has such a page.
Fetch(q) ==
  LET matched == Matched(q)
  IN  IF q.page = NoValue THEN matched
      ELSE SubSeq(matched, q.page[1] + 1, PageEnd(q, Len(matched)))

\* std::max<int32_t>(0, ...)
PageOf(r) ==
  <<IF r.pageStart < 0 THEN 0 ELSE r.pageStart, IF r.pageSize < 0 THEN 0 ELSE r.pageSize>>

HasFilter(r, filter) == filter \in r.filters

QueryOf(r) ==
  [NoQuery EXCEPT
     !.uriList = IF HasFilter(r, "URI_LIST") THEN r.uriList ELSE NoValue,
     !.prefix = IF HasFilter(r, "PREFIX") THEN r.prefix ELSE NoValue,
     !.page = IF HasFilter(r, "PAGE") THEN PageOf(r) ELSE NoValue]

\* Every filter comes with its values, or a CHECK fails.
FiltersHaveValues(r) ==
  /\ HasFilter(r, "URI_LIST") => r.uriList # NoValue
  /\ HasFilter(r, "PREFIX") => r.prefix # NoValue
  /\ HasFilter(r, "PAGE") => NoValue \notin {r.pageStart, r.pageSize}

GetAvailableFuncs(r) ==
  /\ phase = "running"
  /\ request' = r
  /\ \/ /\ FiltersHaveValues(r)
        /\ query' = QueryOf(r) /\ answer' = Fetch(query')
        /\ UNCHANGED phase
     \/ /\ ~ FiltersHaveValues(r)
        /\ phase' = "aborted"
        /\ UNCHANGED <<query, answer>>
  /\ UNCHANGED <<linked, pending, registry>>

\* A client begins a listing, and asks for the next page as long as pages are full.
BeginListing ==
  \E r \in Requests : GetAvailableFuncs(r) /\ shown' = IF phase' = "running" THEN answer' ELSE << >>

NextPage ==
  /\ phase = "running" /\ request # NoValue /\ "PAGE" \in request.filters
  /\ Len(answer) > 0 /\ Len(answer) >= request.pageSize
  /\ LET start == PageOf(request)[1] + Len(answer)
     IN  start \in IntRange /\ GetAvailableFuncs([request EXCEPT !.pageStart = start])
  /\ shown' = shown \o answer'

\* C++ code asks FunctionLookup.
Lookup ==
  /\ phase = "running"
  /\ \E q \in Queries : query' = q /\ answer' = Fetch(q)
  /\ request' = NoValue /\ shown' = << >>
  /\ UNCHANGED <<linked, pending, registry, phase>>

Next == RunConstructor \/ EnterMain \/ BeginListing \/ NextPage \/ Lookup

Spec == Init /\ [][Next]_vars

----------------------------------------------------------------------------
(***************************************************************************)
(* Properties                                                              *)
(***************************************************************************)

Uris == {r.uri : r \in linked}

TypeOK ==
  /\ linked \in Programs /\ pending \subseteq linked
  /\ DOMAIN registry \subseteq Uris
  /\ \A u \in DOMAIN registry : IsFunctionSpec(registry[u].spec)
  /\ phase \in {"loading", "running", "aborted"}
  /\ DOMAIN query = DOMAIN NoQuery
  /\ ToSet(answer) \cup ToSet(shown) \subseteq Uris
  /\ request # NoValue => IsRequest(request)

\* What the filters of q ask of the functions the program is linked from,
\* whatever the order in which they were registered.
Wanted(q) ==
  {u \in Uris : \E r \in linked :
     /\ r.uri = u
     /\ \A f \in {f \in DOMAIN NoQuery : q[f] # NoValue} :
          CASE f = "uriList" -> \E i \in DOMAIN q.uriList : q.uriList[i] = u
            [] f = "prefix" -> \E n \in 0 .. Len(u) : SubSeq(u, 1, n) = q.prefix
            [] f = "text" -> q.text \in r.spec.texts
            [] f = "inputDType" -> \E p \in r.spec.params : p[2] = q.inputDType
            [] f = "outputDType" -> <<"O", q.outputDType>> \in r.spec.params
            [] OTHER -> TRUE}

\* main is entered only if no uri was registered from two places: every order
\* of the constructors ends the program otherwise.
OnePlacePerUri ==
  phase = "running" =>
    \A r, s \in linked : r.uri = s.uri => r.srcLoc = s.srcLoc

\* An answer is what all filters together ask for, of the functions that were
\* registered in any order: nothing else, in the order of the uris, and all of
\* it unless a page is asked for.
FiltersAreAnded ==
  phase = "running" =>
    /\ ToSet(answer) \subseteq Wanted(query)
    /\ \A i, j \in DOMAIN answer : i < j => Before(answer[i], answer[j])
    /\ (query.page = NoValue /\ (request # NoValue \/ answer # << >>)) =>
         ToSet(answer) = Wanted(query)

\* Put together, the pages are the list of all matches from where the client
\* began: none is skipped or shown twice, a page that is not full is the last, and no page
\* is longer than was asked for.
PagesAreTheList ==
  (phase = "running" /\ query.page # NoValue /\ request # NoValue) =>
    LET skipped == {u \in Wanted(query) :
                      \A i \in DOMAIN shown : u # shown[i] /\ Before(u, shown[i])}
        rest == Wanted(query) \ (skipped \cup ToSet(shown))
    IN  /\ shown # << >> =>
             Cardinality(skipped) + Len(shown) = query.page[1] + Len(answer)
        /\ \A u \in rest : \A i \in DOMAIN shown : Before(shown[i], u)
        /\ (Len(answer) < query.page[2] /\ shown # << >>) => rest = {}
        /\ Len(answer) <= (IF request.pageSize > 0 THEN request.pageSize ELSE 0)
=============================================================================
