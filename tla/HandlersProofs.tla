---------------------------- MODULE HandlersProofs ----------------------------
(* What the resolver and the user count on of the queries of all tools, for     *)
(* any values of arguments: which endpoints serve them, what their bindings     *)
(* pass on, and what a name of a binding stands for.                            *)
EXTENDS Handlers, FiniteSetTheorems, SequenceTheorems, TLAPS

\* The bindings of a query: over which endpoints they go, that the clients let
\* them pass, that their names differ and that they pass on the same arguments.
ListFits(list, vias) ==
    /\ DOMAIN list # {} /\ {list[i].via : i \in DOMAIN list} = vias
    /\ \A i \in DOMAIN list : Allowed(list[i])
    /\ \A i, j \in DOMAIN list : list[i].name = list[j].name => i = j
    /\ \E passes : \A i \in DOMAIN list : list[i].passes = passes

\* Denominations and traces have routes of several forms.
Denominations == {"token_metadata", "denom_trace"}

\* Two bindings that are one for a session, and two lists of such.
SameBinding(capability, one, other) ==
    /\ one.name = other.name /\ one.via = other.via
    /\ SameRoute(one.target, other.target) \/ (one.via = "lcd" /\ capability \in Denominations)

Alike(capability, one, other) ==
    /\ DOMAIN one = DOMAIN other
    /\ \A i \in DOMAIN one : SameBinding(capability, one[i], other[i])

-----------------------------------------------------------------------------
(* Routes.                                                                   *)

\* A sequence, of whatever it is made.
IsPath(path) == path \in Seq(Range(path))

LEMMA PathOfSeq == ASSUME NEW S, NEW path \in Seq(S) PROVE IsPath(path)
  BY SeqOfRange DEF IsPath

LEMMA TuplesArePaths ==
  /\ \A a : IsPath(<<a>>)
  /\ \A a, b : IsPath(<<a, b>>)
  /\ \A a, b, c : IsPath(<<a, b, c>>)
  /\ \A a, b, c, d : IsPath(<<a, b, c, d>>)
  /\ \A a, b, c, d, e : IsPath(<<a, b, c, d, e>>)
<1>1. ASSUME NEW a PROVE IsPath(<<a>>)
  <2>1. <<a>> \in Seq({a})
    OBVIOUS
  <2> QED BY <2>1, PathOfSeq
<1>2. ASSUME NEW a, NEW b PROVE IsPath(<<a, b>>)
  <2>1. <<a, b>> \in Seq({a, b})
    OBVIOUS
  <2> QED BY <2>1, PathOfSeq
<1>3. ASSUME NEW a, NEW b, NEW c PROVE IsPath(<<a, b, c>>)
  <2>1. <<a, b, c>> \in Seq({a, b, c})
    OBVIOUS
  <2> QED BY <2>1, PathOfSeq
<1>4. ASSUME NEW a, NEW b, NEW c, NEW d PROVE IsPath(<<a, b, c, d>>)
  <2>1. <<a, b, c, d>> \in Seq({a, b, c, d})
    OBVIOUS
  <2> QED BY <2>1, PathOfSeq
<1>5. ASSUME NEW a, NEW b, NEW c, NEW d, NEW e PROVE IsPath(<<a, b, c, d, e>>)
  <2>1. <<a, b, c, d, e>> \in Seq({a, b, c, d, e})
    OBVIOUS
  <2> QED BY <2>1, PathOfSeq
<1> QED BY <1>1, <1>2, <1>3, <1>4, <1>5

LEMMA JoinedPaths ==
  ASSUME NEW a, NEW b, IsPath(a), IsPath(b)
  PROVE  /\ IsPath(a \o b) /\ Len(a) \in Nat /\ Len(b) \in Nat
         /\ DOMAIN a = 1 .. Len(a) /\ DOMAIN b = 1 .. Len(b)
         /\ Len(a \o b) = Len(a) + Len(b) /\ DOMAIN (a \o b) = 1 .. Len(a) + Len(b)
         /\ \A i \in 1 .. Len(a) + Len(b) :
               (a \o b)[i] = IF i <= Len(a) THEN a[i] ELSE b[i - Len(a)]
<1> DEFINE S == Range(a) \cup Range(b)
<1>1. a \in Seq(S) /\ b \in Seq(S)
  BY SeqMonotonic DEF IsPath
<1> HIDE DEF S
<1>2. a \o b \in Seq(S)
  BY <1>1, ConcatProperties
<1> QED BY <1>1, <1>2, ConcatProperties, LenProperties, PathOfSeq

LEMMA LastOfTarget ==
  ASSUME NEW service, NEW method, IsPath(service)
  PROVE  /\ IsPath(service \o <<method>>)
         /\ Front(service \o <<method>>) = service
         /\ Last(service \o <<method>>) = method
<1> DEFINE S == Range(service) \cup {method}
           target == service \o <<method>>
           n == Len(service)
<1>1. service \in Seq(S)
  BY SeqMonotonic DEF IsPath
<1>2. <<method>> \in Seq(S)
  OBVIOUS
<1> HIDE DEF S
<1>3. /\ target \in Seq(S) /\ Len(target) = n + 1 /\ n \in Nat
      /\ \A i \in 1 .. n : target[i] = service[i]
      /\ target[n + 1] = method
  BY <1>1, <1>2, ConcatProperties, LenProperties
<1>4. Last(target) = method /\ Front(target) = SubSeq(target, 1, n)
  BY <1>3 DEF Last, Front
<1>5. SubSeq(target, 1, n) = service
  <2>1. CASE n = 0
    <3>1. service = << >>
      BY <1>1, <2>1, EmptySeq
    <3> QED BY <1>3, <2>1, <3>1, SubSeqEmpty
  <2>2. CASE n # 0
    <3>1. SubSeq(target, 1, n) = SubSeq(service, 1, n)
      <4>1. 1 \in 1 .. n /\ n \in 1 .. n
        BY <1>3, <2>2
      <4> QED BY <1>1, <1>2, <4>1, SubSeqOfConcat1
    <3> QED BY <1>1, <3>1, SubSeqFull
  <2> QED BY <2>1, <2>2
<1> QED BY <1>3, <1>4, <1>5, PathOfSeq

LEMMA SameOfSame == ASSUME NEW path PROVE SameRoute(path, path)
  BY DEF SameRoute

\* Two routes without blank parts that are the same for other arguments.
IsRoute(path) == IsPath(path) /\ "" \notin Range(path)
TwinParts(one, other) == IsRoute(one) /\ IsRoute(other) /\ SameRoute(one, other)

\* A value that is accepted where a route has one part.
LEMMA SafePath ==
  ASSUME NEW value \in Values, SafeValue(value)
  PROVE  IsRoute(value) /\ DOMAIN value = {1} /\ Len(value) = 1 /\ value[1] \in ValueParts
<1>1. value \in Seq(STRING) /\ Len(value) = 1
  BY ValueAssumption DEF SafeValue
<1>2. DOMAIN value = {1}
  BY <1>1
<1>3. value[1] \in ValueParts
  BY <1>2 DEF ValueParts, Range
<1>4. value[1] # ""
  <2>1. value = <<value[1]>>
    BY <1>1
  <2> QED BY <2>1 DEF SafeValue
<1> QED BY <1>1, <1>2, <1>3, <1>4, PathOfSeq DEF IsRoute, Range

LEMMA TwinValues ==
  ASSUME NEW one \in Values, NEW other \in Values, SafeValue(one), SafeValue(other)
  PROVE  TwinParts(one, other)
<1>1. /\ IsRoute(one) /\ DOMAIN one = {1} /\ Len(one) = 1 /\ one[1] \in ValueParts
      /\ IsRoute(other) /\ Len(other) = 1 /\ other[1] \in ValueParts
  BY SafePath
<1> QED BY <1>1 DEF SameRoute, TwinParts

LEMMA RangesOfTuples ==
  /\ \A a : Range(<<a>>) = {a}
  /\ \A a, b : Range(<<a, b>>) = {a, b}
  /\ \A a, b, c : Range(<<a, b, c>>) = {a, b, c}
  /\ \A a, b, c, d : Range(<<a, b, c, d>>) = {a, b, c, d}
<1>1. ASSUME NEW a PROVE Range(<<a>>) = {a}
  BY DEF Range
<1>2. ASSUME NEW a, NEW b PROVE Range(<<a, b>>) = {a, b}
  BY DEF Range
<1>3. ASSUME NEW a, NEW b, NEW c PROVE Range(<<a, b, c>>) = {a, b, c}
  BY DEF Range
<1>4. ASSUME NEW a, NEW b, NEW c, NEW d PROVE Range(<<a, b, c, d>>) = {a, b, c, d}
  BY DEF Range
<1> QED BY <1>1, <1>2, <1>3, <1>4

LEMMA TwinTuples ==
  /\ \A a : a # "" => TwinParts(<<a>>, <<a>>)
  /\ \A a, b : "" \notin {a, b} => TwinParts(<<a, b>>, <<a, b>>)
  /\ \A a, b, c : "" \notin {a, b, c} => TwinParts(<<a, b, c>>, <<a, b, c>>)
  /\ \A a, b, c, d : "" \notin {a, b, c, d} => TwinParts(<<a, b, c, d>>, <<a, b, c, d>>)
<1>1. ASSUME NEW a, a # "" PROVE TwinParts(<<a>>, <<a>>)
  <2>1. "" \notin Range(<<a>>)
    <3>1. Range(<<a>>) = {a}
      BY RangesOfTuples
    <3> QED BY <1>1, <3>1
  <2> QED BY <2>1, TuplesArePaths, SameOfSame DEF TwinParts, IsRoute
<1>2. ASSUME NEW a, NEW b, "" \notin {a, b} PROVE TwinParts(<<a, b>>, <<a, b>>)
  <2>1. "" \notin Range(<<a, b>>)
    <3>1. Range(<<a, b>>) = {a, b}
      BY RangesOfTuples
    <3> QED BY <1>2, <3>1
  <2> QED BY <2>1, TuplesArePaths, SameOfSame DEF TwinParts, IsRoute
<1>3. ASSUME NEW a, NEW b, NEW c, "" \notin {a, b, c} PROVE TwinParts(<<a, b, c>>, <<a, b, c>>)
  <2>1. "" \notin Range(<<a, b, c>>)
    <3>1. Range(<<a, b, c>>) = {a, b, c}
      BY RangesOfTuples
    <3> QED BY <1>3, <3>1
  <2> QED BY <2>1, TuplesArePaths, SameOfSame DEF TwinParts, IsRoute
<1>4. ASSUME NEW a, NEW b, NEW c, NEW d, "" \notin {a, b, c, d}
      PROVE  TwinParts(<<a, b, c, d>>, <<a, b, c, d>>)
  <2>1. "" \notin Range(<<a, b, c, d>>)
    <3>1. Range(<<a, b, c, d>>) = {a, b, c, d}
      BY RangesOfTuples
    <3> QED BY <1>4, <3>1
  <2> QED BY <2>1, TuplesArePaths, SameOfSame DEF TwinParts, IsRoute
<1> QED BY <1>1, <1>2, <1>3, <1>4

LEMMA TwinConcat ==
  ASSUME NEW a, NEW b, NEW c, NEW d, TwinParts(a, b), TwinParts(c, d)
  PROVE  TwinParts(a \o c, b \o d)
<1>1. Len(a) = Len(b) /\ Len(c) = Len(d) /\ Len(a) \in Nat /\ Len(c) \in Nat
  BY JoinedPaths DEF TwinParts, IsRoute, SameRoute
<1>2. IsPath(a) /\ IsPath(b) /\ IsPath(c) /\ IsPath(d)
  BY DEF TwinParts, IsRoute
<1>3. ASSUME NEW i \in DOMAIN (a \o c)
      PROVE  \/ /\ i \in DOMAIN a /\ i \in DOMAIN b
                /\ (a \o c)[i] = a[i] /\ (b \o d)[i] = b[i]
             \/ /\ i - Len(a) \in DOMAIN c /\ i - Len(a) \in DOMAIN d
                /\ (a \o c)[i] = c[i - Len(a)] /\ (b \o d)[i] = d[i - Len(a)]
  <2>1. i \in 1 .. Len(a) + Len(c)
    BY <1>2, JoinedPaths
  <2> QED BY <1>1, <1>2, <2>1, JoinedPaths
<1>4. Len(a \o c) = Len(b \o d) /\ DOMAIN (a \o c) = DOMAIN (b \o d)
      /\ IsPath(a \o c) /\ IsPath(b \o d)
  BY <1>1, <1>2, JoinedPaths
<1>5. SameRoute(a \o c, b \o d)
  BY <1>3, <1>4 DEF TwinParts, SameRoute
<1>6. "" \notin Range(a \o c) /\ "" \notin Range(b \o d)
  BY <1>3, <1>4 DEF TwinParts, IsRoute, Range
<1> QED BY <1>4, <1>5, <1>6 DEF TwinParts, IsRoute

\* What a path of pieces is made of, and what it holds.
LEMMA FieldsOfPaths ==
  /\ \A parts : Fixed(parts).parts = parts /\ Fixed(parts).holds = {}
  /\ \A argument, value :
        Arg(argument, value).parts = value /\ Arg(argument, value).holds = {argument}
  /\ \A path, rest : /\ (path ++ rest).parts = path.parts \o rest.parts
                     /\ (path ++ rest).holds = path.holds \cup rest.holds
  BY DEF Fixed, Arg, ++

\* The same for paths of pieces.
Twins(one, other) == TwinParts(one.parts, other.parts)

LEMMA TwinPieces ==
  /\ \A a : a # "" => Twins(Fixed(<<a>>), Fixed(<<a>>))
  /\ \A a, b, c : "" \notin {a, b, c} => Twins(Fixed(<<a, b, c>>), Fixed(<<a, b, c>>))
  /\ \A argument, one, other : TwinParts(one, other) => Twins(Arg(argument, one), Arg(argument, other))
  /\ \A a, b, c, d : Twins(a, b) /\ Twins(c, d) => Twins(a ++ c, b ++ d)
<1>1. ASSUME NEW a, NEW b, NEW c, NEW d, Twins(a, b), Twins(c, d) PROVE Twins(a ++ c, b ++ d)
  <2>1. TwinParts(a.parts \o c.parts, b.parts \o d.parts)
    BY <1>1, TwinConcat DEF Twins
  <2> QED BY <2>1, FieldsOfPaths DEF Twins
<1>2. ASSUME NEW argument, NEW one, NEW other, TwinParts(one, other)
      PROVE  Twins(Arg(argument, one), Arg(argument, other))
  BY <1>2, FieldsOfPaths DEF Twins
<1>3. \A parts : TwinParts(parts, parts) => Twins(Fixed(parts), Fixed(parts))
  BY FieldsOfPaths DEF Twins
<1> QED BY <1>1, <1>2, <1>3, TwinTuples

-----------------------------------------------------------------------------
(* Bindings.                                                                 *)

LEMMA FieldsOfBindings ==
  /\ \A name, service, method, passes :
        /\ GRPC(name, service, method, passes).name = <<"grpc", name>>
        /\ GRPC(name, service, method, passes).via = "grpc"
        /\ GRPC(name, service, method, passes).target = service \o <<method>>
        /\ GRPC(name, service, method, passes).passes = passes
  /\ \A name, path, query :
        /\ LCD(name, path, query).name = <<"lcd", name>>
        /\ LCD(name, path, query).via = "lcd"
        /\ LCD(name, path, query).target = Joined(path.parts)
        /\ LCD(name, path, query).passes = path.holds \cup query
  /\ \A name, method, passes :
        /\ RPC(name, method, passes).name = <<"rpc", name>>
        /\ RPC(name, method, passes).via = "rpc"
        /\ RPC(name, method, passes).target = <<method>>
        /\ RPC(name, method, passes).passes = passes
  BY DEF GRPC, LCD, RPC

LEMMA NamesDiffer ==
  \A a, b, c, d : /\ <<a, b>> = <<c, d>> => a = c /\ b = d
                  /\ <<"grpc", a>> # <<"lcd", b>> /\ <<"grpc", a>> # <<"rpc", b>> /\ <<"lcd", a>> # <<"rpc", b>>
  OBVIOUS

\* The client lets pass every method of a Query service.
LEMMA QueryIsAllowed ==
  ASSUME NEW name, NEW service, NEW method, NEW passes, IsPath(service), AllowedGRPC(service, method)
  PROVE  Allowed(GRPC(name, service, method, passes))
<1> DEFINE g == GRPC(name, service, method, passes)
<1>1. g.via = "grpc" /\ g.target = service \o <<method>>
  BY DEF GRPC
<1> HIDE DEF g
<1>2. Front(g.target) = service /\ Last(g.target) = method
  BY <1>1, LastOfTarget
<1>3. Allowed(g)
  BY <1>1, <1>2 DEF Allowed
<1> QED BY <1>3 DEF g

LEMMA RouteIsAllowed == \A name, path, query : Allowed(LCD(name, path, query))
  BY FieldsOfBindings DEF Allowed

LEMMA MethodIsAllowed ==
  \A method \in AllowedRPC : \A name, passes : Allowed(RPC(name, method, passes))
<1> SUFFICES ASSUME NEW method \in AllowedRPC, NEW name, NEW passes PROVE Allowed(RPC(name, method, passes))
  OBVIOUS
<1>1. <<method>>[1] = method
  OBVIOUS
<1> QED BY <1>1, FieldsOfBindings DEF Allowed

LEMMA QueryServices ==
  /\ \A module, method : IsPath(SDKQuery(module)) /\ AllowedGRPC(SDKQuery(module), method)
  /\ \A method : AllowedGRPC(<<"cosmos", "gov", "v1", "Query">>, method)
  /\ \A method : AllowedGRPC(<<"ibc", "applications", "transfer", "v1", "Query">>, method)
<1>1. ASSUME NEW module PROVE IsPath(SDKQuery(module)) /\ Last(SDKQuery(module)) = "Query"
  <2>1. IsPath(SDK(module))
    BY TuplesArePaths DEF SDK
  <2> QED BY <2>1, LastOfTarget DEF SDKQuery
<1>2. /\ Last(<<"cosmos", "gov", "v1", "Query">>) = "Query"
      /\ Last(<<"ibc", "applications", "transfer", "v1", "Query">>) = "Query"
  BY DEF Last
<1> QED BY <1>1, <1>2 DEF AllowedGRPC

\* The path and the query of a route ask the whole request.
Whole(path, request, query) == request = path.holds \cup query

\* A prefix of the path has no arguments.
LEMMA WholeRoute ==
  ASSUME NEW parts, NEW path, NEW request, NEW query, Whole(path, request, query)
  PROVE  Whole(Fixed(parts) ++ path, request, query)
  BY FieldsOfPaths DEF Whole

\* Lists of two and of four bindings, older routes last.
LEMMA TwoFit ==
  ASSUME NEW name, NEW service, NEW method, NEW path, NEW request, NEW query,
         IsPath(service), AllowedGRPC(service, method), Whole(path, request, query)
  PROVE  ListFits(<<GRPC(name, service, method, request), LCD(name, path, query)>>, {"grpc", "lcd"})
<1> DEFINE g == GRPC(name, service, method, request)
           l == LCD(name, path, query)
           list == <<g, l>>
<1>1. /\ Allowed(g) /\ Allowed(l) /\ g.via = "grpc" /\ l.via = "lcd"
      /\ g.name # l.name /\ g.passes = request /\ l.passes = request
  BY QueryIsAllowed, RouteIsAllowed, FieldsOfBindings, NamesDiffer DEF Whole
<1>2. DOMAIN list = {1, 2} /\ list[1] = g /\ list[2] = l
  OBVIOUS
<1> SUFFICES ListFits(list, {"grpc", "lcd"})
  OBVIOUS
<1> HIDE DEF g, l, list
<1>3. {list[i].via : i \in DOMAIN list} = {"grpc", "lcd"}
  BY <1>1, <1>2
<1> QED BY <1>1, <1>2, <1>3 DEF ListFits

LEMMA FourFit ==
  ASSUME NEW list, DOMAIN list = {1, 2, 3, 4},
         NEW passes, \A i \in 1 .. 4 : list[i].passes = passes /\ Allowed(list[i]),
         \A i, j \in 1 .. 4 : list[i].name = list[j].name => i = j,
         {list[1].via, list[2].via, list[3].via, list[4].via} = {"grpc", "lcd"}
  PROVE  ListFits(list, {"grpc", "lcd"})
<1>1. {list[i].via : i \in DOMAIN list} = {"grpc", "lcd"}
  OBVIOUS
<1> QED BY <1>1 DEF ListFits

LEMMA GovFits == \A name, method, path, request, query :
  Whole(path, request, query) =>
     ListFits(GovBindings(name, method, path, request, query), {"grpc", "lcd"})
<1> SUFFICES ASSUME NEW name, NEW method, NEW path, NEW request, NEW query, Whole(path, request, query)
             PROVE  ListFits(GovBindings(name, method, path, request, query), {"grpc", "lcd"})
  OBVIOUS
<1> DEFINE list == GovBindings(name, method, path, request, query)
           route == Fixed(<<"cosmos", "gov", "v1">>) ++ path
           oldRoute == Fixed(SDK("gov")) ++ path
           v1 == <<"cosmos", "gov", "v1", "Query">>
           new == <<"gov_v1", name>>
           old == <<"gov_v1beta1", name>>
<1>1. /\ DOMAIN list = {1, 2, 3, 4}
      /\ list[1] = GRPC(new, v1, method, request)
      /\ list[2] = GRPC(old, SDKQuery("gov"), method, request)
      /\ list[3] = LCD(new, route, query)
      /\ list[4] = LCD(old, oldRoute, query)
  BY DEF GovBindings
<1>2. /\ IsPath(v1) /\ AllowedGRPC(v1, method)
      /\ Whole(route, request, query) /\ Whole(oldRoute, request, query)
  BY TuplesArePaths, QueryServices, WholeRoute
<1> HIDE DEF list, v1, route, oldRoute
<1>3. new # old
  BY NamesDiffer
<1> HIDE DEF new, old
<1>4. \A i \in 1 .. 4 : list[i].passes = request /\ Allowed(list[i])
  BY <1>1, <1>2, QueryServices, QueryIsAllowed, RouteIsAllowed, FieldsOfBindings DEF Whole
<1>5. \A i, j \in 1 .. 4 : list[i].name = list[j].name => i = j
  <2>1. /\ list[1].name = <<"grpc", new>> /\ list[2].name = <<"grpc", old>>
        /\ list[3].name = <<"lcd", new>> /\ list[4].name = <<"lcd", old>>
    BY <1>1, FieldsOfBindings
  <2>2. /\ list[1].name # list[2].name /\ list[1].name # list[3].name /\ list[1].name # list[4].name
        /\ list[2].name # list[3].name /\ list[2].name # list[4].name /\ list[3].name # list[4].name
    BY <1>3, <2>1, NamesDiffer
  <2> QED BY <2>2
<1>6. {list[1].via, list[2].via, list[3].via, list[4].via} = {"grpc", "lcd"}
  BY <1>1, FieldsOfBindings
<1>7. ListFits(list, {"grpc", "lcd"})
  BY <1>1, <1>4, <1>5, <1>6, FourFit
<1> QED BY <1>7 DEF list

LEMMA ModuleFits ==
  /\ \A name, module, method, path, request, query : Whole(path, request, query) =>
        ListFits(Pair(name, module, method, path, request, query), {"grpc", "lcd"})
  /\ \A module, method, path, request, query : Whole(path, request, query) =>
        ListFits(ModuleBindings(module, method, path, request, query), {"grpc", "lcd"})
  BY QueryServices, WholeRoute, TwoFit DEF Pair, ModuleBindings

LEMMA TraceFits == \A hash : ListFits(DenomTraceBindings(hash), {"grpc", "lcd"})
<1> SUFFICES ASSUME NEW hash PROVE ListFits(DenomTraceBindings(hash), {"grpc", "lcd"})
  OBVIOUS
<1> DEFINE list == DenomTraceBindings(hash)
           service == <<"ibc", "applications", "transfer", "v1", "Query">>
           routes == <<"ibc", "apps", "transfer", "v1">>
<1>1. /\ DOMAIN list = {1, 2, 3, 4}
      /\ list[1] = GRPC(<<"denom_trace">>, service, "DenomTrace", {"value"})
      /\ list[2] = LCD(<<"denom_trace">>, Fixed(routes \o <<"denom_traces">>) ++ Arg("value", hash), {})
      /\ list[3] = GRPC(<<"denom">>, service, "Denom", {"value"})
      /\ list[4] = LCD(<<"denom">>, Fixed(routes \o <<"denoms">>) ++ Arg("value", hash), {})
  BY DEF DenomTraceBindings
<1>2. IsPath(service) /\ \A method : AllowedGRPC(service, method)
  BY TuplesArePaths, QueryServices
<1> HIDE DEF list, service, routes
<1>3. \A i \in 1 .. 4 : list[i].passes = {"value"} /\ Allowed(list[i])
  BY <1>1, <1>2, QueryIsAllowed, RouteIsAllowed, FieldsOfBindings, FieldsOfPaths
<1>4. \A i, j \in 1 .. 4 : list[i].name = list[j].name => i = j
  <2> DEFINE old == <<"denom_trace">>
             new == <<"denom">>
  <2>1. old # new
    OBVIOUS
  <2>2. /\ list[1].name = <<"grpc", old>> /\ list[2].name = <<"lcd", old>>
        /\ list[3].name = <<"grpc", new>> /\ list[4].name = <<"lcd", new>>
    BY <1>1, FieldsOfBindings
  <2> HIDE DEF old, new
  <2>3. /\ list[1].name # list[2].name /\ list[1].name # list[3].name /\ list[1].name # list[4].name
        /\ list[2].name # list[3].name /\ list[2].name # list[4].name /\ list[3].name # list[4].name
    BY <2>1, <2>2, NamesDiffer
  <2> QED BY <2>3
<1>5. {list[1].via, list[2].via, list[3].via, list[4].via} = {"grpc", "lcd"}
  BY <1>1, FieldsOfBindings
<1>6. ListFits(list, {"grpc", "lcd"})
  BY <1>1, <1>3, <1>4, <1>5, FourFit
<1> QED BY <1>6 DEF list

-----------------------------------------------------------------------------
(* Lists of bindings that are the same for a session.                        *)

LEMMA SameMethod ==
  ASSUME NEW capability, NEW name, NEW service, NEW method, NEW a, NEW b
  PROVE  /\ SameBinding(capability, GRPC(name, service, method, a), GRPC(name, service, method, b))
         /\ SameBinding(capability, RPC(name, method, a), RPC(name, method, b))
<1>1. SameBinding(capability, GRPC(name, service, method, a), GRPC(name, service, method, b))
  BY SameOfSame DEF SameBinding, GRPC
<1>2. SameBinding(capability, RPC(name, method, a), RPC(name, method, b))
  BY SameOfSame DEF SameBinding, RPC
<1> QED BY <1>1, <1>2

LEMMA SamePath ==
  ASSUME NEW capability, NEW name, NEW one, NEW other, NEW a, NEW b,
         Twins(one, other) \/ capability \in Denominations
  PROVE  SameBinding(capability, LCD(name, one, a), LCD(name, other, b))
<1>1. Twins(one, other) => Joined(one.parts) = one.parts /\ Joined(other.parts) = other.parts
  BY DEF Twins, TwinParts, IsRoute, Joined
<1> QED BY <1>1, FieldsOfBindings DEF SameBinding, Twins, TwinParts

LEMMA TuplesAlike ==
  ASSUME NEW capability, NEW g, NEW h, NEW k, NEW l,
         SameBinding(capability, g, h), SameBinding(capability, k, l)
  PROVE  Alike(capability, <<g, k>>, <<h, l>>)
<1>1. \A i \in DOMAIN <<g, k>> : \/ i = 1 /\ <<g, k>>[i] = g /\ <<h, l>>[i] = h
                                 \/ i = 2 /\ <<g, k>>[i] = k /\ <<h, l>>[i] = l
  OBVIOUS
<1>2. DOMAIN <<g, k>> = DOMAIN <<h, l>>
  OBVIOUS
<1> QED BY <1>1, <1>2 DEF Alike

LEMMA TwoAlike ==
  ASSUME NEW capability, NEW name, NEW module, NEW method, NEW one, NEW other,
         NEW a, NEW b, NEW c, NEW d,
         module # "", Twins(one, other) \/ capability \in Denominations
  PROVE  Alike(capability,
               <<GRPC(name, SDKQuery(module), method, a), LCD(name, Fixed(SDK(module)) ++ one, c)>>,
               <<GRPC(name, SDKQuery(module), method, b), LCD(name, Fixed(SDK(module)) ++ other, d)>>)
<1>1. Twins(Fixed(SDK(module)), Fixed(SDK(module)))
  BY TwinPieces DEF SDK
<1>2. SameBinding(capability, LCD(name, Fixed(SDK(module)) ++ one, c),
                  LCD(name, Fixed(SDK(module)) ++ other, d))
  BY <1>1, TwinPieces, SamePath
<1> QED BY <1>2, TuplesAlike, SameMethod

LEMMA PairsAlike ==
  ASSUME NEW capability, NEW module, module # "",
         NEW one, NEW other, Twins(one, other) \/ capability \in Denominations
  PROVE  /\ \A name, method, a, b, c, d :
               Alike(capability, Pair(name, module, method, one, a, c), Pair(name, module, method, other, b, d))
         /\ \A method, a, b, c, d :
               Alike(capability, ModuleBindings(module, method, one, a, c),
                     ModuleBindings(module, method, other, b, d))
  BY TwoAlike DEF Pair, ModuleBindings

LEMMA FourAlike ==
  ASSUME NEW capability, NEW one, NEW other,
         DOMAIN one = {1, 2, 3, 4}, DOMAIN other = {1, 2, 3, 4},
         \A i \in 1 .. 4 : SameBinding(capability, one[i], other[i])
  PROVE  Alike(capability, one, other)
  BY DEF Alike

LEMMA GovAlike ==
  ASSUME NEW capability, NEW one, NEW other, Twins(one, other)
  PROVE  \A name, method, a, b, c, d :
            Alike(capability, GovBindings(name, method, one, a, c), GovBindings(name, method, other, b, d))
<1> SUFFICES ASSUME NEW name, NEW method, NEW a, NEW b, NEW c, NEW d
             PROVE  Alike(capability, GovBindings(name, method, one, a, c), GovBindings(name, method, other, b, d))
  OBVIOUS
<1> DEFINE v1 == Fixed(<<"cosmos", "gov", "v1">>)
           v1beta1 == Fixed(SDK("gov"))
           service == <<"cosmos", "gov", "v1", "Query">>
           new == <<"gov_v1", name>>
           old == <<"gov_v1beta1", name>>
           first == GovBindings(name, method, one, a, c)
           second == GovBindings(name, method, other, b, d)
<1>1. /\ DOMAIN first = {1, 2, 3, 4} /\ DOMAIN second = {1, 2, 3, 4}
      /\ first[1] = GRPC(new, service, method, a) /\ second[1] = GRPC(new, service, method, b)
      /\ first[2] = GRPC(old, SDKQuery("gov"), method, a)
      /\ second[2] = GRPC(old, SDKQuery("gov"), method, b)
      /\ first[3] = LCD(new, v1 ++ one, c) /\ second[3] = LCD(new, v1 ++ other, d)
      /\ first[4] = LCD(old, v1beta1 ++ one, c) /\ second[4] = LCD(old, v1beta1 ++ other, d)
  BY DEF GovBindings
<1>2. Twins(v1, v1) /\ Twins(v1beta1, v1beta1)
  BY TwinPieces DEF SDK
<1> HIDE DEF v1, v1beta1, service, new, old, first, second
<1>3. Twins(v1 ++ one, v1 ++ other) /\ Twins(v1beta1 ++ one, v1beta1 ++ other)
  BY <1>2, TwinPieces
<1>4. \A i \in 1 .. 4 : SameBinding(capability, first[i], second[i])
  BY <1>1, <1>3, SameMethod, SamePath
<1>5. Alike(capability, first, second)
  BY <1>1, <1>4, FourAlike
<1> QED BY <1>5 DEF first, second

LEMMA TracesAlike ==
  ASSUME NEW one, NEW other
  PROVE  Alike("denom_trace", DenomTraceBindings(one), DenomTraceBindings(other))
<1> DEFINE service == <<"ibc", "applications", "transfer", "v1", "Query">>
           routes == <<"ibc", "apps", "transfer", "v1">>
           old == <<"denom_trace">>
           new == <<"denom">>
           capability == "denom_trace"
           first == DenomTraceBindings(one)
           second == DenomTraceBindings(other)
           by == {"value"}
<1>1. /\ DOMAIN first = {1, 2, 3, 4} /\ DOMAIN second = {1, 2, 3, 4}
      /\ first[1] = GRPC(old, service, "DenomTrace", by) /\ second[1] = GRPC(old, service, "DenomTrace", by)
      /\ first[2] = LCD(old, Fixed(routes \o <<"denom_traces">>) ++ Arg("value", one), {})
      /\ second[2] = LCD(old, Fixed(routes \o <<"denom_traces">>) ++ Arg("value", other), {})
      /\ first[3] = GRPC(new, service, "Denom", by) /\ second[3] = GRPC(new, service, "Denom", by)
      /\ first[4] = LCD(new, Fixed(routes \o <<"denoms">>) ++ Arg("value", one), {})
      /\ second[4] = LCD(new, Fixed(routes \o <<"denoms">>) ++ Arg("value", other), {})
  BY DEF DenomTraceBindings
<1>2. capability \in Denominations
  BY DEF Denominations
<1> HIDE DEF service, routes, old, new, capability, first, second, by
<1>3. \A i \in 1 .. 4 : SameBinding(capability, first[i], second[i])
  BY <1>1, <1>2, SameMethod, SamePath
<1>4. Alike(capability, first, second)
  BY <1>1, <1>3, FourAlike
<1> QED BY <1>4 DEF first, second, capability

-----------------------------------------------------------------------------
(* The queries.                                                              *)

LEMMA FieldsOfQuery ==
  \A tool, capability, height, bindings :
     /\ Query(tool, capability, height, bindings).tool = tool
     /\ Query(tool, capability, height, bindings).capability = capability
     /\ Query(tool, capability, height, bindings).height = height
     /\ Query(tool, capability, height, bindings).bindings = bindings
     /\ Query(tool, capability, height, bindings).source = "any"
  BY DEF Query

LEMMA BankBindings ==
  ASSUME NEW in, NEW q \in BankQueries(in)
  PROVE  /\ q.source = "any"
         /\ q.capability \in {"account", "balance", "balances", "token_supply", "token_metadata", "denom_trace"}
         /\ q.capability = "account" =>
            /\ q.tool = "get_account" /\ SafeValue(in.value)
            /\ q.bindings = Pair("auth_account", "auth", "Account",
                                 Fixed(<<"accounts">>) ++ Arg("value", in.value), {"value"}, {})
         /\ q.capability = "balance" =>
            /\ q.tool = "get_balances" /\ SafeValue(in.value)
            /\ q.bindings = Pair("balance", "bank", "Balance",
                                 Fixed(<<"balances">>) ++ Arg("value", in.value) ++ Fixed(<<"by_denom">>),
                                 {"value", "other"}, {"other"})
         /\ q.capability = "balances" =>
            /\ q.tool = "get_balances" /\ SafeValue(in.value)
            /\ q.bindings = Pair("all_balances", "bank", "AllBalances",
                                 Fixed(<<"balances">>) ++ Arg("value", in.value),
                                 {"value", "page"}, {"page"})
         /\ q.capability = "token_supply" =>
            /\ q.tool = "get_token_info"
            /\ q.bindings = Pair("supply", "bank", "SupplyOf",
                                 Fixed(<<"supply", "by_denom">>), {"value"}, {"value"})
         /\ q.capability = "token_metadata" =>
            /\ q.tool = "get_token_info"
            /\ q.bindings = Pair("metadata", "bank", "DenomMetadata",
                                 Fixed(<<"denoms_metadata">>) ++ Arg("value", in.value), {"value"}, {})
         /\ q.capability = "denom_trace" =>
            q.tool = "get_token_info" /\ q.bindings = DenomTraceBindings(Hash(in.value))
  BY FieldsOfQuery DEF BankQueries, Simple, When

LEMMA StakingBindings ==
  ASSUME NEW in \in Inputs, NEW q \in StakingQueries(in)
  PROVE  /\ q.source = "any"
         /\ q.capability \in {"staking_validators", "staking_validator", "delegations",
                              "unbonding_delegations", "delegation_rewards", "total_rewards"}
         /\ q.capability = "staking_validators" =>
            /\ q.tool = "get_validators"
            /\ q.bindings = Pair("staking_validators", "staking", "Validators",
                                 Fixed(<<"validators">>),
                                 {"page"} \cup Filter(in), {"page"} \cup Filter(in))
         /\ q.capability = "staking_validator" =>
            /\ q.tool = "get_validator" /\ SafeValue(in.value)
            /\ q.bindings = Pair("staking_validator", "staking", "Validator",
                                 Fixed(<<"validators">>) ++ Arg("value", in.value), {"value"}, {})
         /\ q.capability = "delegations" =>
            /\ q.tool = "get_delegations" /\ SafeValue(in.value)
            /\ q.bindings = Pair("delegations", "staking", "DelegatorDelegations",
                                 Fixed(<<"delegations">>) ++ Arg("value", in.value),
                                 {"value", "page"}, {"page"})
         /\ q.capability = "unbonding_delegations" =>
            /\ q.tool = "get_unbonding_delegations" /\ SafeValue(in.value)
            /\ q.bindings = Pair("unbonding_delegations", "staking", "DelegatorUnbondingDelegations",
                                 Fixed(<<"delegators">>) ++ Arg("value", in.value) ++ Fixed(<<"unbonding_delegations">>),
                                 {"value", "page"}, {"page"})
         /\ q.capability = "delegation_rewards" =>
            /\ q.tool = "get_rewards" /\ SafeValue(in.value) /\ SafeValue(in.other) /\ in.other \in Values
            /\ q.bindings = Pair("delegation_rewards", "distribution", "DelegationRewards",
                                 Fixed(<<"delegators">>) ++ Arg("value", in.value) ++ Fixed(<<"rewards">>)
                                   ++ Arg("other", in.other),
                                 {"value", "other"}, {})
         /\ q.capability = "total_rewards" =>
            /\ q.tool = "get_rewards" /\ SafeValue(in.value)
            /\ q.bindings = Pair("total_rewards", "distribution", "DelegationTotalRewards",
                                 Fixed(<<"delegators">>) ++ Arg("value", in.value) ++ Fixed(<<"rewards">>),
                                 {"value"}, {})
<1>1. Given(in) /\ Optional(in.other) => SafeValue(in.other) /\ in.other \in Values
  BY DEF Inputs, Given, Optional
<1> QED BY <1>1, FieldsOfQuery DEF StakingQueries, Simple, When

LEMMA DelegationBindings ==
  ASSUME NEW in, NEW q \in DelegationQueries(in)
  PROVE  /\ q.source = "any"
         /\ q.capability \in {"redelegations", "validator_delegations", "staking_pool"}
         /\ q.capability = "redelegations" =>
            /\ q.tool = "get_redelegations" /\ SafeValue(in.value)
            /\ q.bindings = Pair("redelegations", "staking", "Redelegations",
                                 Fixed(<<"delegators">>) ++ Arg("value", in.value) ++ Fixed(<<"redelegations">>),
                                 {"value", "page"} \cup Filter(in), {"page"} \cup Filter(in))
         /\ q.capability = "validator_delegations" =>
            /\ q.tool = "get_validator_delegations" /\ SafeValue(in.value)
            /\ q.bindings = Pair("validator_delegations", "staking", "ValidatorDelegations",
                                 Fixed(<<"validators">>) ++ Arg("value", in.value) ++ Fixed(<<"delegations">>),
                                 {"value", "page"}, {"page"})
         /\ q.capability = "staking_pool" =>
            /\ q.tool = "get_staking_pool"
            /\ q.bindings = ModuleBindings("staking", "Pool", Fixed(<<"pool">>), {}, {})
  BY FieldsOfQuery DEF DelegationQueries, RedelegationsQuery, Simple, When

LEMMA ModuleQueryBindings ==
  ASSUME NEW in \in Inputs, NEW q \in ModuleQueries(in)
  PROVE  /\ q.source = "any"
         /\ q.capability \in {"community_pool", "total_supply", "signing_info", "signing_infos",
                              "denom_trace", "mint_inflation", "mint_annual_provisions"}
         /\ q.capability = "community_pool" =>
            /\ q.tool = "get_community_pool"
            /\ q.bindings = ModuleBindings("distribution", "CommunityPool",
                                           Fixed(<<"community_pool">>), {}, {})
         /\ q.capability = "total_supply" =>
            /\ q.tool = "get_total_supply"
            /\ q.bindings = ModuleBindings("bank", "TotalSupply", Fixed(<<"supply">>),
                                                                       {"page"}, {"page"})
         /\ q.capability = "signing_info" =>
            /\ q.tool = "get_signing_infos" /\ SafeValue(in.other) /\ in.other \in Values
            /\ q.bindings = ModuleBindings("slashing", "SigningInfo",
                                           Fixed(<<"signing_infos">>) ++ Arg("other", in.other),
                                           {"other"}, {})
         /\ q.capability = "signing_infos" =>
            /\ q.tool = "get_signing_infos"
            /\ q.bindings = ModuleBindings("slashing", "SigningInfos",
                                           Fixed(<<"signing_infos">>), {"page"}, {"page"})
         /\ q.capability = "denom_trace" =>
            q.tool = "get_denom_trace" /\ q.bindings = DenomTraceBindings(Hash(in.value))
         /\ q.capability = "mint_inflation" =>
            /\ q.tool = "get_inflation"
            /\ q.bindings = ModuleBindings("mint", "Inflation", Fixed(<<"inflation">>), {}, {})
         /\ q.capability = "mint_annual_provisions" =>
            /\ q.tool = "get_inflation"
            /\ q.bindings = ModuleBindings("mint", "AnnualProvisions", Fixed(<<"annual_provisions">>), {}, {})
<1>1. Given(in) => in.other \in Values
  BY DEF Inputs, Given
<1> QED BY <1>1, FieldsOfQuery DEF ModuleQueries, Simple, When

LEMMA ParamsBindings ==
  ASSUME NEW in, NEW q \in ParamsQueries(in)
  PROVE  /\ q.source = "any" /\ q.tool \in StateTools
         /\ \E module \in {"staking", "distribution", "mint", "slashing", "bank"} :
               q.bindings = ModuleBindings(module, "Params", Fixed(<<"params">>), {}, {})
         /\ q.capability \in {"staking_params", "distribution_params", "mint_params", "slashing_params", "bank_params"}
         /\ q.capability = "staking_params" =>
               q.bindings = ModuleBindings("staking", "Params", Fixed(<<"params">>), {}, {})
         /\ q.capability = "distribution_params" =>
               q.bindings = ModuleBindings("distribution", "Params", Fixed(<<"params">>), {}, {})
         /\ q.capability = "mint_params" =>
               q.bindings = ModuleBindings("mint", "Params", Fixed(<<"params">>), {}, {})
         /\ q.capability = "slashing_params" =>
               q.bindings = ModuleBindings("slashing", "Params", Fixed(<<"params">>), {}, {})
         /\ q.capability = "bank_params" =>
               q.bindings = ModuleBindings("bank", "Params", Fixed(<<"params">>), {}, {})
  BY FieldsOfQuery DEF ParamsQueries, ParamsQuery, Simple, When, StateTools

LEMMA GovQueryBindings ==
  ASSUME NEW in \in Inputs, NEW q \in GovQueries(in)
  PROVE  /\ q.source = "any"
         /\ q.capability \in {"governance_proposals", "governance_proposal", "governance_tally", "governance_vote",
                              "governance_votes", "governance_deposit", "governance_deposits"}
         /\ q.capability = "governance_proposals" =>
            /\ q.tool = "get_proposals"
            /\ q.bindings = GovBindings("proposals", "Proposals",
                                        Fixed(<<"proposals">>),
                                        {"page"} \cup Filter(in), {"page"} \cup Filter(in))
         /\ q.capability = "governance_proposal" =>
            /\ q.tool = "get_proposal" /\ SafeValue(in.value)
            /\ q.bindings = GovBindings("proposal", "Proposal",
                                        Fixed(<<"proposals">>) ++ Arg("value", in.value), {"value"}, {})
         /\ q.capability = "governance_tally" =>
            /\ q.tool = "get_proposal_tally" /\ SafeValue(in.value)
            /\ q.bindings = GovBindings("tally", "TallyResult",
                                        Fixed(<<"proposals">>) ++ Arg("value", in.value) ++ Fixed(<<"tally">>),
                                        {"value"}, {})
         /\ q.capability = "governance_vote" =>
            /\ q.tool = "get_proposal_votes" /\ SafeValue(in.value) /\ SafeValue(in.other) /\ in.other \in Values
            /\ q.bindings = GovBindings("vote", "Vote",
                                        Fixed(<<"proposals">>) ++ Arg("value", in.value) ++ Fixed(<<"votes">>)
                                          ++ Arg("other", in.other),
                                        {"value", "other"}, {})
         /\ q.capability = "governance_votes" =>
            /\ q.tool = "get_proposal_votes" /\ SafeValue(in.value)
            /\ q.bindings = GovBindings("votes", "Votes",
                                        Fixed(<<"proposals">>) ++ Arg("value", in.value) ++ Fixed(<<"votes">>),
                                        {"value", "page"}, {"page"})
         /\ q.capability = "governance_deposit" =>
            /\ q.tool = "get_proposal_deposits" /\ SafeValue(in.value) /\ SafeValue(in.other) /\ in.other \in Values
            /\ q.bindings = GovBindings("deposit", "Deposit",
                                        Fixed(<<"proposals">>) ++ Arg("value", in.value) ++ Fixed(<<"deposits">>)
                                          ++ Arg("other", in.other),
                                        {"value", "other"}, {})
         /\ q.capability = "governance_deposits" =>
            /\ q.tool = "get_proposal_deposits" /\ SafeValue(in.value)
            /\ q.bindings = GovBindings("deposits", "Deposits",
                                        Fixed(<<"proposals">>) ++ Arg("value", in.value) ++ Fixed(<<"deposits">>),
                                        {"value", "page"}, {"page"})
<1>1. Given(in) => in.other \in Values
  BY DEF Inputs, Given
<1> QED BY <1>1, FieldsOfQuery DEF GovQueries, OneOrAll, Asking, Simple, When

LEMMA GovParamsQueryBindings ==
  ASSUME NEW in, NEW q \in GovParamsQueries(in)
  PROVE  /\ q.source = "any" /\ q.tool = "get_gov_params"
         /\ q.capability \in {"governance_params", "governance_params_deposit", "governance_params_tallying"}
         /\ q.capability = "governance_params" =>
            q.bindings = GovBindings("params_voting", "Params",
                                     Fixed(<<"params">>) ++ Arg("type", <<"voting">>), {"type"}, {})
         /\ q.capability = "governance_params_deposit" =>
            q.bindings = GovBindings("params_deposit", "Params",
                                     Fixed(<<"params">>) ++ Arg("type", <<"deposit">>), {"type"}, {})
         /\ q.capability = "governance_params_tallying" =>
            q.bindings = GovBindings("params_tallying", "Params",
                                     Fixed(<<"params">>) ++ Arg("type", <<"tallying">>), {"type"}, {})
  BY FieldsOfQuery DEF GovParamsQueries, GovParamsBindings, Simple, When

NodeRoutes == <<"cosmos", "base", "tendermint", "v1beta1">>
PastBlock == Fixed(NodeRoutes \o <<"blocks">>) ++ Arg("height", <<"past">>)
LatestBlock == Fixed(NodeRoutes \o <<"blocks">>) ++ Fixed(<<"latest">>)
TxRoutes == Fixed(SDK("tx") \o <<"txs">>)
NodeService == NodeRoutes \o <<"Service">>
TxService == SDK("tx") \o <<"Service">>

LEMMA NodeBindings ==
  ASSUME NEW in \in Inputs, NEW q \in NodeQueries(in)
  PROVE  /\ q.height = "none"
         /\ q.capability \in {"chain_status", "chain_sync:grpc", "chain_sync:lcd", "block:height",
                              "block:latest", "transaction"}
         /\ q.capability = "chain_status" =>
            /\ q.tool = "chain_status" /\ q.source = "any"
            /\ q.bindings = <<RPC(<<"status">>, "status", {}), GRPC(<<"node_info">>, NodeService, "GetNodeInfo", {}),
                              LCD(<<"node_info">>, Fixed(NodeRoutes \o <<"node_info">>), {})>>
         /\ q.capability = "chain_sync:grpc" =>
            /\ q.tool = "chain_status" /\ q.source = "grpc"
            /\ q.bindings = <<GRPC(<<"syncing">>, NodeService, "GetSyncing", {})>>
         /\ q.capability = "chain_sync:lcd" =>
            /\ q.tool = "chain_status" /\ q.source = "lcd"
            /\ q.bindings = <<LCD(<<"syncing">>, Fixed(NodeRoutes \o <<"syncing">>), {})>>
         /\ q.capability = "block:height" =>
            /\ q.tool = "get_block" /\ q.source = "any"
            /\ q.bindings = <<RPC(<<"block">>, "block", {"height"}),
                              GRPC(<<"block">>, NodeService, "GetBlockByHeight", {"height"}),
                              LCD(<<"block">>, PastBlock, {})>>
         /\ q.capability = "block:latest" =>
            /\ q.tool = "get_block" /\ q.source = "any"
            /\ q.bindings = <<RPC(<<"block">>, "block", {}), GRPC(<<"block">>, NodeService, "GetLatestBlock", {}),
                              LCD(<<"block">>, LatestBlock, {})>>
         /\ q.capability = "transaction" =>
            /\ q.tool = "get_transaction" /\ q.source = "any" /\ SafeValue(in.value)
            /\ q.bindings = <<GRPC(<<"get_tx">>, TxService, "GetTx", {"value"}),
                              LCD(<<"get_tx">>, TxRoutes ++ Arg("value", in.value), {}),
                              RPC(<<"tx">>, "tx", {"value"})>>
<1>1. Pinned(in) /\ HeightOK(in) => in.height = "past"
  BY DEF Pinned, HeightOK, Inputs, Heights
<1> DEFINE past == <<RPC(<<"block">>, "block", {"height"}),
                     GRPC(<<"block">>, NodeService, "GetBlockByHeight", {"height"}),
                     LCD(<<"block">>, PastBlock, {})>>
           latest == <<RPC(<<"block">>, "block", {}), GRPC(<<"block">>, NodeService, "GetLatestBlock", {}),
                       LCD(<<"block">>, LatestBlock, {})>>
<1>2. \/ q = Query("chain_status", "chain_status", "none",
                   <<RPC(<<"status">>, "status", {}), GRPC(<<"node_info">>, NodeService, "GetNodeInfo", {}),
                     LCD(<<"node_info">>, Fixed(NodeRoutes \o <<"node_info">>), {})>>)
      \/ q = [Query("chain_status", "chain_sync:grpc", "none",
                    <<GRPC(<<"syncing">>, NodeService, "GetSyncing", {})>>) EXCEPT !.source = "grpc"]
      \/ q = [Query("chain_status", "chain_sync:lcd", "none",
                    <<LCD(<<"syncing">>, Fixed(NodeRoutes \o <<"syncing">>), {})>>) EXCEPT !.source = "lcd"]
      \/ Pinned(in) /\ q = Query("get_block", "block:height", "none", past)
      \/ ~ Pinned(in) /\ q = Query("get_block", "block:latest", "none", latest)
      \/ /\ SafeValue(in.value)
         /\ q = Query("get_transaction", "transaction", "none",
                      <<GRPC(<<"get_tx">>, TxService, "GetTx", {"value"}),
                        LCD(<<"get_tx">>, TxRoutes ++ Arg("value", in.value), {}),
                        RPC(<<"tx">>, "tx", {"value"})>>)
  <2>1. CASE Pinned(in)
    BY <1>1, <2>1 DEF NodeQueries, When, NodeRoutes, NodeService, TxService, TxRoutes, BlockKey, PastBlock
  <2>2. CASE ~ Pinned(in)
    BY <2>2 DEF NodeQueries, When, NodeRoutes, NodeService, TxService, TxRoutes, BlockKey, LatestBlock
  <2> QED BY <2>1, <2>2
<1>3. CASE \/ q = [Query("chain_status", "chain_sync:grpc", "none",
                    <<GRPC(<<"syncing">>, NodeService, "GetSyncing", {})>>) EXCEPT !.source = "grpc"]
           \/ q = [Query("chain_status", "chain_sync:lcd", "none",
                    <<LCD(<<"syncing">>, Fixed(NodeRoutes \o <<"syncing">>), {})>>) EXCEPT !.source = "lcd"]
  BY <1>3 DEF Query
<1> QED BY <1>2, <1>3, FieldsOfQuery

LEMMA TransactionBindings ==
  ASSUME NEW in, NEW q \in TransactionQueries(in)
  PROVE  /\ q.source = "any" /\ q.height = "none"
         /\ q.capability \in {"transaction_search", "transaction_simulation"}
         /\ q.capability = "transaction_search" =>
            /\ q.tool = "search_transactions"
            /\ q.bindings = <<GRPC(<<"tx_search">>, TxService, "GetTxsEvent", {"value", "page"}),
                              LCD(<<"tx_search">>, TxRoutes, {"value", "page"}),
                              RPC(<<"tx_search">>, "tx_search", {"value", "page"})>>
         /\ q.capability = "transaction_simulation" =>
            /\ q.tool = "simulate_transaction"
            /\ q.bindings = <<GRPC(<<"simulate">>, TxService, "Simulate", {"value"})>>
  BY FieldsOfQuery DEF TransactionQueries, When, TxService, TxRoutes

-----------------------------------------------------------------------------
(* Which endpoints serve a query, and what its bindings pass on.             *)

LEMMA JoinedTuples ==
  ASSUME NEW a, NEW b, NEW c, NEW d, NEW e
  PROVE  <<a, b, c, d>> \o <<e>> = <<a, b, c, d, e>>
<1> DEFINE S == {a, b, c, d, e}
           four == <<a, b, c, d>>
           one == <<e>>
           five == <<a, b, c, d, e>>
<1>1. four \in Seq(S) /\ one \in Seq(S) /\ five \in Seq(S)
  OBVIOUS
<1>2. Len(four) = 4 /\ Len(one) = 1 /\ Len(five) = 5
  OBVIOUS
<1>3. /\ five[1] = four[1] /\ five[2] = four[2] /\ five[3] = four[3] /\ five[4] = four[4]
      /\ five[5] = one[1]
  OBVIOUS
<1> HIDE DEF S, four, one, five
<1>4. /\ four \o one \in Seq(S) /\ Len(four \o one) = Len(four) + Len(one)
      /\ \A i \in 1 .. Len(four) + Len(one) :
            (four \o one)[i] = IF i <= Len(four) THEN four[i] ELSE one[i - Len(four)]
  BY <1>1, ConcatProperties
<1>5. Len(four \o one) = Len(five) /\ \A i \in 1 .. Len(four \o one) : (four \o one)[i] = five[i]
  BY <1>2, <1>3, <1>4
<1>6. four \o one = five
  BY <1>1, <1>4, <1>5, SeqEqual
<1> QED BY <1>6 DEF four, one, five

LEMMA NodeServices ==
  /\ IsPath(NodeService) /\ IsPath(TxService)
  /\ \A method \in {"GetNodeInfo", "GetSyncing", "GetLatestBlock", "GetBlockByHeight"} :
        AllowedGRPC(NodeService, method)
  /\ \A method \in {"GetTx", "GetTxsEvent", "Simulate"} : AllowedGRPC(TxService, method)
<1>1. NodeService = <<"cosmos", "base", "tendermint", "v1beta1", "Service">>
  BY JoinedTuples DEF NodeService, NodeRoutes
<1>2. IsPath(NodeService)
  BY <1>1, TuplesArePaths
<1>3. IsPath(SDK("tx"))
  BY TuplesArePaths DEF SDK
<1>4. IsPath(TxService)
  BY <1>3, LastOfTarget DEF TxService
<1>5. ASSUME NEW method \in {"GetNodeInfo", "GetSyncing", "GetLatestBlock", "GetBlockByHeight"}
      PROVE  AllowedGRPC(NodeService, method)
  BY <1>1 DEF AllowedGRPC
<1>6. ASSUME NEW method \in {"GetTx", "GetTxsEvent", "Simulate"} PROVE AllowedGRPC(TxService, method)
  BY DEF AllowedGRPC, TxService
<1> QED BY <1>2, <1>4, <1>5, <1>6

LEMMA OneFits ==
  ASSUME NEW b, Allowed(b)
  PROVE  ListFits(<<b>>, {b.via})
<1>1. DOMAIN <<b>> = {1} /\ <<b>>[1] = b
  OBVIOUS
<1>2. {<<b>>[i].via : i \in DOMAIN <<b>>} = {b.via}
  BY <1>1
<1> QED BY <1>1, <1>2 DEF ListFits

LEMMA ThreeFit ==
  ASSUME NEW a, NEW b, NEW c, NEW passes, Allowed(a), Allowed(b), Allowed(c),
         a.passes = passes, b.passes = passes, c.passes = passes,
         {a.via, b.via, c.via} = Cosmos, a.name # b.name, b.name # c.name, a.name # c.name
  PROVE  ListFits(<<a, b, c>>, Cosmos)
<1> DEFINE list == <<a, b, c>>
<1>1. DOMAIN list = {1, 2, 3} /\ list[1] = a /\ list[2] = b /\ list[3] = c
  OBVIOUS
<1> SUFFICES ListFits(list, Cosmos)
  OBVIOUS
<1> HIDE DEF list
<1>2. {list[i].via : i \in DOMAIN list} = Cosmos
  BY <1>1
<1> QED BY <1>1, <1>2 DEF ListFits

\* The three ways to the node, in any order.
LEMMA NodeFits ==
  ASSUME NEW n, NEW m, NEW k, NEW service, NEW method, NEW call, NEW path, NEW request, NEW query,
         IsPath(service), AllowedGRPC(service, method), call \in AllowedRPC, Whole(path, request, query)
  PROVE  /\ ListFits(<<RPC(n, call, request), GRPC(m, service, method, request), LCD(k, path, query)>>, Cosmos)
         /\ ListFits(<<GRPC(m, service, method, request), LCD(k, path, query), RPC(n, call, request)>>, Cosmos)
<1> DEFINE r == RPC(n, call, request)
           g == GRPC(m, service, method, request)
           l == LCD(k, path, query)
<1>1. Allowed(r) /\ Allowed(g) /\ Allowed(l)
  BY MethodIsAllowed, QueryIsAllowed, RouteIsAllowed
<1>2. r.passes = request /\ g.passes = request /\ l.passes = request
  BY FieldsOfBindings DEF Whole
<1>3. r.via = "rpc" /\ g.via = "grpc" /\ l.via = "lcd"
  BY FieldsOfBindings
<1>4. {r.via, g.via, l.via} = Cosmos /\ {g.via, l.via, r.via} = Cosmos
  BY <1>3 DEF Cosmos
<1>5. r.name # g.name /\ g.name # l.name /\ r.name # l.name
  BY FieldsOfBindings, NamesDiffer
<1> HIDE DEF r, g, l
<1>6. ListFits(<<r, g, l>>, Cosmos) /\ ListFits(<<g, l, r>>, Cosmos)
  BY <1>1, <1>2, <1>4, <1>5, ThreeFit
<1> QED BY <1>6 DEF r, g, l

\* The arguments of a request are in the query, or the only one is in the path.
LEMMA WholePaths ==
  /\ \A parts, query : Whole(Fixed(parts), query, query)
  /\ \A parts, x, value : Whole(Fixed(parts) ++ Arg(x, value), {x}, {})
  BY FieldsOfPaths DEF Whole

\* A query, with the endpoints that serve it.
QueryFits(q) ==
    \/ q.tool \in StateTools /\ q.source = "any" /\ ListFits(q.bindings, {"grpc", "lcd"})
    \/ q.tool \in NodeTools /\ q.source = "any" /\ q.height = "none" /\ ListFits(q.bindings, Cosmos)
    \/ /\ q.tool = "chain_status" /\ q.source \in {"grpc", "lcd"} /\ q.height = "none"
       /\ ListFits(q.bindings, {q.source})
    \/ /\ q.tool = "simulate_transaction" /\ q.source = "any" /\ q.height = "none"
       /\ ListFits(q.bindings, {"grpc"})

LEMMA NodeQueriesFit == ASSUME NEW in \in Inputs, NEW q \in NodeQueries(in) PROVE QueryFits(q)
<1>1. CASE q.capability \in {"chain_sync:grpc", "chain_sync:lcd"}
  <2>1. /\ Allowed(GRPC(<<"syncing">>, NodeService, "GetSyncing", {}))
        /\ Allowed(LCD(<<"syncing">>, Fixed(NodeRoutes \o <<"syncing">>), {}))
    BY NodeServices, QueryIsAllowed, RouteIsAllowed
  <2>2. ListFits(q.bindings, {q.source})
    BY <1>1, <2>1, NodeBindings, OneFits, FieldsOfBindings
  <2> QED BY <1>1, <2>2, NodeBindings DEF QueryFits
<1>2. CASE q.capability \notin {"chain_sync:grpc", "chain_sync:lcd"}
  <2>1. /\ {"status", "block", "tx"} \subseteq AllowedRPC
        /\ Whole(PastBlock, {"height"}, {}) /\ Whole(LatestBlock, {}, {})
        /\ \A value : Whole(TxRoutes ++ Arg("value", value), {"value"}, {})
        /\ Whole(Fixed(NodeRoutes \o <<"node_info">>), {}, {})
    BY WholePaths, WholeRoute DEF AllowedRPC, PastBlock, LatestBlock, TxRoutes
  <2>2. ListFits(q.bindings, Cosmos)
    <3>1. CASE q.capability = "chain_status"
      <4>1. ListFits(<<RPC(<<"status">>, "status", {}), GRPC(<<"node_info">>, NodeService, "GetNodeInfo", {}),
                       LCD(<<"node_info">>, Fixed(NodeRoutes \o <<"node_info">>), {})>>, Cosmos)
        BY <2>1, NodeServices, NodeFits
      <4> QED BY <3>1, <4>1, NodeBindings
    <3>2. CASE q.capability = "block:height"
      <4>1. ListFits(<<RPC(<<"block">>, "block", {"height"}),
                       GRPC(<<"block">>, NodeService, "GetBlockByHeight", {"height"}),
                       LCD(<<"block">>, PastBlock, {})>>, Cosmos)
        BY <2>1, NodeServices, NodeFits
      <4> QED BY <3>2, <4>1, NodeBindings
    <3>3. CASE q.capability = "block:latest"
      <4>1. ListFits(<<RPC(<<"block">>, "block", {}), GRPC(<<"block">>, NodeService, "GetLatestBlock", {}),
                       LCD(<<"block">>, LatestBlock, {})>>, Cosmos)
        BY <2>1, NodeServices, NodeFits
      <4> QED BY <3>3, <4>1, NodeBindings
    <3>4. CASE q.capability = "transaction"
      <4>1. ListFits(<<GRPC(<<"get_tx">>, TxService, "GetTx", {"value"}),
                       LCD(<<"get_tx">>, TxRoutes ++ Arg("value", in.value), {}),
                       RPC(<<"tx">>, "tx", {"value"})>>, Cosmos)
        BY <2>1, NodeServices, NodeFits
      <4> QED BY <3>4, <4>1, NodeBindings
    <3> QED BY <1>2, <3>1, <3>2, <3>3, <3>4, NodeBindings
  <2>3. q.tool \in NodeTools /\ q.source = "any" /\ q.height = "none"
    BY <1>2, NodeBindings DEF NodeTools
  <2> QED BY <2>2, <2>3 DEF QueryFits
<1> QED BY <1>1, <1>2

LEMMA TransactionQueriesFit == ASSUME NEW in, NEW q \in TransactionQueries(in) PROVE QueryFits(q)
<1>1. CASE q.capability = "transaction_search"
  <2>1. /\ "tx_search" \in AllowedRPC /\ "search_transactions" \in NodeTools
        /\ Whole(TxRoutes, {"value", "page"}, {"value", "page"})
    BY WholePaths DEF AllowedRPC, NodeTools, TxRoutes
  <2>2. ListFits(q.bindings, Cosmos)
    <3>1. ListFits(<<GRPC(<<"tx_search">>, TxService, "GetTxsEvent", {"value", "page"}),
                     LCD(<<"tx_search">>, TxRoutes, {"value", "page"}),
                     RPC(<<"tx_search">>, "tx_search", {"value", "page"})>>, Cosmos)
      BY <2>1, NodeServices, NodeFits
    <3> QED BY <1>1, <3>1, TransactionBindings
  <2> QED BY <1>1, <2>1, <2>2, TransactionBindings DEF QueryFits
<1>2. CASE q.capability = "transaction_simulation"
  <2>1. Allowed(GRPC(<<"simulate">>, TxService, "Simulate", {"value"}))
    BY NodeServices, QueryIsAllowed
  <2>2. ListFits(q.bindings, {"grpc"})
    BY <1>2, <2>1, TransactionBindings, OneFits, FieldsOfBindings
  <2> QED BY <1>2, <2>2, TransactionBindings DEF QueryFits
<1> QED BY <1>1, <1>2, TransactionBindings

\* The queries of a state tool, served over gRPC and LCD.
StateFits(q) == q.tool \in StateTools /\ q.source = "any" /\ ListFits(q.bindings, {"grpc", "lcd"})

LEMMA BankFit == ASSUME NEW in \in Inputs, NEW q \in BankQueries(in) PROVE StateFits(q)
<1>1. q.source = "any" /\ q.tool \in StateTools
  BY BankBindings DEF StateTools
<1>2. CASE q.capability = "account"
  <2> DEFINE path == Fixed(<<"accounts">>) ++ Arg("value", in.value)
  <2>1. Whole(path, {"value"}, {})
    BY FieldsOfPaths DEF Whole
  <2>2. ListFits(Pair("auth_account", "auth", "Account", path, {"value"}, {}), {"grpc", "lcd"})
    BY <2>1, ModuleFits
  <2> QED BY <1>1, <1>2, <2>2, BankBindings DEF StateFits
<1>3. CASE q.capability = "balance"
  <2> DEFINE path == Fixed(<<"balances">>) ++ Arg("value", in.value) ++ Fixed(<<"by_denom">>)
  <2>1. Whole(path, {"value", "other"}, {"other"})
    BY FieldsOfPaths DEF Whole
  <2>2. ListFits(Pair("balance", "bank", "Balance", path,
                      {"value", "other"}, {"other"}), {"grpc", "lcd"})
    BY <2>1, ModuleFits
  <2> QED BY <1>1, <1>3, <2>2, BankBindings DEF StateFits
<1>4. CASE q.capability = "balances"
  <2> DEFINE path == Fixed(<<"balances">>) ++ Arg("value", in.value)
  <2>1. Whole(path, {"value", "page"}, {"page"})
    BY FieldsOfPaths DEF Whole
  <2>2. ListFits(Pair("all_balances", "bank", "AllBalances", path,
                      {"value", "page"}, {"page"}), {"grpc", "lcd"})
    BY <2>1, ModuleFits
  <2> QED BY <1>1, <1>4, <2>2, BankBindings DEF StateFits
<1>5. CASE q.capability = "token_supply"
  <2> DEFINE path == Fixed(<<"supply", "by_denom">>)
  <2>1. Whole(path, {"value"}, {"value"})
    BY FieldsOfPaths DEF Whole
  <2>2. ListFits(Pair("supply", "bank", "SupplyOf", path, {"value"}, {"value"}), {"grpc", "lcd"})
    BY <2>1, ModuleFits
  <2> QED BY <1>1, <1>5, <2>2, BankBindings DEF StateFits
<1>6. CASE q.capability = "token_metadata"
  <2> DEFINE path == Fixed(<<"denoms_metadata">>) ++ Arg("value", in.value)
  <2>1. Whole(path, {"value"}, {})
    BY FieldsOfPaths DEF Whole
  <2>2. ListFits(Pair("metadata", "bank", "DenomMetadata", path, {"value"}, {}), {"grpc", "lcd"})
    BY <2>1, ModuleFits
  <2> QED BY <1>1, <1>6, <2>2, BankBindings DEF StateFits
<1>7. CASE q.capability = "denom_trace"
  BY <1>1, <1>7, BankBindings, TraceFits DEF StateFits
<1> QED BY <1>2, <1>3, <1>4, <1>5, <1>6, <1>7, BankBindings

LEMMA StakingFit == ASSUME NEW in \in Inputs, NEW q \in StakingQueries(in) PROVE StateFits(q)
<1>1. q.source = "any" /\ q.tool \in StateTools
  BY StakingBindings DEF StateTools
<1>2. CASE q.capability = "staking_validators"
  <2> DEFINE path == Fixed(<<"validators">>)
  <2>1. Whole(path, {"page"} \cup Filter(in), {"page"} \cup Filter(in))
    BY FieldsOfPaths DEF Whole
  <2>2. ListFits(Pair("staking_validators", "staking", "Validators", path,
                      {"page"} \cup Filter(in), {"page"} \cup Filter(in)), {"grpc", "lcd"})
    BY <2>1, ModuleFits
  <2> QED BY <1>1, <1>2, <2>2, StakingBindings DEF StateFits
<1>3. CASE q.capability = "staking_validator"
  <2> DEFINE path == Fixed(<<"validators">>) ++ Arg("value", in.value)
  <2>1. Whole(path, {"value"}, {})
    BY FieldsOfPaths DEF Whole
  <2>2. ListFits(Pair("staking_validator", "staking", "Validator", path,
                      {"value"}, {}), {"grpc", "lcd"})
    BY <2>1, ModuleFits
  <2> QED BY <1>1, <1>3, <2>2, StakingBindings DEF StateFits
<1>4. CASE q.capability = "delegations"
  <2> DEFINE path == Fixed(<<"delegations">>) ++ Arg("value", in.value)
  <2>1. Whole(path, {"value", "page"}, {"page"})
    BY FieldsOfPaths DEF Whole
  <2>2. ListFits(Pair("delegations", "staking", "DelegatorDelegations", path,
                      {"value", "page"}, {"page"}), {"grpc", "lcd"})
    BY <2>1, ModuleFits
  <2> QED BY <1>1, <1>4, <2>2, StakingBindings DEF StateFits
<1>5. CASE q.capability = "unbonding_delegations"
  <2> DEFINE path == Fixed(<<"delegators">>) ++ Arg("value", in.value)
                     ++ Fixed(<<"unbonding_delegations">>)
  <2>1. Whole(path, {"value", "page"}, {"page"})
    BY FieldsOfPaths DEF Whole
  <2>2. ListFits(Pair("unbonding_delegations", "staking", "DelegatorUnbondingDelegations", path,
                      {"value", "page"}, {"page"}), {"grpc", "lcd"})
    BY <2>1, ModuleFits
  <2> QED BY <1>1, <1>5, <2>2, StakingBindings DEF StateFits
<1>6. CASE q.capability = "delegation_rewards"
  <2> DEFINE path == Fixed(<<"delegators">>) ++ Arg("value", in.value)
                     ++ Fixed(<<"rewards">>) ++ Arg("other", in.other)
  <2>1. Whole(path, {"value", "other"}, {})
    BY FieldsOfPaths DEF Whole
  <2>2. ListFits(Pair("delegation_rewards", "distribution", "DelegationRewards", path,
                      {"value", "other"}, {}), {"grpc", "lcd"})
    BY <2>1, ModuleFits
  <2> QED BY <1>1, <1>6, <2>2, StakingBindings DEF StateFits
<1>7. CASE q.capability = "total_rewards"
  <2> DEFINE path == Fixed(<<"delegators">>) ++ Arg("value", in.value) ++ Fixed(<<"rewards">>)
  <2>1. Whole(path, {"value"}, {})
    BY FieldsOfPaths DEF Whole
  <2>2. ListFits(Pair("total_rewards", "distribution", "DelegationTotalRewards", path,
                      {"value"}, {}), {"grpc", "lcd"})
    BY <2>1, ModuleFits
  <2> QED BY <1>1, <1>7, <2>2, StakingBindings DEF StateFits
<1> QED BY <1>2, <1>3, <1>4, <1>5, <1>6, <1>7, StakingBindings

LEMMA DelegationFit == ASSUME NEW in \in Inputs, NEW q \in DelegationQueries(in) PROVE StateFits(q)
<1>1. q.source = "any" /\ q.tool \in StateTools
  BY DelegationBindings DEF StateTools
<1>2. CASE q.capability = "redelegations"
  <2> DEFINE path == Fixed(<<"delegators">>) ++ Arg("value", in.value) ++ Fixed(<<"redelegations">>)
  <2>1. Whole(path, {"value", "page"} \cup Filter(in), {"page"} \cup Filter(in))
    BY FieldsOfPaths DEF Whole
  <2>2. ListFits(Pair("redelegations", "staking", "Redelegations", path,
                      {"value", "page"} \cup Filter(in), {"page"} \cup Filter(in)), {"grpc", "lcd"})
    BY <2>1, ModuleFits
  <2> QED BY <1>1, <1>2, <2>2, DelegationBindings DEF StateFits
<1>3. CASE q.capability = "validator_delegations"
  <2> DEFINE path == Fixed(<<"validators">>) ++ Arg("value", in.value) ++ Fixed(<<"delegations">>)
  <2>1. Whole(path, {"value", "page"}, {"page"})
    BY FieldsOfPaths DEF Whole
  <2>2. ListFits(Pair("validator_delegations", "staking", "ValidatorDelegations", path,
                      {"value", "page"}, {"page"}), {"grpc", "lcd"})
    BY <2>1, ModuleFits
  <2> QED BY <1>1, <1>3, <2>2, DelegationBindings DEF StateFits
<1>4. CASE q.capability = "staking_pool"
  <2> DEFINE path == Fixed(<<"pool">>)
  <2>1. Whole(path, {}, {})
    BY FieldsOfPaths DEF Whole
  <2>2. ListFits(ModuleBindings("staking", "Pool", path, {}, {}), {"grpc", "lcd"})
    BY <2>1, ModuleFits
  <2> QED BY <1>1, <1>4, <2>2, DelegationBindings DEF StateFits
<1> QED BY <1>2, <1>3, <1>4, DelegationBindings

LEMMA GovFit == ASSUME NEW in \in Inputs, NEW q \in GovQueries(in) PROVE StateFits(q)
<1>1. q.source = "any" /\ q.tool \in StateTools
  BY GovQueryBindings DEF StateTools
<1>2. CASE q.capability = "governance_proposals"
  <2> DEFINE path == Fixed(<<"proposals">>)
  <2>1. Whole(path, {"page"} \cup Filter(in), {"page"} \cup Filter(in))
    BY FieldsOfPaths DEF Whole
  <2>2. ListFits(GovBindings("proposals", "Proposals", path,
                             {"page"} \cup Filter(in), {"page"} \cup Filter(in)), {"grpc", "lcd"})
    BY <2>1, GovFits
  <2> QED BY <1>1, <1>2, <2>2, GovQueryBindings DEF StateFits
<1>3. CASE q.capability = "governance_proposal"
  <2> DEFINE path == Fixed(<<"proposals">>) ++ Arg("value", in.value)
  <2>1. Whole(path, {"value"}, {})
    BY FieldsOfPaths DEF Whole
  <2>2. ListFits(GovBindings("proposal", "Proposal", path, {"value"}, {}), {"grpc", "lcd"})
    BY <2>1, GovFits
  <2> QED BY <1>1, <1>3, <2>2, GovQueryBindings DEF StateFits
<1>4. CASE q.capability = "governance_tally"
  <2> DEFINE path == Fixed(<<"proposals">>) ++ Arg("value", in.value) ++ Fixed(<<"tally">>)
  <2>1. Whole(path, {"value"}, {})
    BY FieldsOfPaths DEF Whole
  <2>2. ListFits(GovBindings("tally", "TallyResult", path, {"value"}, {}), {"grpc", "lcd"})
    BY <2>1, GovFits
  <2> QED BY <1>1, <1>4, <2>2, GovQueryBindings DEF StateFits
<1>5. CASE q.capability = "governance_vote"
  <2> DEFINE path == Fixed(<<"proposals">>) ++ Arg("value", in.value)
                     ++ Fixed(<<"votes">>) ++ Arg("other", in.other)
  <2>1. Whole(path, {"value", "other"}, {})
    BY FieldsOfPaths DEF Whole
  <2>2. ListFits(GovBindings("vote", "Vote", path, {"value", "other"}, {}), {"grpc", "lcd"})
    BY <2>1, GovFits
  <2> QED BY <1>1, <1>5, <2>2, GovQueryBindings DEF StateFits
<1>6. CASE q.capability = "governance_votes"
  <2> DEFINE path == Fixed(<<"proposals">>) ++ Arg("value", in.value) ++ Fixed(<<"votes">>)
  <2>1. Whole(path, {"value", "page"}, {"page"})
    BY FieldsOfPaths DEF Whole
  <2>2. ListFits(GovBindings("votes", "Votes", path, {"value", "page"}, {"page"}), {"grpc", "lcd"})
    BY <2>1, GovFits
  <2> QED BY <1>1, <1>6, <2>2, GovQueryBindings DEF StateFits
<1>7. CASE q.capability = "governance_deposit"
  <2> DEFINE path == Fixed(<<"proposals">>) ++ Arg("value", in.value)
                     ++ Fixed(<<"deposits">>) ++ Arg("other", in.other)
  <2>1. Whole(path, {"value", "other"}, {})
    BY FieldsOfPaths DEF Whole
  <2>2. ListFits(GovBindings("deposit", "Deposit", path, {"value", "other"}, {}), {"grpc", "lcd"})
    BY <2>1, GovFits
  <2> QED BY <1>1, <1>7, <2>2, GovQueryBindings DEF StateFits
<1>8. CASE q.capability = "governance_deposits"
  <2> DEFINE path == Fixed(<<"proposals">>) ++ Arg("value", in.value) ++ Fixed(<<"deposits">>)
  <2>1. Whole(path, {"value", "page"}, {"page"})
    BY FieldsOfPaths DEF Whole
  <2>2. ListFits(GovBindings("deposits", "Deposits", path,
                             {"value", "page"}, {"page"}), {"grpc", "lcd"})
    BY <2>1, GovFits
  <2> QED BY <1>1, <1>8, <2>2, GovQueryBindings DEF StateFits
<1> QED BY <1>2, <1>3, <1>4, <1>5, <1>6, <1>7, <1>8, GovQueryBindings

LEMMA GovParamsFit == ASSUME NEW in \in Inputs, NEW q \in GovParamsQueries(in) PROVE StateFits(q)
<1>1. q.source = "any" /\ q.tool \in StateTools
  BY GovParamsQueryBindings DEF StateTools
<1>2. CASE q.capability = "governance_params"
  <2> DEFINE path == Fixed(<<"params">>) ++ Arg("type", <<"voting">>)
  <2>1. Whole(path, {"type"}, {})
    BY FieldsOfPaths DEF Whole
  <2>2. ListFits(GovBindings("params_voting", "Params", path, {"type"}, {}), {"grpc", "lcd"})
    BY <2>1, GovFits
  <2> QED BY <1>1, <1>2, <2>2, GovParamsQueryBindings DEF StateFits
<1>3. CASE q.capability = "governance_params_deposit"
  <2> DEFINE path == Fixed(<<"params">>) ++ Arg("type", <<"deposit">>)
  <2>1. Whole(path, {"type"}, {})
    BY FieldsOfPaths DEF Whole
  <2>2. ListFits(GovBindings("params_deposit", "Params", path, {"type"}, {}), {"grpc", "lcd"})
    BY <2>1, GovFits
  <2> QED BY <1>1, <1>3, <2>2, GovParamsQueryBindings DEF StateFits
<1>4. CASE q.capability = "governance_params_tallying"
  <2> DEFINE path == Fixed(<<"params">>) ++ Arg("type", <<"tallying">>)
  <2>1. Whole(path, {"type"}, {})
    BY FieldsOfPaths DEF Whole
  <2>2. ListFits(GovBindings("params_tallying", "Params", path, {"type"}, {}), {"grpc", "lcd"})
    BY <2>1, GovFits
  <2> QED BY <1>1, <1>4, <2>2, GovParamsQueryBindings DEF StateFits
<1> QED BY <1>2, <1>3, <1>4, GovParamsQueryBindings

LEMMA StateQueriesFit ==
  ASSUME NEW in \in Inputs,
         NEW q \in UNION {BankQueries(in), StakingQueries(in), DelegationQueries(in), ModuleQueries(in),
                          ParamsQueries(in), GovQueries(in), GovParamsQueries(in)}
  PROVE  StateFits(q)
<1>1. CASE q \in ModuleQueries(in)
  BY <1>1, ModuleQueryBindings, WholePaths, ModuleFits, TraceFits DEF StateTools, StateFits
<1>2. CASE q \in ParamsQueries(in)
  BY <1>2, ParamsBindings, WholePaths, ModuleFits DEF StateFits
<1> QED BY <1>1, <1>2, BankFit, StakingFit, DelegationFit, GovFit, GovParamsFit

LEMMA QueriesFit == \A q \in Queries : QueryFits(q)
<1> SUFFICES ASSUME NEW in \in Inputs, NEW q \in QueriesOf(in) PROVE QueryFits(q)
  BY DEF Queries
<1>1. CASE q \in NodeQueries(in) \cup TransactionQueries(in)
  BY <1>1, NodeQueriesFit, TransactionQueriesFit
<1>2. CASE q \notin NodeQueries(in) \cup TransactionQueries(in)
  BY <1>2, StateQueriesFit DEF QueriesOf, QueryFits, StateFits
<1> QED BY <1>1, <1>2

-----------------------------------------------------------------------------
(* Every tool has a query that is accepted.                                  *)

\* The arguments of a call with one value, and nothing else.
Plain(in) ==
    /\ in \in Inputs /\ in.other = << >> /\ in.page = "none" /\ in.height = "none"
    /\ SafeValue(in.value)

LEMMA SomePlain == \E in : Plain(in)
<1>1. PICK v \in Values : SafeValue(v)
  BY ValueAssumption
<1> DEFINE in == [value |-> v, other |-> << >>, page |-> "none", height |-> "none"]
<1>2. in \in Inputs
  BY DEF Inputs, PageRequests, Heights
<1>3. Plain(in)
  BY <1>1, <1>2 DEF Plain
<1> QED BY <1>3

LEMMA PlainIsAccepted ==
  ASSUME NEW in, Plain(in)
  PROVE  /\ HeightOK(in) /\ PageOK(in) /\ ~ Given(in) /\ ~ Pinned(in)
         /\ NotBlank(in.value) /\ Optional(in.other) /\ Hash(in.value) = in.value
<1>1. HeightOK(in) /\ PageOK(in) /\ ~ Pinned(in)
  BY DEF Plain, HeightOK, PageOK, Pinned
<1>2. ~ Given(in) /\ Optional(in.other)
  BY DEF Plain, Given, Optional
<1>3. Len(in.value) = 1 /\ NotBlank(in.value)
  BY DEF Plain, SafeValue, NotBlank
<1>4. ~ IsIBC(in.value)
  BY <1>3 DEF IsIBC
<1> QED BY <1>1, <1>2, <1>3, <1>4 DEF Hash

LEMMA BankCalls ==
  ASSUME NEW in, Plain(in)
  PROVE  \A tool \in {"get_account", "get_balances", "get_token_info"} :
            \E q \in BankQueries(in) : q.tool = tool
<1>1. \E q \in BankQueries(in) : q.tool = "get_account"
  BY PlainIsAccepted, FieldsOfQuery DEF BankQueries, Simple, When, Plain
<1>2. \E q \in BankQueries(in) : q.tool = "get_balances"
  BY PlainIsAccepted, FieldsOfQuery DEF BankQueries, Simple, When, Plain
<1>3. \E q \in BankQueries(in) : q.tool = "get_token_info"
  BY PlainIsAccepted, FieldsOfQuery DEF BankQueries, Simple, When
<1> QED BY <1>1, <1>2, <1>3

LEMMA StakingCalls ==
  ASSUME NEW in, Plain(in)
  PROVE  \A tool \in {"get_validators", "get_validator", "get_delegations",
                      "get_unbonding_delegations", "get_rewards"} :
            \E q \in StakingQueries(in) : q.tool = tool
  BY PlainIsAccepted, FieldsOfQuery DEF StakingQueries, Simple, When, Plain

LEMMA DelegationCalls ==
  ASSUME NEW in, Plain(in)
  PROVE  \A tool \in {"get_redelegations", "get_validator_delegations", "get_staking_pool"} :
            \E q \in DelegationQueries(in) : q.tool = tool
  BY PlainIsAccepted, FieldsOfQuery DEF DelegationQueries, RedelegationsQuery, Simple, When, Plain

LEMMA ModuleCalls ==
  ASSUME NEW in, Plain(in)
  PROVE  \A tool \in {"get_community_pool", "get_total_supply",
                      "get_signing_infos", "get_denom_trace", "get_inflation"} :
            \E q \in ModuleQueries(in) : q.tool = tool
  BY PlainIsAccepted, FieldsOfQuery DEF ModuleQueries, Simple, When, Plain

LEMMA ParamsCalls ==
  ASSUME NEW in, Plain(in)
  PROVE  \A tool \in {"get_staking_params", "get_distribution_params",
                      "get_mint_params", "get_slashing_params", "get_bank_params"} :
            \E q \in ParamsQueries(in) : q.tool = tool
  BY PlainIsAccepted, FieldsOfQuery DEF ParamsQueries, Simple, When, Plain, ParamsQuery

LEMMA GovCalls ==
  ASSUME NEW in, Plain(in)
  PROVE  \A tool \in {"get_proposals", "get_proposal", "get_proposal_tally",
                      "get_proposal_votes", "get_proposal_deposits"} :
            \E q \in GovQueries(in) : q.tool = tool
  BY PlainIsAccepted, FieldsOfQuery DEF GovQueries, Simple, When, Plain, OneOrAll, Asking

LEMMA GovParamsCalls ==
  ASSUME NEW in, Plain(in)
  PROVE  \A tool \in {"get_gov_params"} :
            \E q \in GovParamsQueries(in) : q.tool = tool
  BY PlainIsAccepted, FieldsOfQuery DEF GovParamsQueries, Simple, When, Plain

LEMMA NodeCalls ==
  ASSUME NEW in, Plain(in)
  PROVE  \A tool \in {"chain_status", "get_block", "get_transaction"} :
            \E q \in NodeQueries(in) : q.tool = tool /\ q.source = "any"
<1>1. \E q \in NodeQueries(in) : q.tool = "chain_status" /\ q.source = "any"
  BY FieldsOfQuery DEF NodeQueries
<1>2. \E q \in NodeQueries(in) : q.tool = "get_block" /\ q.source = "any"
  BY PlainIsAccepted, FieldsOfQuery DEF NodeQueries, When
<1>3. \E q \in NodeQueries(in) : q.tool = "get_transaction" /\ q.source = "any"
  BY FieldsOfQuery DEF NodeQueries, When, Plain
<1> QED BY <1>1, <1>2, <1>3

LEMMA TransactionCalls ==
  ASSUME NEW in, Plain(in)
  PROVE  \A tool \in {"search_transactions", "simulate_transaction"} :
            \E q \in TransactionQueries(in) : q.tool = tool
  BY PlainIsAccepted, FieldsOfQuery DEF TransactionQueries, Simple, When, Plain

-----------------------------------------------------------------------------
(* Two queries of one capability have the same bindings for a session.       *)

\* An argument in a path, and two of them.
LEMMA TwinPaths ==
  ASSUME NEW one \in Values, NEW other \in Values, SafeValue(one), SafeValue(other)
  PROVE  /\ \A a, x : a # "" =>
               Twins(Fixed(<<a>>) ++ Arg(x, one), Fixed(<<a>>) ++ Arg(x, other))
         /\ \A a, x, b : a # "" /\ b # "" =>
               Twins(Fixed(<<a>>) ++ Arg(x, one) ++ Fixed(<<b>>),
                     Fixed(<<a>>) ++ Arg(x, other) ++ Fixed(<<b>>))
<1>1. ASSUME NEW a, NEW x, a # ""
      PROVE  Twins(Fixed(<<a>>) ++ Arg(x, one), Fixed(<<a>>) ++ Arg(x, other))
  <2>1. Twins(Fixed(<<a>>), Fixed(<<a>>)) /\ Twins(Arg(x, one), Arg(x, other))
    BY <1>1, TwinValues, TwinPieces
  <2> QED BY <2>1, TwinPieces
<1>2. ASSUME NEW a, NEW x, NEW b, a # "", b # ""
      PROVE  Twins(Fixed(<<a>>) ++ Arg(x, one) ++ Fixed(<<b>>),
                   Fixed(<<a>>) ++ Arg(x, other) ++ Fixed(<<b>>))
  <2>1. /\ Twins(Fixed(<<a>>) ++ Arg(x, one), Fixed(<<a>>) ++ Arg(x, other))
        /\ Twins(Fixed(<<b>>), Fixed(<<b>>))
    BY <1>1, <1>2, TwinPieces
  <2> QED BY <2>1, TwinPieces
<1> QED BY <1>1, <1>2

LEMMA TwinLongPaths ==
  ASSUME NEW one \in Values, NEW other \in Values, SafeValue(one), SafeValue(other),
         NEW more \in Values, NEW less \in Values, SafeValue(more), SafeValue(less)
  PROVE  \A a, x, b, y : a # "" /\ b # "" =>
            Twins(Fixed(<<a>>) ++ Arg(x, one) ++ Fixed(<<b>>) ++ Arg(y, more),
                  Fixed(<<a>>) ++ Arg(x, other) ++ Fixed(<<b>>) ++ Arg(y, less))
<1> SUFFICES ASSUME NEW a, NEW x, NEW b, NEW y, a # "", b # ""
             PROVE  Twins(Fixed(<<a>>) ++ Arg(x, one) ++ Fixed(<<b>>) ++ Arg(y, more),
                          Fixed(<<a>>) ++ Arg(x, other) ++ Fixed(<<b>>) ++ Arg(y, less))
  OBVIOUS
<1>1. Twins(Fixed(<<a>>) ++ Arg(x, one) ++ Fixed(<<b>>),
            Fixed(<<a>>) ++ Arg(x, other) ++ Fixed(<<b>>))
  BY TwinPaths
<1>2. Twins(Arg(y, more), Arg(y, less))
  BY TwinValues, TwinPieces
<1> QED BY <1>1, <1>2, TwinPieces

LEMMA SameLists == \A capability, list : Alike(capability, list, list)
  BY SameOfSame DEF Alike, SameBinding

LEMMA BankAlike ==
  ASSUME NEW in \in Inputs, NEW to \in Inputs, NEW q \in BankQueries(in), NEW r \in BankQueries(to),
         q.capability = r.capability
  PROVE  Alike(q.capability, q.bindings, r.bindings)
<1> in.value \in Values /\ to.value \in Values
  BY DEF Inputs
<1>1. CASE q.capability = "account"
  <2> DEFINE path(x) == Fixed(<<"accounts">>) ++ Arg("value", x.value)
             bindings(x) == Pair("auth_account", "auth", "Account", path(x), {"value"}, {})
  <2>1. SafeValue(in.value) /\ SafeValue(to.value)
    BY <1>1, BankBindings
  <2>2. Twins(path(in), path(to))
    BY <2>1, TwinPaths
  <2>3. Alike(q.capability, bindings(in), bindings(to))
    BY <2>2, PairsAlike
  <2> QED BY <1>1, <2>3, BankBindings
<1>2. CASE q.capability = "balance"
  <2> DEFINE path(x) == Fixed(<<"balances">>) ++ Arg("value", x.value) ++ Fixed(<<"by_denom">>)
             bindings(x) == Pair("balance", "bank", "Balance", path(x), {"value", "other"}, {"other"})
  <2>1. SafeValue(in.value) /\ SafeValue(to.value)
    BY <1>2, BankBindings
  <2>2. Twins(path(in), path(to))
    BY <2>1, TwinPaths
  <2>3. Alike(q.capability, bindings(in), bindings(to))
    BY <2>2, PairsAlike
  <2> QED BY <1>2, <2>3, BankBindings
<1>3. CASE q.capability = "balances"
  <2> DEFINE path(x) == Fixed(<<"balances">>) ++ Arg("value", x.value)
             bindings(x) == Pair("all_balances", "bank", "AllBalances", path(x),
                                 {"value", "page"}, {"page"})
  <2>1. SafeValue(in.value) /\ SafeValue(to.value)
    BY <1>3, BankBindings
  <2>2. Twins(path(in), path(to))
    BY <2>1, TwinPaths
  <2>3. Alike(q.capability, bindings(in), bindings(to))
    BY <2>2, PairsAlike
  <2> QED BY <1>3, <2>3, BankBindings
<1>4. CASE q.capability = "token_supply"
  BY <1>4, BankBindings, SameLists
<1>5. CASE q.capability = "token_metadata"
  <2> DEFINE bindings(x) == Pair("metadata", "bank", "DenomMetadata",
                                 Fixed(<<"denoms_metadata">>) ++ Arg("value", x.value), {"value"}, {})
  <2>1. q.capability \in Denominations
    BY <1>5 DEF Denominations
  <2>2. Alike(q.capability, bindings(in), bindings(to))
    BY <2>1, PairsAlike
  <2> QED BY <1>5, <2>2, BankBindings
<1>6. CASE q.capability = "denom_trace"
  <2>1. Alike("denom_trace", DenomTraceBindings(Hash(in.value)), DenomTraceBindings(Hash(to.value)))
    BY TracesAlike
  <2> QED BY <1>6, <2>1, BankBindings
<1> QED BY <1>1, <1>2, <1>3, <1>4, <1>5, <1>6, BankBindings

LEMMA StakingAlike ==
  ASSUME NEW in \in Inputs, NEW to \in Inputs, NEW q \in StakingQueries(in), NEW r \in StakingQueries(to),
         q.capability = r.capability
  PROVE  Alike(q.capability, q.bindings, r.bindings)
<1> in.value \in Values /\ to.value \in Values
  BY DEF Inputs
<1>1. CASE q.capability = "staking_validators"
  <2> DEFINE filters(x) == {"page"} \cup Filter(x)
             bindings(x) == Pair("staking_validators", "staking", "Validators", Fixed(<<"validators">>),
                                 filters(x), filters(x))
  <2>1. Twins(Fixed(<<"validators">>), Fixed(<<"validators">>))
    BY TwinPieces
  <2>2. Alike(q.capability, bindings(in), bindings(to))
    BY <2>1, PairsAlike
  <2> QED BY <1>1, <2>2, StakingBindings
<1>2. CASE q.capability = "staking_validator"
  <2> DEFINE path(x) == Fixed(<<"validators">>) ++ Arg("value", x.value)
             bindings(x) == Pair("staking_validator", "staking", "Validator", path(x), {"value"}, {})
  <2>1. SafeValue(in.value) /\ SafeValue(to.value)
    BY <1>2, StakingBindings
  <2>2. Twins(path(in), path(to))
    BY <2>1, TwinPaths
  <2>3. Alike(q.capability, bindings(in), bindings(to))
    BY <2>2, PairsAlike
  <2> QED BY <1>2, <2>3, StakingBindings
<1>3. CASE q.capability = "delegations"
  <2> DEFINE path(x) == Fixed(<<"delegations">>) ++ Arg("value", x.value)
             bindings(x) == Pair("delegations", "staking", "DelegatorDelegations", path(x),
                                 {"value", "page"}, {"page"})
  <2>1. SafeValue(in.value) /\ SafeValue(to.value)
    BY <1>3, StakingBindings
  <2>2. Twins(path(in), path(to))
    BY <2>1, TwinPaths
  <2>3. Alike(q.capability, bindings(in), bindings(to))
    BY <2>2, PairsAlike
  <2> QED BY <1>3, <2>3, StakingBindings
<1>4. CASE q.capability = "unbonding_delegations"
  <2> DEFINE path(x) == Fixed(<<"delegators">>) ++ Arg("value", x.value)
                        ++ Fixed(<<"unbonding_delegations">>)
             bindings(x) == Pair("unbonding_delegations", "staking", "DelegatorUnbondingDelegations", path(x),
                                 {"value", "page"}, {"page"})
  <2>1. SafeValue(in.value) /\ SafeValue(to.value)
    BY <1>4, StakingBindings
  <2>2. Twins(path(in), path(to))
    BY <2>1, TwinPaths
  <2>3. Alike(q.capability, bindings(in), bindings(to))
    BY <2>2, PairsAlike
  <2> QED BY <1>4, <2>3, StakingBindings
<1>5. CASE q.capability = "delegation_rewards"
  <2> DEFINE path(x) == Fixed(<<"delegators">>) ++ Arg("value", x.value)
                        ++ Fixed(<<"rewards">>) ++ Arg("other", x.other)
             bindings(x) == Pair("delegation_rewards", "distribution", "DelegationRewards", path(x),
                                 {"value", "other"}, {})
  <2>1. /\ SafeValue(in.value) /\ SafeValue(to.value)
        /\ SafeValue(in.other) /\ in.other \in Values /\ SafeValue(to.other) /\ to.other \in Values
    BY <1>5, StakingBindings
  <2>2. Twins(path(in), path(to))
    BY <2>1, TwinLongPaths
  <2>3. Alike(q.capability, bindings(in), bindings(to))
    BY <2>2, PairsAlike
  <2> QED BY <1>5, <2>3, StakingBindings
<1>6. CASE q.capability = "total_rewards"
  <2> DEFINE path(x) == Fixed(<<"delegators">>) ++ Arg("value", x.value) ++ Fixed(<<"rewards">>)
             bindings(x) == Pair("total_rewards", "distribution", "DelegationTotalRewards", path(x),
                                 {"value"}, {})
  <2>1. SafeValue(in.value) /\ SafeValue(to.value)
    BY <1>6, StakingBindings
  <2>2. Twins(path(in), path(to))
    BY <2>1, TwinPaths
  <2>3. Alike(q.capability, bindings(in), bindings(to))
    BY <2>2, PairsAlike
  <2> QED BY <1>6, <2>3, StakingBindings
<1> QED BY <1>1, <1>2, <1>3, <1>4, <1>5, <1>6, StakingBindings

LEMMA DelegationAlike ==
  ASSUME NEW in \in Inputs, NEW to \in Inputs, NEW q \in DelegationQueries(in), NEW r \in DelegationQueries(to),
         q.capability = r.capability
  PROVE  Alike(q.capability, q.bindings, r.bindings)
<1> in.value \in Values /\ to.value \in Values
  BY DEF Inputs
<1>1. CASE q.capability = "redelegations"
  <2> DEFINE path(x) == Fixed(<<"delegators">>) ++ Arg("value", x.value) ++ Fixed(<<"redelegations">>)
             bindings(x) == Pair("redelegations", "staking", "Redelegations", path(x),
                                 {"value", "page"} \cup Filter(x), {"page"} \cup Filter(x))
  <2>1. SafeValue(in.value) /\ SafeValue(to.value)
    BY <1>1, DelegationBindings
  <2>2. Twins(path(in), path(to))
    BY <2>1, TwinPaths
  <2>3. Alike(q.capability, bindings(in), bindings(to))
    BY <2>2, PairsAlike
  <2> QED BY <1>1, <2>3, DelegationBindings
<1>2. CASE q.capability = "validator_delegations"
  <2> DEFINE path(x) == Fixed(<<"validators">>) ++ Arg("value", x.value) ++ Fixed(<<"delegations">>)
             bindings(x) == Pair("validator_delegations", "staking", "ValidatorDelegations", path(x),
                                 {"value", "page"}, {"page"})
  <2>1. SafeValue(in.value) /\ SafeValue(to.value)
    BY <1>2, DelegationBindings
  <2>2. Twins(path(in), path(to))
    BY <2>1, TwinPaths
  <2>3. Alike(q.capability, bindings(in), bindings(to))
    BY <2>2, PairsAlike
  <2> QED BY <1>2, <2>3, DelegationBindings
<1>3. CASE q.capability = "staking_pool"
  BY <1>3, DelegationBindings, SameLists
<1> QED BY <1>1, <1>2, <1>3, DelegationBindings

LEMMA ModuleAlike ==
  ASSUME NEW in \in Inputs, NEW to \in Inputs, NEW q \in ModuleQueries(in), NEW r \in ModuleQueries(to),
         q.capability = r.capability
  PROVE  Alike(q.capability, q.bindings, r.bindings)
<1>1. CASE q.capability = "community_pool"
  BY <1>1, ModuleQueryBindings, SameLists
<1>2. CASE q.capability = "total_supply"
  BY <1>2, ModuleQueryBindings, SameLists
<1>3. CASE q.capability = "signing_info"
  <2> DEFINE path(x) == Fixed(<<"signing_infos">>) ++ Arg("other", x.other)
             bindings(x) == ModuleBindings("slashing", "SigningInfo", path(x), {"other"}, {})
  <2>1. SafeValue(in.other) /\ in.other \in Values /\ SafeValue(to.other) /\ to.other \in Values
    BY <1>3, ModuleQueryBindings
  <2>2. Twins(path(in), path(to))
    BY <2>1, TwinPaths
  <2>3. Alike(q.capability, bindings(in), bindings(to))
    BY <2>2, PairsAlike
  <2> QED BY <1>3, <2>3, ModuleQueryBindings
<1>4. CASE q.capability = "signing_infos"
  BY <1>4, ModuleQueryBindings, SameLists
<1>5. CASE q.capability = "denom_trace"
  <2>1. Alike("denom_trace", DenomTraceBindings(Hash(in.value)), DenomTraceBindings(Hash(to.value)))
    BY TracesAlike
  <2> QED BY <1>5, <2>1, ModuleQueryBindings
<1>6. CASE q.capability = "mint_inflation"
  BY <1>6, ModuleQueryBindings, SameLists
<1>7. CASE q.capability = "mint_annual_provisions"
  BY <1>7, ModuleQueryBindings, SameLists
<1> QED BY <1>1, <1>2, <1>3, <1>4, <1>5, <1>6, <1>7, ModuleQueryBindings

LEMMA ParamsAlike ==
  ASSUME NEW in \in Inputs, NEW to \in Inputs, NEW q \in ParamsQueries(in), NEW r \in ParamsQueries(to),
         q.capability = r.capability
  PROVE  Alike(q.capability, q.bindings, r.bindings)
<1>1. CASE q.capability = "staking_params"
  BY <1>1, ParamsBindings, SameLists
<1>2. CASE q.capability = "distribution_params"
  BY <1>2, ParamsBindings, SameLists
<1>3. CASE q.capability = "mint_params"
  BY <1>3, ParamsBindings, SameLists
<1>4. CASE q.capability = "slashing_params"
  BY <1>4, ParamsBindings, SameLists
<1>5. CASE q.capability = "bank_params"
  BY <1>5, ParamsBindings, SameLists
<1> QED BY <1>1, <1>2, <1>3, <1>4, <1>5, ParamsBindings

LEMMA GovQueriesAlike ==
  ASSUME NEW in \in Inputs, NEW to \in Inputs, NEW q \in GovQueries(in), NEW r \in GovQueries(to),
         q.capability = r.capability
  PROVE  Alike(q.capability, q.bindings, r.bindings)
<1> in.value \in Values /\ to.value \in Values
  BY DEF Inputs
<1>1. CASE q.capability = "governance_proposals"
  <2> DEFINE filters(x) == {"page"} \cup Filter(x)
             bindings(x) == GovBindings("proposals", "Proposals", Fixed(<<"proposals">>),
                                        filters(x), filters(x))
  <2>1. Twins(Fixed(<<"proposals">>), Fixed(<<"proposals">>))
    BY TwinPieces
  <2>2. Alike(q.capability, bindings(in), bindings(to))
    BY <2>1, GovAlike
  <2> QED BY <1>1, <2>2, GovQueryBindings
<1>2. CASE q.capability = "governance_proposal"
  <2> DEFINE path(x) == Fixed(<<"proposals">>) ++ Arg("value", x.value)
             bindings(x) == GovBindings("proposal", "Proposal", path(x), {"value"}, {})
  <2>1. SafeValue(in.value) /\ SafeValue(to.value)
    BY <1>2, GovQueryBindings
  <2>2. Twins(path(in), path(to))
    BY <2>1, TwinPaths
  <2>3. Alike(q.capability, bindings(in), bindings(to))
    BY <2>2, GovAlike
  <2> QED BY <1>2, <2>3, GovQueryBindings
<1>3. CASE q.capability = "governance_tally"
  <2> DEFINE path(x) == Fixed(<<"proposals">>) ++ Arg("value", x.value) ++ Fixed(<<"tally">>)
             bindings(x) == GovBindings("tally", "TallyResult", path(x), {"value"}, {})
  <2>1. SafeValue(in.value) /\ SafeValue(to.value)
    BY <1>3, GovQueryBindings
  <2>2. Twins(path(in), path(to))
    BY <2>1, TwinPaths
  <2>3. Alike(q.capability, bindings(in), bindings(to))
    BY <2>2, GovAlike
  <2> QED BY <1>3, <2>3, GovQueryBindings
<1>4. CASE q.capability = "governance_vote"
  <2> DEFINE path(x) == Fixed(<<"proposals">>) ++ Arg("value", x.value)
                        ++ Fixed(<<"votes">>) ++ Arg("other", x.other)
             bindings(x) == GovBindings("vote", "Vote", path(x), {"value", "other"}, {})
  <2>1. /\ SafeValue(in.value) /\ SafeValue(to.value)
        /\ SafeValue(in.other) /\ in.other \in Values /\ SafeValue(to.other) /\ to.other \in Values
    BY <1>4, GovQueryBindings
  <2>2. Twins(path(in), path(to))
    BY <2>1, TwinLongPaths
  <2>3. Alike(q.capability, bindings(in), bindings(to))
    BY <2>2, GovAlike
  <2> QED BY <1>4, <2>3, GovQueryBindings
<1>5. CASE q.capability = "governance_votes"
  <2> DEFINE path(x) == Fixed(<<"proposals">>) ++ Arg("value", x.value) ++ Fixed(<<"votes">>)
             bindings(x) == GovBindings("votes", "Votes", path(x), {"value", "page"}, {"page"})
  <2>1. SafeValue(in.value) /\ SafeValue(to.value)
    BY <1>5, GovQueryBindings
  <2>2. Twins(path(in), path(to))
    BY <2>1, TwinPaths
  <2>3. Alike(q.capability, bindings(in), bindings(to))
    BY <2>2, GovAlike
  <2> QED BY <1>5, <2>3, GovQueryBindings
<1>6. CASE q.capability = "governance_deposit"
  <2> DEFINE path(x) == Fixed(<<"proposals">>) ++ Arg("value", x.value)
                        ++ Fixed(<<"deposits">>) ++ Arg("other", x.other)
             bindings(x) == GovBindings("deposit", "Deposit", path(x), {"value", "other"}, {})
  <2>1. /\ SafeValue(in.value) /\ SafeValue(to.value)
        /\ SafeValue(in.other) /\ in.other \in Values /\ SafeValue(to.other) /\ to.other \in Values
    BY <1>6, GovQueryBindings
  <2>2. Twins(path(in), path(to))
    BY <2>1, TwinLongPaths
  <2>3. Alike(q.capability, bindings(in), bindings(to))
    BY <2>2, GovAlike
  <2> QED BY <1>6, <2>3, GovQueryBindings
<1>7. CASE q.capability = "governance_deposits"
  <2> DEFINE path(x) == Fixed(<<"proposals">>) ++ Arg("value", x.value) ++ Fixed(<<"deposits">>)
             bindings(x) == GovBindings("deposits", "Deposits", path(x), {"value", "page"}, {"page"})
  <2>1. SafeValue(in.value) /\ SafeValue(to.value)
    BY <1>7, GovQueryBindings
  <2>2. Twins(path(in), path(to))
    BY <2>1, TwinPaths
  <2>3. Alike(q.capability, bindings(in), bindings(to))
    BY <2>2, GovAlike
  <2> QED BY <1>7, <2>3, GovQueryBindings
<1> QED BY <1>1, <1>2, <1>3, <1>4, <1>5, <1>6, <1>7, GovQueryBindings

LEMMA GovParamsAlike ==
  ASSUME NEW in \in Inputs, NEW to \in Inputs, NEW q \in GovParamsQueries(in), NEW r \in GovParamsQueries(to),
         q.capability = r.capability
  PROVE  Alike(q.capability, q.bindings, r.bindings)
<1>1. CASE q.capability = "governance_params"
  BY <1>1, GovParamsQueryBindings, SameLists
<1>2. CASE q.capability = "governance_params_deposit"
  BY <1>2, GovParamsQueryBindings, SameLists
<1>3. CASE q.capability = "governance_params_tallying"
  BY <1>3, GovParamsQueryBindings, SameLists
<1> QED BY <1>1, <1>2, <1>3, GovParamsQueryBindings

LEMMA TransactionRoutesAlike ==
  ASSUME NEW one \in Values, NEW other \in Values, SafeValue(one), SafeValue(other)
  PROVE  Alike("transaction",
               <<GRPC(<<"get_tx">>, TxService, "GetTx", {"value"}),
                 LCD(<<"get_tx">>, TxRoutes ++ Arg("value", one), {}), RPC(<<"tx">>, "tx", {"value"})>>,
               <<GRPC(<<"get_tx">>, TxService, "GetTx", {"value"}),
                 LCD(<<"get_tx">>, TxRoutes ++ Arg("value", other), {}), RPC(<<"tx">>, "tx", {"value"})>>)
<1> DEFINE g == GRPC(<<"get_tx">>, TxService, "GetTx", {"value"})
           r == RPC(<<"tx">>, "tx", {"value"})
           path(value) == TxRoutes ++ Arg("value", value)
           l(value) == LCD(<<"get_tx">>, path(value), {})
<1>1. Twins(path(one), path(other))
  <2>1. TwinParts(SDK("tx"), SDK("tx")) /\ TwinParts(<<"txs">>, <<"txs">>)
    BY TwinTuples DEF SDK
  <2>2. TwinParts(SDK("tx") \o <<"txs">>, SDK("tx") \o <<"txs">>)
    BY <2>1, TwinConcat
  <2>3. Twins(TxRoutes, TxRoutes)
    BY <2>2, FieldsOfPaths DEF Twins, TxRoutes
  <2> QED BY <2>3, TwinValues, TwinPieces
<1> HIDE DEF path
<1>2. SameBinding("transaction", l(one), l(other))
  BY <1>1, SamePath
<1>3. SameBinding("transaction", g, g) /\ SameBinding("transaction", r, r)
  BY SameMethod
<1> HIDE DEF g, r, l
<1>4. /\ DOMAIN <<g, l(one), r>> = DOMAIN <<g, l(other), r>>
      /\ \A i \in DOMAIN <<g, l(one), r>> :
            \/ <<g, l(one), r>>[i] = g /\ <<g, l(other), r>>[i] = g
            \/ <<g, l(one), r>>[i] = l(one) /\ <<g, l(other), r>>[i] = l(other)
            \/ <<g, l(one), r>>[i] = r /\ <<g, l(other), r>>[i] = r
  OBVIOUS
<1>5. Alike("transaction", <<g, l(one), r>>, <<g, l(other), r>>)
  BY <1>2, <1>3, <1>4 DEF Alike
<1> QED BY <1>5 DEF g, r, l, path

LEMMA NodeAlike ==
  ASSUME NEW in \in Inputs, NEW to \in Inputs, NEW q \in NodeQueries(in), NEW r \in NodeQueries(to),
         q.capability = r.capability
  PROVE  Alike(q.capability, q.bindings, r.bindings)
<1>1. CASE q.capability # "transaction"
  <2>1. q.bindings = r.bindings
    BY <1>1, NodeBindings
  <2> QED BY <2>1, SameLists
<1>2. CASE q.capability = "transaction"
  <2>1. in.value \in Values /\ to.value \in Values
    BY DEF Inputs
  <2>2. SafeValue(in.value) /\ SafeValue(to.value)
    BY <1>2, NodeBindings
  <2> DEFINE list(x) == <<GRPC(<<"get_tx">>, TxService, "GetTx", {"value"}),
                          LCD(<<"get_tx">>, TxRoutes ++ Arg("value", x.value), {}),
                          RPC(<<"tx">>, "tx", {"value"})>>
  <2>3. Alike("transaction", list(in), list(to))
    BY <2>1, <2>2, TransactionRoutesAlike
  <2>4. q.bindings = list(in) /\ r.bindings = list(to)
    BY <1>2, NodeBindings
  <2> QED BY <1>2, <2>3, <2>4
<1> QED BY <1>1, <1>2

LEMMA TransactionAlike ==
  ASSUME NEW in, NEW to, NEW q \in TransactionQueries(in), NEW r \in TransactionQueries(to),
         q.capability = r.capability
  PROVE  Alike(q.capability, q.bindings, r.bindings)
<1>1. q.bindings = r.bindings
  BY TransactionBindings
<1> QED BY <1>1, SameLists

\* The capabilities of each group of queries; only that of a trace is in two.
NodeKeys == {"chain_status", "chain_sync:grpc", "chain_sync:lcd", "block:height", "block:latest", "transaction"}
BankKeys == {"account", "balance", "balances", "token_supply", "token_metadata"}
StakingKeys == {"staking_validators", "staking_validator", "delegations", "unbonding_delegations",
                "delegation_rewards", "total_rewards"}
DelegationKeys == {"redelegations", "validator_delegations", "staking_pool"}
ModuleKeys == {"community_pool", "total_supply", "signing_info", "signing_infos", "mint_inflation",
               "mint_annual_provisions"}
ParamsKeys == {"staking_params", "distribution_params", "mint_params", "slashing_params", "bank_params"}
GovKeys == {"governance_proposals", "governance_proposal", "governance_tally", "governance_vote",
            "governance_votes", "governance_deposit", "governance_deposits"}
GovParamsKeys == {"governance_params", "governance_params_deposit", "governance_params_tallying"}
TransactionKeys == {"transaction_search", "transaction_simulation"}

LEMMA Groups ==
  ASSUME NEW in \in Inputs, NEW q \in QueriesOf(in)
  PROVE  \/ q.capability \in NodeKeys /\ q \in NodeQueries(in)
         \/ q.capability \in BankKeys /\ q \in BankQueries(in)
         \/ q.capability \in StakingKeys /\ q \in StakingQueries(in)
         \/ q.capability \in DelegationKeys /\ q \in DelegationQueries(in)
         \/ q.capability \in ModuleKeys /\ q \in ModuleQueries(in)
         \/ q.capability \in ParamsKeys /\ q \in ParamsQueries(in)
         \/ q.capability \in GovKeys /\ q \in GovQueries(in)
         \/ q.capability \in GovParamsKeys /\ q \in GovParamsQueries(in)
         \/ q.capability \in TransactionKeys /\ q \in TransactionQueries(in)
         \/ q.capability = "denom_trace" /\ q.bindings = DenomTraceBindings(Hash(in.value))
<1>1. CASE q \in NodeQueries(in)
  BY <1>1, NodeBindings DEF NodeKeys
<1>2. CASE q \in BankQueries(in)
  BY <1>2, BankBindings DEF BankKeys
<1>3. CASE q \in StakingQueries(in)
  BY <1>3, StakingBindings DEF StakingKeys
<1>4. CASE q \in DelegationQueries(in)
  BY <1>4, DelegationBindings DEF DelegationKeys
<1>5. CASE q \in ModuleQueries(in)
  BY <1>5, ModuleQueryBindings DEF ModuleKeys
<1>6. CASE q \in ParamsQueries(in)
  BY <1>6, ParamsBindings DEF ParamsKeys
<1>7. CASE q \in GovQueries(in)
  BY <1>7, GovQueryBindings DEF GovKeys
<1>8. CASE q \in GovParamsQueries(in)
  BY <1>8, GovParamsQueryBindings DEF GovParamsKeys
<1>9. CASE q \in TransactionQueries(in)
  BY <1>9, TransactionBindings DEF TransactionKeys
<1> QED BY <1>1, <1>2, <1>3, <1>4, <1>5, <1>6, <1>7, <1>8, <1>9 DEF QueriesOf

LEMMA KeysDiffer ==
  \A key :
     /\ key \in NodeKeys => key \notin BankKeys \cup StakingKeys \cup DelegationKeys \cup ModuleKeys
           \cup ParamsKeys \cup GovKeys \cup GovParamsKeys \cup TransactionKeys \cup {"denom_trace"}
     /\ key \in BankKeys => key \notin StakingKeys \cup DelegationKeys \cup ModuleKeys
           \cup ParamsKeys \cup GovKeys \cup GovParamsKeys \cup TransactionKeys \cup {"denom_trace"}
     /\ key \in StakingKeys => key \notin DelegationKeys \cup ModuleKeys
           \cup ParamsKeys \cup GovKeys \cup GovParamsKeys \cup TransactionKeys \cup {"denom_trace"}
     /\ key \in DelegationKeys => key \notin ModuleKeys
           \cup ParamsKeys \cup GovKeys \cup GovParamsKeys \cup TransactionKeys \cup {"denom_trace"}
     /\ key \in ModuleKeys =>
           key \notin ParamsKeys \cup GovKeys \cup GovParamsKeys \cup TransactionKeys \cup {"denom_trace"}
     /\ key \in ParamsKeys => key \notin GovKeys \cup GovParamsKeys \cup TransactionKeys \cup {"denom_trace"}
     /\ key \in GovKeys => key \notin GovParamsKeys \cup TransactionKeys \cup {"denom_trace"}
     /\ key \in GovParamsKeys => key \notin TransactionKeys \cup {"denom_trace"}
     /\ key \in TransactionKeys => key # "denom_trace"
  BY DEF NodeKeys, BankKeys, StakingKeys, DelegationKeys, ModuleKeys, ParamsKeys, GovKeys, GovParamsKeys,
         TransactionKeys

\* The queries of a capability, of whatever tool and arguments, are one for a session.
LEMMA QueriesAlike ==
  ASSUME NEW q \in Queries, NEW r \in Queries, q.capability = r.capability
  PROVE  Alike(q.capability, q.bindings, r.bindings)
<1>1. PICK in \in Inputs, to \in Inputs : q \in QueriesOf(in) /\ r \in QueriesOf(to)
  BY DEF Queries
<1>2. CASE q.capability \in NodeKeys
  BY <1>1, <1>2, Groups, KeysDiffer, NodeAlike
<1>3. CASE q.capability \in BankKeys
  BY <1>1, <1>3, Groups, KeysDiffer, BankAlike
<1>4. CASE q.capability \in StakingKeys
  BY <1>1, <1>4, Groups, KeysDiffer, StakingAlike
<1>5. CASE q.capability \in DelegationKeys
  BY <1>1, <1>5, Groups, KeysDiffer, DelegationAlike
<1>6. CASE q.capability \in ModuleKeys
  BY <1>1, <1>6, Groups, KeysDiffer, ModuleAlike
<1>7. CASE q.capability \in ParamsKeys
  BY <1>1, <1>7, Groups, KeysDiffer, ParamsAlike
<1>8. CASE q.capability \in GovKeys
  BY <1>1, <1>8, Groups, KeysDiffer, GovQueriesAlike
<1>9. CASE q.capability \in GovParamsKeys
  BY <1>1, <1>9, Groups, KeysDiffer, GovParamsAlike
<1>10. CASE q.capability \in TransactionKeys
  BY <1>1, <1>10, Groups, KeysDiffer, TransactionAlike
<1>11. CASE q.capability = "denom_trace"
  <2>1. /\ q.bindings = DenomTraceBindings(Hash(in.value))
        /\ r.bindings = DenomTraceBindings(Hash(to.value))
    BY <1>1, <1>11, Groups, KeysDiffer
  <2>2. Alike("denom_trace", DenomTraceBindings(Hash(in.value)), DenomTraceBindings(Hash(to.value)))
    BY TracesAlike
  <2> QED BY <1>11, <2>1, <2>2
<1> QED BY <1>1, <1>2, <1>3, <1>4, <1>5, <1>6, <1>7, <1>8, <1>9, <1>10, <1>11, Groups

-----------------------------------------------------------------------------
(* What holds of the queries made with some endpoints.                       *)

\* Every binding of a query passes on the same arguments, the height included.
LEMMA OneQuestion == ASSUME NEW q \in Queries PROVE Cardinality({Carried(q, b) : b \in Range(q.bindings)}) = 1
<1>1. PICK vias : ListFits(q.bindings, vias) /\ (q.height = "none" \/ "rpc" \notin vias)
  <2>1. QueryFits(q)
    BY QueriesFit
  <2>2. CASE q.tool \in StateTools /\ ListFits(q.bindings, {"grpc", "lcd"})
    <3>1. "rpc" \notin {"grpc", "lcd"}
      OBVIOUS
    <3> QED BY <2>2, <3>1
  <2>3. CASE q.height = "none"
    BY <2>1, <2>3 DEF QueryFits
  <2> QED BY <2>1, <2>2, <2>3 DEF QueryFits
<1>2. PICK passes : \A i \in DOMAIN q.bindings : q.bindings[i].passes = passes
  BY <1>1 DEF ListFits
<1> DEFINE carried == passes \cup IF q.height # "none" THEN {"height"} ELSE {}
<1>3. ASSUME NEW i \in DOMAIN q.bindings PROVE Carried(q, q.bindings[i]) = carried
  <2>1. q.bindings[i].via \in vias
    BY <1>1 DEF ListFits
  <2> QED BY <1>1, <1>2, <2>1 DEF Carried
<1>4. DOMAIN q.bindings # {}
  BY <1>1 DEF ListFits
<1>5. {Carried(q, b) : b \in Range(q.bindings)} = {carried}
  BY <1>3, <1>4 DEF Range
<1> QED BY <1>5, FS_Singleton

LEMMA UsableList ==
  ASSUME NEW q, NEW vias, NEW endpoints, ListFits(q.bindings, vias)
  PROVE  Usable(q, endpoints) # {} <=> vias \cap endpoints # {}
  BY DEF Usable, ListFits

\* A tool is of one kind.
LEMMA Kinds ==
  /\ NodeTools \cap StateTools = {}
  /\ "simulate_transaction" \notin NodeTools \cup StateTools
  /\ "endpoint_status" \notin NodeTools \cup StateTools \cup {"simulate_transaction"}
  /\ "chain_status" \in NodeTools
  BY DEF NodeTools, StateTools

LEMMA RawTools ==
  \A via \in Cosmos : RawTool(via) \notin NodeTools \cup StateTools \cup {"simulate_transaction", "endpoint_status"}
  BY DEF Cosmos, RawTool, NodeTools, StateTools

\* A query is of an exposed tool exactly if some binding of it can be used.
LEMMA ExposedIsUsable ==
  ASSUME NEW endpoints \in SUBSET Cosmos, NEW q \in Asked(endpoints)
  PROVE  /\ q.tool \in Exposed(endpoints) <=> Usable(q, endpoints) # {}
         /\ q.tool # "endpoint_status"
<1>1. QueryFits(q) /\ (q.source = "any" \/ q.source \in endpoints)
  BY QueriesFit DEF Asked
<1>2. \A via \in endpoints : RawTool(via) \notin NodeTools \cup StateTools \cup {"simulate_transaction", "endpoint_status"}
  BY RawTools
<1>3. CASE q.tool \in StateTools /\ ListFits(q.bindings, {"grpc", "lcd"})
  BY <1>2, <1>3, Kinds, UsableList DEF Exposed
<1>4. CASE q.tool \in NodeTools /\ ListFits(q.bindings, Cosmos)
  BY <1>2, <1>4, Kinds, UsableList DEF Exposed
<1>5. CASE q.tool = "chain_status" /\ q.source \in {"grpc", "lcd"} /\ ListFits(q.bindings, {q.source})
  <2>1. q.source \in endpoints
    BY <1>1, <1>5
  <2>2. q.tool \in Exposed(endpoints) /\ q.tool # "endpoint_status"
    BY <1>5, <2>1, Kinds DEF Exposed
  <2> QED BY <1>5, <2>1, <2>2, UsableList
<1>6. CASE q.tool = "simulate_transaction" /\ ListFits(q.bindings, {"grpc"})
  BY <1>2, <1>6, Kinds, UsableList DEF Exposed
<1> QED BY <1>1, <1>3, <1>4, <1>5, <1>6 DEF QueryFits

LEMMA ToolCalls ==
  \A tool \in NodeTools \cup StateTools \cup {"simulate_transaction"} :
     \E q \in Queries : q.tool = tool /\ q.source = "any"
<1>1. PICK in : Plain(in)
  BY SomePlain
<1>2. in \in Inputs
  BY <1>1 DEF Plain
<1>3. QueriesOf(in) \subseteq Queries
  BY <1>2 DEF Queries
<1>4. ASSUME NEW tool \in NodeTools PROVE \E q \in QueriesOf(in) : q.tool = tool /\ q.source = "any"
  <2>1. CASE tool = "search_transactions"
    <3>1. PICK q \in TransactionQueries(in) : q.tool = tool
      BY <1>1, <2>1, TransactionCalls
    <3> QED BY <3>1, TransactionBindings DEF QueriesOf
  <2>2. CASE tool # "search_transactions"
    <3>1. PICK q \in NodeQueries(in) : q.tool = tool /\ q.source = "any"
      BY <1>1, <2>2, NodeCalls DEF NodeTools
    <3> QED BY <3>1 DEF QueriesOf
  <2> QED BY <2>1, <2>2
<1>5. ASSUME NEW tool \in StateTools PROVE \E q \in QueriesOf(in) : q.tool = tool /\ q.source = "any"
  <2>1. PICK q \in UNION {BankQueries(in), StakingQueries(in), DelegationQueries(in), ModuleQueries(in),
                          ParamsQueries(in), GovQueries(in), GovParamsQueries(in)} : q.tool = tool
    BY <1>1, BankCalls, StakingCalls, DelegationCalls, ModuleCalls, ParamsCalls, GovCalls, GovParamsCalls
       DEF StateTools
  <2> QED BY <1>2, <2>1, StateQueriesFit DEF QueriesOf, StateFits
<1>6. \E q \in QueriesOf(in) : q.tool = "simulate_transaction" /\ q.source = "any"
  <2>1. PICK q \in TransactionQueries(in) : q.tool = "simulate_transaction"
    BY <1>1, TransactionCalls
  <2> QED BY <2>1, TransactionBindings DEF QueriesOf
<1> QED BY <1>3, <1>4, <1>5, <1>6

\* What is exposed, but for the status of the endpoints, is what can be used.
LEMMA ExposedIsBacked ==
  ASSUME NEW endpoints \in SUBSET Cosmos
  PROVE  Exposed(endpoints) \ {"endpoint_status"} =
           {q.tool : q \in {r \in Asked(endpoints) : Usable(r, endpoints) # {}}}
              \cup {RawTool(via) : via \in endpoints}
<1> DEFINE backed == {q.tool : q \in {r \in Asked(endpoints) : Usable(r, endpoints) # {}}}
           raw == {RawTool(via) : via \in endpoints}
<1>1. ASSUME NEW tool \in backed PROVE tool \in Exposed(endpoints) \ {"endpoint_status"}
  BY ExposedIsUsable
<1>2. ASSUME NEW tool \in raw PROVE tool \in Exposed(endpoints) \ {"endpoint_status"}
  BY RawTools DEF Exposed
<1>3. ASSUME NEW tool \in Exposed(endpoints), tool \notin raw, tool # "endpoint_status" PROVE tool \in backed
  <2>1. tool \in NodeTools \cup StateTools \cup {"simulate_transaction"}
    BY <1>3 DEF Exposed
  <2>2. PICK q \in Queries : q.tool = tool /\ q.source = "any"
    BY <2>1, ToolCalls
  <2>3. q \in Asked(endpoints)
    BY <2>2 DEF Asked
  <2> QED BY <2>2, <2>3, ExposedIsUsable
<1> QED BY <1>1, <1>2, <1>3

\* A name of a binding stands for the same one in every query of a capability.
LEMMA NamesKeepTheirMeaning ==
  ASSUME NEW q \in Queries, NEW r \in Queries, q.capability = r.capability, NEW i \in DOMAIN r.bindings
  PROVE  /\ i \in DOMAIN q.bindings
         /\ {j \in DOMAIN q.bindings : q.bindings[j].name = r.bindings[i].name} = {i}
         /\ \/ SameRoute(q.bindings[i].target, r.bindings[i].target)
            \/ r.bindings[i].via = "lcd" /\ q.capability \in Denominations
<1>1. DOMAIN q.bindings = DOMAIN r.bindings /\ SameBinding(q.capability, q.bindings[i], r.bindings[i])
  BY QueriesAlike DEF Alike
<1>2. \A j, k \in DOMAIN q.bindings : q.bindings[j].name = q.bindings[k].name => j = k
  BY QueriesFit DEF QueryFits, ListFits
<1> QED BY <1>1, <1>2 DEF SameBinding


=============================================================================
