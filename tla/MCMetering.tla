----------------------------- MODULE MCMetering -----------------------------
(* A TLC instance of Metering.                                             *)
EXTENDS Metering

In == <<"response", "body", "usage", "in">>
Out == <<"response", "body", "usage", "out">>
Total == <<"response", "body", "total">>
Calls == <<"response", "headers", "x-calls">>
Status == <<"response", "status">>
N == <<"request", "body", "n">>
Model == <<"request", "body", "model">>

AnyBody == [path |-> <<"request", "body">>, filter |-> {}]
ModelIs(v) == [path |-> Model, filter |-> {Num(v)}]

Rule(match, authorize, capture) ==
    [match |-> match, authorize |-> authorize, capture |-> capture]

(* Two-phase rules.                                                        *)
Nested == Rule(ModelIs(1), {Ref(N)},
               Coalesce(Coalesce(Ref(In), Ref(Out)), Ref(N)))
InnerFallback == Rule(ModelIs(2), {Const(Num(4))},
                      Plus(Coalesce(Plus(Ref(In), Coalesce(Ref(Total), Const(Num(1)))),
                                    Const(Num(3))),
                           Ref(Out)))
Spread == Rule(AnyBody, {Coalesce(Ref(N), Const(Num(1)))}, Minus(Ref(In), Ref(Out)))
PerOut == Rule(ModelIs(2), {Const(Frac(3, 4))},
               Divide(Coalesce(Ref(Total), Ref(In)), Minus(Ref(Out), Const(Num(2)))))
Ratio == Rule(AnyBody, {Divide(Ref(N), Const(Num(3)))},
              Divide(Times(Ref(In), Ref(Out)), Const(Num(3))))
Header == Rule(AnyBody, {Const(Num(2))}, Plus(Ref(Calls), Minus(Ref(Status), Ref(Status))))
BareHeader == Rule(AnyBody, {Const(Frac(1, 5))}, Ref(Calls))

(* One-phase rules, and rules that are refused.                            *)
Flat == Rule(AnyBody, {}, Const(Num(3)))
PerUnit == Rule(ModelIs(1), {}, Ref(N))
ReadsTooEarly == Rule(AnyBody, {}, Ref(In))
Conflict == Rule(AnyBody, {Const(Num(1))},
                 Coalesce(Ref(<<"response", "body", "usage">>), Ref(In)))

Rates(a, b) == [k \in {"usdc", "eurc"} |-> IF k = "usdc" THEN a ELSE b]
OnlyUSDC(a) == [k \in {"usdc"} |-> a]

Ext(rates, rules) == [rates |-> rates, rules |-> rules]
Nothing == Ext({}, {})

OpWith(headers, content, ext) ==
    [headers |-> headers, content |-> content, rates |-> ext.rates, rules |-> ext.rules]
Plain(ext) == OpWith({}, {"application/json"}, ext)
Stream(ext) == OpWith({"accept"}, {"text/event-stream"}, ext)
Socket(ext) == OpWith({"upgrade"}, {}, ext)

Get(op) == [m \in {"GET"} |-> op]
Post(op) == [m \in {"POST"} |-> op]
GetPost(get, post) == [m \in {"GET", "POST"} |-> IF m = "GET" THEN get ELSE post]

Path(template, ext, ops) == [template |-> template, ext |-> ext, ops |-> ops]
OpenAPI(document, paths) == [document |-> document, paths |-> paths]

Chat == <<"chat">>
User == <<"users", Param>>
Me == <<"users", "me">>
AnyMe == <<Param, "me">>

(* Inherited rules and rates, operations that share a location, one that   *)
(* has opted out, paths that match the same URL, websockets by themselves  *)
(* and beside an HTTP operation, and specs that are refused.               *)
SomeSpecs == {
    OpenAPI(Ext({Rates(Num(3), Text(0))}, {<<Nested, InnerFallback, Spread>>}),
            <<Path(Chat, Nothing, GetPost(Plain(Ext({}, {<<>>})), Stream(Nothing)))>>),
    OpenAPI(Ext({OnlyUSDC(Num(1))}, {<<Flat>>}),
            <<Path(Chat, Ext({Rates(Num(2), Num(5))}, {}),
                   GetPost(Plain(Ext({}, {<<PerUnit, Header>>})),
                           Plain(Ext({}, {<<InnerFallback, BareHeader>>}))))>>),
    OpenAPI(Ext({Rates(Num(3), Text(5))}, {<<PerOut, Ratio>>}),
            <<Path(Chat, Nothing, GetPost(Plain(Nothing), Stream(Nothing)))>>),
    OpenAPI(Nothing,
            <<Path(Chat, Ext({OnlyUSDC(Num(1))}, {<<Nested, Spread>>}),
                   Get(Socket(Nothing)))>>),
    OpenAPI(Ext({OnlyUSDC(Num(1))}, {}),
            <<Path(Chat, Nothing, GetPost(Socket(Ext({}, {<<Spread>>})),
                                          Plain(Ext({}, {<<BareHeader>>}))))>>),
    OpenAPI(Ext({OnlyUSDC(Num(1))}, {<<Flat>>}),
            <<Path(User, Nothing, GetPost(Plain(Nothing), Plain(Nothing))),
              Path(Me, Ext({OnlyUSDC(Num(4))}, {}), Get(Plain(Nothing))),
              Path(AnyMe, Nothing, Get(Plain(Ext({}, {<<PerUnit>>}))))>>),
    OpenAPI(Ext({OnlyUSDC(Num(1))}, {<<Flat>>}),
            <<Path(User, Nothing, Get(Plain(Nothing))),
              Path(Me, Ext({OnlyUSDC(Num(4))}, {}), Get(Plain(Nothing)))>>),
    OpenAPI(Ext({OnlyUSDC(Num(1))}, {<<ReadsTooEarly>>}),
            <<Path(Chat, Nothing, Get(Plain(Nothing)))>>),
    OpenAPI(Ext({OnlyUSDC(Num(1))}, {<<Conflict>>}),
            <<Path(Chat, Nothing, Post(Plain(Nothing)))>>),
    OpenAPI(Ext({OnlyUSDC(NaN)}, {<<Flat>>}),
            <<Path(Chat, Ext({OnlyUSDC(Num(1))}, {}), Post(Plain(Nothing)))>>),
    OpenAPI(Ext({OnlyUSDC(Frac(1, 2))}, {<<Flat>>}),
            <<Path(Chat, Nothing, Get(Plain(Nothing)))>>)}

SomeURLs == {Chat, Me, <<"users", "bob">>}

SomeBodies == {
    <<"n">> :> Num(1) @@ <<"model">> :> Num(1),
    <<"n">> :> Num(5) @@ <<"model">> :> Num(2),
    <<"n">> :> Null @@ <<"model">> :> Num(3)}

-----------------------------------------------------------------------------
(* Documents, whole (a websocket frame) and in two tokens.                 *)
DocIn == <<"usage", "in">> :> Num(3)
DocOut == <<"usage", "out">> :> Num(2)
DocBoth == <<"usage", "in">> :> Num(7) @@ <<"total">> :> Frac(9, 2)
DocNull == <<"usage", "in">> :> Null @@ <<"usage", "out">> :> Num(5)
DocOther == <<"id">> :> Num(9)

SomeTexts ==
    <<"i1", "i2">> :> DocIn @@ <<"o1", "o2">> :> DocOut @@
    <<"b1", "b2">> :> DocBoth @@ <<"n1", "n2">> :> DocNull @@
    <<"x1", "x2">> :> DocOther @@ <<"null">> :> Leaf(Null) @@
    <<"i">> :> DocIn @@ <<"o">> :> DocOut @@ <<"n">> :> DocNull

Response(transport, sse, calls, tokens) ==
    [transport |-> transport, sse |-> sse,
     head |-> <<"status">> :> Num(400) @@ <<"headers", "x-calls">> :> calls,
     tokens |-> tokens]

SSE(tokens) == Response("http", TRUE, Text(3), tokens)
JSON(calls, tokens) == Response("http", FALSE, calls, tokens)
Frames(tokens) == Response("websocket", FALSE, Text(3), tokens)

(* Event streams with events of one and of two lines, comments, other      *)
(* fields, CRLF, an event that is not JSON, null, an unfinished last       *)
(* event, and more data than the limit.                                    *)
SomeResponses == {
    SSE(<<"data:", "sp", "i1", "i2", "nl", "nl", "data:", "o1", "o2", "nl", "nl">>),
    SSE(<<"data:", "b1", "nl", "data:", "b2", "cr", "nl", "cr", "nl",
          ":", "i1", "nl", "data:", "o1", "o2", "nl", "nl">>),
    SSE(<<"event:", "nl", "data:", "null", "nl", "nl", "data:", "i2", "nl", "nl",
          "data:", "o1", "o2", "nl", "nl", "data:", "i1", "i2", "nl">>),
    SSE(<<"data:", "i1", "i2", "nl", "nl", "data:", "x1", "x2", "nl", "nl",
          "data:", "n1", "n2", "nl", "nl">>),
    SSE(<<"data:", "i1", "i2", "nl", "nl", "data:", "o1", "o2", "o1", "o2", "nl",
          "data:", "b1", "b2", "b1", "nl", "nl", "data:", "o1", "o2", "nl", "nl">>),
    JSON(Text(4), <<"b1", "b2">>),
    JSON(Num(1), <<"o1", "o2">>),
    JSON(Null, <<"i1", "i2", "i1", "i2", "i1", "i2", "i1">>),
    JSON(NaN, <<"x1", "x2">>),
    Frames(<<"i", "ping", "o", "close">>),
    Frames(<<"n", "i", "n", "bin">>)}
=============================================================================
