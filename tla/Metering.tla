------------------------------ MODULE Metering ------------------------------
(***************************************************************************)
(* What a metered request is charged: the pricing spec is loaded, /request *)
(* prices the request, nginx picks the fields the rules read out of the    *)
(* response as it streams by (header-filter.lua, body-filter.lua,          *)
(* websocket.lua, shared.lua), and /response prices what was picked        *)
(* (middleware-openapi/src/handler.ts).  Payment, delivery and retries are *)
(* in Gateway.                                                             *)
(*                                                                         *)
(* A response is a sequence of tokens, each one byte long for the limits.  *)
(* Texts says which sequences of tokens are JSON, and of what document.    *)
(***************************************************************************)
EXTENDS Routes

CONSTANTS
    Specs,      \* OpenAPI documents with pricing extensions
    URLs,       \* the paths that are asked for
    Bodies,     \* bodies of requests
    Responses,  \* what the upstream may answer
    Texts,      \* [sequence of tokens -> document]: what is JSON
    MaxBuffer,  \* max_sse_buffer
    MaxBody     \* max_body_bytes

ASSUME MeteringConstants == MaxBuffer \in Nat /\ MaxBody \in Nat

(* The paths of a spec are the keys of an object, so no two are the same;  *)
(* a URL has no parameters.                                                *)
ASSUME Templates ==
    /\ \A s \in Specs :
          /\ DOMAIN s.paths \subseteq Nat
          /\ \A i \in DOMAIN s.paths : s.paths[i].template \in Seq(STRING)
          /\ \A i, j \in DOMAIN s.paths :
                s.paths[i].template = s.paths[j].template => i = j
    /\ URLs \subseteq Seq(STRING) /\ \A u \in URLs : Param \notin Range(u)

(* What stands where a rate should is a number, or a string.               *)
ASSUME RatesAreNumbers ==
    \A s \in Specs : \A ext \in Extensions(s) : \A r \in ext.rates : \A a \in DOMAIN r :
       r[a].n \in Int /\ r[a].d \in Nat \ {0}

(* Rules are in a list; their expressions are parsed.                      *)
IsRule(rule) ==
    /\ rule.match.path \in Seq(STRING)
    /\ \A e \in {rule.capture} \cup rule.authorize : IsExpression(e)

ASSUME RulesAreParsed ==
    \A s \in Specs : ValidSpec(s) =>
       \A key \in DOMAIN ExtractSpec(s) :
          LET rules == ExtractSpec(s)[key].rules
          IN  rules \in Seq(Range(rules)) /\ \A i \in DOMAIN rules : IsRule(rules[i])

(* A response is a sequence of tokens with a status and headers.           *)
ASSUME TokensAndDocuments ==
    /\ \A r \in Responses :
          /\ r.tokens \in Seq(STRING) /\ IsDocument(r.head)
          /\ <<"status">> \in DOMAIN r.head
          /\ \A p \in DOMAIN r.head :
                p = <<"status">> \/ (Len(p) = 2 /\ p[1] = "headers")
    /\ \A text \in DOMAIN Texts : IsDocument(Texts[text])
    /\ \A b \in Bodies : IsDocument(b)

VARIABLES
    spec,       \* the loaded document
    pc,         \* where the request is
    request,    \* its URL, method, Upgrade header and body
    auth,       \* what /request answered
    response,   \* the upstream's answer
    pos,        \* how many of its tokens nginx has seen
    eof,        \* has nginx seen its end?
    buffer,     \* fm_line_buffer of an event stream
    chunks,     \* fm_body_chunks of any other body
    overflow,   \* fm_body_overflow
    head,       \* the captured status and headers
    flat,       \* fm_captured_flat: the captured fields of the body
    bill        \* what /response answered

vars == <<spec, pc, request, auth, response, pos, eof, buffer, chunks,
          overflow, head, flat, bill>>

requestVars == <<spec, request, auth>>
captureVars == <<pos, eof, buffer, chunks, overflow, flat>>

Ops == ExtractSpec(spec)

(* The location a request goes to, and the operation that meters it: each  *)
(* a set of at most one.                                                   *)
LocationOf(q) == FindLocation(spec, Ops, q.url, q.upgrade)
OpOf(q) == UNION {OperationKey(l, q.method) : l \in LocationOf(q)}

Location == CHOOSE l \in LocationOf(request) : TRUE
Op == Ops[CHOOSE key \in OpOf(request) : TRUE]
Fields == LocationFields(Ops, Location)

NoOutcome == [kind |-> "none", amount |-> NoAmount]
Outcome(kind, amount) == [kind |-> kind, amount |-> amount]

(* The unfinished line; how many data lines there are since the last       *)
(* event, their text and its length; the events that a chunk ends.         *)
EmptyBuffer == [partial |-> <<>>, lines |-> 0, data |-> <<>>, bytes |-> 0,
                overflow |-> FALSE, events |-> <<>>]

IsWebSocket == Location.websocket

-----------------------------------------------------------------------------
(* Loading, and /request. *)

(* The evaluator and the generator accept the spec, or refuse to start.    *)
LoadSpec ==
    /\ pc = "load"
    /\ pc' = IF /\ ValidSpec(spec)
                /\ \A key \in DOMAIN Ops :
                      /\ ValidRates(Ops[key].rates)
                      /\ \A r \in Range(Ops[key].rules) : ValidRule(r) /\ Analyzable(r)
             THEN "idle" ELSE "refused"
    /\ UNCHANGED <<requestVars, response, captureVars, head, bill>>

(* requireBody(): a method that carries a body must have one.  GET is the  *)
(* one that does not, and has the empty object.                            *)
BodyMissing(q) == q.method # "GET" /\ q.body = {}

Context(q) == BuildContext(IF q.body = {} THEN Leaf(Empty) ELSE CHOOSE b \in q.body : TRUE)

(* handleRequest(): its price, if it has one; the payment is to be         *)
(* verified or, without authorize, settled.                                *)
Authorize(q) ==
    LET result == EvaluateRules(Ops[CHOOSE key \in OpOf(q) : TRUE], "authorize",
                                Context(q))
        pricing == ToPricing(result.amount)
    IN  CASE BodyMissing(q) \/ result.res = "error" -> Outcome("error", NoAmount)
          [] ~BodyMissing(q) /\ result.res # "error" /\ DOMAIN pricing = {} ->
                Outcome("free", NoAmount)
          [] OTHER ->
                Outcome(IF result.hasAuthorize THEN "verify" ELSE "settle",
                        pricing)

(* A request; the client pays what is asked.  One that no operation meters *)
(* passes.  A websocket's handshake is a GET.                              *)
HandleRequest ==
    /\ pc = "idle"
    /\ \E q \in [url : URLs, method : {"GET", "POST"}, upgrade : BOOLEAN,
                 body : {{}} \cup {{b} : b \in Bodies}] :
          /\ q.upgrade => q.method = "GET" /\ q.body = {}
          /\ request' = q
          /\ \/ OpOf(q) = {} /\ auth' = NoOutcome /\ pc' = "passed"
             \/ /\ OpOf(q) # {} /\ auth' = Authorize(q)
                /\ pc' = IF auth'.kind = "error" THEN "denied" ELSE "upstream"
    /\ UNCHANGED <<spec, response, captureVars, head, bill>>

(* ws_server:new() refuses what is no handshake, and the connection is     *)
(* closed: nothing reaches the upstream and nothing is captured.           *)
RefuseHandshake ==
    /\ pc = "upstream" /\ IsWebSocket /\ ~request.upgrade
    /\ pc' = "closed"
    /\ UNCHANGED <<requestVars, response, captureVars, head, bill>>

-----------------------------------------------------------------------------
(* header-filter.lua *)

(* The upstream answers: the status and the headers the rules read.  The   *)
(* location of a websocket has no header filter.                           *)
HeaderFilter ==
    /\ pc = "upstream" /\ (IsWebSocket => request.upgrade)
    /\ \E r \in Responses :
          /\ r.transport = "websocket" <=> IsWebSocket
          /\ response' = r
          /\ head' = IF IsWebSocket
                     THEN PutAt(Absent, <<"status">>, Leaf(Num(200)))
                     ELSE [p \in {p \in DOMAIN r.head :
                                    \/ p = <<"status">>
                                    \/ p[2] \in HeaderNames(Fields)} |-> r.head[p]]
    /\ pc' = "body"
    /\ UNCHANGED <<requestVars, captureVars, bill>>

-----------------------------------------------------------------------------
(* Capturing fields: shared.lua. *)

(* extract_field() and accumulate_fields(): a field that the document has  *)
(* replaces what was captured of it before.                                *)
AccumulateFields(acc, doc) ==
    LET found == {f \in BodyFields(Fields) : Present(At(doc, f))}
    IN  [f \in DOMAIN acc \cup found |->
            IF f \in found THEN At(doc, f) ELSE acc[f]]

(* reconstruct_nested()                                                    *)
ReconstructNested(acc) ==
    LET fields == SetToSeq(DOMAIN acc)
        nested[n \in 0..Len(fields)] ==
            IF n = 0 THEN Absent ELSE PutAt(nested[n - 1], fields[n], acc[fields[n]])
    IN  nested[Len(fields)]

(* matches_search_keys(): does the text contain any of the keys?  It is    *)
(* searched for them as it is: a text spells its keys without escapes.     *)
MatchesSearchKeys(doc) ==
    \/ SearchKeys(Fields) = {}
    \/ \E p \in DOMAIN doc : Range(p) \cap SearchKeys(Fields) # {}

IsJSON(text) == text \in DOMAIN Texts

(* What an event or a frame adds to the captured fields, and what several  *)
(* do, one after the other.                                                *)
ExtractFields(acc, text) ==
    IF IsJSON(text) /\ MatchesSearchKeys(Texts[text])
    THEN AccumulateFields(acc, Texts[text])
    ELSE acc

ExtractAll(acc, texts) ==
    LET fields[n \in 0..Len(texts)] ==
            IF n = 0 THEN acc ELSE ExtractFields(fields[n - 1], texts[n])
    IN  fields

(* trip_overflow(): capture is given up, what was captured stays (although  *)
(* the comment above max_sse_buffer says that the capture is dropped).     *)
TripOverflow(b) == [EmptyBuffer EXCEPT !.overflow = TRUE, !.events = b.events]

WithoutCR(line) ==
    IF line # <<>> /\ Last(line) = "cr" THEN Front(line) ELSE line

(* A data: line and its value; a space after the colon is not part of it.  *)
IsData(line) == line # <<>> /\ Head(line) = "data:"

Value(line) == IF Len(line) > 1 /\ line[2] = "sp" THEN SubSeq(line, 3, Len(line))
                                                  ELSE Tail(line)

AddLine(b, value) ==
    [b EXCEPT !.lines = @ + 1, !.data = @ \o value, !.bytes = @ + Len(value)]

(* Mutant: the accumulated lines are not limited.                          *)
DataLineUnlimited(b, value) == AddLine(b, value)

DataLine(b, value) ==
    IF b.bytes + Len(value) > MaxBuffer THEN TripOverflow(b) ELSE AddLine(b, value)

(* A line of the event stream: an empty one dispatches the data lines      *)
(* since the last as an event, comments and other fields are skipped.      *)
TakeLine(b, line) ==
    CASE line = <<>> /\ b.lines > 0 ->
            [b EXCEPT !.events = Append(@, b.data),
                      !.lines = 0, !.data = <<>>, !.bytes = 0]
      [] IsData(line) -> DataLine(b, Value(line))
      [] OTHER -> b

TakeToken(b, token) ==
    CASE b.overflow   -> b
      [] ~b.overflow /\ token = "nl" ->
            TakeLine([b EXCEPT !.partial = <<>>], WithoutCR(b.partial))
      [] OTHER        -> [b EXCEPT !.partial = Append(@, token)]

(* The buffer after each of the tokens of a chunk.                         *)
TakeTokens(b, chunk) ==
    LET after[n \in 0..Len(chunk)] ==
            IF n = 0 THEN b ELSE TakeToken(after[n - 1], chunk[n])
    IN  after

(* Mutant: the line that the last chunk broke off is forgotten.            *)
ParseSSEChunkForgets(b, chunk) ==
    IF b.overflow THEN b
    ELSE TakeTokens([b EXCEPT !.partial = <<>>], chunk)[Len(chunk)]

(* parse_sse_chunk(): the events that end in this chunk.                   *)
ParseSSEChunk(b, chunk) ==
    CASE b.overflow -> b
      [] ~b.overflow /\ Len(b.partial) + Len(chunk) > MaxBuffer ->
            TripOverflow(b)
      [] OTHER -> TakeTokens(b, chunk)[Len(chunk)]

-----------------------------------------------------------------------------
(* body-filter.lua *)

BodyFilterSSE(chunk) ==
    LET parsed == ParseSSEChunk(buffer, chunk)
    IN  /\ buffer' = [parsed EXCEPT !.events = <<>>]
        /\ flat' = ExtractAll(flat, parsed.events)[Len(parsed.events)]
        /\ UNCHANGED <<chunks, overflow>>

(* Any other body is kept until its end, unless it is too long.            *)
BodyFilterJSON(chunk, last) ==
    LET full == chunks \o chunk
    IN  /\ UNCHANGED buffer
        /\ \/ /\ overflow
              /\ UNCHANGED <<chunks, overflow, flat>>
           \/ /\ ~overflow /\ Len(full) > MaxBody
              /\ chunks' = <<>> /\ overflow' = TRUE /\ UNCHANGED flat
           \/ /\ ~overflow /\ Len(full) <= MaxBody
              /\ chunks' = IF last THEN <<>> ELSE full
              /\ flat' = IF last /\ IsJSON(full)
                         THEN AccumulateFields(flat, Texts[full]) ELSE flat
              /\ UNCHANGED overflow

(* The next chunk of the response: the upstream and the network decide how *)
(* much of it.  The end comes with the last chunk or by itself.  Without   *)
(* fields to capture from the body there is no filter.                     *)
BodyFilter ==
    /\ pc = "body" /\ ~IsWebSocket /\ ~eof
    /\ \E n \in pos..Len(response.tokens), last \in BOOLEAN :
          /\ n = pos => last
          /\ last => n = Len(response.tokens)
          /\ pos' = n /\ eof' = last
          /\ LET chunk == SubSeq(response.tokens, pos + 1, n)
             IN  \/ /\ BodyFields(Fields) = {}
                    /\ UNCHANGED <<buffer, chunks, overflow, flat>>
                 \/ /\ BodyFields(Fields) # {} /\ response.sse
                    /\ BodyFilterSSE(chunk)
                 \/ /\ BodyFields(Fields) # {} /\ ~response.sse
                    /\ BodyFilterJSON(chunk, last)
    /\ UNCHANGED <<requestVars, pc, response, head, bill>>

(* relay_upstream_to_client(): a frame is relayed and, if it is text, its  *)
(* fields are captured first.  A token is a frame; a binary frame or a     *)
(* ping is none that IsJSON.                                               *)
RelayFrame ==
    /\ pc = "body" /\ IsWebSocket
    /\ pos < Len(response.tokens)
    /\ pos' = pos + 1
    /\ flat' = IF BodyFields(Fields) = {} THEN flat
               ELSE ExtractFields(flat, <<response.tokens[pos + 1]>>)
    /\ UNCHANGED <<requestVars, pc, response, eof, buffer, chunks, overflow,
                   head, bill>>

(* The response is over: its end was seen, or a connection broke - for a   *)
(* websocket, also because the client closed it.                           *)
EndResponse ==
    /\ pc = "body"
    /\ pc' = "log"
    /\ UNCHANGED <<requestVars, response, captureVars, head, bill>>

-----------------------------------------------------------------------------
(* log.lua, deliver_capture() and /response. *)

CapturedContext ==
    WithResponse(Context(request),
                 PutAt(head, <<"body">>, ReconstructNested(flat)))

(* handleResponse(): the price of what was captured, to be settled now if  *)
(* the rule has authorize.                                                 *)
Capture ==
    LET captured == EvaluateRules(Op, "capture", CapturedContext)
        authorized == EvaluateRules(Op, "authorize", Context(request))
        pricing == ToPricing(captured.amount)
    IN  CASE "error" \in {captured.res, authorized.res} ->
                Outcome("error", NoAmount)
          [] /\ "error" \notin {captured.res, authorized.res}
             /\ authorized.hasAuthorize /\ DOMAIN pricing # {} ->
                Outcome("settle", pricing)
          [] OTHER -> Outcome("free", NoAmount)

HandleResponse ==
    /\ pc = "log"
    /\ bill' = Capture
    /\ pc' = "done"
    /\ UNCHANGED <<requestVars, response, captureVars, head>>

-----------------------------------------------------------------------------
NoResponse == [transport |-> "http", sse |-> FALSE, head |-> Absent,
               tokens |-> <<>>]

Init ==
    /\ spec \in Specs
    /\ pc = "load"
    /\ request = [url |-> <<>>, method |-> "GET", upgrade |-> FALSE, body |-> {}]
    /\ auth = NoOutcome
    /\ response = NoResponse
    /\ pos = 0 /\ eof = FALSE
    /\ buffer = EmptyBuffer
    /\ chunks = <<>> /\ overflow = FALSE
    /\ head = Absent
    /\ flat = Absent
    /\ bill = NoOutcome

Next ==
    \/ LoadSpec
    \/ HandleRequest
    \/ RefuseHandshake
    \/ HeaderFilter
    \/ BodyFilter
    \/ RelayFrame
    \/ EndResponse
    \/ HandleResponse

Spec == Init /\ [][Next]_vars
-----------------------------------------------------------------------------
(* Properties. *)

Kinds == {"none", "error", "free", "verify", "settle"}

(* Each piece of state is well typed, and what nginx keeps of a response   *)
(* stays within its limits: the line it waits for, the data lines of the   *)
(* event it waits for, and the body it waits for the end of                *)
(* (max_sse_buffer in shared.lua, max_body_bytes in body-filter.lua).      *)
TypeOK ==
    /\ spec \in Specs
    /\ pc \in {"load", "refused", "idle", "denied", "passed", "upstream",
               "closed", "body", "log", "done"}
    /\ auth.kind \in Kinds /\ bill.kind \in Kinds
    /\ pos \in 0..Len(response.tokens) /\ eof \in BOOLEAN
    /\ Len(buffer.partial) <= MaxBuffer
    /\ Len(buffer.data) <= MaxBuffer
    /\ Len(chunks) <= MaxBody /\ overflow \in BOOLEAN

(* The line that ends before position e, where a newline is.               *)
NewLines(tokens) == {i \in DOMAIN tokens : tokens[i] = "nl"}

LineStart(tokens, e) ==
    CHOOSE s \in 1..e : /\ s = 1 \/ s - 1 \in NewLines(tokens)
                        /\ \A i \in s..(e - 1) : i \notin NewLines(tokens)

Line(tokens, e) == WithoutCR(SubSeq(tokens, LineStart(tokens, e), e - 1))

(* The data lines before position e, since the empty line before it, and   *)
(* their text.                                                             *)
DataBefore(tokens, e) ==
    {d \in NewLines(tokens) :
       /\ d < e /\ IsData(Line(tokens, d))
       /\ \A i \in NewLines(tokens) : d < i /\ i < e => Line(tokens, i) # <<>>}

TextOf(tokens, lines) ==
    LET upto[i \in 0..Len(tokens)] ==
            CASE i = 0                    -> <<>>
              [] i > 0 /\ i \in lines    -> upto[i - 1] \o Value(Line(tokens, i))
              [] OTHER                    -> upto[i - 1]
    IN  upto

(* The documents of a response, each at the position that completes it: a  *)
(* frame at its own, an event at the empty line that ends it, and a whole  *)
(* body after its last token.                                              *)
Ends(r) ==
    CASE r.transport = "websocket" -> DOMAIN r.tokens
      [] r.transport # "websocket" /\ r.sse ->
            {e \in NewLines(r.tokens) :
               Line(r.tokens, e) = <<>> /\ DataBefore(r.tokens, e) # {}}
      [] OTHER -> {Len(r.tokens) + 1}

TextAt(r, e) ==
    CASE r.transport = "websocket" -> <<r.tokens[e]>>
      [] r.transport # "websocket" /\ r.sse ->
            TextOf(r.tokens, DataBefore(r.tokens, e))[e]
      [] OTHER -> r.tokens

Documents(r) ==
    [e \in {e \in Ends(r) : IsJSON(TextAt(r, e))} |-> Texts[TextAt(r, e)]]

(* The last value that the documents up to n give a field; Absent if none  *)
(* does.                                                                   *)
LastValue(docs, field, n) ==
    LET having == {e \in DOMAIN docs : e <= n /\ Present(At(docs[e], field))}
    IN  IF having = {} THEN Absent
        ELSE At(docs[CHOOSE e \in having : \A o \in having : o <= e], field)

CapturedFrom(docs, fields, n) ==
    [f \in {f \in fields : Present(LastValue(docs, f, n))} |-> LastValue(docs, f, n)]

(* How much of the response nginx has seen.                                *)
Seen == IF eof THEN pos + 1 ELSE pos

GaveUp == overflow \/ buffer.overflow

(* accumulate_fields(), parse_sse_chunk(): however the network cuts the    *)
(* response into chunks, and although events are skipped that contain none *)
(* of the search keys, what is captured is the last value of each field in *)
(* all the documents seen so far; when capture was given up, in those      *)
(* before some point.                                                      *)
CaptureIsFaithful ==
    pc \in {"body", "log", "done"} /\ BodyFields(Fields) # {} =>
       \E n \in 0..Seen :
          /\ flat = CapturedFrom(Documents(response), BodyFields(Fields), n)
          /\ ~GaveUp => n = Seen

(* The operation that OpenAPI names for a request: a path without          *)
(* parameters before any other, and on it the websocket for a handshake.   *)
(* Ambiguous if several do, which the generator warns of.                  *)
NamedPaths(q) ==
    LET priced == {key[1] : key \in DOMAIN Ops}
        all == {i \in priced : PathMatches(spec.paths[i].template, q.url)}
        concrete == {i \in all : spec.paths[i].template = q.url}
    IN  IF concrete # {} THEN concrete ELSE all

WebSockets(i) ==
    {m \in GroupRoutesByPath(Ops, i) : Ops[<<i, m>>].transport = "websocket"}

Named(q) ==
    {key \in DOMAIN Ops :
       /\ key[1] \in NamedPaths(q)
       /\ key[2] = q.method
       /\ q.upgrade /\ WebSockets(key[1]) # {} => key[2] \in WebSockets(key[1])}

Warned(q) ==
    \/ DetectOverlaps(spec, {key[1] : key \in DOMAIN Ops}) \cap NamedPaths(q) # {}
    \/ \E i \in NamedPaths(q) : Cardinality(WebSockets(i)) > 1

(* The rule that prices a request: the first that it matches.              *)
RuleFor(q) ==
    LET ctx == Context(q)
        rules == UNION {{<<Ops[key].rules[i], i, key>> : i \in DOMAIN Ops[key].rules} :
                           key \in Named(q)}
        first == {r \in rules : /\ Matches(r[1], ctx)
                                /\ \A o \in rules : Matches(o[1], ctx) => r[2] <= o[2]}
    IN  {r[1] : r \in first}

RatesFor(q) == UNION {{Ops[key].rates} : key \in Named(q)}

(* What the references of a rule stand for, read off the response itself.  *)
Served(e) ==
    [ref \in ExtractPlainRefs(e) |->
        CASE ~IsResponse(ref) -> At(Context(request), ref)
          [] IsResponse(ref) /\ Len(ref) > 1 /\ ref[2] = "body" ->
                LastValue(Documents(response), BodyFieldPath(ref), Seen)
          [] OTHER -> At(IF IsWebSocket THEN head ELSE response.head, Tail(ref))]

Requested(e, q) == [ref \in ExtractPlainRefs(e) |-> At(Context(q), ref)]

Priced(kind, prices) ==
    LET nonzero(p) == [a \in {a \in DOMAIN p : p[a] > 0} |-> p[a]]
        p == nonzero(CHOOSE x \in prices : TRUE)
    IN  CASE prices = {} -> Outcome("error", NoAmount)
          [] prices # {} /\ DOMAIN p = {} -> Outcome("free", NoAmount)
          [] OTHER -> Outcome(kind, p)

(* generateLocationBlocks(), createPricingEvaluator(), handleRequest(),    *)
(* handleResponse(): the client is asked for the price of the first rule   *)
(* its request matches, in the operation that OpenAPI names for it, and is *)
(* charged the rule's price for the response it was served, unless the     *)
(* response overran the limits, the generator warned that the paths are    *)
(* ambiguous, or rules of one location capture a field and a part of it,   *)
(* which the generator refuses only within one rule.  A price is the least *)
(* amount that covers the rate times what the expression means for the     *)
(* document, nested coalesce() included, once that is rounded to the       *)
(* nearest 1 / Scale (a whole number from MaxFixed on): of one third, that *)
(* may be less than a third of the rate, and of a very small number,       *)
(* nothing.                                                                *)
ChargedForWhatWasServed ==
    pc \notin {"load", "refused", "idle", "denied"} /\ ~Warned(request) =>
       /\ Cardinality(Named(request)) <= 1
       /\ pc = "passed" <=> Named(request) = {}
       /\ pc # "passed" =>
             \A rates \in RatesFor(request) :
                \/ RuleFor(request) = {} /\ auth.kind = "free"
                \/ \E rule \in RuleFor(request) :
                      \/ /\ rule.authorize = {}
                         /\ auth = Priced("settle", Price(rule.capture,
                                      Requested(rule.capture, request), rates))
                      \/ \E e \in rule.authorize :
                            auth = Priced("verify",
                                          Price(e, Requested(e, request), rates))
       /\ pc = "done" /\ ~GaveUp /\ NoPathConflicts(Fields) =>
             \A rates \in RatesFor(request) :
                \/ RuleFor(request) = {} /\ bill.kind = "free"
                \/ \E rule \in RuleFor(request) :
                      \/ rule.authorize = {} /\ bill.kind = "free"
                      \/ /\ rule.authorize # {}
                         /\ bill = Priced("settle", Price(rule.capture,
                                      Served(rule.capture), rates))
=============================================================================
