------------------------------- MODULE Routes -------------------------------
(***************************************************************************)
(* A metered API: what extractSpec() makes of an OpenAPI document with     *)
(* pricing extensions (middleware-openapi/src/parser.ts), and the nginx    *)
(* locations generated for its operations (gateway-nginx: parser.ts,       *)
(* analyzer.ts, path.ts, nginx/location.ts, lua/*.ts).                     *)
(*                                                                         *)
(* A spec has the extension of the document and a sequence of paths: each  *)
(* a template, its extension, and its operations by method.  A template is *)
(* a sequence of segments, each a literal or a parameter; a segment that   *)
(* mixes both, and the characters of a path, are left out.                 *)
(***************************************************************************)
EXTENDS Pricing

Param == "{}"

HTTPMethods == <<"GET", "POST", "PUT", "PATCH", "DELETE">>

Earliest(S) == CHOOSE i \in S : \A j \in S : i <= j

-----------------------------------------------------------------------------
(* The extension x-faremeter-pricing of a document, of a path and of an    *)
(* operation: each a set of at most one for rates and for rules.           *)

(* parseRateValue(): a whole number that is not negative, or the digits of *)
(* one.  The set of the rate, empty if it is refused.                      *)
ParseRateValue(raw) ==
    {n \in {raw.n} : raw.t \in {"num", "str"} /\ raw.d = 1 /\ n >= 0}

(* validatePricingExtension(): every rate can be parsed and every rule has *)
(* a match and a capture.                                                  *)
ValidateRates(raw) == \A a \in DOMAIN raw : ParseRateValue(raw[a]) # {}

ValidateRules(raw) == \A i \in DOMAIN raw : {"match", "capture"} \subseteq DOMAIN raw[i]

ValidatePricingExtension(ext) ==
    /\ \A r \in ext.rates : ValidateRates(r)
    /\ \A r \in ext.rules : ValidateRules(r)

Parsed(rates) == [a \in DOMAIN rates |-> CHOOSE n \in ParseRateValue(rates[a]) : TRUE]

(* resolveRates() and resolveRules(): the nearest level that says anything;*)
(* an empty list of rules says that there are none.                        *)
ResolveRates(document, path, operation) ==
    CASE operation.rates # {} -> CHOOSE r \in operation.rates : TRUE
      [] operation.rates = {} /\ path.rates # {} -> CHOOSE r \in path.rates : TRUE
      [] operation.rates = {} /\ path.rates = {} /\ document.rates # {} ->
            CHOOSE r \in document.rates : TRUE
      [] OTHER -> NoAmount

ResolveRules(document, path, operation) ==
    CASE operation.rules # {} -> CHOOSE r \in operation.rules : TRUE
      [] operation.rules = {} /\ path.rules # {} -> CHOOSE r \in path.rules : TRUE
      [] operation.rules = {} /\ path.rules = {} /\ document.rules # {} ->
            CHOOSE r \in document.rules : TRUE
      [] OTHER -> <<>>

(* detectTransport(): by the header parameters of an operation, in lower   *)
(* case, and the content types of its responses.                           *)
DetectTransport(op) ==
    CASE "upgrade" \in op.headers -> "websocket"
      [] "upgrade" \notin op.headers /\ "text/event-stream" \in op.content -> "sse"
      [] OTHER -> "json"

(* The methods of a path, and the extensions on all levels of a document.  *)
Methods(path) == DOMAIN path.ops \cap Range(HTTPMethods)

Extensions(spec) ==
    {spec.document}
    \cup {spec.paths[i].ext : i \in DOMAIN spec.paths}
    \cup UNION {{spec.paths[i].ops[m] : m \in Methods(spec.paths[i])} :
                  i \in DOMAIN spec.paths}

(* extractSpec(): a spec with an extension that is not valid is refused,   *)
(* on whatever level it is; the operations that have rules are metered.    *)
ValidSpec(spec) == \A ext \in Extensions(spec) : ValidatePricingExtension(ext)

Operation(spec, i, m) ==
    LET path == spec.paths[i]
    IN  [rates |-> Parsed(ResolveRates(spec.document, path.ext, path.ops[m])),
         rules |-> ResolveRules(spec.document, path.ext, path.ops[m]),
         transport |-> DetectTransport(path.ops[m])]

(* The metered operations, by the index of their path and their method.    *)
ExtractSpec(spec) ==
    LET Metered(i) == {m \in Methods(spec.paths[i]) :
                         ResolveRules(spec.document, spec.paths[i].ext,
                                      spec.paths[i].ops[m]) # <<>>}
    IN  [key \in UNION {{<<i, m>> : m \in Metered(i)} : i \in DOMAIN spec.paths} |->
            Operation(spec, key[1], key[2])]

-----------------------------------------------------------------------------
(* What the generator has nginx capture for an operation. *)

(* classifyRef()                                                           *)
ClassifyRef(ref) ==
    CASE Len(ref) > 2 /\ ref[2] = "headers"  -> "headers"
      [] ref = <<"response", "status">>      -> "status"
      [] OTHER                               -> "body"

BodyFieldPath(ref) == SubSeq(ref, 3, Len(ref))

(* validateCapturePathConflicts(): no field is captured both as a leaf and *)
(* as the parent of another.                                               *)
NoPathConflicts(fields) ==
    \A f, g \in {f \in fields : ClassifyRef(f) = "body"} :
       f # g => ~IsPrefix(BodyFieldPath(f), BodyFieldPath(g))

(* analyzeRule() and bodyFieldPath(): the fields of one rule; a spec whose *)
(* rule names the body as a whole, a part of a header, or what is neither  *)
(* of the body nor a header nor the status, or has conflicting fields, is  *)
(* refused.                                                                *)
ExtractResponseRefs(rule) ==
    {ref \in ExtractPlainRefs(rule.capture) : IsResponse(ref) /\ Len(ref) > 1}

Analyzable(rule) ==
    /\ \A ref \in ExtractResponseRefs(rule) :
          /\ ClassifyRef(ref) = "body" => ref[2] = "body" /\ Len(ref) > 2
          /\ ClassifyRef(ref) = "headers" => Len(ref) = 3
    /\ NoPathConflicts(ExtractResponseRefs(rule))

(* specToRoutes(): the fields of all rules of the operation together.      *)
CaptureFields(op) ==
    UNION {ExtractResponseRefs(op.rules[i]) : i \in DOMAIN op.rules}

BodyFields(fields) == {BodyFieldPath(f) : f \in {f \in fields : ClassifyRef(f) = "body"}}

(* headerNameFromPath()                                                    *)
HeaderNames(fields) == {f[3] : f \in {f \in fields : ClassifyRef(f) = "headers"}}

(* searchKeys(): the key at the top of every captured body field.          *)
SearchKeys(fields) == {f[1] : f \in BodyFields(fields)}

-----------------------------------------------------------------------------
(* Locations. *)

HasParams(template) == Param \in Range(template)

(* toRegexLocation() and toExactLocation(): does the location match url?   *)
PathMatches(template, url) ==
    /\ Len(template) = Len(url)
    /\ \A k \in DOMAIN url : template[k] \in {Param, url[k]}

(* detectOverlaps(): two templates with parameters that the generator      *)
(* warns of, because some URL may match both.                              *)
CouldOverlap(a, b) ==
    /\ Len(a) = Len(b)
    /\ \A k \in DOMAIN a : Param \in {a[k], b[k]} \/ a[k] = b[k]

DetectOverlaps(spec, paths) ==
    {i \in paths : \E j \in paths \ {i} :
        /\ HasParams(spec.paths[i].template) /\ HasParams(spec.paths[j].template)
        /\ CouldOverlap(spec.paths[i].template, spec.paths[j].template)}

(* groupRoutesByPath(): the methods of the operations of path i.           *)
GroupRoutesByPath(ops, i) == {m \in Range(HTTPMethods) : <<i, m>> \in DOMAIN ops}

(* The methods of a group by transport; of several websockets, the first   *)
(* is routed.                                                              *)
HTTPRoutes(ops, i) ==
    {m \in GroupRoutesByPath(ops, i) : ops[<<i, m>>].transport # "websocket"}

FirstWsRoute(ops, i) ==
    LET order == {n \in DOMAIN HTTPMethods :
                    /\ HTTPMethods[n] \in GroupRoutesByPath(ops, i)
                    /\ ops[<<i, HTTPMethods[n]>>].transport = "websocket"}
    IN  IF order = {} THEN {} ELSE {HTTPMethods[Earliest(order)]}

(* generateLocationBlocks(): the location that answers on path i.  One     *)
(* with HTTP and websocket operations hands an upgrade over to a location  *)
(* of the websocket, and takes anything else itself.                       *)
LocationBlock(ops, i, upgrade) ==
    LET ws == FirstWsRoute(ops, i)
    IN  IF ws # {} /\ (upgrade \/ HTTPRoutes(ops, i) = {})
        THEN [path |-> i, websocket |-> TRUE, routes |-> ws]
        ELSE [path |-> i, websocket |-> FALSE, routes |-> HTTPRoutes(ops, i) \cup ws]

(* nginx, external: an exact location before the ones with a pattern, and  *)
(* of these the one that appears first.                                    *)
FindLocation(spec, ops, url, upgrade) ==
    LET matching == {i \in {key[1] : key \in DOMAIN ops} :
                       PathMatches(spec.paths[i].template, url)}
        exact == {i \in matching : ~HasParams(spec.paths[i].template)}
    IN  {LocationBlock(ops, Earliest(best), upgrade) :
            best \in {IF exact # {} THEN exact ELSE matching} \ {{}}}

(* generatePaidHTTPLocation(): the operations of a location capture the    *)
(* fields of all of them.                                                  *)
LocationFields(ops, location) ==
    UNION {CaptureFields(ops[<<location.path, m>>]) : m \in location.routes}

(* generateAccessBlock(), access.lua: the operation that a request is      *)
(* metered by; a method without one passes.                                *)
OperationKey(location, method) ==
    {<<location.path, m>> : m \in location.routes \cap {method}}
=============================================================================
