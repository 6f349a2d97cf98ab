---------------------------- MODULE McpMessages ----------------------------
(***************************************************************************)
(* How the MCP policies read a request.  A method is the sequence of its   *)
(* parts between slashes.  A payload is the JSON text of one message: its  *)
(* `kind` and, for an object, its members in document order, where `fold`  *)
(* is the spelling the name folds onto and `ok` says that the value has    *)
(* the type the readers want.  A body is the sequence of the payloads of   *)
(* its events; one that is not an event stream has a single payload.       *)
(***************************************************************************)
EXTENDS Integers, Sequences, FiniteSets, SequencesExt

CONSTANT Unprintable  \* the names a header cannot carry as they are

McpTypes == {"tools", "resources", "prompts"}
IsMcpPath(path) == path = "mcp"
IsMcpPostRequest(req) == req.verb = "POST" /\ IsMcpPath(req.path)

(***************************************************************************)
(* Methods                                                                 *)
(***************************************************************************)
\* The two parts of a method of a capability, <<"", "">> for any other.
ParseMcpMethod(method) ==
  IF Len(method) = 2 /\ Head(method) \in McpTypes THEN <<method[1], method[2]>> ELSE <<"", "">>

GetParamKey(type) == IF type = "resources" THEN "uri" ELSE "name"

\* The operations that name one capability.
IsApplicableOnRequest(type, action) == <<type, action>> \in {<<"tools", "call">>, <<"resources", "read">>, <<"prompts", "get">>}

TaskMethods == {<<"tasks", "get">>, <<"tasks", "update">>, <<"tasks", "cancel">>}
MethodsMirroringName == {<<"tools", "call">>, <<"resources", "read">>, <<"prompts", "get">>}
MethodsRequiringName == MethodsMirroringName \union TaskMethods

(***************************************************************************)
(* Payloads                                                                *)
(***************************************************************************)
\* A map keeps the last member of exactly this name; a struct the last one
\* that folds onto it.
Exactly(ms, n) == SelectSeq(ms, LAMBDA m : m.name = n)
Folding(ms, n) == SelectSeq(ms, LAMBDA m : m.fold = n)
LastValue(ms, none) == IF ms = <<>> \/ ~Last(ms).ok THEN none ELSE Last(ms).value
Value(ms, none) == IF ms = <<>> THEN none ELSE Last(ms).value

\* encoding/json merges the members of every "params" into one struct.
FoldedParams(p) == FlattenSeq([i \in DOMAIN Folding(p.members, "params") |-> Folding(p.members, "params")[i].value])

\* Unmarshalling into a struct: why it fails, "" when it does not.
UnmarshalError(p) ==
  IF p.kind = "syntax" THEN "syntax-error"
  ELSE IF \/ p.kind # "object"
          \/ \E i \in DOMAIN p.members : p.members[i].fold \in {"method", "params"} /\ ~p.members[i].ok
          \/ \E i \in DOMAIN FoldedParams(p) : FoldedParams(p)[i].fold \in {"name", "uri"} /\ ~FoldedParams(p)[i].ok
       THEN "invalid-member-type" ELSE ""

\* A member is read twice, or under another spelling.
MemberSpelling(ms, names) ==
  \E i \in DOMAIN ms : ms[i].fold \in names /\ (ms[i].name # ms[i].fold \/ \E j \in 1 .. i - 1 : ms[j].fold = ms[i].fold)

StructMethod(p) == Value(Folding(p.members, "method"), <<>>)
StructName(p, key) == Value(Folding(FoldedParams(p), key), "")

ValidateUnambiguousMembers(p, method) ==
  /\ ~MemberSpelling(p.members, {"method", "params"})
  /\ method \in MethodsMirroringName =>
       \A i \in DOMAIN p.members : p.members[i].name = "params" => ~MemberSpelling(p.members[i].value, {GetParamKey(method[1])})

\* The first event that unmarshals into a map.
ParseRequestPayload(body, sse) ==
  LET usable == {i \in DOMAIN body : body[i].kind = "object" /\ (sse \/ i = 1)} IN
  IF usable = {} THEN 0 ELSE CHOOSE i \in usable : \A j \in usable : i <= j

\* mcp-ratelimit takes the first event with any data.
ExtractFirstSseJSON(body) ==
  LET full == SelectSeq(body, LAMBDA p : p.kind # "empty") IN IF full = <<>> THEN [kind |-> "syntax", members |-> <<>>] ELSE Head(full)

\* The bytes as the policies that know no event streams see them.
RawPayload(req) == IF req.sse THEN [kind |-> "syntax", members |-> <<>>] ELSE Head(req.body)

(***************************************************************************)
(* Why a body cannot be governed (mcp-spec-validation and the resolver)    *)
(***************************************************************************)
FoldsOntoOneName(ms, canonical) == MemberSpelling(ms, canonical)

HasAmbiguousMembers(p) ==
  \/ FoldsOntoOneName(p.members, {"method", "id", "params"})
  \/ \E i \in DOMAIN p.members : LET m == p.members[i] IN
       m.name = "params" /\ m.ok /\ FoldsOntoOneName(m.value, {"name", "uri", "taskId", "version"})

UnusableBodyReason(body, sse) ==
  LET p == IF body = <<>> THEN [kind |-> "empty", members |-> <<>>] ELSE Head(body) IN
  CASE p.kind = "empty" -> ""
    [] sse \/ p.kind = "array" -> "not-an-object"
    [] p.kind = "syntax" -> "syntax-error"
    [] OTHER -> IF HasAmbiguousMembers(p) THEN "ambiguous"
                ELSE IF \/ \E i \in DOMAIN p.members : p.members[i].fold = "method" /\ ~p.members[i].ok
                        \/ \E i \in DOMAIN FoldedParams(p) : ~FoldedParams(p)[i].ok
                     THEN "invalid-member-type" ELSE ""

\* External: what the engine's MCP resolver publishes about the body.
Resolve(req) ==
  LET reason == UnusableBodyReason(req.body, req.sse)
      p == Head(req.body)
      readable == reason = "" /\ req.body # <<>>
      method == StructMethod(p)
      params == FoldedParams(p)
  IN [unusable |-> reason, present |-> req.body # <<>>,
      method  |-> IF readable THEN method ELSE <<>>,
      name    |-> IF readable /\ Len(method) > 0 THEN Value(Folding(params, GetParamKey(method[1])), "") ELSE "",
      taskId  |-> IF readable THEN Value(Folding(params, "taskId"), "") ELSE "",
      version |-> IF readable THEN Value(Folding(params, "version"), "") ELSE ""]

(***************************************************************************)
(* The mirrored headers of a modern request (mcp_facts.go)                 *)
(***************************************************************************)
\* A name in a header is [form, text]: written as it is, base64 between
\* sentinels, or between sentinels and undecodable.
NoName == [form |-> "plain", text |-> ""]
DecodeSentinel(raw) == IF raw.form = "broken" THEN "" ELSE raw.text
DecodeFails(raw) == raw.form = "broken"
EncodeSentinel(text) == [form |-> IF text \in Unprintable THEN "sentinel" ELSE "plain", text |-> text]

\* Versions are dates: compared as strings, any text above the constant is modern.
IsSpecVersion(v) == v \in {"2025-06-18", "2026-07-28"}
IsModernRequest(v) == v \in {"2026-07-28", "draft"}

ShouldParseBody(req) == ~req.resolved

MirroredOperation(req) ==
  [method |-> req.hMethod, name |-> IF req.hName = NoName THEN "" ELSE DecodeSentinel(req.hName)]

ResolvedOperation(attrs) == [method |-> attrs.method, name |-> attrs.name]

McpFacts(req) ==
  LET attrs == Resolve(req)
      modern == IsModernRequest(req.version)
      op == IF modern THEN MirroredOperation(req) ELSE ResolvedOperation(attrs)
  IN [method |-> op.method, name |-> op.name, modern |-> modern, present |-> ~modern /\ attrs.present]

HasMethod(facts) == facts.method # <<>>
MissingRequiredName(facts) == facts.method \in MethodsMirroringName /\ facts.name = ""

=============================================================================
