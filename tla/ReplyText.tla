------------------------------ MODULE ReplyText ------------------------------
(***************************************************************************)
(* How the connectors read an agent's text out of its reply, and choose    *)
(* where to put theirs: lookupNested and stringify of rest.go,             *)
(* extractA2AFromRaw of a2a.go, ArgNameFor, extractSSEData and mcpText of  *)
(* mcp.go.  They keep no state: each is a function of a decoded document.  *)
(*                                                                         *)
(* A JSON value is a record: an object of functions, an array of sequences,*)
(* a string, a Boolean or null; numbers matter where they are printed.     *)
(***************************************************************************)
EXTENDS PyJson

CONSTANTS
    MaxInt,    \* the largest int64: 2^63 - 1 in the code
    Floats     \* the numbers, in halves, that a float64 holds

ASSUME MaxIntAssumption == MaxInt \in Nat
ASSUME FloatsAssumption == Floats \subseteq Int

Obj(f) == [is |-> "obj", of |-> f]
Arr(e) == [is |-> "arr", of |-> e]
Str(t) == [is |-> "str", text |-> t]
Bool(b) == [is |-> "bool", holds |-> b]
Null   == [is |-> "null"]
Absent == [is |-> "absent"]

Field(v, k) == IF v.is = "obj" /\ k \in DOMAIN v.of THEN v.of[k] ELSE Absent

\* What a failed type assertion to a string leaves: "".
Text(v) == IF v.is = "str" THEN v.text ELSE ""

-----------------------------------------------------------------------------
(* REST: lookupNested.  A segment of a path is a key, or a key and an index. *)

\* Mutant of Item: a negative index counts from the last but one.
ItemShifted(v, i) ==
    IF v.is # "arr" THEN Absent
    ELSE LET j == IF i < 0 THEN i + Len(v.of) - 1 ELSE i IN
         IF 0 <= j /\ j < Len(v.of) THEN v.of[j + 1] ELSE Absent

\* The item at an index, which counts from the end if it is negative.
Item(v, i) ==
    IF v.is # "arr" THEN Absent
    ELSE LET j == IF i < 0 THEN i + Len(v.of) ELSE i IN
         IF 0 <= j /\ j < Len(v.of) THEN v.of[j + 1] ELSE Absent

\* A walk has come to v, or ends where there is nothing.
Come(v) == IF v = Absent THEN [v |-> v, ended |-> TRUE] ELSE [v |-> v, ended |-> FALSE]

\* What a segment makes of a walk. The key of an indexed segment is passed over
\* where there is no object; a plain segment there ends the walk, and what is
\* there is the answer.
Follow(w, seg) ==
    IF w.ended THEN w
    ELSE IF "at" \in DOMAIN seg THEN Come(Item(IF w.v.is = "obj" THEN Field(w.v, seg.key) ELSE w.v, seg.at))
    ELSE IF w.v.is # "obj" THEN [v |-> w.v, ended |-> TRUE]
    ELSE Come(Field(w.v, seg.key))

\* The walk, by the number of segments it has followed.
Lookups(d, path) ==
    LET at[n \in 0 .. Len(path)] ==
            IF n = 0 THEN [v |-> d, ended |-> FALSE] ELSE Follow(at[n - 1], path[n]) IN at

LookupNested(d, path) == Lookups(d, path)[Len(path)].v

\* What a number, in halves, may be decoded to: a float64 as near as there is.
\* (Of two as near the decoder takes the even one; here it takes either.)
Distance(m, n) == IF m < n THEN n - m ELSE m - n

Decode(h) == {f \in Floats : \A g \in Floats : Distance(f, h) <= Distance(g, h)}

\* A float64 as an int64: what is out of range becomes the least one, or the
\* nearest where the build's conversion saturates.  Back as a float, the largest
\* one is rounded up, and the whole part of a float is a float.
MinInt == -MaxInt - 1

ToInt(h, saturates) ==
    LET whole == IF h < 0 THEN -((-h) \div 2) ELSE h \div 2 IN
    IF whole \in MinInt .. MaxInt THEN whole
    ELSE IF saturates /\ h > 0 THEN MaxInt ELSE MinInt

ToFloat(n) == 2 * (IF n = MaxInt THEN MaxInt + 1 ELSE n)

\* Mutant of Stringify: a number is printed as an int64, whatever it is.
StringifyInt(h, saturates) == [int |-> ToInt(h, saturates)]

\* Of stringify, what it prints for a number: an integer or a float.
Stringify(h, saturates) ==
    IF h = ToFloat(ToInt(h, saturates)) THEN [int |-> ToInt(h, saturates)] ELSE [float |-> h]

-----------------------------------------------------------------------------
(* A2A: extractA2AFromRaw. *)

\* Mutant of IsTextPart: the older discriminator is not known.
IsTextPartNew(p) == Text(Field(p, "kind")) = "text"

\* 0.3 says kind where 0.2 said type.
IsTextPart(p) ==
    LET kind == Text(Field(p, "kind")) IN
    "text" = IF kind = "" THEN Text(Field(p, "type")) ELSE kind

JoinTextParts(parts) ==
    IF parts.is # "arr" THEN <<>>
    ELSE FlattenSeq([i \in DOMAIN parts.of |->
            IF IsTextPart(parts.of[i]) THEN <<Text(Field(parts.of[i], "text"))>> ELSE <<>>])

\* The texts to be joined, or the result as it is.
ExtractA2A(result) ==
    LET artifact == Item(Field(result, "artifacts"), 0)
        message  == Field(Field(result, "status"), "message") IN
    IF artifact.is = "obj" THEN [texts |-> JoinTextParts(Field(artifact, "parts"))]
    ELSE IF message.is = "obj" THEN [texts |-> JoinTextParts(Field(message, "parts"))]
    ELSE [whole |-> result]

-----------------------------------------------------------------------------
(* MCP: the argument that takes the payload, and the reply's text. *)

PreferredArgNames == <<"question", "query", "message", "prompt", "input", "text", "content">>

FirstIn(names, S) == names[CHOOSE i \in DOMAIN names :
                              names[i] \in S /\ \A j \in 1 .. i - 1 : names[j] \notin S]

\* Mutant of ArgNameFor: a required argument goes before a preferred one.
ArgNameForRequired(properties, required, sorted) ==
    IF required # <<>> THEN required[1]
    ELSE IF ToSet(PreferredArgNames) \cap properties # {} THEN FirstIn(PreferredArgNames, properties)
    ELSE IF properties # {} THEN FirstIn(sorted, properties)
    ELSE "input"

\* A preferred name that is declared, else the first required one, else the
\* first declared in the order of their names, else a guess.
ArgNameFor(properties, required, sorted) ==
    IF ToSet(PreferredArgNames) \cap properties # {} THEN FirstIn(PreferredArgNames, properties)
    ELSE IF required # <<>> /\ required[1] # "" THEN required[1]
    ELSE IF properties # {} THEN FirstIn(sorted, properties)
    ELSE "input"

\* The last data line of an event stream.
ExtractSSEData(lines) ==
    LET data == {i \in DOMAIN lines : lines[i].field = "data"} IN
    IF data = {} THEN Absent ELSE lines[Max(data)].value

\* What decodes into a string, a bool or a struct of Go: null leaves it as it is.
IsText(v)      == v.is \in {"str", "null", "absent"}
IsFlag(v)      == v.is \in {"bool", "null", "absent"}
PartDecodes(p) == p.is = "null" \/ (p.is = "obj" /\ IsText(Field(p, "type")) /\ IsText(Field(p, "text")))

\* A part says its text, whatever its type.
PartSays(p) == IF Text(Field(p, "text")) # "" THEN <<Text(Field(p, "text"))>> ELSE <<>>

ToolError == "[MCP TOOL ERROR] "

\* A plain string; the texts of the content, if all of it decodes, behind a mark
\* if the tool failed and says anything; or the result as it is.
McpText(result) ==
    LET content == Field(result, "content")
        texts   == FlattenSeq([i \in DOMAIN content.of |-> PartSays(content.of[i])]) IN
    IF result.is \in {"str", "null", "absent"} THEN [texts |-> <<Text(result)>>]
    ELSE IF /\ content.is = "arr" /\ content.of # <<>> /\ IsFlag(Field(result, "isError"))
            /\ \A i \in DOMAIN content.of : PartDecodes(content.of[i])
    THEN [texts |-> IF Field(result, "isError") = Bool(TRUE) /\ texts # <<>> THEN <<ToolError>> \o texts ELSE texts]
    ELSE [whole |-> result]

\* A data line that holds a piece of a reply only is no JSON.
Fragment  == [is |-> "fragment"]
Malformed == [malformed |-> TRUE]

ReadStream(lines) ==
    IF ExtractSSEData(lines) = Fragment THEN Malformed ELSE McpText(ExtractSSEData(lines))
=============================================================================
