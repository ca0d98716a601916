------------------------------ MODULE ReplyCalls ------------------------------
(***************************************************************************)
(* Calls of the functions of PyJson and ReplyText, and what they are meant *)
(* to compute: a behaviour is one call.  Texts, paths, replies, streams and*)
(* schemas are of any length and shape, and Inputs are those of a model.   *)
(***************************************************************************)
EXTENDS ReplyText

CONSTANTS
    Values,    \* the JSON values of replies, with all that they hold
    Words,     \* what a part of a reply may say
    Kinds,     \* the kinds of parts that are no text
    Inputs

\* A JSON value holds JSON values.
ASSUME ValuesAssumption ==
    \A v \in Values :
        /\ v.is \in {"obj", "arr", "str", "bool", "null"}
        /\ v.is = "obj" => \A k \in DOMAIN v.of : v.of[k] \in Values
        /\ v.is = "arr" => v.of \in Seq(Values)

ASSUME KindsAssumption == Kinds \cap {"text", ""} = {}

VARIABLES input, answer

NoAnswer == [none |-> TRUE]

-----------------------------------------------------------------------------
(* Texts, by their code points.                                            *)

\* The k code points before the i-th are backslashes, and no more than those.
Run(s, i, k) ==
    /\ \A j \in i - k .. i - 1 : s[j] = Backslash
    /\ k = i - 1 \/ s[i - k - 1] # Backslash

\* Of a run of backslashes, each second one is only escaped.
Escaped(s, i) == \E k \in 1 .. i - 1 : k % 2 = 1 /\ Run(s, i, k)

Quotes(s, i) == {j \in 1 .. i - 1 : s[j] = Quote /\ ~Escaped(s, j)}

InString(s, i) == Cardinality(Quotes(s, i)) % 2 = 1

Runes == {r \in Nat : r <= 1114111}

\* JSON has backslashes within strings only.
JsonText ==
    {s \in Seq(Runes) : \A i \in 1 .. Len(s) : s[i] = Backslash => InString(s, i)}

\* The tokens as they are, spaced as Python spaces them; and each character as
\* json.dumps prints it by default, when it prints ASCII alone and no control
\* character.
Printed(s) ==
    [i \in 1 .. Len(s) |->
        IF InString(s, i) THEN <<s[i]>>
        ELSE IF s[i] \in Whitespace THEN <<>>
        ELSE IF s[i] \in {Comma, Colon} THEN <<s[i], Space>> ELSE <<s[i]>>]

Delete == 127

PrintedASCII(s) ==
    [i \in 1 .. Len(s) |->
        IF s[i] < Delete THEN Printed(s)[i] ELSE IF s[i] = Delete THEN Escape(Delete) ELSE EscapeRune(s[i])]

NoDelete(s) == \A i \in 1 .. Len(s) : s[i] # Delete

RawInputs == [kind : {"raw"}, text : JsonText]

\* Go's encoder writes no whitespace outside strings.
MarshalInputs ==
    {i \in [kind : {"marshal"}, text : JsonText] :
        \A k \in 1 .. Len(i.text) : i.text[k] \in Whitespace => InString(i.text, k)}

-----------------------------------------------------------------------------
(* Replies with a named field, and the paths that may name it.             *)

Segments == [key : STRING] \cup [key : STRING, at : Int]

FieldInputs == [kind : {"field"}, doc : {v \in Values : v.is = "obj"}, path : Seq(Segments) \ {<<>>}]

\* What a segment leads to, if to anything: a member, or an item of it counted
\* from either end.
Child(u, seg) ==
    LET member == IF u.is = "obj" /\ seg.key \in DOMAIN u.of THEN {u.of[seg.key]} ELSE {} IN
    IF "at" \notin DOMAIN seg THEN member
    ELSE UNION {{v.of[j] : j \in {j \in DOMAIN v.of : seg.at \in {j - 1, j - 1 - Len(v.of)}}} :
                v \in {v \in member : v.is = "arr"}}

\* What the first n segments lead to.
Resolved(d, path) ==
    LET upTo[n \in 0 .. Len(path)] ==
            IF n = 0 THEN {d} ELSE UNION {Child(u, path[n]) : u \in upTo[n - 1]} IN upTo

-----------------------------------------------------------------------------
(* A2A results and MCP results, built from parts of which it is known what  *)
(* they say, and whether they can be read as parts.                         *)

Part(said, fields) == [says |-> said, part |-> Obj(fields), reads |-> TRUE]
NoPart(v)          == [says |-> <<>>, part |-> v, reads |-> FALSE]

A2AParts ==
         {Part(<<w>>, [kind |-> Str("text"), text |-> Str(w)]) : w \in Words}
    \cup {Part(<<w>>, [type |-> Str("text"), text |-> Str(w)]) : w \in Words}
    \cup {Part(<<>>, [kind |-> Str(k), type |-> Str("text"), text |-> Str(w)]) : k \in Kinds, w \in Words}
    \cup {NoPart(Str(w)) : w \in Words}

Aloud(w) == IF w = "" THEN <<>> ELSE <<w>>

\* To be read as one text, in which a part without words is nothing.  A part of
\* any type may have a text; null is a part without.
MCPParts ==
         {Part(Aloud(w), [type |-> Str(k), text |-> Str(w)]) : k \in Kinds \cup {"text"}, w \in Words}
    \cup {Part(<<>>, [type |-> Str(k)]) : k \in Kinds}
    \cup {[says |-> <<>>, part |-> Null, reads |-> TRUE]}
    \cup {NoPart(Str(w)) : w \in Words}
    \cup {NoPart(Obj([type |-> Null, text |-> Obj(<<>>)])), NoPart(Obj([type |-> Obj(<<>>)]))}

Flags == {Absent, Null, Bool(TRUE), Bool(FALSE), Str("true")}

PartsOf(parts) == Arr([k \in 1 .. Len(parts) |-> parts[k].part])
Said(parts)    == FlattenSeq([k \in 1 .. Len(parts) |-> parts[k].says])

A2AInputs == [kind : {"a2a"}, artifacts : Seq(Seq(A2AParts)), status : Seq(Seq(A2AParts))]

\* The status has a message if i.status has an element; that is its parts.
A2AResult(i) ==
    LET artifact(a) == Obj([parts |-> PartsOf(i.artifacts[a])])
        status      == IF i.status = <<>> THEN Obj(<<>>)
                       ELSE Obj([message |-> Obj([parts |-> PartsOf(i.status[1])])]) IN
    Obj([artifacts |-> Arr([a \in 1 .. Len(i.artifacts) |-> artifact(a)]), status |-> status])

MCPInputs == [kind : {"mcp"}, content : Seq(MCPParts), isError : Flags]

\* (A flag that is Absent is as good as none.)
MCPResult(i) == Obj([content |-> PartsOf(i.content), isError |-> i.isError])

\* A stream may carry notifications before the reply, and the reply itself may be
\* split over the last of its data lines.
Lines == [field : STRING, value : Values \cup {Fragment}]

StreamInputs ==
    [kind : {"stream"}, content : Seq(MCPParts), isError : Flags, split : BOOLEAN,
     before : Seq(Lines), after : Seq({l \in Lines : l.field # "data"})]

LastData(i) == [field |-> "data", value |-> IF i.split THEN Fragment ELSE MCPResult(i)]

Stream(i) == i.before \o <<LastData(i)>> \o i.after

-----------------------------------------------------------------------------
(* Schemas and numbers.                                                     *)

\* Among the names in their order are those of the declared arguments.
SchemaInputs ==
    {i \in [kind : {"schema"}, properties : SUBSET STRING, required : Seq(STRING), sorted : Seq(STRING)] :
        i.properties \subseteq ToSet(i.sorted)}

\* The decoder refuses a number beyond the largest float64.
NumberInputs ==
    {i \in [kind : {"number"}, halves : Int, saturates : BOOLEAN] :
        \E f, g \in Floats : f <= i.halves /\ i.halves <= g}

-----------------------------------------------------------------------------
ASSUME InputsAssumption ==
    Inputs \subseteq RawInputs \cup MarshalInputs \cup FieldInputs \cup A2AInputs \cup MCPInputs
                     \cup StreamInputs \cup SchemaInputs \cup NumberInputs

CallInit == input \in Inputs /\ answer = NoAnswer

Call(kind, result) ==
    /\ input.kind = kind
    /\ answer = NoAnswer
    /\ answer' = result
    /\ UNCHANGED input

CallNext ==
    \/ Call("raw", FromRaw(input.text))
    \/ Call("marshal", Marshal(input.text))
    \/ Call("field", LookupNested(input.doc, input.path))
    \/ Call("a2a", ExtractA2A(A2AResult(input)))
    \/ Call("mcp", McpText(MCPResult(input)))
    \/ Call("stream", ReadStream(Stream(input)))
    \/ Call("schema", [name |-> ArgNameFor(input.properties, input.required, input.sorted)])
    \/ input.kind = "number" /\ \E f \in Decode(input.halves) : Call("number", Stringify(f, input.saturates))

CallSpec == CallInit /\ [][CallNext]_<<input, answer>>

Called(kind) == input.kind = kind /\ answer # NoAnswer

-----------------------------------------------------------------------------
(* Properties. *)

\* "It walks the bytes and skips anything inside a string literal": FromRaw spaces
\* the separators as Python does, whitespace and all that a string holds -
\* separators, escaped quotes, backslashes - notwithstanding, and leaves the rest
\* byte for byte as it was received.  Of Go's encoder Marshal makes what Python
\* prints by default, unless there is a DEL in it.
SpacedAsPython ==
    /\ Called("raw") => answer = FlattenSeq(Printed(input.text))
    /\ Called("marshal") /\ NoDelete(input.text) =>
          answer = FlattenSeq(PrintedASCII(input.text))

\* FromRaw "lands on the single form Python would print", and what json.dumps does
\* by default is to escape what is not ASCII.  It does not hold (README, section 4).
RawIsPython == Called("raw") /\ NoDelete(input.text) => answer = FlattenSeq(PrintedASCII(input.text))

\* "Marshal encodes a value the way Python's json.dumps would": every character,
\* DEL included, which json.dumps escapes.  It does not hold (README, section 4).
MarshalIsPython == Called("marshal") => answer = FlattenSeq(PrintedASCII(input.text))

\* "ABSENT, not empty": the named field is found if and only if the reply holds
\* it, at its path and with indices from either end, and what is read is what is
\* there.  (A path that leads on from what is no object is excepted.)
FieldIsRead ==
    LET upTo == Resolved(input.doc, input.path) IN
    Called("field") /\ (\A n \in 1 .. Len(input.path) - 1 : \A u \in upTo[n] : u.is = "obj") =>
        upTo[Len(input.path)] = IF answer = Absent THEN {} ELSE {answer}

\* The number that is printed, in halves.
Reported == IF "int" \in DOMAIN answer THEN 2 * answer.int ELSE answer.float

\* A number that a float64 holds is reported as the target sent it, whatever its
\* size, and any other as a float64 next to it - but for what is decoded to the
\* one just past the largest int64, where the conversion saturates.
NumberKept ==
    Called("number") /\ ~(input.saturates /\ 2 * (MaxInt + 1) \in Decode(input.halves)) =>
        Reported \in Decode(input.halves) /\ (input.halves \in Floats => Reported = input.halves)

\* "That is the literal text such a target echoes, and the evidence must match
\* it": an integer of an int64's range is reported as the target sent it.
\* It does not hold (README, section 4).
IntegerAsSent ==
    Called("number") /\ input.halves % 2 = 0 /\ input.halves \div 2 \in MinInt .. MaxInt =>
        Reported = input.halves

\* An MCP result is read as a text if it has content, all of it parts.
Readable(i) ==
    i.content # <<>> /\ i.isError.is # "str" /\ \A k \in 1 .. Len(i.content) : i.content[k].reads

\* The text of an A2A reply is all that its first artifact says, in order, parts
\* that are no text left out; or, if it has none, its status.  The text of a tool
\* is all that its parts say, of whatever type, marked if the tool failed; a reply
\* split over the lines of a stream is an error, and never read in part.  A reply
\* of no such shape is kept as it is, what a tool puts beside its parts included.
TextKept ==
    /\ Called("a2a") => answer =
          IF input.artifacts # <<>>   THEN [texts |-> Said(input.artifacts[1])]
          ELSE IF input.status # <<>> THEN [texts |-> Said(input.status[1])]
          ELSE [whole |-> A2AResult(input)]
    /\ Called("stream") /\ input.split => answer = Malformed
    /\ Called("mcp") \/ (Called("stream") /\ ~input.split) => answer =
          IF ~Readable(input) THEN [whole |-> MCPResult(input)]
          ELSE IF input.isError = Bool(TRUE) /\ Said(input.content) # <<>>
          THEN [texts |-> <<ToolError>> \o Said(input.content)]
          ELSE [texts |-> Said(input.content)]

\* "The text parts are what a red-team judge reads": of other parts nothing.
\* It does not hold (README, section 4).
OnlyTextParts ==
    LET IsTextual(k) == Text(Field(input.content[k].part, "type")) = "text" IN
    Called("mcp") /\ "texts" \in DOMAIN answer /\ answer.texts # <<>> =>
        \E k \in 1 .. Len(input.content) : IsTextual(k)

\* "Getting this wrong is the quiet failure": where the schema is consistent, the
\* payload goes into an argument that is declared, one that is made for text
\* before all others, and one that is required before those that are not.
ArgumentDeclared ==
    LET preferred == input.properties \cap ToSet(PreferredArgNames) IN
    Called("schema") /\ input.properties # {} /\ ToSet(input.required) \subseteq input.properties =>
        /\ answer.name \in input.properties
        /\ preferred # {} => answer.name \in preferred
        /\ preferred = {} /\ input.required # <<>> /\ input.required[1] # "" => answer.name = input.required[1]
=============================================================================
