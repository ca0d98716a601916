----------------------------- MODULE MCReplyText -----------------------------
(***************************************************************************)
(* Bounded inputs for ReplyCalls: texts of two strings around a separator, *)
(* paths, replies, streams, schemas and numbers.                           *)
(***************************************************************************)
EXTENDS ReplyCalls, TLC

-----------------------------------------------------------------------------
(* Texts. *)

\* What json.dumps prints for DEL and for characters outside ASCII: \u007f, \u00e9,
\* \u200d, \uffff, \ud800\udc00 and \udbff\udfff.
PythonEscapes ==
    (Delete  :> <<92, 117, 48, 48, 55, 102>>)
 @@ (233     :> <<92, 117, 48, 48, 101, 57>>) @@ (8205 :> <<92, 117, 50, 48, 48, 100>>)
 @@ (65535   :> <<92, 117, 102, 102, 102, 102>>)
 @@ (65536   :> <<92, 117, 100, 56, 48, 48, 92, 117, 100, 99, 48, 48>>)
 @@ (1114111 :> <<92, 117, 100, 98, 102, 102, 92, 117, 100, 102, 102, 102>>)

\* The units of a string: characters, and the escapes of a quote and a backslash.
Units == {<<120>>, <<Space>>, <<Comma>>, <<Colon>>, <<Backslash, Quote>>, <<Backslash, Backslash>>}
         \cup {<<r>> : r \in DOMAIN PythonEscapes}

Documents == [first : BoundedSeq(Units, 2), sep : {Comma, Colon}, second : BoundedSeq(Units, 1)]

Literal(units) == <<Quote>> \o FlattenSeq(units) \o <<Quote>>

Raw(d, gap) == gap \o Literal(d.first) \o gap \o <<d.sep>> \o gap \o Literal(d.second) \o gap

MCTextInputs ==
         {[kind |-> "raw", text |-> Raw(d, gap)] : d \in Documents, gap \in {<<>>, <<Space>>, <<10, 9>>}}
    \cup {[kind |-> "marshal", text |-> Raw(d, <<>>)] : d \in Documents}

\* The document as Python prints it; with ASCII alone, or as it is.
Python(d, ascii) ==
    LET print(units) == [k \in DOMAIN units |->
            IF ascii /\ units[k][1] \in DOMAIN PythonEscapes THEN PythonEscapes[units[k][1]] ELSE units[k]] IN
    Literal(print(d.first)) \o <<d.sep, Space>> \o Literal(print(d.second))

\* What SpacedAsPython compares with is, byte for byte, what Python prints.
ASSUME PrintedIsPython ==
    \A d \in Documents :
        /\ FlattenSeq(Printed(Raw(d, <<Space>>))) = Python(d, FALSE)
        /\ FlattenSeq(PrintedASCII(Raw(d, <<>>))) = Python(d, TRUE)

-----------------------------------------------------------------------------
(* Fields. *)

Leaves == {Null, Str("x"), Str("")}
Nested == Leaves
     \cup {Arr(e) : e \in BoundedSeq(Leaves, 2)}
     \cup {Obj([k \in D |-> v]) : D \in SUBSET {"b"}, v \in Leaves}
     \cup {Arr(<<Str("x"), Obj("b" :> v)>>) : v \in Leaves}

MCValues == Nested \cup {Obj("a" :> v) : v \in Nested}

MCSegments == [key : {"a", "b"}] \cup [key : {"a", "b"}, at : -3 .. 2]

MCFieldInputs ==
    [kind : {"field"}, doc : {Obj("a" :> v) : v \in Nested}, path : BoundedSeq(MCSegments, 2) \ {<<>>}]

-----------------------------------------------------------------------------
(* Replies: results of up to two artifacts of two parts, contents of three, *)
(* and a stream with a notification.                                        *)

MCA2AInputs ==
    [kind : {"a2a"}, artifacts : BoundedSeq(BoundedSeq(A2AParts, 2), 2), status : BoundedSeq(BoundedSeq(A2AParts, 1), 1)]

MCMCPInputs == [kind : {"mcp"}, content : BoundedSeq(MCPParts, 3), isError : Flags]

MCStreamInputs ==
    LET line(f, v) == [field |-> f, value |-> v]
        lines      == {line("event", Str("x")), line("data", Str("x")), line("data", Fragment)} IN
    [kind : {"stream"}, content : BoundedSeq(MCPParts, 2), isError : {Absent, Bool(TRUE)}, split : BOOLEAN,
     before : BoundedSeq(lines, 2), after : BoundedSeq({line("", Str("x"))}, 1)]

-----------------------------------------------------------------------------
(* Schemas and numbers. *)

Sorted == <<"alpha", "input", "query", "zeta">>

MCSchemaInputs ==
    [kind : {"schema"}, properties : SUBSET ToSet(Sorted), required : BoundedSeq(ToSet(Sorted), 2), sorted : {Sorted}]

\* A mantissa of three bits: integers are exact up to 4 with their halves, up to 8
\* without, and then every second and every fourth is.
MCFloats == {m * 2^e : m \in -8 .. 8, e \in 0 .. 4}

MCNumberInputs == [kind : {"number"}, halves : 6 * MinInt .. 6 * MaxInt, saturates : BOOLEAN]

MCInputs ==
    MCTextInputs \cup MCFieldInputs \cup MCA2AInputs \cup MCMCPInputs \cup MCStreamInputs
    \cup MCSchemaInputs \cup MCNumberInputs
=============================================================================
