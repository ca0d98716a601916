--------------------------- MODULE MCRestExchange ---------------------------
(***************************************************************************)
(* A small instance of RestExchange: an endpoint whose name is blocked -   *)
(* the client resolves it, and looks at the name only when a redirect      *)
(* leads back to it - with its www form, and a stranger that spells an     *)
(* internal address.                                                       *)
(***************************************************************************)
EXTENDS RestExchange

Apex      == "metadata.google.internal"
WwwForm   == "www.metadata.google.internal"
Spelled   == "10.0.0.1"
MCHosts   == {Apex, WwwForm, Spelled}
MCWww     == {<<Apex, WwwForm>>}
MCLiteral == [h \in {Spelled} |-> "internal"]
MCBlocked == {Apex}

\* Any target; those in front of which nothing can pass for the agent; those
\* with something that refuses requests.
AnyTarget       == BOOLEAN \X SUBSET {"refuses", "pages"}
TellingTargets  == {<<FALSE, {}>>, <<TRUE, {}>>, <<TRUE, {"pages"}>>}
RefusingTargets == BOOLEAN \X {{"refuses"}}
=============================================================================
