----------------------------- MODULE RestPayload -----------------------------
(***************************************************************************)
(* What a REST Send puts into its request: buildPayload, SetNested and     *)
(* cloneJSON of connector/rest.go, with SetSession.  Sends build at once,  *)
(* from one configuration and one unlocked session id.                     *)
(*                                                                         *)
(* A JSON value is a function from the paths of its leaves to what is      *)
(* there; a scalar has the one leaf <<>>, and an empty object is a leaf.   *)
(***************************************************************************)
EXTENDS Naturals, SequencesExt

CONSTANTS
    Senders,
    Configs,       \* the request mappings: [message, session, static]
    Sessions,      \* the session ids that SetSession is given
    NoSession,     \* the empty string
    Torn           \* what a read of a string that is being written may yield

ASSUME SessionsAssumption == {NoSession, Torn} \cap Sessions = {} /\ NoSession # Torn

\* A JSON value: no leaf is above another.
IsValue(v) ==
    /\ v = [p \in DOMAIN v |-> v[p]]
    /\ DOMAIN v \subseteq Seq(STRING)
    /\ \A p, q \in DOMAIN v : IsPrefix(p, q) => p = q

ASSUME ConfigsAssumption ==
    \A c \in Configs :
        /\ c.message \in Seq(STRING) /\ c.session \in Seq(STRING)
        /\ c.static = [path \in DOMAIN c.static |-> c.static[path]]
        /\ DOMAIN c.static \subseteq Seq(STRING)
        /\ \A path \in DOMAIN c.static : IsValue(c.static[path])

\* What a payload holds is told apart: messages, static values, session ids.
ASSUME ContentsAssumption ==
    LET ids == Sessions \cup {NoSession, Torn} IN
    /\ "{}" \notin ids /\ Senders \cap ids = {}
    /\ \A c \in Configs : \A path \in DOMAIN c.static :
          \A leaf \in DOMAIN c.static[path] : c.static[path][leaf] \notin ids

VARIABLES
    cfg,           \* RequestMapping: message and session are paths (a session
                   \* of <<>> is none), static maps paths to JSON values
    static,        \* the values of cfg.static as they are by now
    sessionID,
    setting,       \* the session id that a SetSession is about to have written
    pc,
    todo,          \* the static fields a Send has yet to write
    payload,
    borrows,       \* the static fields whose own object is in a payload
    seen           \* the session id when the payload was begun; Torn, once a
                   \* SetSession has run beside the building of it

sessionVars == <<sessionID, setting>>
buildVars   == <<pc, todo, payload, borrows>>
vars        == <<cfg, static, sessionVars, buildVars, seen>>

Scalar(x) == [p \in {<<>>} |-> x]
Empty     == Scalar("{}")

Collides(p, q) == IsPrefix(p, q) \/ IsPrefix(q, p)

Under(path, v) == {path \o leaf : leaf \in DOMAIN v}

Replace(d, kept, path, v) ==
    [p \in kept \cup Under(path, v) |->
        IF p \in Under(path, v) THEN v[SubSeq(p, Len(path) + 1, Len(p))] ELSE d[p]]

\* Mutant of SetNested: a value that is there already stays.
SetNestedOnce(d, path, v) ==
    IF path \in DOMAIN d THEN d ELSE Replace(d, {p \in DOMAIN d : ~Collides(p, path)}, path, v)

\* The value takes the place of what is at the path; what is no object on the
\* way there gives way to one.
SetNested(d, path, v) == Replace(d, {p \in DOMAIN d : ~Collides(p, path)}, path, v)

Init ==
    /\ cfg \in Configs
    /\ static = cfg.static
    /\ sessionID = NoSession
    /\ setting = NoSession
    /\ pc = [s \in Senders |-> "idle"]
    /\ todo = [s \in Senders |-> {}]
    /\ payload = [s \in Senders |-> Empty]
    /\ borrows = [s \in Senders |-> {}]
    /\ seen = [s \in Senders |-> NoSession]

Goto(s, l) == pc' = [pc EXCEPT ![s] = l]

BuildPayload(s) ==
    /\ pc[s] = "idle"
    /\ todo' = [todo EXCEPT ![s] = DOMAIN static]
    /\ seen' = [seen EXCEPT ![s] = IF setting = NoSession THEN sessionID ELSE Torn]
    /\ Goto(s, "static")
    /\ UNCHANGED <<cfg, static, sessionVars, payload, borrows>>

\* A SetNested of a Send: where the path leads through a borrowed object, it
\* writes to the configuration, and to every payload that borrows that object.
Write(s, path, v) ==
    LET through == {b \in borrows[s] : IsStrictPrefix(b, path)} IN
    /\ payload' = [r \in Senders |->
          IF r = s \/ borrows[r] \cap through # {} THEN SetNested(payload[r], path, v)
                                                   ELSE payload[r]]
    /\ static' = [b \in DOMAIN static |->
          IF b \in through THEN SetNested(static[b], SubSeq(path, Len(b) + 1, Len(path)), v)
                           ELSE static[b]]

\* Mutant of CloneJSON: objects go into the payload as they are.
CloneJSONNot(path) == IF <<>> \in DOMAIN static[path] /\ static[path] # Empty THEN {} ELSE {path}

\* What a payload borrows with a static value: nothing, it gets a copy.
CloneJSON(path) == {}

\* Go's order over a map is any order.
WriteStatic(s) ==
    /\ pc[s] = "static"
    /\ \E path \in todo[s] :
          /\ Write(s, path, static[path])
          /\ todo' = [todo EXCEPT ![s] = @ \ {path}]
          /\ borrows' = [borrows EXCEPT ![s] =
                {b \in @ : ~IsPrefix(path, b)} \cup CloneJSON(path)]
    /\ UNCHANGED <<cfg, sessionVars, pc, seen>>

WriteMessage(s) ==
    /\ pc[s] = "static"
    /\ todo[s] = {}
    /\ Write(s, cfg.message, Scalar(s))
    /\ Goto(s, IF cfg.session = <<>> THEN "built" ELSE "session")
    /\ UNCHANGED <<cfg, sessionVars, todo, borrows, seen>>

\* A read of sessionID: while it is being written, the old, the new or neither.
Read == IF setting = NoSession THEN {sessionID} ELSE {sessionID, setting, Torn}

\* Mutant of HasSession: the session is written whether there is one or not.
HasSessionAlways(s) == pc[s] = "session"

\* The id is read once to see whether there is one, and once more to send it.
HasSession(s) == pc[s] = "session" /\ \E id \in Read : id # NoSession

CheckSession(s) ==
    /\ HasSession(s)
    /\ Goto(s, "write")
    /\ UNCHANGED <<cfg, static, sessionVars, todo, payload, borrows, seen>>

SkipSession(s) ==
    /\ pc[s] = "session"
    /\ NoSession \in Read
    /\ Goto(s, "built")
    /\ UNCHANGED <<cfg, static, sessionVars, todo, payload, borrows, seen>>

WriteSession(s) ==
    /\ pc[s] = "write"
    /\ \E id \in Read : Write(s, cfg.session, Scalar(id))
    /\ Goto(s, "built")
    /\ UNCHANGED <<cfg, sessionVars, todo, borrows, seen>>

\* SetSession, which takes no lock.
SetSession(id) ==
    /\ setting = NoSession
    /\ id # sessionID
    /\ setting' = id
    /\ seen' = [s \in Senders |-> IF pc[s] \in {"idle", "built"} THEN seen[s] ELSE Torn]
    /\ UNCHANGED <<cfg, static, sessionID, buildVars>>

SessionSet ==
    /\ setting # NoSession
    /\ sessionID' = setting
    /\ setting' = NoSession
    /\ UNCHANGED <<cfg, static, buildVars, seen>>

Next ==
    \/ \E s \in Senders :
          \/ BuildPayload(s) \/ WriteStatic(s) \/ WriteMessage(s)
          \/ CheckSession(s) \/ SkipSession(s) \/ WriteSession(s)
    \/ \E id \in Sessions : SetSession(id)
    \/ SessionSet

Spec == Init /\ [][Next]_vars

-----------------------------------------------------------------------------
(* Properties. *)

TypeOK ==
    /\ cfg \in Configs
    /\ static = [path \in DOMAIN cfg.static |-> static[path]]
    /\ sessionID \in Sessions \cup {NoSession}
    /\ setting \in Sessions \cup {NoSession}
    /\ pc \in [Senders -> {"idle", "static", "session", "write", "built"}]
    /\ todo \in [Senders -> SUBSET DOMAIN cfg.static]
    /\ payload = [s \in Senders |-> payload[s]] /\ \A s \in Senders : IsValue(payload[s])
    /\ borrows \in [Senders -> SUBSET DOMAIN cfg.static]
    /\ seen \in [Senders -> Sessions \cup {NoSession, Torn}]

Built(s) == pc[s] = "built"

\* "The technique's payload wins a collision": whatever the static fields are,
\* and in whatever order they are written, each Send sends its own message - all
\* of it, at the configured place - unless the session id is to go there too;
\* and what is sent is one JSON object, with no leaf above another.
MessageSent ==
    \A s \in Senders : Built(s) =>
        /\ \A p, q \in DOMAIN payload[s] : IsPrefix(p, q) => p = q
        /\ ~(cfg.session # <<>> /\ Collides(cfg.session, cfg.message)) =>
              cfg.message \in DOMAIN payload[s] /\ payload[s][cfg.message] = s

\* Sending leaves the configuration alone - "a message field under a static
\* object would otherwise mutate the configuration, and concurrent sends would
\* race on it" - and each static field that shares its place with no other is
\* sent, but for the leaves that the message or the session replace.
StaticSent ==
    /\ static = cfg.static
    /\ \A s \in Senders : Built(s) =>
          \A path \in DOMAIN cfg.static :
             (\A other \in DOMAIN cfg.static \ {path} : ~Collides(other, path)) =>
                \A leaf \in DOMAIN cfg.static[path] :
                    LET p == path \o leaf IN
                    \/ Collides(p, cfg.message)
                    \/ cfg.session # <<>> /\ Collides(p, cfg.session)
                    \/ p \in DOMAIN payload[s] /\ payload[s][p] = cfg.static[path][leaf]

\* A payload that no SetSession overlapped carries the session id there was, at
\* its place and whole, and nothing of a session when there was none.
SessionSettled ==
    \A s \in Senders :
        LET carried == {p \in DOMAIN payload[s] : payload[s][p] \in Sessions \cup {NoSession, Torn}}
            place   == IF seen[s] = NoSession \/ cfg.session = <<>> THEN {} ELSE {cfg.session} IN
        Built(s) /\ seen[s] # Torn =>
            carried = place /\ \A p \in carried : payload[s][p] = seen[s]
=============================================================================
