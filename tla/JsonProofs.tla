------------------------------- MODULE JsonProofs -------------------------------
(***************************************************************************)
(* Theorems about the JSON that connectors send and read: RestPayload, for *)
(* every set of senders, request mappings, JSON values and session ids, and*)
(* ReplyCalls, for texts, replies, paths, streams and schemas of any length*)
(* and shape.  Each of the two keeps variables of its own.                 *)
(***************************************************************************)
EXTENDS RestPayload, ReplyCalls, SequenceTheorems, FiniteSetTheorems, WellFoundedInduction, TLAPS

-----------------------------------------------------------------------------
(* Paths.                                                                  *)

\* A prefix is a prefix position by position.
LEMMA PrefixAt ==
    ASSUME NEW p \in Seq(STRING), NEW q \in Seq(STRING)
    PROVE  IsPrefix(p, q) <=> Len(p) <= Len(q) /\ \A i \in 1 .. Len(p) : p[i] = q[i]
BY DEF IsPrefix

\* What is under a path begins with it, and differs behind it.
LEMMA UnderPath ==
    ASSUME NEW p \in Seq(STRING), NEW l \in Seq(STRING), NEW m \in Seq(STRING)
    PROVE  /\ p \o l \in Seq(STRING)
           /\ IsPrefix(p, p \o l)
           /\ SubSeq(p \o l, Len(p) + 1, Len(p \o l)) = l
           /\ IsPrefix(p \o l, p \o m) => IsPrefix(l, m)
           /\ p \o l = p \o m => l = m
<1>1. /\ p \o l \in Seq(STRING) /\ Len(p \o l) = Len(p) + Len(l)
      /\ \A i \in 1 .. Len(p) + Len(l) : (p \o l)[i] = IF i <= Len(p) THEN p[i] ELSE l[i - Len(p)]
    OBVIOUS
<1>2. /\ p \o m \in Seq(STRING) /\ Len(p \o m) = Len(p) + Len(m)
      /\ \A i \in 1 .. Len(p) + Len(m) : (p \o m)[i] = IF i <= Len(p) THEN p[i] ELSE m[i - Len(p)]
    OBVIOUS
<1>3. Len(p) \in Nat /\ Len(l) \in Nat /\ Len(m) \in Nat
    OBVIOUS
<1>4. IsPrefix(p, p \o l)
  <2>1. Len(p) <= Len(p \o l) /\ \A i \in 1 .. Len(p) : p[i] = (p \o l)[i]
      OBVIOUS
  <2>2. QED
      BY <1>1, <2>1, PrefixAt
<1>5. SubSeq(p \o l, Len(p) + 1, Len(p \o l)) = l /\ SubSeq(p \o m, Len(p) + 1, Len(p \o m)) = m
    OBVIOUS
<1>6. ASSUME IsPrefix(p \o l, p \o m) PROVE IsPrefix(l, m)
  <2>1. Len(p \o l) <= Len(p \o m) /\ \A i \in 1 .. Len(p \o l) : (p \o l)[i] = (p \o m)[i]
      BY <1>1, <1>2, <1>6, PrefixAt
  <2>2. Len(l) <= Len(m)
      BY <2>1
  <2>3. ASSUME NEW i \in 1 .. Len(l) PROVE l[i] = m[i]
    <3> DEFINE k == Len(p) + i
    <3>1. /\ k \in 1 .. Len(p) + Len(l) /\ k \in 1 .. Len(p) + Len(m)
          /\ ~(k <= Len(p)) /\ k - Len(p) = i
        BY <2>2
    <3> HIDE DEF k
    <3>2. (p \o l)[k] = l[i] /\ (p \o m)[k] = m[i]
        BY <3>1
    <3>3. QED
        BY <2>1, <3>1
  <2>4. QED
      BY <2>2, <2>3, PrefixAt
<1>7. QED
    BY <1>1, <1>4, <1>6

\* What collides with a path under another collides with that one.
LEMMA CollidesAbove ==
    ASSUME NEW p \in Seq(STRING), NEW l \in Seq(STRING), NEW q \in Seq(STRING),
           Collides(p \o l, q)
    PROVE  Collides(p, q)
<1>1. /\ p \o l \in Seq(STRING) /\ Len(p \o l) = Len(p) + Len(l)
      /\ \A i \in 1 .. Len(p) : (p \o l)[i] = p[i]
    OBVIOUS
<1>2. Len(p) \in Nat /\ Len(l) \in Nat /\ Len(q) \in Nat
    OBVIOUS
<1>3. CASE IsPrefix(p \o l, q)
  <2>1. Len(p \o l) <= Len(q) /\ \A i \in 1 .. Len(p \o l) : (p \o l)[i] = q[i]
      BY <1>1, <1>3, PrefixAt
  <2>2. Len(p) <= Len(q) /\ \A i \in 1 .. Len(p) : p[i] = q[i]
      BY <2>1
  <2>3. QED
      BY <2>2, PrefixAt DEF Collides
<1>4. CASE IsPrefix(q, p \o l)
  <2>1. Len(q) <= Len(p \o l) /\ \A i \in 1 .. Len(q) : q[i] = (p \o l)[i]
      BY <1>1, <1>4, PrefixAt
  <2>2. CASE Len(q) <= Len(p)
    <3>1. \A i \in 1 .. Len(q) : q[i] = p[i]
        BY <2>1, <2>2
    <3>2. QED
        BY <3>1, PrefixAt DEF Collides
  <2>3. CASE Len(p) <= Len(q)
    <3>1. \A i \in 1 .. Len(p) : p[i] = q[i]
        BY <2>1, <2>3
    <3>2. QED
        BY <3>1, PrefixAt DEF Collides
  <2>4. QED
      BY <2>2, <2>3
<1>5. QED
    BY <1>3, <1>4 DEF Collides

-----------------------------------------------------------------------------
(* SetNested.                                                              *)

\* A scalar has one leaf.
LEMMA ScalarValue ==
    ASSUME NEW x
    PROVE  IsValue(Scalar(x)) /\ DOMAIN Scalar(x) = {<<>>} /\ Scalar(x)[<<>>] = x
<1>1. DOMAIN Scalar(x) = {<<>>} /\ Scalar(x)[<<>>] = x /\ Scalar(x) = [p \in DOMAIN Scalar(x) |-> Scalar(x)[p]]
    BY DEF Scalar
<1>2. <<>> \in Seq(STRING)
    OBVIOUS
<1>3. QED
    BY <1>1 DEF IsValue

\* What SetNested promises: it leaves alone what does not collide with the path,
\* puts the value there, and makes a JSON value of it.
IsSet(n, d, path, v) ==
    /\ IsValue(n)
    /\ \A p : p \in DOMAIN n <=> (p \in DOMAIN d /\ ~Collides(p, path)) \/ p \in Under(path, v)
    /\ \A p \in DOMAIN d : ~Collides(p, path) => n[p] = d[p]
    /\ \A leaf \in DOMAIN v : n[path \o leaf] = v[leaf]

\* It keeps that, whatever the document and the value.
LEMMA SetNestedValue ==
    ASSUME NEW d, IsValue(d), NEW path \in Seq(STRING), NEW v, IsValue(v)
    PROVE  IsSet(SetNested(d, path, v), d, path, v)
<1> DEFINE kept == {p \in DOMAIN d : ~Collides(p, path)}
           n == SetNested(d, path, v)
<1>1. n = [p \in kept \cup Under(path, v) |->
              IF p \in Under(path, v) THEN v[SubSeq(p, Len(path) + 1, Len(p))] ELSE d[p]]
    BY DEF SetNested, Replace
<1> HIDE DEF n
<1>2. DOMAIN n = kept \cup Under(path, v) /\ n = [p \in DOMAIN n |-> n[p]]
    BY <1>1
<1>3. /\ DOMAIN d \subseteq Seq(STRING) /\ DOMAIN v \subseteq Seq(STRING)
      /\ \A p, q \in DOMAIN d : IsPrefix(p, q) => p = q
      /\ \A p, q \in DOMAIN v : IsPrefix(p, q) => p = q
    BY DEF IsValue
<1>4. \A p \in Under(path, v) : \E leaf \in DOMAIN v : p = path \o leaf
    BY DEF Under
<1>5. ASSUME NEW p \in Under(path, v) PROVE p \in Seq(STRING) /\ IsPrefix(path, p)
  <2>1. PICK leaf \in DOMAIN v : p = path \o leaf
      BY <1>4
  <2>2. QED
      BY <1>3, <2>1, UnderPath
<1>6. ASSUME NEW p \in kept, NEW q \in Under(path, v) PROVE ~IsPrefix(p, q) /\ ~IsPrefix(q, p)
  <2>1. PICK leaf \in DOMAIN v : q = path \o leaf
      BY <1>4
  <2>2. ~Collides(path \o leaf, p)
      BY <1>3, CollidesAbove DEF Collides
  <2>3. QED
      BY <2>1, <2>2 DEF Collides
<1>7. ASSUME NEW p \in DOMAIN n, NEW q \in DOMAIN n, IsPrefix(p, q) PROVE p = q
  <2>1. CASE p \in kept /\ q \in kept
      BY <1>3, <1>7, <2>1
  <2>2. CASE p \in Under(path, v) /\ q \in Under(path, v)
    <3>1. PICK l \in DOMAIN v, m \in DOMAIN v : p = path \o l /\ q = path \o m
        BY <1>4, <2>2
    <3>2. IsPrefix(l, m)
        BY <1>3, <1>7, <3>1, UnderPath
    <3>3. QED
        BY <1>3, <3>1, <3>2
  <2>3. QED
      BY <1>2, <1>6, <1>7, <2>1, <2>2
<1>8. IsValue(n)
    BY <1>2, <1>5, <1>7 DEF IsValue
<1>9. ASSUME NEW p \in DOMAIN d, ~Collides(p, path) PROVE n[p] = d[p]
  <2>1. p \notin Under(path, v)
      BY <1>5, <1>9 DEF Collides
  <2>2. QED
      BY <1>1, <1>9, <2>1
<1>10. ASSUME NEW leaf \in DOMAIN v PROVE n[path \o leaf] = v[leaf]
  <2>1. path \o leaf \in Under(path, v)
      BY DEF Under
  <2>2. SubSeq(path \o leaf, Len(path) + 1, Len(path \o leaf)) = leaf
      BY <1>3
  <2>3. QED
      BY <1>1, <2>1, <2>2
<1>11. QED
    BY <1>2, <1>8, <1>9, <1>10 DEF n, IsSet

\* A scalar is put at the path, and has no leaf below it.
LEMMA SetScalar ==
    ASSUME NEW d, IsValue(d), NEW path \in Seq(STRING), NEW x
    PROVE  /\ IsSet(SetNested(d, path, Scalar(x)), d, path, Scalar(x))
           /\ Under(path, Scalar(x)) = {path}
           /\ SetNested(d, path, Scalar(x))[path] = x
<1> DEFINE v == Scalar(x)
<1>1. path \o <<>> = path
    OBVIOUS
<1>2. IsValue(v) /\ DOMAIN v = {<<>>} /\ v[<<>>] = x
    BY ScalarValue
<1> HIDE DEF v
<1>3. IsSet(SetNested(d, path, v), d, path, v)
    BY <1>2, SetNestedValue
<1>4. Under(path, v) = {path}
    BY <1>2 DEF Under
<1>5. SetNested(d, path, v)[path] = x
    BY <1>2, <1>3 DEF IsSet
<1>6. QED
    BY <1>3, <1>4, <1>5 DEF v

-----------------------------------------------------------------------------
(* The inductive invariant.                                                *)

Ids == Sessions \cup {NoSession, Torn}

\* Where a payload carries a session id.
Carried(s) == {p \in DOMAIN payload[s] : payload[s][p] \in Ids}

\* A static field that shares its place with no other.
Alone(path) == \A other \in DOMAIN cfg.static \ {path} : ~Collides(other, path)

\* No payload holds an object of the configuration, which so stays as it was.
Copied ==
    /\ static = cfg.static
    /\ \A s \in Senders : borrows[s] = {}

\* What each stage of a Send has behind it.
Staged(s) ==
    /\ pc[s] = "idle" => payload[s] = Empty
    /\ pc[s] \notin {"idle", "static"} => todo[s] = {}
    /\ pc[s] \in {"session", "write"} => cfg.session # <<>>

\* The message, once written, is overwritten by nothing but the session id.
Placed(s) ==
    \/ pc[s] \in {"session", "write"}
    \/ pc[s] = "built" /\ ~(cfg.session # <<>> /\ Collides(cfg.session, cfg.message))
    => cfg.message \in DOMAIN payload[s] /\ payload[s][cfg.message] = s

\* The leaves of a static field, once written, by nothing but these two.
Kept(s) ==
    pc[s] # "idle" =>
        \A path \in DOMAIN cfg.static \ todo[s] : Alone(path) =>
            \A leaf \in DOMAIN cfg.static[path] :
                \/ Collides(path \o leaf, cfg.message)
                \/ cfg.session # <<>> /\ Collides(path \o leaf, cfg.session)
                \/ path \o leaf \in DOMAIN payload[s] /\ payload[s][path \o leaf] = cfg.static[path][leaf]

\* While no SetSession overlaps a Send, the session id is the one it began with,
\* and its payload holds none until the last write.
Settled(s) ==
    seen[s] # Torn =>
        /\ pc[s] \in {"static", "session", "write"} =>
              setting = NoSession /\ sessionID = seen[s] /\ Carried(s) = {}
        /\ pc[s] = "write" => seen[s] # NoSession
        /\ pc[s] = "built" =>
              /\ Carried(s) = IF seen[s] = NoSession \/ cfg.session = <<>> THEN {} ELSE {cfg.session}
              /\ \A p \in Carried(s) : payload[s][p] = seen[s]

SendInv(s) == Staged(s) /\ Placed(s) /\ Kept(s) /\ Settled(s)

IInv == TypeOK /\ Copied /\ \A s \in Senders : SendInv(s)

-----------------------------------------------------------------------------
(* Writing to a payload.                                                   *)

\* A request mapping holds paths and JSON values, and no session id.
LEMMA Mapping ==
    ASSUME NEW c \in Configs
    PROVE  /\ c.message \in Seq(STRING) /\ c.session \in Seq(STRING)
           /\ c.static = [path \in DOMAIN c.static |-> c.static[path]]
           /\ \A path \in DOMAIN c.static :
                 /\ path \in Seq(STRING) /\ IsValue(c.static[path])
                 /\ \A leaf \in DOMAIN c.static[path] : c.static[path][leaf] \notin Ids
BY ConfigsAssumption, ContentsAssumption DEF Ids

\* With nothing borrowed, a write changes the payload of its Send and no more.
LEMMA WriteOwn ==
    ASSUME TypeOK, Copied, NEW s \in Senders, NEW path, NEW v, Write(s, path, v)
    PROVE  /\ static' = static
           /\ payload' = [payload EXCEPT ![s] = SetNested(payload[s], path, v)]
<1>1. \A r \in Senders : borrows[r] = {}
    BY DEF Copied
<1>2. static = [b \in DOMAIN static |-> static[b]]
    BY DEF TypeOK
<1>3. static' = [b \in DOMAIN static |-> static[b]]
    BY <1>1 DEF Write
<1>4. payload' = [r \in Senders |-> IF r = s THEN SetNested(payload[r], path, v) ELSE payload[r]]
    BY <1>1 DEF Write
<1>5. payload = [r \in Senders |-> payload[r]]
    BY DEF TypeOK
<1> HIDE DEF SetNested
<1>6. QED
    BY <1>2, <1>3, <1>4, <1>5

\* A written value with no session id in it adds none.
LEMMA NoneCarried ==
    ASSUME NEW d, NEW path, NEW v, NEW n, IsSet(n, d, path, v),
           \A p \in DOMAIN d : d[p] \notin Ids,
           \A leaf \in DOMAIN v : v[leaf] \notin Ids
    PROVE  \A p \in DOMAIN n : n[p] \notin Ids
<1> SUFFICES ASSUME NEW p \in DOMAIN n PROVE n[p] \notin Ids
    OBVIOUS
<1>1. CASE p \in DOMAIN d /\ ~Collides(p, path)
    BY <1>1 DEF IsSet
<1>2. CASE p \in Under(path, v)
  <2>1. PICK leaf \in DOMAIN v : p = path \o leaf
      BY <1>2 DEF Under
  <2>2. QED
      BY <2>1 DEF IsSet
<1>3. QED
    BY <1>2 DEF IsSet

\* A step of one Send that leaves the configuration and the sessions alone, and
\* the payload of every other Send, leaves what is known of the others.
LEMMA OthersKeep ==
    ASSUME IInv, NEW s \in Senders, NEW r \in Senders, r # s,
           UNCHANGED <<cfg, sessionVars>>,
           pc'[r] = pc[r], todo'[r] = todo[r], payload'[r] = payload[r], seen'[r] = seen[r]
    PROVE  SendInv(r)'
<1>1. SendInv(r)
    BY DEF IInv
<1>2. QED
    BY <1>1 DEF SendInv, Staged, Placed, Kept, Settled, Alone, Carried, sessionVars

-----------------------------------------------------------------------------
(* Every step keeps the invariant.                                         *)

LEMMA Initially == Init => IInv
<1> SUFFICES ASSUME Init PROVE IInv
    OBVIOUS
<1>1. IsValue(Empty) /\ DOMAIN Empty = {<<>>} /\ Empty[<<>>] = "{}"
    BY ScalarValue DEF Empty
<1>2. cfg \in Configs
    BY DEF Init
<1>3. static = [path \in DOMAIN cfg.static |-> static[path]]
    BY Mapping DEF Init
<1>4. TypeOK
    BY <1>1, <1>3 DEF Init, TypeOK
<1>5. Copied
    BY DEF Init, Copied
<1>6. ASSUME NEW s \in Senders PROVE SendInv(s)
    BY DEF Init, SendInv, Staged, Placed, Kept, Settled
<1>7. QED
    BY <1>4, <1>5, <1>6 DEF IInv

\* An empty payload carries no session id.
LEMMA BuildPayloadKeeps ==
    ASSUME IInv, NEW s \in Senders, BuildPayload(s) PROVE IInv'
<1>1. TypeOK /\ Copied /\ SendInv(s)
    BY DEF IInv
<1>2. /\ pc' = [pc EXCEPT ![s] = "static"] /\ todo' = [todo EXCEPT ![s] = DOMAIN static]
      /\ seen' = [seen EXCEPT ![s] = IF setting = NoSession THEN sessionID ELSE Torn]
      /\ cfg' = cfg /\ static' = static /\ sessionID' = sessionID /\ setting' = setting
      /\ payload' = payload /\ borrows' = borrows
    BY DEF BuildPayload, Goto, sessionVars
<1>3. DOMAIN static = DOMAIN cfg.static
    BY <1>1 DEF Copied
<1>4. TypeOK' /\ Copied'
    BY <1>1, <1>2 DEF TypeOK, Copied
<1>5. pc'[s] = "static" /\ todo'[s] = DOMAIN cfg.static
      /\ seen'[s] = (IF setting = NoSession THEN sessionID ELSE Torn)
    BY <1>1, <1>2 DEF TypeOK
<1>6. payload[s] = Empty
    BY <1>1 DEF SendInv, Staged, BuildPayload
<1>7. Carried(s) = {}
  <2>1. DOMAIN Empty = {<<>>} /\ Empty[<<>>] = "{}"
      BY ScalarValue DEF Empty
  <2>2. QED
      BY <1>6, <2>1, ContentsAssumption DEF Carried, Ids
<1>8. Carried(s)' = {}
    BY <1>2, <1>7 DEF Carried
<1>9. SendInv(s)'
    BY <1>2, <1>5, <1>8 DEF SendInv, Staged, Placed, Kept, Settled
<1>10. ASSUME NEW r \in Senders, r # s PROVE SendInv(r)'
    BY <1>2, <1>10, OthersKeep DEF sessionVars
<1>11. QED
    BY <1>4, <1>9, <1>10 DEF IInv

\* A static field is written beside those that share no place with it.
LEMMA WriteStaticKeeps ==
    ASSUME IInv, NEW s \in Senders, WriteStatic(s) PROVE IInv'
<1>1. TypeOK /\ Copied /\ SendInv(s)
    BY DEF IInv
<1>2. PICK path \in todo[s] :
          /\ Write(s, path, static[path])
          /\ todo' = [todo EXCEPT ![s] = @ \ {path}]
          /\ borrows' = [borrows EXCEPT ![s] = {b \in @ : ~IsPrefix(path, b)} \cup CloneJSON(path)]
    BY DEF WriteStatic
<1> DEFINE v == cfg.static[path]
<1>3. path \in DOMAIN cfg.static /\ static[path] = v
    BY <1>1 DEF TypeOK, Copied
<1>4. /\ path \in Seq(STRING) /\ IsValue(v)
      /\ \A leaf \in DOMAIN v : v[leaf] \notin Ids
    BY <1>1, Mapping DEF TypeOK
<1>5. cfg' = cfg /\ sessionID' = sessionID /\ setting' = setting /\ pc' = pc /\ seen' = seen /\ pc[s] = "static"
    BY DEF WriteStatic, sessionVars
<1> HIDE DEF v
<1>6. static' = static /\ payload' = [payload EXCEPT ![s] = SetNested(payload[s], path, v)]
    BY <1>1, <1>2, <1>3, WriteOwn
<1>7. IsValue(payload[s]) /\ payload'[s] = SetNested(payload[s], path, v)
    BY <1>1, <1>6 DEF TypeOK
<1>8. IsSet(payload'[s], payload[s], path, v)
    BY <1>4, <1>7, SetNestedValue
<1>9. todo'[s] = todo[s] \ {path} /\ todo[s] \subseteq DOMAIN cfg.static
    BY <1>1, <1>2 DEF TypeOK
<1>10. borrows' = borrows
    BY <1>1, <1>2 DEF CloneJSON, Copied, TypeOK
<1>11. TypeOK' /\ Copied'
  <2>1. ASSUME NEW r \in Senders PROVE IsValue(payload'[r])
      BY <1>1, <1>6, <1>8 DEF TypeOK, IsSet
  <2>2. payload' = [r \in Senders |-> payload'[r]]
      BY <1>1, <1>6 DEF TypeOK
  <2>3. todo' \in [Senders -> SUBSET DOMAIN cfg.static]
      BY <1>1, <1>2 DEF TypeOK
  <2>4. QED
      BY <1>1, <1>5, <1>6, <1>10, <2>1, <2>3 DEF TypeOK, Copied
<1>12. Kept(s)'
  <2> SUFFICES ASSUME NEW field \in DOMAIN cfg.static \ todo'[s], Alone(field),
                      NEW leaf \in DOMAIN cfg.static[field]
               PROVE  \/ Collides(field \o leaf, cfg.message)
                      \/ cfg.session # <<>> /\ Collides(field \o leaf, cfg.session)
                      \/ /\ field \o leaf \in DOMAIN payload'[s]
                         /\ payload'[s][field \o leaf] = cfg.static[field][leaf]
      BY <1>5 DEF Kept, Alone
  <2>1. CASE field = path
    <3>1. path \o leaf \in Under(path, v)
        BY <2>1 DEF Under, v
    <3>2. QED
        BY <1>8, <2>1, <3>1 DEF IsSet, v
  <2>2. CASE field # path
    <3>1. field \in DOMAIN cfg.static \ todo[s]
        BY <1>9, <2>2
    <3>2. ~Collides(path, field)
        BY <1>3, <2>2 DEF Alone
    <3>3. ~Collides(field, path)
        BY <3>2 DEF Collides
    <3>4. field \in Seq(STRING) /\ leaf \in Seq(STRING)
        BY <1>1, Mapping DEF TypeOK, IsValue
    <3>5. ~Collides(field \o leaf, path)
        BY <1>4, <3>3, <3>4, CollidesAbove
    <3>6. \/ Collides(field \o leaf, cfg.message)
          \/ cfg.session # <<>> /\ Collides(field \o leaf, cfg.session)
          \/ field \o leaf \in DOMAIN payload[s] /\ payload[s][field \o leaf] = cfg.static[field][leaf]
        BY <1>1, <1>5, <3>1 DEF SendInv, Kept
    <3>7. QED
        BY <1>8, <3>5, <3>6 DEF IsSet
  <2>3. QED
      BY <2>1, <2>2
<1>13. Settled(s)'
  <2>1. ASSUME seen[s] # Torn PROVE Carried(s)' = {}
    <3>1. \A p \in DOMAIN payload[s] : payload[s][p] \notin Ids
        BY <1>1, <1>5, <2>1 DEF SendInv, Settled, Carried
    <3>2. \A p \in DOMAIN payload'[s] : payload'[s][p] \notin Ids
        BY <1>4, <1>8, <3>1, NoneCarried
    <3>3. QED
        BY <3>2 DEF Carried
  <2>2. QED
      BY <1>1, <1>5, <2>1 DEF SendInv, Settled
<1>14. Staged(s)' /\ Placed(s)'
    BY <1>5 DEF Staged, Placed
<1>15. ASSUME NEW r \in Senders, r # s PROVE SendInv(r)'
    BY <1>2, <1>5, <1>6, <1>15, OthersKeep DEF sessionVars
<1>16. QED
    BY <1>11, <1>12, <1>13, <1>14, <1>15 DEF IInv, SendInv

\* The message takes its place, and nothing else's.
LEMMA WriteMessageKeeps ==
    ASSUME IInv, NEW s \in Senders, WriteMessage(s) PROVE IInv'
<1> DEFINE next == IF cfg.session = <<>> THEN "built" ELSE "session"
<1>1. TypeOK /\ Copied /\ SendInv(s)
    BY DEF IInv
<1>2. /\ cfg' = cfg /\ sessionID' = sessionID /\ setting' = setting /\ seen' = seen
      /\ todo' = todo /\ borrows' = borrows /\ pc' = [pc EXCEPT ![s] = next]
      /\ pc[s] = "static" /\ todo[s] = {} /\ Write(s, cfg.message, Scalar(s))
    BY DEF WriteMessage, Goto, sessionVars
<1>3. cfg.message \in Seq(STRING) /\ cfg.session \in Seq(STRING)
    BY <1>1, Mapping DEF TypeOK
<1>4. static' = static /\ payload' = [payload EXCEPT ![s] = SetNested(payload[s], cfg.message, Scalar(s))]
    BY <1>1, <1>2, WriteOwn
<1>5. pc'[s] = next /\ IsValue(payload[s])
      /\ payload'[s] = SetNested(payload[s], cfg.message, Scalar(s))
    BY <1>1, <1>2, <1>4 DEF TypeOK
<1>6. /\ IsSet(payload'[s], payload[s], cfg.message, Scalar(s))
      /\ Under(cfg.message, Scalar(s)) = {cfg.message}
      /\ payload'[s][cfg.message] = s
    BY <1>3, <1>5, SetScalar
<1>7. TypeOK' /\ Copied'
  <2>1. ASSUME NEW r \in Senders PROVE IsValue(payload'[r])
      BY <1>1, <1>4, <1>6 DEF TypeOK, IsSet
  <2>2. payload' = [r \in Senders |-> payload'[r]]
      BY <1>1, <1>4 DEF TypeOK
  <2>3. QED
      BY <1>1, <1>2, <1>4, <2>1 DEF TypeOK, Copied
<1>8. Staged(s)' /\ Placed(s)'
    BY <1>2, <1>6 DEF Staged, Placed, IsSet
<1>9. Kept(s)'
  <2> SUFFICES ASSUME NEW field \in DOMAIN cfg.static, Alone(field),
                      NEW leaf \in DOMAIN cfg.static[field], ~Collides(field \o leaf, cfg.message),
                      ~(cfg.session # <<>> /\ Collides(field \o leaf, cfg.session))
               PROVE  /\ field \o leaf \in DOMAIN payload'[s]
                      /\ payload'[s][field \o leaf] = cfg.static[field][leaf]
      BY <1>2 DEF Kept, Alone
  <2>1. field \o leaf \in DOMAIN payload[s] /\ payload[s][field \o leaf] = cfg.static[field][leaf]
      BY <1>1, <1>2 DEF SendInv, Kept
  <2>2. QED
      BY <1>6, <2>1 DEF IsSet
<1>10. Settled(s)'
  <2>1. ASSUME seen[s] # Torn PROVE Carried(s)' = {}
    <3>1. \A p \in DOMAIN payload[s] : payload[s][p] \notin Ids
        BY <1>1, <1>2, <2>1 DEF SendInv, Settled, Carried
    <3>2. \A leaf \in DOMAIN Scalar(s) : Scalar(s)[leaf] \notin Ids
        BY ScalarValue, ContentsAssumption DEF Ids
    <3>3. \A p \in DOMAIN payload'[s] : payload'[s][p] \notin Ids
        BY <1>6, <3>1, <3>2, NoneCarried
    <3>4. QED
        BY <3>3 DEF Carried
  <2>2. QED
      BY <1>1, <1>2, <2>1 DEF SendInv, Settled
<1>11. ASSUME NEW r \in Senders, r # s PROVE SendInv(r)'
    BY <1>2, <1>4, <1>11, OthersKeep DEF sessionVars
<1>12. QED
    BY <1>7, <1>8, <1>9, <1>10, <1>11 DEF IInv, SendInv

\* With no SetSession beside it, the check of the id sees the one id there is.
LEMMA SessionReadKeeps ==
    ASSUME IInv, NEW s \in Senders, CheckSession(s) \/ SkipSession(s) PROVE IInv'
<1>1. TypeOK /\ Copied /\ SendInv(s)
    BY DEF IInv
<1>2. /\ cfg' = cfg /\ static' = static /\ sessionID' = sessionID /\ setting' = setting
      /\ todo' = todo /\ payload' = payload /\ borrows' = borrows /\ seen' = seen /\ pc[s] = "session"
    BY DEF CheckSession, SkipSession, HasSession, sessionVars
<1>3. /\ \/ pc'[s] = "write" /\ \E id \in Read : id # NoSession
         \/ pc'[s] = "built" /\ NoSession \in Read
      /\ \A r \in Senders : r # s => pc'[r] = pc[r]
      /\ pc' \in [Senders -> {"idle", "static", "session", "write", "built"}]
    BY <1>1 DEF CheckSession, SkipSession, HasSession, Goto, TypeOK
<1>4. TypeOK' /\ Copied'
    BY <1>1, <1>2, <1>3 DEF TypeOK, Copied
<1>5. Staged(s)' /\ Placed(s)' /\ Kept(s)'
    BY <1>1, <1>2, <1>3 DEF SendInv, Staged, Placed, Kept, Alone
<1>6. Settled(s)'
  <2> SUFFICES ASSUME seen[s] # Torn PROVE Settled(s)'
      BY <1>2 DEF Settled
  <2>1. setting = NoSession /\ sessionID = seen[s] /\ Carried(s) = {}
      BY <1>1, <1>2 DEF SendInv, Settled
  <2>2. Read = {seen[s]} /\ Carried(s)' = {}
      BY <1>2, <2>1 DEF Read, Carried
  <2>3. QED
      BY <1>2, <1>3, <2>1, <2>2 DEF Settled
<1>7. ASSUME NEW r \in Senders, r # s PROVE SendInv(r)'
    BY <1>2, <1>3, <1>7, OthersKeep DEF sessionVars
<1>8. QED
    BY <1>4, <1>5, <1>6, <1>7 DEF IInv, SendInv

\* The session id takes its place, the message's too where they share it.
LEMMA WriteSessionKeeps ==
    ASSUME IInv, NEW s \in Senders, WriteSession(s) PROVE IInv'
<1>1. TypeOK /\ Copied /\ SendInv(s)
    BY DEF IInv
<1>2. PICK id \in Read : Write(s, cfg.session, Scalar(id))
    BY DEF WriteSession
<1>3. /\ cfg' = cfg /\ sessionID' = sessionID /\ setting' = setting /\ seen' = seen
      /\ todo' = todo /\ borrows' = borrows /\ pc' = [pc EXCEPT ![s] = "built"] /\ pc[s] = "write"
    BY DEF WriteSession, Goto, sessionVars
<1>4. cfg.message \in Seq(STRING) /\ cfg.session \in Seq(STRING)
    BY <1>1, Mapping DEF TypeOK
<1>5. static' = static /\ payload' = [payload EXCEPT ![s] = SetNested(payload[s], cfg.session, Scalar(id))]
    BY <1>1, <1>2, WriteOwn
<1>6. pc'[s] = "built" /\ IsValue(payload[s])
      /\ payload'[s] = SetNested(payload[s], cfg.session, Scalar(id))
    BY <1>1, <1>3, <1>5 DEF TypeOK
<1>7. /\ IsSet(payload'[s], payload[s], cfg.session, Scalar(id))
      /\ Under(cfg.session, Scalar(id)) = {cfg.session}
      /\ payload'[s][cfg.session] = id
    BY <1>4, <1>6, SetScalar
<1>8. TypeOK' /\ Copied'
  <2>1. ASSUME NEW r \in Senders PROVE IsValue(payload'[r])
      BY <1>1, <1>5, <1>7 DEF TypeOK, IsSet
  <2>2. payload' = [r \in Senders |-> payload'[r]]
      BY <1>1, <1>5 DEF TypeOK
  <2>3. QED
      BY <1>1, <1>3, <1>5, <2>1 DEF TypeOK, Copied
<1>9. cfg.session # <<>> /\ todo[s] = {} /\ cfg.message \in DOMAIN payload[s] /\ payload[s][cfg.message] = s
    BY <1>1, <1>3 DEF SendInv, Staged, Placed
<1>10. Staged(s)' /\ Placed(s)'
    BY <1>3, <1>6, <1>7, <1>9 DEF Staged, Placed, IsSet, Collides
<1>11. Kept(s)'
  <2> SUFFICES ASSUME NEW field \in DOMAIN cfg.static, Alone(field),
                      NEW leaf \in DOMAIN cfg.static[field], ~Collides(field \o leaf, cfg.message),
                      ~(cfg.session # <<>> /\ Collides(field \o leaf, cfg.session))
               PROVE  /\ field \o leaf \in DOMAIN payload'[s]
                      /\ payload'[s][field \o leaf] = cfg.static[field][leaf]
      BY <1>3 DEF Kept, Alone
  <2>1. field \o leaf \in DOMAIN payload[s] /\ payload[s][field \o leaf] = cfg.static[field][leaf]
      BY <1>1, <1>3, <1>9 DEF SendInv, Kept
  <2>2. QED
      BY <1>7, <1>9, <2>1 DEF IsSet
<1>12. Settled(s)'
  <2> SUFFICES ASSUME seen[s] # Torn PROVE Settled(s)'
      BY <1>3 DEF Settled
  <2>1. setting = NoSession /\ sessionID = seen[s] /\ Carried(s) = {} /\ seen[s] # NoSession
      BY <1>1, <1>3 DEF SendInv, Settled
  <2>2. id = seen[s]
      BY <2>1 DEF Read
  <2>3. id \in Ids
      BY <1>1, <2>2 DEF TypeOK, Ids
  <2>4. ASSUME NEW p \in DOMAIN payload'[s], p # cfg.session PROVE payload'[s][p] \notin Ids
      BY <1>7, <2>1, <2>4 DEF IsSet, Carried
  <2>5. cfg.session \in DOMAIN payload'[s]
      BY <1>7 DEF IsSet
  <2>6. Carried(s)' = {cfg.session}
      BY <1>7, <2>3, <2>4, <2>5 DEF Carried
  <2>7. QED
      BY <1>3, <1>6, <1>7, <1>9, <2>1, <2>2, <2>6 DEF Settled
<1>13. ASSUME NEW r \in Senders, r # s PROVE SendInv(r)'
    BY <1>3, <1>5, <1>13, OthersKeep DEF sessionVars
<1>14. QED
    BY <1>8, <1>10, <1>11, <1>12, <1>13 DEF IInv, SendInv

\* A SetSession marks the Sends it overlaps, which alone rely on the id.
LEMMA SetSessionKeeps ==
    ASSUME IInv, SessionSet \/ \E id \in Sessions : SetSession(id) PROVE IInv'
<1>1. TypeOK /\ Copied
    BY DEF IInv
<1>2. /\ cfg' = cfg /\ static' = static /\ pc' = pc /\ todo' = todo
      /\ payload' = payload /\ borrows' = borrows
    BY DEF SessionSet, SetSession, buildVars
<1>3. /\ sessionID' \in Sessions \cup {NoSession} /\ setting' \in Sessions \cup {NoSession}
      /\ seen' \in [Senders -> Sessions \cup {NoSession, Torn}]
    BY <1>1 DEF SessionSet, SetSession, TypeOK
<1>4. TypeOK' /\ Copied'
    BY <1>1, <1>2, <1>3 DEF TypeOK, Copied
<1>5. ASSUME NEW s \in Senders PROVE SendInv(s)'
  <2>1. SendInv(s) /\ Carried(s)' = Carried(s)
      BY <1>2 DEF IInv, Carried
  <2>2. Staged(s)' /\ Placed(s)' /\ Kept(s)'
      BY <1>2, <2>1 DEF SendInv, Staged, Placed, Kept, Alone
  <2>3. ASSUME pc[s] \in {"idle", "built"} PROVE Settled(s)'
    <3>1. seen'[s] = seen[s]
        BY <2>3 DEF SessionSet, SetSession
    <3>2. QED
        BY <1>2, <2>1, <2>3, <3>1 DEF SendInv, Settled
  <2>4. ASSUME pc[s] \notin {"idle", "built"} PROVE Settled(s)'
    <3>1. pc[s] \in {"static", "session", "write"}
        BY <1>1, <2>4 DEF TypeOK
    <3>2. seen'[s] = Torn
        BY <2>1, <3>1 DEF SessionSet, SetSession, SendInv, Settled
    <3>3. QED
        BY <3>2 DEF Settled
  <2>5. QED
      BY <2>2, <2>3, <2>4 DEF SendInv
<1>6. QED
    BY <1>4, <1>5 DEF IInv

LEMMA StutterKeeps == IInv /\ UNCHANGED vars => IInv'
BY
   DEF IInv, TypeOK, Copied, SendInv, Staged, Placed, Kept, Settled, Carried, Alone, vars,
       sessionVars, buildVars

-----------------------------------------------------------------------------
(* The theorems.                                                           *)

\* The inductive invariant holds in every state, whatever the mapping.
THEOREM Invariance == Spec => []IInv
<1>1. ASSUME IInv, [Next]_vars PROVE IInv'
  <2>1. CASE \E s \in Senders : BuildPayload(s)
      BY <1>1, <2>1, BuildPayloadKeeps
  <2>2. CASE \E s \in Senders : WriteStatic(s)
      BY <1>1, <2>2, WriteStaticKeeps
  <2>3. CASE \E s \in Senders : WriteMessage(s)
      BY <1>1, <2>3, WriteMessageKeeps
  <2>4. CASE \E s \in Senders : CheckSession(s) \/ SkipSession(s)
      BY <1>1, <2>4, SessionReadKeeps
  <2>5. CASE \E s \in Senders : WriteSession(s)
      BY <1>1, <2>5, WriteSessionKeeps
  <2>6. CASE SessionSet \/ \E id \in Sessions : SetSession(id)
      BY <1>1, <2>6, SetSessionKeeps
  <2>7. CASE UNCHANGED vars
      BY <1>1, <2>7, StutterKeeps
  <2>8. QED
      BY <1>1, <2>1, <2>2, <2>3, <2>4, <2>5, <2>6, <2>7 DEF Next
<1>2. QED
    BY <1>1, Initially, PTL DEF Spec

\* Payloads are JSON values, and static fields keep their places.
THEOREM TypeCorrect == Spec => []TypeOK
<1>1. IInv => TypeOK
    BY DEF IInv
<1>2. QED
    BY <1>1, Invariance, PTL

\* The technique's payload wins a collision with the static fields, whatever they
\* are and in whatever order a map yields them: each Send sends its own message.
THEOREM MessageIsSent == Spec => []MessageSent
<1>1. ASSUME IInv PROVE MessageSent
  <2>1. ASSUME NEW s \in Senders, Built(s)
        PROVE  /\ \A p, q \in DOMAIN payload[s] : IsPrefix(p, q) => p = q
               /\ ~(cfg.session # <<>> /\ Collides(cfg.session, cfg.message)) =>
                     cfg.message \in DOMAIN payload[s] /\ payload[s][cfg.message] = s
      BY <1>1, <2>1 DEF IInv, TypeOK, IsValue, SendInv, Placed, Built
  <2>2. QED
      BY <2>1 DEF MessageSent
<1>2. QED
    BY <1>1, Invariance, PTL

\* Concurrent Sends never change the configuration they share, and every static
\* field that shares its place with no other is in each payload.
THEOREM StaticIsSent == Spec => []StaticSent
<1>1. ASSUME IInv PROVE StaticSent
  <2>1. static = cfg.static
      BY <1>1 DEF IInv, Copied
  <2>2. ASSUME NEW s \in Senders, Built(s), NEW path \in DOMAIN cfg.static,
               \A other \in DOMAIN cfg.static \ {path} : ~Collides(other, path),
               NEW leaf \in DOMAIN cfg.static[path]
        PROVE  \/ Collides(path \o leaf, cfg.message)
               \/ cfg.session # <<>> /\ Collides(path \o leaf, cfg.session)
               \/ path \o leaf \in DOMAIN payload[s] /\ payload[s][path \o leaf] = cfg.static[path][leaf]
      BY <1>1, <2>2 DEF IInv, SendInv, Staged, Kept, Alone, Built
  <2>3. QED
      BY <2>1, <2>2 DEF StaticSent
<1>2. QED
    BY <1>1, Invariance, PTL

\* A Send that no SetSession overlaps carries the one id there was, or none.
THEOREM SessionIsSettled == Spec => []SessionSettled
<1>1. ASSUME IInv PROVE SessionSettled
    BY <1>1 DEF IInv, SendInv, Settled, Carried, Ids, Built, SessionSettled
<1>2. QED
    BY <1>1, Invariance, PTL


-----------------------------------------------------------------------------
(* Induction and recursion over the natural numbers.                       *)

\* What is so of 0, and of n + 1 if of n, is so of every number.
LEMMA Induction ==
    ASSUME NEW S, 0 \in S, \A n \in Nat : n \in S => n + 1 \in S
    PROVE  \A n \in Nat : n \in S
<1> DEFINE Out == {n \in Nat : n \notin S}
           R   == OpToRel(<, Nat)
<1>1. SUFFICES ASSUME Out # {} PROVE FALSE
    BY <1>1
<1>2. PICK m \in Out : \A n \in Out : <<n, m>> \notin R
  <2>1. Out \subseteq Nat
      OBVIOUS
  <2> HIDE DEF Out
  <2>2. QED
      BY <1>1, <2>1, NatLessThanWellFounded, WFMin, Zenon
<1> HIDE DEF R
<1>3. m \in Nat /\ m # 0 /\ m - 1 \in Nat /\ m - 1 < m
    BY <1>2
<1>4. m - 1 \in S
  <2>1. m - 1 \in Out => <<m - 1, m>> \in R
      BY <1>2, <1>3, Zenon DEF OpToRel, R
  <2>2. QED
      BY <1>2, <1>3, <2>1
<1>5. m \in S
  <2>1. (m - 1) + 1 = m
      BY <1>3
  <2>2. QED
      BY <1>3, <1>4, <2>1
<1>6. QED
    BY <1>2, <1>5

\* f begins with b and goes on by the functions of step.
Follows(f, S, b, N, step) ==
    f \in [0 .. N -> S] /\ f[0] = b /\ \A n \in 1 .. N : f[n] = step[n][f[n - 1]]

\* There is such a function, for any of these.
LEMMA Recursion ==
    ASSUME NEW S, NEW b \in S, NEW N \in Nat, NEW step \in [1 .. N -> [S -> S]]
    PROVE  \E f : Follows(f, S, b, N, step)
<1> DEFINE Is(f, m) == f \in [0 .. m -> S] /\ f[0] = b /\ \A n \in 1 .. m : f[n] = step[n][f[n - 1]]
           D == {m \in Nat : m <= N => \E f : Is(f, m)}
<1>1. 0 \in D
  <2>1. Is([n \in 0 .. 0 |-> b], 0)
      OBVIOUS
  <2>2. QED
      BY <2>1
<1>2. ASSUME NEW m \in Nat, m \in D PROVE m + 1 \in D
  <2>1. SUFFICES ASSUME m + 1 <= N PROVE \E f : Is(f, m + 1)
      BY <2>1
  <2>2. PICK f : Is(f, m)
      BY <1>2, <2>1
  <2> DEFINE g == [n \in 0 .. m + 1 |-> IF n = m + 1 THEN step[m + 1][f[m]] ELSE f[n]]
  <2>3. m + 1 \in 1 .. N /\ f[m] \in S
      BY <2>1, <2>2
  <2>4. step[m + 1][f[m]] \in S
      BY <2>3
  <2>5. g \in [0 .. m + 1 -> S] /\ g[0] = b
      BY <2>2, <2>4
  <2>6. ASSUME NEW n \in 1 .. m + 1 PROVE g[n] = step[n][g[n - 1]]
    <3>1. CASE n = m + 1
        BY <3>1
    <3>2. CASE n \in 1 .. m
        BY <2>2, <3>2
    <3>3. QED
        BY <3>1, <3>2
  <2>7. QED
      BY <2>5, <2>6
<1>3. \A m \in Nat : m \in D
  <2> HIDE DEF D
  <2>1. QED
      BY <1>1, <1>2, Induction
<1>4. QED
    BY <1>3 DEF Follows

\* What is so of a function's value at 0, and of each that follows one.
LEMMA StaysIn ==
    ASSUME NEW S, NEW N \in Nat, NEW f, f[0] \in S, \A n \in 1 .. N : f[n - 1] \in S => f[n] \in S
    PROVE  \A n \in 0 .. N : f[n] \in S
<1> DEFINE D == {n \in Nat : n <= N => f[n] \in S}
<1>1. 0 \in D
    OBVIOUS
<1>2. ASSUME NEW n \in Nat, n \in D PROVE n + 1 \in D
  <2>1. n + 1 <= N => n + 1 \in 1 .. N /\ (n + 1) - 1 = n /\ f[n] \in S
      BY <1>2
  <2>2. QED
      BY <2>1
<1>3. \A n \in Nat : n \in D
  <2> HIDE DEF D
  <2>1. QED
      BY <1>1, <1>2, Induction
<1>4. QED
    BY <1>3

-----------------------------------------------------------------------------
(* The field that is read.                                                 *)

Walks == [v : Values \cup {Absent}, ended : BOOLEAN]

\* What is not there is no JSON value.
LEMMA AbsentIsNone == Absent \notin Values
BY ValuesAssumption DEF Absent

\* A segment has a key, and perhaps an index.
LEMMA SegmentShape ==
    ASSUME NEW seg \in Segments
    PROVE  /\ seg.key \in STRING
           /\ "at" \in DOMAIN seg => seg.at \in Int
<1>1. CASE seg \in [key : STRING]
  <2>1. DOMAIN seg = {"key"} /\ seg.key \in STRING
      BY <1>1
  <2>2. QED
      BY <2>1
<1>2. CASE seg \in [key : STRING, at : Int]
    BY <1>2
<1>3. QED
    BY <1>1, <1>2 DEF Segments

\* A member of an object, an item of an array, or nothing.
LEMMA FieldIn ==
    ASSUME NEW v \in Values \cup {Absent}, NEW k
    PROVE  Field(v, k) \in Values \cup {Absent}
BY ValuesAssumption DEF Field, Absent

LEMMA ItemsOf ==
    ASSUME NEW v \in Values, v.is = "arr"
    PROVE  /\ Len(v.of) \in Nat /\ DOMAIN v.of = 1 .. Len(v.of)
           /\ \A j \in 1 .. Len(v.of) : v.of[j] \in Values
<1>1. v.of \in Seq(Values)
    BY ValuesAssumption
<1>2. QED
    BY <1>1

LEMMA ItemIn ==
    ASSUME NEW v \in Values \cup {Absent}, NEW i \in Int
    PROVE  Item(v, i) \in Values \cup {Absent}
<1>1. CASE v.is # "arr"
    BY <1>1 DEF Item
<1>2. CASE v.is = "arr"
  <2>1. v \in Values
      BY <1>2 DEF Absent
  <2> DEFINE j == IF i < 0 THEN i + Len(v.of) ELSE i
  <2>2. 0 <= j /\ j < Len(v.of) => j + 1 \in 1 .. Len(v.of)
      BY <1>2, <2>1, ItemsOf
  <2>3. Item(v, i) = IF 0 <= j /\ j < Len(v.of) THEN v.of[j + 1] ELSE Absent
      BY <1>2 DEF Item
  <2> HIDE DEF j
  <2>4. QED
      BY <1>2, <2>1, <2>2, <2>3, ItemsOf
<1>3. QED
    BY <1>1, <1>2

LEMMA FollowIn ==
    ASSUME NEW w \in Walks, NEW seg \in Segments
    PROVE  Follow(w, seg) \in Walks
<1>1. w.v \in Values \cup {Absent}
    BY DEF Walks
<1>2. Field(w.v, seg.key) \in Values \cup {Absent}
    BY <1>1, FieldIn
<1>3. CASE ~w.ended /\ "at" \in DOMAIN seg
  <2> DEFINE u == IF w.v.is = "obj" THEN Field(w.v, seg.key) ELSE w.v
  <2>1. u \in Values \cup {Absent}
      BY <1>1, <1>2
  <2>2. Item(u, seg.at) \in Values \cup {Absent}
      BY <1>3, <2>1, SegmentShape, ItemIn
  <2>3. Follow(w, seg) = Come(Item(u, seg.at))
      BY <1>3 DEF Follow
  <2> HIDE DEF u
  <2>4. QED
      BY <2>2, <2>3 DEF Walks, Come
<1>4. CASE w.ended \/ "at" \notin DOMAIN seg
    BY <1>1, <1>2, <1>4 DEF Follow, Walks, Come
<1>5. QED
    BY <1>3, <1>4

\* A path is followed segment by segment.
LEMMA LookupsFollow ==
    ASSUME NEW d \in Values, NEW path \in Seq(Segments)
    PROVE  /\ Lookups(d, path) \in [0 .. Len(path) -> Walks]
           /\ Lookups(d, path)[0] = [v |-> d, ended |-> FALSE]
           /\ \A n \in 1 .. Len(path) : Lookups(d, path)[n] = Follow(Lookups(d, path)[n - 1], path[n])
<1> DEFINE start == [v |-> d, ended |-> FALSE]
           Is(f)  == f = [n \in 0 .. Len(path) |-> IF n = 0 THEN start ELSE Follow(f[n - 1], path[n])]
           step   == [n \in 1 .. Len(path) |-> [w \in Walks |-> Follow(w, path[n])]]
<1>1. Len(path) \in Nat /\ \A n \in 1 .. Len(path) : path[n] \in Segments
    OBVIOUS
<1>2. start \in Walks /\ step \in [1 .. Len(path) -> [Walks -> Walks]]
    BY <1>1, FollowIn DEF Walks
<1>3. PICK f : Follows(f, Walks, start, Len(path), step)
  <2> HIDE DEF start, step
  <2>1. QED
      BY <1>1, <1>2, Recursion, Zenon
<1>4. Is(f)
  <2>1. \A n \in 1 .. Len(path) : n - 1 \in 0 .. Len(path)
      BY <1>1
  <2>2. \A n \in 1 .. Len(path) : f[n] = Follow(f[n - 1], path[n])
      BY <1>3, <2>1 DEF Follows
  <2>3. \A n \in 0 .. Len(path) : n = 0 \/ n \in 1 .. Len(path)
      BY <1>1
  <2> HIDE DEF start, step
  <2>4. QED
      BY <1>3, <2>2, <2>3 DEF Follows
<1> DEFINE g == CHOOSE h : Is(h)
<1>5. Lookups(d, path) = g
    BY DEF Lookups
<1>6. Is(g)
  <2> HIDE DEF Is
  <2>1. QED
      BY <1>4, Zenon
<1> HIDE DEF g
<1>7. g = [n \in 0 .. Len(path) |-> g[n]] /\ g[0] = start /\ \A n \in 1 .. Len(path) : g[n] = Follow(g[n - 1], path[n])
  <2>1. \A n \in 1 .. Len(path) : n \in 0 .. Len(path) /\ n # 0
      BY <1>1
  <2>2. 0 \in 0 .. Len(path)
      BY <1>1
  <2>3. /\ g = [n \in 0 .. Len(path) |-> IF n = 0 THEN start ELSE Follow(g[n - 1], path[n])]
        /\ \A n \in 0 .. Len(path) : g[n] = IF n = 0 THEN start ELSE Follow(g[n - 1], path[n])
      BY <1>6
  <2> HIDE DEF start
  <2>4. QED
      BY <2>1, <2>2, <2>3
<1>8. \A n \in 0 .. Len(path) : g[n] \in Walks
  <2>1. \A n \in 1 .. Len(path) : g[n - 1] \in Walks => g[n] \in Walks
      BY <1>1, <1>7, FollowIn
  <2> HIDE DEF start, Is
  <2>2. QED
      BY <1>1, <1>2, <1>7, <2>1, StaysIn
<1>9. QED
    BY <1>5, <1>7, <1>8

\* What a segment leads to is among the values.
LEMMA ChildIn ==
    ASSUME NEW u \in Values, NEW seg \in Segments
    PROVE  Child(u, seg) \subseteq Values
<1> DEFINE member == IF u.is = "obj" /\ seg.key \in DOMAIN u.of THEN {u.of[seg.key]} ELSE {}
<1>1. member \subseteq Values
    BY ValuesAssumption
<1>2. CASE "at" \notin DOMAIN seg
    BY <1>1, <1>2 DEF Child
<1>3. CASE "at" \in DOMAIN seg
  <2> DEFINE Of(v) == {v.of[j] : j \in {j \in DOMAIN v.of : seg.at \in {j - 1, j - 1 - Len(v.of)}}}
  <2>1. \A v \in member : v.is = "arr" => Of(v) \subseteq Values
      BY <1>1, ItemsOf
  <2>2. Child(u, seg) = UNION {Of(v) : v \in {v \in member : v.is = "arr"}}
      BY <1>3 DEF Child
  <2> HIDE DEF Of, member
  <2>3. QED
      BY <2>1, <2>2
<1>4. QED
    BY <1>2, <1>3

\* What a path leads to is found segment by segment.
LEMMA ResolvedFollows ==
    ASSUME NEW d \in Values, NEW path \in Seq(Segments)
    PROVE  /\ Resolved(d, path)[0] = {d}
           /\ \A n \in 1 .. Len(path) :
                 Resolved(d, path)[n] = UNION {Child(u, path[n]) : u \in Resolved(d, path)[n - 1]}
<1> DEFINE Go(U, seg) == UNION {Child(u, seg) : u \in U}
           Is(f) == f = [n \in 0 .. Len(path) |-> IF n = 0 THEN {d} ELSE Go(f[n - 1], path[n])]
           step  == [n \in 1 .. Len(path) |-> [U \in SUBSET Values |-> Go(U, path[n])]]
<1>1. Len(path) \in Nat /\ \A n \in 1 .. Len(path) : path[n] \in Segments
    OBVIOUS
<1>2. {d} \in SUBSET Values /\ step \in [1 .. Len(path) -> [SUBSET Values -> SUBSET Values]]
  <2>1. \A U \in SUBSET Values, n \in 1 .. Len(path) : Go(U, path[n]) \in SUBSET Values
      BY <1>1, ChildIn
  <2> HIDE DEF Go
  <2>2. QED
      BY <2>1
<1>3. PICK f : Follows(f, SUBSET Values, {d}, Len(path), step)
  <2> HIDE DEF step
  <2>1. QED
      BY <1>1, <1>2, Recursion, Zenon
<1> HIDE DEF Go
<1>4. Is(f)
  <2>1. \A n \in 1 .. Len(path) : n - 1 \in 0 .. Len(path)
      BY <1>1
  <2>2. \A n \in 1 .. Len(path) : f[n] = Go(f[n - 1], path[n])
      BY <1>3, <2>1 DEF Follows
  <2>3. \A n \in 0 .. Len(path) : n = 0 \/ n \in 1 .. Len(path)
      BY <1>1
  <2> HIDE DEF step
  <2>4. QED
      BY <1>3, <2>2, <2>3 DEF Follows
<1> DEFINE g == CHOOSE h : Is(h)
<1>5. Resolved(d, path) = g
    BY DEF Resolved, Go
<1>6. Is(g)
  <2> HIDE DEF Is
  <2>1. QED
      BY <1>4, Zenon
<1> HIDE DEF g
<1>7. \A n \in 1 .. Len(path) : n \in 0 .. Len(path) /\ n # 0
    BY <1>1
<1>8. 0 \in 0 .. Len(path)
    BY <1>1
<1>9. \A n \in 0 .. Len(path) : g[n] = IF n = 0 THEN {d} ELSE Go(g[n - 1], path[n])
    BY <1>6
<1>10. g[0] = {d} /\ \A n \in 1 .. Len(path) : g[n] = Go(g[n - 1], path[n])
    BY <1>7, <1>8, <1>9
<1>11. QED
    BY <1>5, <1>10 DEF Go

\* An index counts from one end, so it leads to one item or to none.
LEMMA ItemFound ==
    ASSUME NEW v \in Values, v.is = "arr", NEW i \in Int
    PROVE  LET found == {v.of[j] : j \in {j \in DOMAIN v.of : i \in {j - 1, j - 1 - Len(v.of)}}} IN
           \/ found = {} /\ Item(v, i) = Absent
           \/ found = {Item(v, i)} /\ Item(v, i) \in Values
<1> DEFINE n     == Len(v.of)
           j     == IF i < 0 THEN i + n ELSE i
           places == {k \in DOMAIN v.of : i \in {k - 1, k - 1 - n}}
<1>1. n \in Nat /\ DOMAIN v.of = 1 .. n /\ \A k \in 1 .. n : v.of[k] \in Values
    BY ItemsOf
<1>2. Item(v, i) = IF 0 <= j /\ j < n THEN v.of[j + 1] ELSE Absent
    BY DEF Item
<1> HIDE DEF n
<1>3. CASE 0 <= j /\ j < n
  <2>1. j + 1 \in 1 .. n /\ places = {j + 1}
      BY <1>1, <1>3
  <2> HIDE DEF places, j
  <2>2. QED
      BY <1>1, <1>2, <1>3, <2>1 DEF places, n
<1>4. CASE ~(0 <= j /\ j < n)
  <2>1. places = {}
      BY <1>1, <1>4
  <2> HIDE DEF places, j
  <2>2. QED
      BY <1>2, <1>4, <2>1 DEF places, n
<1>5. QED
    BY <1>3, <1>4

\* In an object, a segment is followed to what it leads to, or to nothing.
LEMMA SegmentFound ==
    ASSUME NEW w \in Walks, ~w.ended, w.v \in Values, w.v.is = "obj", NEW seg \in Segments
    PROVE  LET next == Follow(w, seg) IN
           \/ next.v = Absent /\ next.ended /\ Child(w.v, seg) = {}
           \/ next.v \in Values /\ ~next.ended /\ Child(w.v, seg) = {next.v}
<1> DEFINE field == Field(w.v, seg.key)
           member == IF w.v.is = "obj" /\ seg.key \in DOMAIN w.v.of THEN {w.v.of[seg.key]} ELSE {}
<1>1. \/ field = Absent /\ member = {}
      \/ field \in Values /\ field # Absent /\ member = {field}
    BY ValuesAssumption, AbsentIsNone DEF Field
<1>2. CASE "at" \notin DOMAIN seg
  <2>1. Follow(w, seg) = Come(field) /\ Child(w.v, seg) = member
      BY <1>2 DEF Follow, Child
  <2>2. Follow(w, seg).v = field /\ (Follow(w, seg).ended <=> field = Absent)
    <3> HIDE DEF field
    <3>1. QED
        BY <2>1 DEF Come
  <2> HIDE DEF field, member
  <2>3. QED
      BY <1>1, <2>1, <2>2
<1>3. CASE "at" \in DOMAIN seg
  <2> DEFINE item == Item(field, seg.at)
             Of(v) == {v.of[j] : j \in {j \in DOMAIN v.of : seg.at \in {j - 1, j - 1 - Len(v.of)}}}
  <2>1. /\ Follow(w, seg) = Come(item)
        /\ Child(w.v, seg) = UNION {Of(v) : v \in {v \in member : v.is = "arr"}}
      BY <1>3 DEF Follow, Child
  <2>2. Follow(w, seg).v = item /\ (Follow(w, seg).ended <=> item = Absent)
    <3> HIDE DEF item
    <3>1. QED
        BY <2>1 DEF Come
  <2>3. field = Absent \/ field.is # "arr" => item = Absent
      BY DEF Item, Absent
  <2>4. field \in Values /\ field.is = "arr" =>
           \/ item = Absent /\ Of(field) = {}
           \/ item \in Values /\ Of(field) = {item}
    <3> HIDE DEF field
    <3>1. QED
        BY <1>3, ItemFound, SegmentShape
  <2> HIDE DEF field, member, item, Of
  <2>5. CASE field \in Values /\ field.is = "arr" /\ member = {field}
    <3>1. Child(w.v, seg) = Of(field)
        BY <2>1, <2>5
    <3>2. QED
        BY <2>2, <2>4, <2>5, <3>1, AbsentIsNone
  <2>6. CASE member = {} \/ (member = {field} /\ field.is # "arr")
    <3>1. Child(w.v, seg) = {}
        BY <2>1, <2>6
    <3>2. item = Absent
        BY <1>1, <2>3, <2>6
    <3>3. QED
        BY <2>2, <3>1, <3>2
  <2>7. QED
      BY <1>1, <2>5, <2>6
<1>4. QED
    BY <1>2, <1>3

\* What a lookup finds is what its path leads to, and it finds nothing where the
\* path leads to nothing.
LEMMA LookupFinds ==
    ASSUME NEW d \in Values, d.is = "obj", NEW path \in Seq(Segments),
           \A n \in 1 .. Len(path) - 1 : \A u \in Resolved(d, path)[n] : u.is = "obj"
    PROVE  Resolved(d, path)[Len(path)] =
              IF LookupNested(d, path) = Absent THEN {} ELSE {LookupNested(d, path)}
<1> DEFINE at   == Lookups(d, path)
           upTo == Resolved(d, path)
           Found(n) == \/ at[n].v = Absent /\ at[n].ended /\ upTo[n] = {}
                       \/ at[n].v \in Values /\ ~at[n].ended /\ upTo[n] = {at[n].v}
           D == {n \in Nat : n <= Len(path) => Found(n)}
<1>1. Len(path) \in Nat /\ \A n \in 1 .. Len(path) : path[n] \in Segments
    OBVIOUS
<1>2. /\ at \in [0 .. Len(path) -> Walks] /\ at[0] = [v |-> d, ended |-> FALSE]
      /\ \A n \in 1 .. Len(path) : at[n] = Follow(at[n - 1], path[n])
    BY LookupsFollow
<1>3. /\ upTo[0] = {d}
      /\ \A n \in 1 .. Len(path) : upTo[n] = UNION {Child(u, path[n]) : u \in upTo[n - 1]}
    BY ResolvedFollows
<1>4. \A n \in 1 .. Len(path) - 1 : \A u \in upTo[n] : u.is = "obj"
    OBVIOUS
<1>5. LookupNested(d, path) = at[Len(path)].v
    BY DEF LookupNested
<1> HIDE DEF at, upTo
<1>6. 0 \in D
    BY <1>2, <1>3
<1>7. ASSUME NEW n \in Nat, n \in D PROVE n + 1 \in D
  <2>1. SUFFICES ASSUME n + 1 <= Len(path) PROVE Found(n + 1)
      BY <2>1
  <2>2. /\ n \in 0 .. Len(path) /\ n + 1 \in 1 .. Len(path) /\ (n + 1) - 1 = n
        /\ n = 0 \/ n \in 1 .. Len(path) - 1
      BY <1>1, <2>1
  <2>3. Found(n)
      BY <1>7, <2>2
  <2>4. at[n + 1] = Follow(at[n], path[n + 1]) /\ path[n + 1] \in Segments /\ at[n] \in Walks
      BY <1>1, <1>2, <2>2
  <2>5. upTo[n + 1] = UNION {Child(u, path[n + 1]) : u \in upTo[n]}
      BY <1>3, <2>2
  <2>6. CASE at[n].ended
    <3>1. at[n + 1] = at[n] /\ upTo[n + 1] = {}
        BY <2>3, <2>4, <2>5, <2>6 DEF Follow
    <3>2. QED
        BY <2>3, <2>6, <3>1
  <2>7. CASE ~at[n].ended
    <3>1. at[n].v \in Values /\ upTo[n] = {at[n].v}
        BY <2>3, <2>7
    <3>2. at[n].v.is = "obj"
      <4>1. CASE n = 0
          BY <1>2, <4>1
      <4>2. CASE n \in 1 .. Len(path) - 1
          BY <1>4, <3>1, <4>2
      <4>3. QED
          BY <2>2, <4>1, <4>2
    <3>3. upTo[n + 1] = Child(at[n].v, path[n + 1])
        BY <2>5, <3>1
    <3>4. QED
        BY <2>4, <2>7, <3>1, <3>2, <3>3, SegmentFound
  <2>8. QED
      BY <2>6, <2>7
<1>8. \A n \in Nat : n \in D
  <2> HIDE DEF D
  <2>1. QED
      BY <1>6, <1>7, Induction
<1>9. Found(Len(path))
    BY <1>1, <1>8
<1>10. upTo[Len(path)] = IF at[Len(path)].v = Absent THEN {} ELSE {at[Len(path)].v}
    BY <1>9, AbsentIsNone
<1>11. QED
    BY <1>5, <1>10 DEF upTo

-----------------------------------------------------------------------------
(* The text of a reply.                                                    *)

\* The text of a string, and of nothing.
LEMMA TextOf == Text(Absent) = "" /\ \A w : Text(Str(w)) = w
BY DEF Text, Str, Absent

\* What a part says to an A2A connector, and to an MCP connector.
LEMMA A2APartSays ==
    ASSUME NEW p \in A2AParts
    PROVE  p.says = IF IsTextPart(p.part) THEN <<Text(Field(p.part, "text"))>> ELSE <<>>
<1> DEFINE new   == {Part(<<w>>, [kind |-> Str("text"), text |-> Str(w)]) : w \in Words}
           old   == {Part(<<w>>, [type |-> Str("text"), text |-> Str(w)]) : w \in Words}
           other == {Part(<<>>, [kind |-> Str(k), type |-> Str("text"), text |-> Str(w)]) : k \in Kinds, w \in Words}
           none  == {NoPart(Str(w)) : w \in Words}
<1>1. CASE p \in new
  <2>1. PICK w \in Words : p = Part(<<w>>, [kind |-> Str("text"), text |-> Str(w)])
      BY <1>1
  <2>2. p.says = <<w>> /\ p.part = Obj([kind |-> Str("text"), text |-> Str(w)])
      BY <2>1 DEF Part
  <2>3. Field(p.part, "kind") = Str("text") /\ Field(p.part, "text") = Str(w)
      BY <2>2 DEF Field, Obj
  <2>4. IsTextPart(p.part) /\ Text(Field(p.part, "text")) = w
      BY <2>3, TextOf DEF IsTextPart
  <2>5. QED
      BY <2>2, <2>4
<1>2. CASE p \in old
  <2>1. PICK w \in Words : p = Part(<<w>>, [type |-> Str("text"), text |-> Str(w)])
      BY <1>2
  <2>2. p.says = <<w>> /\ p.part = Obj([type |-> Str("text"), text |-> Str(w)])
      BY <2>1 DEF Part
  <2>3. Field(p.part, "kind") = Absent /\ Field(p.part, "type") = Str("text") /\ Field(p.part, "text") = Str(w)
      BY <2>2 DEF Field, Obj
  <2>4. IsTextPart(p.part) /\ Text(Field(p.part, "text")) = w
      BY <2>3, TextOf DEF IsTextPart
  <2>5. QED
      BY <2>2, <2>4
<1>3. CASE p \in other
  <2>1. PICK k \in Kinds, w \in Words : p = Part(<<>>, [kind |-> Str(k), type |-> Str("text"), text |-> Str(w)])
      BY <1>3
  <2>2. p.says = <<>> /\ p.part = Obj([kind |-> Str(k), type |-> Str("text"), text |-> Str(w)])
      BY <2>1 DEF Part
  <2>3. Field(p.part, "kind") = Str(k)
      BY <2>2 DEF Field, Obj
  <2>4. k # "text" /\ k # ""
      BY KindsAssumption
  <2>5. ~IsTextPart(p.part)
      BY <2>3, <2>4, TextOf DEF IsTextPart
  <2>6. QED
      BY <2>2, <2>5
<1>4. CASE p \in none
  <2>1. PICK w \in Words : p = NoPart(Str(w))
      BY <1>4
  <2>2. p.says = <<>> /\ p.part = Str(w)
      BY <2>1 DEF NoPart
  <2>3. Field(p.part, "kind") = Absent /\ Field(p.part, "type") = Absent
      BY <2>2 DEF Field, Str
  <2>4. ~IsTextPart(p.part)
      BY <2>3, TextOf DEF IsTextPart
  <2>5. QED
      BY <2>2, <2>4
<1>5. QED
  <2>1. A2AParts = new \cup old \cup other \cup none
      BY DEF A2AParts
  <2> HIDE DEF new, old, other, none
  <2>2. p \in new \/ p \in old \/ p \in other \/ p \in none
      BY <2>1
  <2>3. QED
      BY <1>1, <1>2, <1>3, <1>4, <2>2

\* A part decodes if it can be read, and says its text.
LEMMA MCPPartSays ==
    ASSUME NEW p \in MCPParts
    PROVE  /\ PartDecodes(p.part) <=> p.reads
           /\ p.reads => p.says = PartSays(p.part)
<1> DEFINE spoken  == {Part(Aloud(w), [type |-> Str(k), text |-> Str(w)]) : k \in Kinds \cup {"text"}, w \in Words}
           silent  == {Part(<<>>, [type |-> Str(k)]) : k \in Kinds}
           empty   == [says |-> <<>>, part |-> Null, reads |-> TRUE]
           words   == {NoPart(Str(w)) : w \in Words}
           noText  == NoPart(Obj([type |-> Null, text |-> Obj(<<>>)]))
           noType  == NoPart(Obj([type |-> Obj(<<>>)]))
<1>1. CASE p \in spoken
  <2>1. PICK k \in Kinds \cup {"text"}, w \in Words : p = Part(Aloud(w), [type |-> Str(k), text |-> Str(w)])
      BY <1>1
  <2>2. p.says = Aloud(w) /\ p.part = Obj([type |-> Str(k), text |-> Str(w)]) /\ p.reads
      BY <2>1 DEF Part
  <2>3. Field(p.part, "text") = Str(w) /\ Field(p.part, "type") = Str(k) /\ p.part.is = "obj"
      BY <2>2 DEF Field, Obj
  <2>4. IsText(Str(w)) /\ IsText(Str(k))
      BY DEF IsText, Str
  <2>5. Text(Field(p.part, "text")) = w
      BY <2>3, TextOf
  <2>6. QED
      BY <2>2, <2>3, <2>4, <2>5 DEF PartDecodes, PartSays, Aloud
<1>2. CASE p \in silent
  <2>1. PICK k \in Kinds : p = Part(<<>>, [type |-> Str(k)])
      BY <1>2
  <2>2. p.says = <<>> /\ p.part = Obj([type |-> Str(k)]) /\ p.reads
      BY <2>1 DEF Part
  <2>3. Field(p.part, "text") = Absent /\ Field(p.part, "type") = Str(k) /\ p.part.is = "obj"
      BY <2>2 DEF Field, Obj
  <2>4. IsText(Absent) /\ IsText(Str(k))
      BY DEF IsText, Str, Absent
  <2>5. Text(Field(p.part, "text")) = ""
      BY <2>3, TextOf
  <2>6. QED
      BY <2>2, <2>3, <2>4, <2>5 DEF PartDecodes, PartSays
<1>3. CASE p = empty
  <2>1. p.says = <<>> /\ p.part = Null /\ p.reads
      BY <1>3
  <2>2. p.part.is = "null" /\ Field(p.part, "text") = Absent
      BY <2>1 DEF Null, Field
  <2>3. Text(Field(p.part, "text")) = ""
      BY <2>2, TextOf
  <2>4. QED
      BY <2>1, <2>2, <2>3 DEF PartDecodes, PartSays
<1>4. CASE p \in words
  <2>1. PICK w \in Words : p = NoPart(Str(w))
      BY <1>4
  <2>2. p.part.is = "str" /\ ~p.reads
      BY <2>1 DEF NoPart, Str
  <2>3. QED
      BY <2>2 DEF PartDecodes
<1>5. CASE p = noText
  <2>1. p.part = Obj([type |-> Null, text |-> Obj(<<>>)]) /\ ~p.reads
      BY <1>5 DEF NoPart
  <2>2. Field(p.part, "text") = Obj(<<>>) /\ p.part.is = "obj"
      BY <2>1 DEF Field, Obj
  <2>3. ~IsText(Obj(<<>>))
      BY DEF IsText, Obj
  <2>4. QED
      BY <2>1, <2>2, <2>3 DEF PartDecodes
<1>6. CASE p = noType
  <2>1. p.part = Obj([type |-> Obj(<<>>)]) /\ ~p.reads
      BY <1>6 DEF NoPart
  <2>2. Field(p.part, "type") = Obj(<<>>) /\ p.part.is = "obj"
      BY <2>1 DEF Field, Obj
  <2>3. ~IsText(Obj(<<>>))
      BY DEF IsText, Obj
  <2>4. QED
      BY <2>1, <2>2, <2>3 DEF PartDecodes
<1>7. p \in spoken \/ p \in silent \/ p = empty \/ p \in words \/ p = noText \/ p = noType
  <2>1. MCPParts = spoken \cup silent \cup {empty} \cup words \cup {noText, noType}
      BY DEF MCPParts
  <2> HIDE DEF spoken, silent, empty, words, noText, noType
  <2>2. QED
      BY <2>1
<1> HIDE DEF spoken, silent, empty, words, noText, noType
<1>8. QED
    BY <1>1, <1>2, <1>3, <1>4, <1>5, <1>6, <1>7

\* The parts of a reply, by their places.
LEMMA PartsAt ==
    ASSUME NEW S, NEW parts \in Seq(S)
    PROVE  /\ Len(parts) \in Nat /\ \A k \in 1 .. Len(parts) : parts[k] \in S
           /\ PartsOf(parts).is = "arr" /\ DOMAIN PartsOf(parts).of = 1 .. Len(parts)
           /\ \A k \in 1 .. Len(parts) : PartsOf(parts).of[k] = parts[k].part
           /\ Len(PartsOf(parts).of) = Len(parts)
           /\ parts = <<>> <=> Len(parts) = 0
<1>1. Len(parts) \in Nat /\ \A k \in 1 .. Len(parts) : parts[k] \in S
    OBVIOUS
<1>2. parts = <<>> <=> Len(parts) = 0
    OBVIOUS
<1>3. PartsOf(parts).is = "arr" /\ PartsOf(parts).of = [k \in 1 .. Len(parts) |-> parts[k].part]
    BY DEF PartsOf, Arr
<1>4. Len([k \in 1 .. Len(parts) |-> parts[k].part]) = Len(parts)
    BY <1>1
<1>5. QED
    BY <1>1, <1>2, <1>3, <1>4

\* All that parts say is joined.
LEMMA PartsJoined ==
    ASSUME NEW parts \in Seq(A2AParts)
    PROVE  JoinTextParts(PartsOf(parts)) = Said(parts)
<1> DEFINE list == PartsOf(parts).of
           says == [i \in DOMAIN list |->
                       IF IsTextPart(list[i]) THEN <<Text(Field(list[i], "text"))>> ELSE <<>>]
<1>1. PartsOf(parts).is = "arr" /\ DOMAIN list = 1 .. Len(parts)
    BY PartsAt
<1>2. \A k \in 1 .. Len(parts) : list[k] = parts[k].part /\ parts[k] \in A2AParts
    BY PartsAt
<1>3. JoinTextParts(PartsOf(parts)) = FlattenSeq(says)
    BY <1>1 DEF JoinTextParts
<1>4. says = [k \in 1 .. Len(parts) |-> parts[k].says]
  <2>1. \A k \in 1 .. Len(parts) :
           parts[k].says = IF IsTextPart(list[k]) THEN <<Text(Field(list[k], "text"))>> ELSE <<>>
      BY <1>2, A2APartSays
  <2> HIDE DEF list
  <2>2. QED
      BY <1>1, <2>1
<1>5. QED
    BY <1>3, <1>4 DEF Said

\* An A2A result says what its first artifact says, or else its status.
LEMMA A2AText ==
    ASSUME NEW i \in A2AInputs
    PROVE  ExtractA2A(A2AResult(i)) =
              IF i.artifacts # <<>>   THEN [texts |-> Said(i.artifacts[1])]
              ELSE IF i.status # <<>> THEN [texts |-> Said(i.status[1])]
              ELSE [whole |-> A2AResult(i)]
<1> DEFINE result == A2AResult(i)
           artifact(a) == Obj([parts |-> PartsOf(i.artifacts[a])])
           artifacts == Arr([a \in 1 .. Len(i.artifacts) |-> artifact(a)])
           status == IF i.status = <<>> THEN Obj(<<>>)
                     ELSE Obj([message |-> Obj([parts |-> PartsOf(i.status[1])])])
<1>1. i.artifacts \in Seq(Seq(A2AParts)) /\ i.status \in Seq(Seq(A2AParts))
    BY DEF A2AInputs
<1>2. /\ Len(i.artifacts) \in Nat /\ (i.artifacts = <<>> <=> Len(i.artifacts) = 0)
      /\ i.artifacts # <<>> => i.artifacts[1] \in Seq(A2AParts)
    BY <1>1
<1>3. i.status # <<>> => i.status[1] \in Seq(A2AParts)
    BY <1>1
<1>4. Field(result, "artifacts") = artifacts /\ Field(result, "status") = status
    BY DEF A2AResult, Field, Obj
<1> HIDE DEF result
<1>5. CASE i.artifacts # <<>>
  <2>1. Item(artifacts, 0) = artifact(1)
    <3> DEFINE of == [a \in 1 .. Len(i.artifacts) |-> artifact(a)]
    <3>1. Len(of) = Len(i.artifacts) /\ of[1] = artifact(1) /\ 0 < Len(of) /\ Len(of) \in Nat
        BY <1>2, <1>5
    <3> HIDE DEF of
    <3>2. artifacts.is = "arr" /\ artifacts.of = of
        BY DEF Arr, of
    <3> HIDE DEF artifacts, artifact
    <3>3. QED
        BY <3>1, <3>2 DEF Item
  <2>2. Item(artifacts, 0).is = "obj" /\ Field(Item(artifacts, 0), "parts") = PartsOf(i.artifacts[1])
      BY <2>1 DEF Field, Obj
  <2> HIDE DEF artifacts
  <2>3. ExtractA2A(result) = [texts |-> JoinTextParts(PartsOf(i.artifacts[1]))]
      BY <1>4, <2>2 DEF ExtractA2A
  <2>4. QED
      BY <1>2, <1>5, <2>3, PartsJoined DEF result
<1>6. CASE i.artifacts = <<>>
  <2>1. Item(artifacts, 0) = Absent
    <3> DEFINE of == [a \in 1 .. Len(i.artifacts) |-> artifact(a)]
    <3>1. Len(of) = 0
        BY <1>2, <1>6
    <3> HIDE DEF of
    <3>2. artifacts.is = "arr" /\ artifacts.of = of
        BY DEF Arr, of
    <3> HIDE DEF artifacts
    <3>3. QED
        BY <3>1, <3>2 DEF Item
  <2>2. Item(artifacts, 0).is # "obj"
      BY <2>1 DEF Absent
  <2> HIDE DEF artifacts
  <2>3. CASE i.status # <<>>
    <3>1. Field(status, "message") = Obj([parts |-> PartsOf(i.status[1])])
        BY <2>3 DEF Field, Obj
    <3>2. Field(status, "message").is = "obj" /\ Field(Field(status, "message"), "parts") = PartsOf(i.status[1])
        BY <3>1 DEF Field, Obj
    <3> HIDE DEF status
    <3>3. ExtractA2A(result) = [texts |-> JoinTextParts(PartsOf(i.status[1]))]
        BY <1>4, <2>2, <3>2 DEF ExtractA2A
    <3>4. QED
        BY <1>3, <1>6, <2>3, <3>3, PartsJoined DEF result
  <2>4. CASE i.status = <<>>
    <3>1. Field(status, "message") = Absent
        BY <2>4 DEF Field, Obj
    <3>2. Field(status, "message").is # "obj"
        BY <3>1 DEF Absent
    <3> HIDE DEF status
    <3>3. ExtractA2A(result) = [whole |-> result]
        BY <1>4, <2>2, <3>2 DEF ExtractA2A
    <3>4. QED
        BY <1>6, <2>4, <3>3 DEF result
  <2>5. QED
      BY <2>3, <2>4
<1>7. QED
    BY <1>5, <1>6

\* A flag decodes unless it is a string, and is set if it is TRUE.
LEMMA FlagDecodes ==
    ASSUME NEW f \in Flags
    PROVE  IsFlag(f) <=> f.is # "str"
BY DEF Flags, IsFlag, Absent, Null, Bool, Str

\* An MCP result says what its content says, if it is readable.
LEMMA MCPText ==
    ASSUME NEW i, i.content \in Seq(MCPParts), i.isError \in Flags
    PROVE  McpText(MCPResult(i)) =
              IF ~Readable(i) THEN [whole |-> MCPResult(i)]
              ELSE IF i.isError = Bool(TRUE) /\ Said(i.content) # <<>>
              THEN [texts |-> <<ToolError>> \o Said(i.content)]
              ELSE [texts |-> Said(i.content)]
<1> DEFINE result  == MCPResult(i)
           content == PartsOf(i.content)
           says    == [k \in DOMAIN content.of |-> PartSays(content.of[k])]
           decodes == /\ content.is = "arr" /\ content.of # <<>> /\ IsFlag(i.isError)
                      /\ \A k \in DOMAIN content.of : PartDecodes(content.of[k])
<1>1. Field(result, "content") = content /\ Field(result, "isError") = i.isError /\ result.is = "obj"
    BY DEF MCPResult, Field, Obj
<1>2. /\ content.is = "arr" /\ DOMAIN content.of = 1 .. Len(i.content)
      /\ \A k \in 1 .. Len(i.content) : content.of[k] = i.content[k].part /\ i.content[k] \in MCPParts
      /\ Len(content.of) = Len(i.content) /\ (i.content = <<>> <=> Len(i.content) = 0)
    BY PartsAt
<1>3. content.of = [k \in 1 .. Len(i.content) |-> i.content[k].part]
    BY DEF PartsOf, Arr
<1> HIDE DEF result, content
<1>4. McpText(result) =
         IF decodes
         THEN [texts |-> IF i.isError = Bool(TRUE) /\ FlattenSeq(says) # <<>>
                         THEN <<ToolError>> \o FlattenSeq(says) ELSE FlattenSeq(says)]
         ELSE [whole |-> result]
    BY <1>1 DEF McpText
<1>5. content.of = <<>> <=> i.content = <<>>
    BY <1>2, <1>3
<1>6. decodes <=> Readable(i)
  <2>1. \A k \in 1 .. Len(i.content) : PartDecodes(content.of[k]) <=> i.content[k].reads
      BY <1>2, MCPPartSays
  <2>2. QED
      BY <1>2, <1>5, <2>1, FlagDecodes DEF Readable
<1>7. CASE decodes
  <2>1. \A k \in 1 .. Len(i.content) : PartSays(content.of[k]) = i.content[k].says
      BY <1>2, <1>6, <1>7, MCPPartSays DEF Readable
  <2>2. says = [k \in 1 .. Len(i.content) |-> i.content[k].says]
      BY <1>2, <2>1
  <2>3. FlattenSeq(says) = Said(i.content)
      BY <2>2 DEF Said
  <2> HIDE DEF decodes, says
  <2>4. QED
      BY <1>4, <1>6, <1>7, <2>3 DEF result
<1>8. CASE ~decodes
  <2> HIDE DEF decodes
  <2>1. QED
      BY <1>4, <1>6, <1>8 DEF result
<1>9. QED
    BY <1>7, <1>8 DEF result

\* A sequence is one over any larger set.
LEMMA SeqOver ==
    ASSUME NEW S, NEW T, S \subseteq T, NEW seq \in Seq(S)
    PROVE  seq \in Seq(T)
<1>1. Len(seq) \in Nat /\ seq \in [1 .. Len(seq) -> S]
    OBVIOUS
<1>2. seq \in [1 .. Len(seq) -> T]
    BY <1>1
<1>3. QED
    BY <1>1, <1>2

\* Joined sequences, by their places.
LEMMA JoinedAt ==
    ASSUME NEW S, NEW p \in Seq(S), NEW x \in S, NEW q \in Seq(S)
    PROVE  LET all == p \o <<x>> \o q IN
           /\ Len(p) \in Nat /\ Len(q) \in Nat
           /\ DOMAIN all = 1 .. Len(p) + 1 + Len(q)
           /\ all[Len(p) + 1] = x
           /\ \A j \in 1 .. Len(q) : all[Len(p) + 1 + j] = q[j]
<1>1. /\ p \o <<x>> \in Seq(S) /\ Len(p \o <<x>>) = Len(p) + 1
      /\ (p \o <<x>>)[Len(p) + 1] = x
    OBVIOUS
<1> DEFINE r == p \o <<x>>
<1> HIDE DEF r
<1>2. r \in Seq(S) /\ Len(r) = Len(p) + 1 /\ r[Len(p) + 1] = x
    BY <1>1 DEF r
<1>3. /\ DOMAIN (r \o q) = 1 .. Len(r) + Len(q)
      /\ (r \o q)[Len(p) + 1] = r[Len(p) + 1]
      /\ \A j \in 1 .. Len(q) : (r \o q)[Len(r) + j] = q[j]
    BY <1>2
<1>4. Len(p) \in Nat /\ Len(q) \in Nat
    OBVIOUS
<1>5. QED
    BY <1>2, <1>3, <1>4 DEF r

\* The last data line is read, whatever comes before it.
LEMMA LastDataRead ==
    ASSUME NEW S, NEW p \in Seq(S), NEW x \in S, NEW q \in Seq(S),
           x.field = "data", \A j \in 1 .. Len(q) : q[j].field # "data"
    PROVE  ExtractSSEData(p \o <<x>> \o q) = x.value
<1> DEFINE lines == p \o <<x>> \o q
           data  == {k \in DOMAIN lines : lines[k].field = "data"}
           m     == Len(p) + 1
<1>1. /\ Len(p) \in Nat /\ Len(q) \in Nat
      /\ DOMAIN lines = 1 .. Len(p) + 1 + Len(q)
      /\ lines[Len(p) + 1] = x
      /\ \A j \in 1 .. Len(q) : lines[Len(p) + 1 + j] = q[j]
    BY JoinedAt
<1> HIDE DEF lines
<1>2. /\ m \in Nat /\ DOMAIN lines = 1 .. m + Len(q) /\ m \in 1 .. m + Len(q)
      /\ lines[m] = x /\ \A j \in 1 .. Len(q) : lines[m + j] = q[j]
  <2>1. m \in Nat /\ m \in 1 .. m + Len(q)
      BY <1>1
  <2>2. QED
      BY <1>1, <2>1, Zenon
<1> HIDE DEF m
<1>3. m \in data
    BY <1>2
<1>4. ASSUME NEW k \in data PROVE k \in Int /\ m >= k
  <2>1. k \in 1 .. m + Len(q) /\ lines[k].field = "data"
      BY <1>2, <1>4
  <2>2. CASE k > m
    <3> DEFINE j == k - m
    <3>1. j \in 1 .. Len(q) /\ m + j = k
        BY <1>1, <1>2, <2>1, <2>2
    <3> HIDE DEF j
    <3>2. lines[k] = q[j]
        BY <1>2, <3>1
    <3>3. QED
        BY <2>1, <3>1, <3>2
  <2>3. QED
      BY <1>2, <2>1, <2>2
<1>5. ExtractSSEData(lines) = IF data = {} THEN Absent ELSE lines[Max(data)].value
    BY DEF ExtractSSEData
<1> HIDE DEF data
<1>6. Max(data) = m
  <2> DEFINE Greatest(k) == \A y \in data : k >= y
  <2>1. m \in data /\ Greatest(m)
      BY <1>3, <1>4
  <2>2. Max(data) = CHOOSE k \in data : Greatest(k)
      BY DEF Max
  <2>3. Max(data) \in data /\ Greatest(Max(data))
    <3> HIDE DEF Greatest
    <3>1. QED
        BY <2>1, <2>2, Zenon
  <2>4. Max(data) \in Int /\ Max(data) >= m /\ m >= Max(data)
      BY <1>3, <1>4, <2>3
  <2>5. QED
      BY <1>2, <2>4
<1>7. QED
    BY <1>2, <1>3, <1>5, <1>6 DEF lines

\* What the last data line of a stream holds is read.
LEMMA StreamRead ==
    ASSUME NEW i \in StreamInputs
    PROVE  ExtractSSEData(Stream(i)) = LastData(i).value
<1> DEFINE line  == LastData(i)
           Quiet == {l \in Lines : l.field # "data"}
           All   == Lines \cup {line}
<1>1. i.before \in Seq(Lines) /\ i.after \in Seq(Quiet)
    BY DEF StreamInputs
<1>2. i.before \in Seq(All) /\ i.after \in Seq(All) /\ line \in All
  <2>1. Lines \subseteq All /\ Quiet \subseteq All /\ line \in All
      OBVIOUS
  <2> HIDE DEF All, Quiet
  <2>2. QED
      BY <1>1, <2>1, SeqOver
<1>3. \A j \in 1 .. Len(i.after) : i.after[j].field # "data"
  <2>1. \A j \in 1 .. Len(i.after) : i.after[j] \in Quiet
    <3> HIDE DEF Quiet
    <3>1. QED
        BY <1>1
  <2>2. QED
      BY <2>1
<1>4. line.field = "data" /\ line.value = LastData(i).value
    BY DEF LastData
<1>5. Stream(i) = i.before \o <<line>> \o i.after
    BY DEF Stream
<1> HIDE DEF line, All, Quiet
<1>6. QED
    BY <1>2, <1>3, <1>4, <1>5, LastDataRead

-----------------------------------------------------------------------------
(* The argument that takes the payload, and numbers.                       *)

\* The first of some names in a set is among them: the CHOOSE has a value.
LEMMA FirstFound ==
    ASSUME NEW n \in Nat, NEW names, DOMAIN names = 1 .. n, NEW S, NEW k \in 1 .. n, names[k] \in S
    PROVE  \E i \in 1 .. n : names[i] \in S /\ FirstIn(names, S) = names[i]
<1> DEFINE P == {i \in 1 .. n : names[i] \in S}
           R == OpToRel(<, Nat)
           First(i) == names[i] \in S /\ \A j \in 1 .. i - 1 : names[j] \notin S
<1>1. k \in P /\ P \subseteq Nat
    OBVIOUS
<1>2. PICK i \in P : \A j \in P : <<j, i>> \notin R
    BY <1>1, NatLessThanWellFounded, WFMin, Zenon
<1>3. \A j \in P : ~(j < i)
    BY <1>1, <1>2, Zenon DEF OpToRel
<1>4. \A j \in 1 .. i - 1 : j \in 1 .. n /\ j < i
    BY <1>1
<1>5. i \in 1 .. n /\ First(i)
    BY <1>3, <1>4
<1> DEFINE c == CHOOSE j \in DOMAIN names : First(j)
<1>6. c \in 1 .. n /\ First(c)
  <2>1. \E j \in DOMAIN names : First(j)
      BY <1>5
  <2> HIDE DEF First
  <2>2. QED
      BY <2>1, Zenon
<1>7. FirstIn(names, S) = names[c]
    BY DEF FirstIn
<1> HIDE DEF c
<1>8. QED
    BY <1>6, <1>7

\* There are seven preferred names.
LEMMA PreferredPlaces ==
    LET names == PreferredArgNames IN
    DOMAIN names = 1 .. 7 /\ ToSet(names) = {names[i] : i \in 1 .. 7}
<1>1. DOMAIN PreferredArgNames = 1 .. 7
    BY DEF PreferredArgNames
<1>2. QED
    BY <1>1, Zenon DEF ToSet

\* What the prover knows of sequences by itself.
LEMMA OnSequences ==
    ASSUME NEW S, NEW seq \in Seq(S)
    PROVE  /\ Len(seq) \in Nat /\ DOMAIN seq = 1 .. Len(seq)
           /\ seq # <<>> => seq[1] \in ToSet(seq)
<1>1. Len(seq) \in Nat /\ DOMAIN seq = 1 .. Len(seq)
    OBVIOUS
<1>2. seq # <<>> => 1 \in 1 .. Len(seq)
    OBVIOUS
<1>3. QED
    BY <1>1, <1>2 DEF ToSet

\* The argument for a payload: declared, one made for text if there is any, and else
\* the one that is required first.
IsArgument(name, properties, required) ==
    LET preferred == properties \cap ToSet(PreferredArgNames) IN
    /\ name \in properties
    /\ preferred # {} => name \in preferred
    /\ preferred = {} /\ required # <<>> /\ required[1] # "" => name = required[1]

\* Where the required arguments are declared, and sorted lists whatever is, the
\* payload goes into such an argument (mcp.go, ArgNameFor).
LEMMA ArgumentNamed ==
    ASSUME NEW S, NEW properties, properties # {},
           NEW required \in Seq(S), ToSet(required) \subseteq properties,
           NEW sorted \in Seq(S), properties \subseteq ToSet(sorted)
    PROVE  IsArgument(ArgNameFor(properties, required, sorted), properties, required)
<1> DEFINE names == PreferredArgNames
<1>1. DOMAIN names = 1 .. 7 /\ ToSet(names) = {names[i] : i \in 1 .. 7}
    BY PreferredPlaces
<1> HIDE DEF names
<1>2. CASE ToSet(names) \cap properties # {}
  <2>1. PICK i \in 1 .. 7 : names[i] \in properties
      BY <1>1, <1>2
  <2>2. \E j \in 1 .. 7 : names[j] \in properties /\ FirstIn(names, properties) = names[j]
      BY <1>1, <2>1, FirstFound
  <2>3. FirstIn(names, properties) \in properties \cap ToSet(names)
      BY <1>1, <2>2
  <2>4. QED
      BY <1>2, <2>3 DEF ArgNameFor, names, IsArgument
<1>3. CASE ToSet(names) \cap properties = {} /\ required # <<>> /\ required[1] # ""
  <2>1. required[1] \in properties
      BY <1>3, OnSequences
  <2>2. QED
      BY <1>3, <2>1 DEF ArgNameFor, names, IsArgument
<1>4. CASE ToSet(names) \cap properties = {} /\ (required = <<>> \/ required[1] = "")
  <2>1. Len(sorted) \in Nat /\ DOMAIN sorted = 1 .. Len(sorted)
      BY OnSequences
  <2>2. PICK i \in 1 .. Len(sorted) : sorted[i] \in properties
      BY <2>1 DEF ToSet
  <2>3. FirstIn(sorted, properties) \in properties
      BY <2>1, <2>2, FirstFound
  <2>4. QED
      BY <1>4, <2>3 DEF ArgNameFor, names, IsArgument
<1>5. QED
    BY <1>2, <1>3, <1>4

\* The halves of what is printed.
PrintedHalves(printed) == IF "int" \in DOMAIN printed THEN 2 * printed.int ELSE printed.float

\* A float64, in halves, is printed as it is, as an integer or a float, whatever
\* its size - but for the one at which the conversion saturates.
LEMMA NumberPrinted ==
    ASSUME NEW h \in Int, NEW saturates \in BOOLEAN,
           ~(saturates /\ h = 2 * (MaxInt + 1))
    PROVE  PrintedHalves(Stringify(h, saturates)) = h
<1> DEFINE n == ToInt(h, saturates)
<1>1. n \in Int /\ (n = MaxInt => h # 2 * (MaxInt + 1))
    BY MaxIntAssumption DEF ToInt, MinInt
<1> HIDE DEF n
<1>2. h = ToFloat(n) => h = 2 * n
    BY <1>1, MaxIntAssumption DEF ToFloat
<1>3. QED
    BY <1>2 DEF Stringify, PrintedHalves, n

\* A float64 is decoded as it is.
LEMMA FloatDecoded ==
    ASSUME NEW h \in Floats, NEW f \in Decode(h)
    PROVE  f = h
<1>1. f \in Int /\ h \in Int /\ Distance(f, h) <= Distance(h, h)
    BY FloatsAssumption DEF Decode
<1>2. QED
    BY <1>1 DEF Distance

-----------------------------------------------------------------------------
(* The calls.                                                              *)

\* An answer is what the function called returns for the input.
Answered ==
    /\ input \in Inputs
    /\ Called("raw") => answer = FromRaw(input.text)
    /\ Called("marshal") => answer = Marshal(input.text)
    /\ Called("field") => answer = LookupNested(input.doc, input.path)
    /\ Called("a2a") => answer = ExtractA2A(A2AResult(input))
    /\ Called("mcp") => answer = McpText(MCPResult(input))
    /\ Called("stream") => answer = ReadStream(Stream(input))
    /\ Called("schema") => answer = [name |-> ArgNameFor(input.properties, input.required, input.sorted)]
    /\ Called("number") => \E f \in Decode(input.halves) : answer = Stringify(f, input.saturates)

\* Answered is an invariant of the calls.
THEOREM CallsAnswered == CallSpec => []Answered
<1>1. CallInit => Answered
    BY DEF CallInit, Answered, Called
<1>2. Answered /\ [CallNext]_<<input, answer>> => Answered'
  <2>1. SUFFICES ASSUME Answered, [CallNext]_<<input, answer>> PROVE Answered'
      BY <2>1
  <2>2. CASE Call("raw", FromRaw(input.text))
      BY <2>1, <2>2 DEF Answered, Call, Called
  <2>3. CASE Call("marshal", Marshal(input.text))
      BY <2>1, <2>3 DEF Answered, Call, Called
  <2>4. CASE Call("field", LookupNested(input.doc, input.path))
      BY <2>1, <2>4 DEF Answered, Call, Called
  <2>5. CASE Call("a2a", ExtractA2A(A2AResult(input)))
      BY <2>1, <2>5 DEF Answered, Call, Called
  <2>6. CASE Call("mcp", McpText(MCPResult(input)))
      BY <2>1, <2>6 DEF Answered, Call, Called
  <2>7. CASE Call("stream", ReadStream(Stream(input)))
      BY <2>1, <2>7 DEF Answered, Call, Called
  <2>8. CASE Call("schema", [name |-> ArgNameFor(input.properties, input.required, input.sorted)])
      BY <2>1, <2>8 DEF Answered, Call, Called
  <2>9. CASE \E f \in Decode(input.halves) : Call("number", Stringify(f, input.saturates))
      BY <2>1, <2>9 DEF Answered, Call, Called
  <2>10. CASE UNCHANGED <<input, answer>>
      BY <2>1, <2>10 DEF Answered, Called
  <2>11. QED
      BY <2>1, <2>2, <2>3, <2>4, <2>5, <2>6, <2>7, <2>8, <2>9, <2>10 DEF CallNext
<1>3. QED
    BY <1>1, <1>2, PTL DEF CallSpec

\* What an input is, by its kind.
LEMMA KindsOfInputs ==
    ASSUME NEW i \in Inputs
    PROVE  /\ i.kind = "raw" => i \in RawInputs
           /\ i.kind = "marshal" => i \in MarshalInputs
           /\ i.kind = "field" => i \in FieldInputs
           /\ i.kind = "a2a" => i \in A2AInputs
           /\ i.kind = "mcp" => i \in MCPInputs
           /\ i.kind = "stream" => i \in StreamInputs
           /\ i.kind = "schema" => i \in SchemaInputs
           /\ i.kind = "number" => i \in NumberInputs
<1>1. \/ i \in RawInputs \/ i \in MarshalInputs \/ i \in FieldInputs \/ i \in A2AInputs
      \/ i \in MCPInputs \/ i \in StreamInputs \/ i \in SchemaInputs \/ i \in NumberInputs
    BY InputsAssumption
<1>2. i \in RawInputs => i.kind = "raw"
    BY DEF RawInputs
<1>3. i \in MarshalInputs => i.kind = "marshal"
    BY DEF MarshalInputs
<1>4. i \in FieldInputs => i.kind = "field"
    BY DEF FieldInputs
<1>5. i \in A2AInputs => i.kind = "a2a"
    BY DEF A2AInputs
<1>6. i \in MCPInputs => i.kind = "mcp"
    BY DEF MCPInputs
<1>7. i \in StreamInputs => i.kind = "stream"
    BY DEF StreamInputs
<1>8. i \in SchemaInputs => i.kind = "schema"
    BY DEF SchemaInputs
<1>9. i \in NumberInputs => i.kind = "number"
    BY DEF NumberInputs
<1>10. QED
    BY <1>1, <1>2, <1>3, <1>4, <1>5, <1>6, <1>7, <1>8, <1>9

\* FieldIsRead, for all JSON values and all paths (rest.go, lookupNested).
THEOREM FieldsRead == CallSpec => []FieldIsRead
<1>1. Answered => FieldIsRead
  <2> DEFINE upTo == Resolved(input.doc, input.path)
  <2>1. SUFFICES ASSUME Answered, Called("field"),
                        \A n \in 1 .. Len(input.path) - 1 : \A u \in upTo[n] : u.is = "obj"
                 PROVE  upTo[Len(input.path)] = IF answer = Absent THEN {} ELSE {answer}
      BY <2>1 DEF FieldIsRead
  <2>2. input \in FieldInputs
      BY <2>1, KindsOfInputs DEF Answered, Called
  <2>3. input.doc \in Values /\ input.doc.is = "obj" /\ input.path \in Seq(Segments)
      BY <2>2 DEF FieldInputs
  <2>4. answer = LookupNested(input.doc, input.path)
      BY <2>1 DEF Answered
  <2>5. QED
      BY <2>1, <2>3, <2>4, LookupFinds
<1>2. QED
    BY <1>1, CallsAnswered, PTL

\* TextKept, for all A2A and MCP results and streams, of any number of artifacts,
\* parts and lines (a2a.go, extractA2AFromRaw; mcp.go, mcpText, extractSSEData).
THEOREM TextsKept == CallSpec => []TextKept
<1>1. Answered => TextKept
  <2>1. SUFFICES ASSUME Answered PROVE TextKept
      BY <2>1
  <2>2. input \in Inputs
      BY <2>1 DEF Answered
  <2>3. CASE Called("a2a")
    <3>1. input \in A2AInputs /\ ~Called("mcp") /\ ~Called("stream")
        BY <2>2, <2>3, KindsOfInputs DEF Called
    <3>2. answer = ExtractA2A(A2AResult(input))
        BY <2>1, <2>3 DEF Answered
    <3>3. QED
        BY <3>1, <3>2, A2AText DEF TextKept
  <2>4. CASE Called("mcp")
    <3>1. input.content \in Seq(MCPParts) /\ input.isError \in Flags /\ ~Called("a2a") /\ ~Called("stream")
        BY <2>2, <2>4, KindsOfInputs DEF Called, MCPInputs
    <3>2. answer = McpText(MCPResult(input))
        BY <2>1, <2>4 DEF Answered
    <3>3. QED
        BY <3>1, <3>2, MCPText DEF TextKept
  <2>5. CASE Called("stream")
    <3>1. input \in StreamInputs /\ ~Called("a2a") /\ ~Called("mcp")
        BY <2>2, <2>5, KindsOfInputs DEF Called
    <3>2. input.content \in Seq(MCPParts) /\ input.isError \in Flags
        BY <3>1 DEF StreamInputs
    <3>3. answer = IF LastData(input).value = Fragment THEN Malformed ELSE McpText(LastData(input).value)
        BY <2>1, <2>5, <3>1, StreamRead DEF Answered, ReadStream
    <3>4. ASSUME input.split PROVE answer = Malformed
        BY <3>3, <3>4 DEF LastData
    <3>5. ASSUME ~input.split PROVE answer = McpText(MCPResult(input))
      <4>1. LastData(input).value = MCPResult(input)
          BY <3>5 DEF LastData
      <4>2. MCPResult(input).is = "obj" /\ Fragment.is = "fragment"
          BY DEF MCPResult, Obj, Fragment
      <4>3. QED
          BY <3>3, <4>1, <4>2
    <3>6. QED
        BY <3>1, <3>2, <3>4, <3>5, MCPText DEF TextKept
  <2>6. QED
      BY <2>3, <2>4, <2>5 DEF TextKept
<1>2. QED
    BY <1>1, CallsAnswered, PTL

\* ArgumentDeclared, for all schemas (mcp.go, ArgNameFor).
THEOREM ArgumentsDeclared == CallSpec => []ArgumentDeclared
<1>1. Answered => ArgumentDeclared
  <2>1. SUFFICES ASSUME Answered, Called("schema"), input.properties # {},
                        ToSet(input.required) \subseteq input.properties
                 PROVE  ArgumentDeclared
      BY <2>1 DEF ArgumentDeclared
  <2>2. input \in SchemaInputs
      BY <2>1, KindsOfInputs DEF Answered, Called
  <2>3. /\ input.required \in Seq(STRING) /\ input.sorted \in Seq(STRING)
        /\ input.properties \subseteq ToSet(input.sorted)
      BY <2>2 DEF SchemaInputs
  <2>4. answer.name = ArgNameFor(input.properties, input.required, input.sorted)
      BY <2>1 DEF Answered
  <2> DEFINE name == ArgNameFor(input.properties, input.required, input.sorted)
  <2>5. IsArgument(name, input.properties, input.required)
      BY <2>1, <2>3, ArgumentNamed
  <2>6. answer.name = name
      BY <2>4
  <2> HIDE DEF name
  <2>7. QED
      BY <2>5, <2>6 DEF ArgumentDeclared, IsArgument
<1>2. QED
    BY <1>1, CallsAnswered, PTL

\* NumberKept, for all numbers, all sets of floats and all widths of an integer
\* (rest.go, Send and stringify).
THEOREM NumbersKept == CallSpec => []NumberKept
<1>1. Answered => NumberKept
  <2>1. SUFFICES ASSUME Answered, Called("number"),
                        ~(input.saturates /\ 2 * (MaxInt + 1) \in Decode(input.halves))
                 PROVE  Reported \in Decode(input.halves) /\ (input.halves \in Floats => Reported = input.halves)
      BY <2>1 DEF NumberKept
  <2>2. input \in NumberInputs
      BY <2>1, KindsOfInputs DEF Answered, Called
  <2>3. input.halves \in Int /\ input.saturates \in BOOLEAN
      BY <2>2 DEF NumberInputs
  <2>4. PICK f \in Decode(input.halves) : answer = Stringify(f, input.saturates)
      BY <2>1 DEF Answered
  <2>5. f \in Int /\ ~(input.saturates /\ f = 2 * (MaxInt + 1))
      BY <2>1, <2>4, FloatsAssumption DEF Decode
  <2>6. PrintedHalves(Stringify(f, input.saturates)) = f
      BY <2>3, <2>5, NumberPrinted
  <2>7. Reported = f
      BY <2>4, <2>6 DEF Reported, PrintedHalves
  <2>8. QED
      BY <2>4, <2>7, FloatDecoded
<1>2. QED
    BY <1>1, CallsAnswered, PTL

-----------------------------------------------------------------------------
(* Pieces of text, one behind the other.                                   *)

\* f[n] is what the first n pieces make.
Flattens(f, S, pieces) ==
    /\ f \in [0 .. Len(pieces) -> Seq(S)]
    /\ f[0] = <<>>
    /\ \A n \in 1 .. Len(pieces) : f[n] = f[n - 1] \o pieces[n]

LEMMA Concatenation ==
    ASSUME NEW S, NEW a \in Seq(S), NEW b \in Seq(S)
    PROVE  /\ a \o b \in Seq(S)
           /\ <<>> \in Seq(S) /\ <<>> \o a = a /\ a \o <<>> = a
           /\ Len(a) \in Nat /\ Len(b) \in Nat
           /\ Len(a \o b) = Len(a) + Len(b)
           /\ \A j \in 1 .. Len(a) : (a \o b)[j] = a[j]
           /\ \A j \in 1 .. Len(b) : (a \o b)[Len(a) + j] = b[j]
OBVIOUS

LEMMA Associativity ==
    ASSUME NEW S, NEW a \in Seq(S), NEW b \in Seq(S), NEW c \in Seq(S)
    PROVE  (a \o b) \o c = a \o (b \o c)
OBVIOUS

\* FlattenSeq makes what all pieces make.
LEMMA Flattened ==
    ASSUME NEW S, NEW pieces \in Seq(Seq(S))
    PROVE  \E f : Flattens(f, S, pieces) /\ FlattenSeq(pieces) = f[Len(pieces)]
<1> DEFINE N == Len(pieces)
           step == [n \in 1 .. N |-> [t \in Seq(S) |-> t \o pieces[n]]]
           Is(g) == g = [i \in 1 .. N |-> IF i = 1 THEN pieces[i] ELSE g[i - 1] \o pieces[i]]
           g == CHOOSE h : Is(h)
<1>1. N \in Nat /\ \A n \in 1 .. N : pieces[n] \in Seq(S)
    OBVIOUS
<1>2. <<>> \in Seq(S) /\ step \in [1 .. N -> [Seq(S) -> Seq(S)]]
  <2>1. \A n \in 1 .. N, t \in Seq(S) : t \o pieces[n] \in Seq(S)
      BY <1>1, Concatenation
  <2> HIDE DEF N
  <2>2. QED
      BY <2>1
<1>3. PICK f : Follows(f, Seq(S), <<>>, N, step)
  <2> HIDE DEF step, N
  <2>1. QED
      BY <1>1, <1>2, Recursion, Zenon
<1> HIDE DEF N
<1>4. /\ f \in [0 .. N -> Seq(S)] /\ f[0] = <<>>
      /\ \A n \in 1 .. N : f[n] = f[n - 1] \o pieces[n]
  <2>1. f \in [0 .. N -> Seq(S)] /\ f[0] = <<>> /\ \A n \in 1 .. N : f[n] = step[n][f[n - 1]]
      BY <1>3 DEF Follows
  <2>2. \A n \in 1 .. N : n - 1 \in 0 .. N
      BY <1>1
  <2>3. \A n \in 1 .. N : f[n - 1] \in Seq(S)
      BY <2>1, <2>2
  <2>4. QED
      BY <2>1, <2>3
<1>5. Flattens(f, S, pieces)
    BY <1>4 DEF Flattens, N
<1>6. CASE N = 0
  <2>1. pieces = <<>>
      BY <1>6 DEF N
  <2>2. QED
      BY <1>4, <1>5, <1>6, <2>1 DEF FlattenSeq, N
<1>7. CASE N # 0
  <2>1. Is([i \in 1 .. N |-> f[i]])
    <3> DEFINE h == [i \in 1 .. N |-> f[i]]
    <3>1. ASSUME NEW i \in 1 .. N PROVE h[i] = IF i = 1 THEN pieces[i] ELSE h[i - 1] \o pieces[i]
      <4>1. f[i] = f[i - 1] \o pieces[i] /\ pieces[i] \in Seq(S)
          BY <1>1, <1>4
      <4>2. CASE i = 1
        <5>1. i - 1 = 0
            BY <4>2
        <5>2. f[i] = <<>> \o pieces[i]
            BY <1>4, <4>1, <5>1
        <5>3. QED
            BY <4>1, <4>2, <5>2, Concatenation
      <4>3. CASE i # 1
        <5>1. i - 1 \in 1 .. N
            BY <1>1, <4>3
        <5>2. QED
            BY <4>1, <4>3, <5>1
      <4>4. QED
          BY <4>2, <4>3
    <3>2. h = [i \in 1 .. N |-> h[i]]
        OBVIOUS
    <3> HIDE DEF h
    <3>3. Is(h)
        BY <3>1, <3>2
    <3>4. QED
        BY <3>3 DEF h
  <2>2. Is(g)
    <3> HIDE DEF Is
    <3>1. QED
        BY <2>1, Zenon
  <2>3. FlattenSeq(pieces) = g[N]
      BY <1>7 DEF FlattenSeq, N
  <2> HIDE DEF g
  <2>4. \A i \in 1 .. N : g[i] = IF i = 1 THEN pieces[i] ELSE g[i - 1] \o pieces[i]
      BY <2>2
  <2> DEFINE Same == {i \in Nat : i \in 1 .. N => g[i] = f[i]}
  <2>5. 0 \in Same
      BY <1>1
  <2>6. ASSUME NEW i \in Nat, i \in Same PROVE i + 1 \in Same
    <3>1. SUFFICES ASSUME i + 1 \in 1 .. N PROVE g[i + 1] = f[i + 1]
        BY <3>1
    <3>2. (i + 1) - 1 = i /\ (i = 0 \/ i \in 1 .. N)
        BY <1>1, <3>1
    <3>3. f[i + 1] = f[i] \o pieces[i + 1] /\ pieces[i + 1] \in Seq(S)
        BY <1>1, <1>4, <3>1, <3>2
    <3>4. CASE i = 0
      <4>1. g[i + 1] = pieces[i + 1]
          BY <2>4, <3>1, <3>4
      <4>2. f[i + 1] = <<>> \o pieces[i + 1]
          BY <1>4, <3>3, <3>4
      <4>3. QED
          BY <3>3, <4>1, <4>2, Concatenation
    <3>5. CASE i \in 1 .. N
      <4>1. i + 1 # 1 /\ g[i] = f[i]
          BY <2>6, <3>5
      <4>2. g[i + 1] = g[i] \o pieces[i + 1]
          BY <2>4, <3>1, <3>2, <4>1
      <4>3. QED
          BY <3>3, <4>1, <4>2
    <3>6. QED
        BY <3>1, <3>2, <3>4, <3>5
  <2>7. \A i \in Nat : i \in Same
    <3> HIDE DEF Same
    <3>1. QED
        BY <2>5, <2>6, Induction
  <2>8. g[N] = f[N]
      BY <1>1, <1>7, <2>7
  <2>9. QED
      BY <1>5, <2>3, <2>8 DEF N
<1>8. QED
    BY <1>6, <1>7

\* What the first pieces make is where all pieces begin.
LEMMA FlatPrefix ==
    ASSUME NEW S, NEW pieces \in Seq(Seq(S)), NEW f, Flattens(f, S, pieces), NEW n \in 0 .. Len(pieces)
    PROVE  /\ Len(f[n]) \in Nat /\ Len(f[n]) <= Len(f[Len(pieces)])
           /\ \A j \in 1 .. Len(f[n]) : f[Len(pieces)][j] = f[n][j]
<1> DEFINE N == Len(pieces)
           Begins(m) == Len(f[n]) <= Len(f[m]) /\ \A j \in 1 .. Len(f[n]) : f[m][j] = f[n][j]
           D == {m \in Nat : n <= m /\ m <= N => Begins(m)}
<1>1. N \in Nat /\ \A m \in 1 .. N : pieces[m] \in Seq(S)
    OBVIOUS
<1>2. /\ \A m \in 0 .. N : f[m] \in Seq(S)
      /\ \A m \in 1 .. N : f[m] = f[m - 1] \o pieces[m]
    BY DEF Flattens
<1>3. n \in 0 .. N
    OBVIOUS
<1> HIDE DEF N
<1>4. \A m \in 0 .. N : Len(f[m]) \in Nat
    BY <1>2
<1>5. 0 \in D
    BY <1>1, <1>3, <1>4
<1>6. ASSUME NEW m \in Nat, m \in D PROVE m + 1 \in D
  <2>1. SUFFICES ASSUME n <= m + 1, m + 1 <= N PROVE Begins(m + 1)
      BY <2>1
  <2>2. CASE n = m + 1
      BY <1>3, <1>4, <2>2
  <2>3. CASE n # m + 1
    <3>1. /\ n <= m /\ m <= N /\ m \in 0 .. N
          /\ m + 1 \in 1 .. N /\ (m + 1) - 1 = m
        BY <1>1, <1>3, <2>1, <2>3
    <3>2. Begins(m)
        BY <1>6, <3>1
    <3>3. f[m + 1] = f[m] \o pieces[m + 1] /\ f[m] \in Seq(S) /\ pieces[m + 1] \in Seq(S)
        BY <1>1, <1>2, <3>1
    <3>4. /\ Len(f[m + 1]) = Len(f[m]) + Len(pieces[m + 1]) /\ Len(pieces[m + 1]) \in Nat /\ Len(f[m]) \in Nat
          /\ \A j \in 1 .. Len(f[m]) : f[m + 1][j] = f[m][j]
      <4> DEFINE x == f[m]
                 y == pieces[m + 1]
      <4>1. x \in Seq(S) /\ y \in Seq(S) /\ f[m + 1] = x \o y
          BY <3>3
      <4> HIDE DEF x, y
      <4>2. /\ Len(x \o y) = Len(x) + Len(y) /\ Len(y) \in Nat /\ Len(x) \in Nat
            /\ \A j \in 1 .. Len(x) : (x \o y)[j] = x[j]
          BY <4>1, Concatenation
      <4>3. QED
          BY <4>1, <4>2 DEF x, y
    <3> DEFINE a == Len(f[n])
               b == Len(f[m])
               c == Len(pieces[m + 1])
    <3>5. a \in Nat /\ b \in Nat /\ c \in Nat /\ a <= b
        BY <1>3, <1>4, <3>2, <3>4
    <3>6. Len(f[m + 1]) = b + c
        BY <3>4
    <3> HIDE DEF a, b, c
    <3>7. a <= b + c /\ \A j \in 1 .. a : j \in 1 .. b
        BY <3>5
    <3>8. QED
        BY <3>2, <3>4, <3>6, <3>7 DEF a, b
  <2>4. QED
      BY <2>2, <2>3
<1>7. \A m \in Nat : m \in D
  <2> HIDE DEF D
  <2>1. QED
      BY <1>5, <1>6, Induction
<1>8. Begins(N)
    BY <1>1, <1>3, <1>7
<1>9. QED
    BY <1>3, <1>4, <1>8 DEF N

\* Where each piece of R is what Q makes of a piece of P, the pieces of R make
\* what Q makes of all that the pieces of P make.
Remade(P, f, Q, R) ==
    \A n \in 1 .. Len(P) :
        \/ Len(P[n]) = 0 /\ R[n] = <<>>
        \/ Len(P[n]) = 1 /\ R[n] = Q[Len(f[n - 1]) + 1]
        \/ Len(P[n]) = 2 /\ R[n] = Q[Len(f[n - 1]) + 1] \o Q[Len(f[n - 1]) + 2]

LEMMA PieceByPiece ==
    ASSUME NEW S, NEW P \in Seq(Seq(S)), NEW f, Flattens(f, S, P),
           NEW U, NEW Q \in Seq(Seq(U)), NEW q, Flattens(q, U, Q), Len(Q) = Len(f[Len(P)]),
           NEW R \in Seq(Seq(U)), NEW r, Flattens(r, U, R), Len(R) = Len(P),
           Remade(P, f, Q, R)
    PROVE  q[Len(Q)] = r[Len(R)]
<1> DEFINE N == Len(P)
           M == Len(Q)
           D == {n \in Nat : n <= N => q[Len(f[n])] = r[n]}
<1>1. /\ N \in Nat /\ M \in Nat /\ Len(R) = N
      /\ \A n \in 1 .. N : P[n] \in Seq(S)
      /\ \A k \in 1 .. M : Q[k] \in Seq(U)
    OBVIOUS
<1>2. /\ f \in [0 .. N -> Seq(S)] /\ f[0] = <<>>
      /\ \A n \in 1 .. N : f[n] = f[n - 1] \o P[n]
    BY DEF Flattens
<1>3. /\ q \in [0 .. M -> Seq(U)] /\ q[0] = <<>>
      /\ \A k \in 1 .. M : q[k] = q[k - 1] \o Q[k]
    BY DEF Flattens
<1>4. /\ r \in [0 .. N -> Seq(U)] /\ r[0] = <<>>
      /\ \A n \in 1 .. N : r[n] = r[n - 1] \o R[n]
    BY DEF Flattens
<1>5. \A n \in 0 .. N : Len(f[n]) \in Nat /\ Len(f[n]) <= M
    BY FlatPrefix
<1>6. \A n \in 1 .. N :
         \/ Len(P[n]) = 0 /\ R[n] = <<>>
         \/ Len(P[n]) = 1 /\ R[n] = Q[Len(f[n - 1]) + 1]
         \/ Len(P[n]) = 2 /\ R[n] = Q[Len(f[n - 1]) + 1] \o Q[Len(f[n - 1]) + 2]
    BY DEF Remade
<1>7. M = Len(f[N])
    OBVIOUS
<1> HIDE DEF N, M
<1>8. 0 \in D
  <2>1. Len(f[0]) = 0
      BY <1>2
  <2>2. QED
      BY <1>3, <1>4, <2>1
<1>9. ASSUME NEW n \in Nat, n \in D PROVE n + 1 \in D
  <2>1. SUFFICES ASSUME n + 1 <= N PROVE q[Len(f[n + 1])] = r[n + 1]
      BY <2>1
  <2>2. n \in 0 .. N /\ n + 1 \in 0 .. N /\ n + 1 \in 1 .. N /\ (n + 1) - 1 = n
      BY <1>1, <2>1
  <2> DEFINE off == Len(f[n])
             len == Len(P[n + 1])
  <2>3. q[off] = r[n] /\ off \in Nat
      BY <1>5, <1>9, <2>2
  <2>4. Len(f[n + 1]) = off + len
    <3> DEFINE x == f[n]
               y == P[n + 1]
    <3>1. x \in Seq(S) /\ y \in Seq(S) /\ f[n + 1] = x \o y
        BY <1>1, <1>2, <2>2
    <3> HIDE DEF x, y
    <3>2. Len(x \o y) = Len(x) + Len(y)
        BY <3>1, Concatenation
    <3>3. QED
        BY <3>1, <3>2 DEF x, y
  <2>5. off + len <= M
      BY <1>5, <2>2, <2>4
  <2>6. r[n + 1] = q[off] \o R[n + 1]
      BY <1>4, <2>2, <2>3
  <2>7. \/ len = 0 /\ R[n + 1] = <<>>
        \/ len = 1 /\ R[n + 1] = Q[off + 1]
        \/ len = 2 /\ R[n + 1] = Q[off + 1] \o Q[off + 2]
      BY <1>6, <2>2
  <2> HIDE DEF off, len
  <2>8. off <= M => q[off] \in Seq(U)
      BY <1>1, <1>3, <2>3
  <2>9. CASE len = 0 /\ R[n + 1] = <<>>
    <3>1. q[off] \in Seq(U) /\ off + len = off
        BY <1>1, <2>3, <2>5, <2>8, <2>9
    <3>2. QED
        BY <2>4, <2>6, <2>9, <3>1, Concatenation
  <2>10. ASSUME off + 1 <= M PROVE q[off + 1] = q[off] \o Q[off + 1] /\ Q[off + 1] \in Seq(U) /\ q[off] \in Seq(U)
    <3>1. off + 1 \in 1 .. M /\ (off + 1) - 1 = off /\ off <= M
        BY <1>1, <2>3, <2>10
    <3>2. QED
        BY <1>1, <1>3, <2>8, <3>1
  <2>11. CASE len = 1 /\ R[n + 1] = Q[off + 1]
    <3>1. off + 1 <= M /\ off + len = off + 1
        BY <2>5, <2>11
    <3>2. QED
        BY <2>4, <2>6, <2>10, <2>11, <3>1
  <2>12. CASE len = 2 /\ R[n + 1] = Q[off + 1] \o Q[off + 2]
    <3>1. off + 1 <= M /\ off + len = off + 2 /\ off + 2 \in 1 .. M /\ (off + 2) - 1 = off + 1
        BY <1>1, <2>3, <2>5, <2>12
    <3>2. q[off + 2] = q[off + 1] \o Q[off + 2] /\ Q[off + 2] \in Seq(U)
        BY <1>1, <1>3, <3>1
    <3> DEFINE a == q[off]
               b == Q[off + 1]
               c == Q[off + 2]
    <3>3. /\ a \in Seq(U) /\ b \in Seq(U) /\ c \in Seq(U)
          /\ q[off + 2] = (a \o b) \o c /\ r[n + 1] = a \o (b \o c)
        BY <2>6, <2>10, <2>12, <3>1, <3>2
    <3> HIDE DEF a, b, c
    <3>4. (a \o b) \o c = a \o (b \o c)
      <4>1. a \in Seq(U) /\ b \in Seq(U) /\ c \in Seq(U)
          BY <3>3
      <4>2. QED
          BY <4>1, SMT
    <3>5. q[off + 2] = r[n + 1]
        BY <3>3, <3>4, Zenon
    <3>6. Len(f[n + 1]) = off + 2
        BY <2>4, <3>1
    <3>7. QED
        BY <3>5, <3>6
  <2>13. QED
      BY <2>7, <2>9, <2>11, <2>12
<1>10. \A n \in Nat : n \in D
  <2> HIDE DEF D
  <2>1. QED
      BY <1>8, <1>9, Induction
<1>11. q[Len(f[N])] = r[N]
    BY <1>1, <1>10
<1>12. QED
    BY <1>1, <1>7, <1>11 DEF M

-----------------------------------------------------------------------------
(* Walks over text.                                                        *)

Spots == [inStr : BOOLEAN, escaped : BOOLEAN]

LEMMA StringsIn ==
    ASSUME NEW w \in Spots, NEW c
    PROVE  /\ Strings(w, c) \in Spots
           /\ Strings(w, c).inStr <=> ((c = Quote /\ ~w.escaped) <=> ~w.inStr)
           /\ Strings(w, c).escaped <=> c = Backslash /\ w.inStr /\ ~w.escaped
<1>1. w.inStr \in BOOLEAN /\ w.escaped \in BOOLEAN
    BY DEF Spots
<1>2. QED
    BY <1>1 DEF Strings, Spots

\* A text is walked character by character.
LEMMA PlacesFollow ==
    ASSUME NEW S, NEW s \in Seq(S)
    PROVE  /\ Places(s)[0] = Outside
           /\ \A n \in 1 .. Len(s) : Places(s)[n] = Strings(Places(s)[n - 1], s[n])
           /\ \A n \in 0 .. Len(s) : Places(s)[n] \in Spots
<1> DEFINE Is(f) == f = [n \in 0 .. Len(s) |-> IF n = 0 THEN Outside ELSE Strings(f[n - 1], s[n])]
           step  == [n \in 1 .. Len(s) |-> [w \in Spots |-> Strings(w, s[n])]]
<1>1. Len(s) \in Nat
    OBVIOUS
<1>2. Outside \in Spots /\ step \in [1 .. Len(s) -> [Spots -> Spots]]
    BY StringsIn DEF Outside, Spots
<1>3. PICK f : Follows(f, Spots, Outside, Len(s), step)
  <2> HIDE DEF step
  <2>1. QED
      BY <1>1, <1>2, Recursion, Zenon
<1>4. Is(f)
  <2>1. \A n \in 1 .. Len(s) : n - 1 \in 0 .. Len(s)
      BY <1>1
  <2>2. \A n \in 1 .. Len(s) : f[n] = Strings(f[n - 1], s[n])
      BY <1>3, <2>1 DEF Follows
  <2>3. \A n \in 0 .. Len(s) : n = 0 \/ n \in 1 .. Len(s)
      BY <1>1
  <2> HIDE DEF step
  <2>4. QED
      BY <1>3, <2>2, <2>3 DEF Follows
<1> DEFINE g == CHOOSE h : Is(h)
<1>5. Places(s) = g
    BY DEF Places
<1>6. Is(g)
  <2> HIDE DEF Is
  <2>1. QED
      BY <1>4, Zenon
<1> HIDE DEF g
<1>7. \A n \in 1 .. Len(s) : n \in 0 .. Len(s) /\ n # 0
    BY <1>1
<1>8. 0 \in 0 .. Len(s)
    BY <1>1
<1>9. \A n \in 0 .. Len(s) : g[n] = IF n = 0 THEN Outside ELSE Strings(g[n - 1], s[n])
    BY <1>6
<1>10. g[0] = Outside /\ \A n \in 1 .. Len(s) : g[n] = Strings(g[n - 1], s[n])
    BY <1>7, <1>8, <1>9
<1>11. \A n \in 0 .. Len(s) : g[n] \in Spots
  <2>1. \A n \in 1 .. Len(s) : g[n - 1] \in Spots => g[n] \in Spots
      BY <1>10, StringsIn
  <2> HIDE DEF Is
  <2>2. QED
      BY <1>1, <1>2, <1>10, <2>1, StaysIn
<1>12. QED
    BY <1>5, <1>10, <1>11

\* A run of backslashes goes on with the next, and ends with anything else.
LEMMA RunNext ==
    ASSUME NEW s, NEW i \in Nat \ {0}, NEW k \in 0 .. i - 1
    PROVE  /\ s[i] = Backslash => (Run(s, i + 1, k + 1) <=> Run(s, i, k))
           /\ s[i] # Backslash => Run(s, i + 1, 0) /\ ~Run(s, i + 1, k + 1)
<1>1. ASSUME s[i] = Backslash PROVE Run(s, i + 1, k + 1) <=> Run(s, i, k)
  <2>1. (i + 1) - (k + 1) = i - k /\ (i + 1) - 1 = i /\ (i + 1) - (k + 1) - 1 = i - k - 1
      OBVIOUS
  <2>2. k + 1 = (i + 1) - 1 <=> k = i - 1
      OBVIOUS
  <2>3. \A j \in Int : j \in i - k .. i <=> j \in i - k .. i - 1 \/ j = i
      OBVIOUS
  <2>4. (\A j \in i - k .. i : s[j] = Backslash) <=> \A j \in i - k .. i - 1 : s[j] = Backslash
      BY <1>1, <2>3
  <2>5. Run(s, i + 1, k + 1) <=> /\ \A j \in i - k .. i : s[j] = Backslash
                                 /\ k = i - 1 \/ s[i - k - 1] # Backslash
      BY <2>1, <2>2 DEF Run
  <2>6. QED
      BY <2>4, <2>5 DEF Run
<1>2. ASSUME s[i] # Backslash PROVE Run(s, i + 1, 0) /\ ~Run(s, i + 1, k + 1)
  <2>1. (i + 1) - 0 .. (i + 1) - 1 = {} /\ (i + 1) - 0 - 1 = i
      OBVIOUS
  <2>2. Run(s, i + 1, 0)
      BY <1>2, <2>1 DEF Run
  <2>3. i \in (i + 1) - (k + 1) .. (i + 1) - 1
      OBVIOUS
  <2>4. QED
      BY <1>2, <2>2, <2>3 DEF Run
<1>3. QED
    BY <1>1, <1>2

\* Before each place there is one run, if only of none.
LEMMA RunThere ==
    ASSUME NEW s
    PROVE  \A i \in Nat \ {0} : \E k \in 0 .. i - 1 : Run(s, i, k) /\ \A m \in 0 .. i - 1 : Run(s, i, m) => m = k
<1> DEFINE One(i) == \E k \in 0 .. i - 1 : Run(s, i, k) /\ \A m \in 0 .. i - 1 : Run(s, i, m) => m = k
           D == {n \in Nat : One(n + 1)}
<1>1. 0 \in D
  <2>1. Run(s, 1, 0)
      BY DEF Run
  <2>2. 0 .. 1 - 1 = {0} /\ 0 + 1 = 1
      OBVIOUS
  <2>3. QED
      BY <2>1, <2>2
<1>2. ASSUME NEW n \in Nat, n \in D PROVE n + 1 \in D
  <2> DEFINE i == n + 1
  <2>1. i \in Nat \ {0} /\ One(i)
      BY <1>2
  <2> HIDE DEF i
  <2>2. PICK k \in 0 .. i - 1 : Run(s, i, k) /\ \A m \in 0 .. i - 1 : Run(s, i, m) => m = k
      BY <2>1
  <2>3. \A m \in 0 .. (i + 1) - 1 : m = 0 \/ (m - 1 \in 0 .. i - 1 /\ (m - 1) + 1 = m)
      BY <2>1
  <2>4. 0 \in 0 .. (i + 1) - 1 /\ k + 1 \in 0 .. (i + 1) - 1
      BY <2>1
  <2>5. CASE s[i] # Backslash
    <3>1. Run(s, i + 1, 0) /\ \A m \in 0 .. (i + 1) - 1 : Run(s, i + 1, m) => m = 0
        BY <2>1, <2>2, <2>3, <2>5, RunNext
    <3>2. One(i + 1)
        BY <2>4, <3>1
    <3>3. QED
        BY <1>2, <3>2 DEF i
  <2>6. CASE s[i] = Backslash
    <3>1. Run(s, i + 1, k + 1)
        BY <2>1, <2>2, <2>6, RunNext
    <3>2. ~Run(s, i + 1, 0)
      <4>1. (i + 1) - 0 - 1 = i /\ 0 # (i + 1) - 1
          BY <2>1
      <4>2. QED
          BY <2>6, <4>1 DEF Run
    <3>3. ASSUME NEW m \in 0 .. (i + 1) - 1, Run(s, i + 1, m) PROVE m = k + 1
      <4>1. m - 1 \in 0 .. i - 1 /\ (m - 1) + 1 = m
          BY <2>3, <3>2, <3>3
      <4>2. Run(s, i, m - 1)
          BY <2>1, <2>6, <3>3, <4>1, RunNext
      <4>3. QED
          BY <2>2, <4>1, <4>2
    <3>4. One(i + 1)
        BY <2>4, <3>1, <3>3
    <3>5. QED
        BY <1>2, <3>4 DEF i
  <2>7. QED
      BY <2>5, <2>6
<1>3. \A n \in Nat : n \in D
  <2> HIDE DEF D
  <2>1. QED
      BY <1>1, <1>2, Induction
<1>4. ASSUME NEW i \in Nat \ {0} PROVE One(i)
  <2>1. i - 1 \in Nat /\ (i - 1) + 1 = i
      OBVIOUS
  <2>2. One((i - 1) + 1)
      BY <1>3, <2>1
  <2> HIDE DEF One
  <2>3. QED
      BY <2>1, <2>2
<1>5. QED
    BY <1>4

\* What comes behind a backslash is escaped, unless the backslash is.
LEMMA EscapedNext ==
    ASSUME NEW s, NEW i \in Nat \ {0}
    PROVE  /\ ~Escaped(s, 1)
           /\ Escaped(s, i + 1) <=> s[i] = Backslash /\ ~Escaped(s, i)
<1>1. ~Escaped(s, 1)
    BY DEF Escaped
<1>2. PICK k \in 0 .. i - 1 : Run(s, i, k) /\ \A m \in 0 .. i - 1 : Run(s, i, m) => m = k
    BY RunThere
<1>3. Escaped(s, i) <=> k % 2 = 1
  <2>1. k % 2 = 1 => k \in 1 .. i - 1
      OBVIOUS
  <2>2. \A m \in 1 .. i - 1 : m \in 0 .. i - 1
      OBVIOUS
  <2>3. QED
      BY <1>2, <2>1, <2>2 DEF Escaped
<1>4. \A m \in 1 .. (i + 1) - 1 : m - 1 \in 0 .. i - 1 /\ (m - 1) + 1 = m
    OBVIOUS
<1>5. CASE s[i] # Backslash
  <2>1. \A m \in 1 .. (i + 1) - 1 : ~Run(s, i + 1, m)
      BY <1>4, <1>5, RunNext
  <2>2. QED
      BY <1>1, <1>5, <2>1 DEF Escaped
<1>6. CASE s[i] = Backslash
  <2>1. Run(s, i + 1, k + 1) /\ k + 1 \in 1 .. (i + 1) - 1
      BY <1>2, <1>6, RunNext
  <2>2. ASSUME NEW m \in 1 .. (i + 1) - 1, Run(s, i + 1, m) PROVE m = k + 1
    <3>1. m - 1 \in 0 .. i - 1 /\ (m - 1) + 1 = m
        BY <1>4
    <3>2. Run(s, i, m - 1)
        BY <1>6, <2>2, <3>1, RunNext
    <3>3. QED
        BY <1>2, <3>1, <3>2
  <2>3. Escaped(s, i + 1) <=> (k + 1) % 2 = 1
      BY <2>1, <2>2 DEF Escaped
  <2>4. (k + 1) % 2 = 1 <=> ~(k % 2 = 1)
      OBVIOUS
  <2>5. QED
      BY <1>1, <1>3, <1>6, <2>3, <2>4
<1>7. QED
    BY <1>5, <1>6

\* A quote that is not escaped begins or ends a string.
LEMMA InStringNext ==
    ASSUME NEW s, NEW i \in Nat \ {0}
    PROVE  /\ ~InString(s, 1)
           /\ InString(s, i + 1) <=> ((s[i] = Quote /\ ~Escaped(s, i)) <=> ~InString(s, i))
<1>1. ~InString(s, 1)
  <2>1. Quotes(s, 1) = {}
      BY DEF Quotes
  <2>2. Cardinality(Quotes(s, 1)) = 0
      BY <2>1, FS_EmptySet
  <2>3. QED
      BY <2>2 DEF InString
<1> DEFINE c == Cardinality(Quotes(s, i))
<1>2. IsFiniteSet(Quotes(s, i)) /\ c \in Nat
  <2>1. Quotes(s, i) \subseteq 1 .. i - 1
      BY DEF Quotes
  <2>2. IsFiniteSet(1 .. i - 1)
      BY FS_Interval
  <2>3. IsFiniteSet(Quotes(s, i))
      BY <2>1, <2>2, FS_Subset
  <2>4. QED
      BY <2>3, FS_CardinalityType
<1>3. i \notin Quotes(s, i)
    BY DEF Quotes
<1>4. Quotes(s, i + 1) = IF s[i] = Quote /\ ~Escaped(s, i) THEN Quotes(s, i) \cup {i} ELSE Quotes(s, i)
  <2>1. \A j : j \in 1 .. (i + 1) - 1 <=> j \in 1 .. i - 1 \/ j = i
      OBVIOUS
  <2>2. QED
      BY <2>1 DEF Quotes
<1>5. CASE s[i] = Quote /\ ~Escaped(s, i)
  <2>1. Cardinality(Quotes(s, i + 1)) = c + 1
      BY <1>2, <1>3, <1>4, <1>5, FS_AddElement
  <2> HIDE DEF c
  <2>2. (c + 1) % 2 = 1 <=> ~(c % 2 = 1)
      BY <1>2
  <2>3. QED
      BY <1>1, <1>5, <2>1, <2>2 DEF InString, c
<1>6. CASE ~(s[i] = Quote /\ ~Escaped(s, i))
    BY <1>1, <1>4, <1>6 DEF InString
<1>7. QED
    BY <1>5, <1>6

\* In a JSON text, a walk knows whether it is in a string.
LEMMA PlacesKnown ==
    ASSUME NEW s \in JsonText
    PROVE  \A i \in 1 .. Len(s) :
              /\ Places(s)[i - 1].inStr <=> InString(s, i)
              /\ Places(s)[i - 1].escaped => Places(s)[i - 1].inStr
<1>0. PICK at : at = Places(s)
    OBVIOUS
<1> DEFINE Known(n) == /\ at[n].inStr <=> InString(s, n + 1)
                       /\ at[n].escaped <=> Escaped(s, n + 1)
                       /\ at[n].escaped => at[n].inStr
           D == {n \in Nat : n <= Len(s) => Known(n)}
<1>1. s \in Seq(Runes) /\ \A i \in 1 .. Len(s) : s[i] = Backslash => InString(s, i)
    BY DEF JsonText
<1>2. Len(s) \in Nat
    BY <1>1
<1>3. /\ at[0] = Outside
      /\ \A n \in 1 .. Len(s) : at[n] = Strings(at[n - 1], s[n])
      /\ \A n \in 0 .. Len(s) : at[n] \in Spots
    BY <1>0, <1>1, PlacesFollow
<1>4. 0 \in D
  <2>1. ~at[0].inStr /\ ~at[0].escaped
      BY <1>3 DEF Outside
  <2>2. ~InString(s, 1) /\ ~Escaped(s, 1) /\ 0 + 1 = 1
      BY InStringNext, EscapedNext
  <2>3. QED
      BY <2>1, <2>2
<1>5. ASSUME NEW n \in Nat, n \in D PROVE n + 1 \in D
  <2>1. SUFFICES ASSUME n + 1 <= Len(s) PROVE Known(n + 1)
      BY <2>1
  <2> DEFINE i == n + 1
  <2>2. n \in 0 .. Len(s) /\ i \in 1 .. Len(s) /\ i - 1 = n /\ i \in Nat \ {0}
      BY <1>2, <2>1
  <2>3. Known(n)
      BY <1>5, <2>2
  <2>4. /\ at[n].inStr <=> InString(s, i)
        /\ at[n].escaped <=> Escaped(s, i)
        /\ at[n].escaped => at[n].inStr
      BY <2>3
  <2> HIDE DEF i
  <2>5. at[i] = Strings(at[n], s[i]) /\ at[n] \in Spots
      BY <1>3, <2>2
  <2>6. /\ at[i].inStr <=> ((s[i] = Quote /\ ~at[n].escaped) <=> ~at[n].inStr)
        /\ at[i].escaped <=> s[i] = Backslash /\ at[n].inStr /\ ~at[n].escaped
      BY <2>5, StringsIn
  <2>7. at[i].inStr <=> InString(s, i + 1)
      BY <2>2, <2>4, <2>6, InStringNext
  <2>8. at[i].escaped <=> Escaped(s, i + 1)
    <3>1. s[i] = Backslash => InString(s, i)
        BY <1>1, <2>2
    <3>2. QED
        BY <2>2, <2>4, <2>6, <3>1, EscapedNext
  <2>9. at[i].escaped => at[i].inStr
      BY <2>6 DEF Quote, Backslash
  <2>10. QED
      BY <2>7, <2>8, <2>9 DEF i
<1>6. \A n \in Nat : n \in D
  <2> HIDE DEF D
  <2>1. QED
      BY <1>4, <1>5, Induction
<1>7. ASSUME NEW i \in 1 .. Len(s)
      PROVE  (at[i - 1].inStr <=> InString(s, i)) /\ (at[i - 1].escaped => at[i - 1].inStr)
  <2>1. i - 1 \in Nat /\ i - 1 <= Len(s) /\ (i - 1) + 1 = i
      BY <1>2
  <2>2. Known(i - 1)
      BY <1>6, <2>1
  <2>3. QED
      BY <2>1, <2>2
<1>8. QED
    BY <1>0, <1>7
\* A text of a JSON text's code points, for those it is a sequence of integers.
LEMMA JsonTextIn ==
    ASSUME NEW s \in JsonText
    PROVE  s \in Seq(Int) /\ Len(s) \in Nat /\ \A i \in 1 .. Len(s) : s[i] \in Int
<1>1. s \in Seq(Runes)
    BY DEF JsonText
<1>2. \A r \in Runes : r \in Int
    BY SMT DEF Runes
<1>3. Len(s) \in Nat /\ s = [i \in 1 .. Len(s) |-> s[i]] /\ \A i \in 1 .. Len(s) : s[i] \in Runes
    BY <1>1
<1>4. \A i \in 1 .. Len(s) : s[i] \in Int
    BY <1>2, <1>3
<1>5. s \in Seq(Int)
    BY <1>3, <1>4, SeqOver
<1>6. QED
    BY <1>3, <1>4, <1>5

\* A piece of one element puts it behind all the pieces before, an empty one nothing.
LEMMA PieceAdded ==
    ASSUME NEW S, NEW P \in Seq(Seq(S)), NEW f, Flattens(f, S, P), NEW n \in 1 .. Len(P)
    PROVE  /\ P[n] = <<>> => f[n] = f[n - 1]
           /\ \A c \in S : P[n] = <<c>> =>
                 /\ Len(f[n]) = Len(f[n - 1]) + 1
                 /\ Len(f[n]) \in 1 .. Len(f[Len(P)])
                 /\ f[Len(P)][Len(f[n])] = c
<1>1. n - 1 \in 0 .. Len(P) /\ n \in 0 .. Len(P) /\ Len(P) \in Nat /\ Len(P) \in 0 .. Len(P)
    OBVIOUS
<1>2. f[n - 1] \in Seq(S) /\ f[n] = f[n - 1] \o P[n] /\ f[Len(P)] \in Seq(S)
    BY <1>1 DEF Flattens
<1>3. /\ Len(f[n]) \in Nat /\ Len(f[n]) <= Len(f[Len(P)])
      /\ \A j \in 1 .. Len(f[n]) : f[Len(P)][j] = f[n][j]
    BY <1>1, FlatPrefix
<1>4. ASSUME P[n] = <<>> PROVE f[n] = f[n - 1]
    BY <1>2, <1>4
<1>5. ASSUME NEW c \in S, P[n] = <<c>>
      PROVE  /\ Len(f[n]) = Len(f[n - 1]) + 1
             /\ Len(f[n]) \in 1 .. Len(f[Len(P)])
             /\ f[Len(P)][Len(f[n])] = c
  <2> DEFINE x == f[n - 1]
             L == Len(f[n])
  <2>1. x \in Seq(S) /\ f[n] = x \o <<c>>
      BY <1>2, <1>5
  <2> HIDE DEF x
  <2>2. Len(x \o <<c>>) = Len(x) + 1 /\ (x \o <<c>>)[Len(x) + 1] = c /\ Len(x) \in Nat
      BY <2>1
  <2>3. L = Len(x) + 1 /\ f[n][L] = c
      BY <2>1, <2>2
  <2>4. Len(f[Len(P)]) \in Nat
      BY <1>2
  <2>5. L \in 1 .. L /\ L \in 1 .. Len(f[Len(P)])
      BY <1>3, <2>2, <2>3, <2>4
  <2>6. f[Len(P)][L] = c
      BY <1>3, <2>3, <2>5
  <2>7. QED
      BY <2>3, <2>5, <2>6 DEF x
<1>6. QED
    BY <1>4, <1>5

InPlace(P, f, n) ==
    \A j \in 1 .. Len(P[n]) :
        /\ Len(f[n - 1]) + j \in 1 .. Len(f[Len(P)])
        /\ f[Len(P)][Len(f[n - 1]) + j] = P[n][j]

\* Each piece is found where the pieces before it end.
LEMMA PieceFound ==
    ASSUME NEW S, NEW P \in Seq(Seq(S)), NEW f, Flattens(f, S, P), NEW n \in 1 .. Len(P)
    PROVE  InPlace(P, f, n)
<1>1. n - 1 \in 0 .. Len(P) /\ n \in 0 .. Len(P) /\ Len(P) \in Nat /\ Len(P) \in 0 .. Len(P)
    OBVIOUS
<1>2. f[n - 1] \in Seq(S) /\ f[n] = f[n - 1] \o P[n] /\ f[Len(P)] \in Seq(S) /\ P[n] \in Seq(S)
  <2>1. P[n] \in Seq(S)
      OBVIOUS
  <2>2. QED
      BY <1>1, <2>1 DEF Flattens
<1>3. /\ Len(f[n]) \in Nat /\ Len(f[n]) <= Len(f[Len(P)])
      /\ \A j \in 1 .. Len(f[n]) : f[Len(P)][j] = f[n][j]
    BY <1>1, FlatPrefix
<1>4. Len(f[Len(P)]) \in Nat
    BY <1>2
<1> DEFINE x == f[n - 1]
           y == P[n]
<1>5. x \in Seq(S) /\ y \in Seq(S) /\ f[n] = x \o y
    BY <1>2
<1> HIDE DEF x, y
<1>6. /\ Len(x \o y) = Len(x) + Len(y) /\ Len(x) \in Nat /\ Len(y) \in Nat
      /\ \A j \in 1 .. Len(y) : (x \o y)[Len(x) + j] = y[j]
    BY <1>5, Concatenation
<1>7. ASSUME NEW j \in 1 .. Len(y)
      PROVE  Len(x) + j \in 1 .. Len(f[Len(P)]) /\ f[Len(P)][Len(x) + j] = y[j]
  <2>1. Len(x) + j \in 1 .. Len(f[n]) /\ f[n][Len(x) + j] = y[j]
      BY <1>5, <1>6
  <2>2. Len(x) + j \in 1 .. Len(f[Len(P)])
      BY <1>3, <1>4, <2>1
  <2>3. QED
      BY <1>3, <2>1, <2>2
<1>8. QED
    BY <1>7 DEF x, y, InPlace

\* What is printed for a character is what a walk writes for it, where json.Compact
\* has left it.
LEMMA PrintedAs ==
    ASSUME NEW s \in JsonText, NEW i \in 1 .. Len(s)
    PROVE  LET w == Places(s)[i - 1] IN
           /\ Compacted(w, s[i]) \in {<<>>, <<s[i]>>}
           /\ Compacted(w, s[i]) = <<>> =>
                 Printed(s)[i] = <<>> /\ s[i] \in Whitespace /\ ~w.inStr /\ ~w.escaped
           /\ Compacted(w, s[i]) = <<s[i]>> => Printed(s)[i] = Separated(w, s[i])
           /\ s[i] \notin Whitespace \/ InString(s, i) => Printed(s)[i] = Separated(w, s[i])
<1> DEFINE w == Places(s)[i - 1]
<1>1. (w.inStr <=> InString(s, i)) /\ (w.escaped => w.inStr)
    BY PlacesKnown
<1>2. Printed(s)[i] = IF InString(s, i) THEN <<s[i]>>
                      ELSE IF s[i] \in Whitespace THEN <<>>
                      ELSE IF s[i] \in {Comma, Colon} THEN <<s[i], Space>> ELSE <<s[i]>>
    BY DEF Printed
<1> HIDE DEF w
<1>3. <<s[i]>> # <<>>
    OBVIOUS
<1>4. /\ Compacted(w, s[i]) \in {<<>>, <<s[i]>>}
      /\ Compacted(w, s[i]) = <<>> <=> s[i] \in Whitespace /\ ~w.inStr
    BY <1>3 DEF Compacted
<1>5. s[i] \notin Whitespace \/ InString(s, i) => Printed(s)[i] = Separated(w, s[i])
    BY <1>1, <1>2 DEF Separated
<1>6. QED
    BY <1>1, <1>2, <1>3, <1>4, <1>5 DEF w

\* A character that json.Compact leaves out leaves a walk where it is.
LEMMA PlaceKept ==
    ASSUME NEW w \in Spots, ~w.inStr, ~w.escaped, NEW c \in Whitespace
    PROVE  Strings(w, c) = w
<1>1. c # Quote
    BY DEF Whitespace, Quote, Space
<1>2. w = [inStr |-> w.inStr, escaped |-> w.escaped] /\ w.inStr \in BOOLEAN /\ w.escaped \in BOOLEAN
    BY DEF Spots
<1>3. w.inStr = FALSE /\ w.escaped = FALSE
    BY <1>2
<1>4. Strings(w, c) = [inStr |-> FALSE, escaped |-> FALSE]
    BY <1>1, <1>3 DEF Strings
<1>5. QED
    BY <1>2, <1>3, <1>4

\* FromRaw prints a JSON text as Python prints it.
LEMMA RawPrinted ==
    ASSUME NEW s \in JsonText
    PROVE  FromRaw(s) = FlattenSeq(Printed(s))
<1> DEFINE N == Len(s)
           P == [i \in 1 .. N |-> Compacted(Places(s)[i - 1], s[i])]
           t == Compact(s)
           Q == [k \in 1 .. Len(t) |-> Separated(Places(t)[k - 1], t[k])]
           R == Printed(s)
<1>1. s \in Seq(Int) /\ N \in Nat /\ \A i \in 1 .. N : s[i] \in Int
    BY JsonTextIn
<1>2. ASSUME NEW i \in 1 .. N
      PROVE  /\ P[i] \in {<<>>, <<s[i]>>}
             /\ P[i] = <<>> =>
                   /\ R[i] = <<>> /\ s[i] \in Whitespace
                   /\ ~Places(s)[i - 1].inStr /\ ~Places(s)[i - 1].escaped
             /\ P[i] = <<s[i]>> => R[i] = Separated(Places(s)[i - 1], s[i])
    BY PrintedAs
<1>3. P \in Seq(Seq(Int)) /\ Len(P) = N
  <2>1. \A i \in 1 .. N : <<>> \in Seq(Int) /\ <<s[i]>> \in Seq(Int)
      BY <1>1
  <2>2. P = [i \in 1 .. N |-> P[i]]
      OBVIOUS
  <2> HIDE DEF P
  <2>3. \A i \in 1 .. N : P[i] \in Seq(Int)
      BY <1>2, <2>1
  <2>4. QED
      BY <1>1, <2>2, <2>3
<1>4. t = FlattenSeq(P)
    BY DEF Compact
<1>5. FromRaw(s) = FlattenSeq(Q)
    BY DEF FromRaw, SpaceSeparators
<1>6. R \in Seq(Seq(Int)) /\ Len(R) = N
  <2>1. \A i \in 1 .. N : R[i] \in Seq(Int)
      BY <1>1 DEF Printed, Space
  <2>2. R = [i \in 1 .. N |-> R[i]]
      BY DEF Printed
  <2> HIDE DEF R
  <2>3. QED
      BY <1>1, <2>1, <2>2, SeqOver
<1>7. PICK f : Flattens(f, Int, P) /\ t = f[Len(P)]
  <2> HIDE DEF P, t
  <2>1. QED
      BY <1>3, <1>4, Flattened
<1>8. t \in Seq(Int)
  <2> HIDE DEF P, t
  <2>1. Len(P) \in 0 .. Len(P)
      BY <1>1, <1>3
  <2>2. QED
      BY <1>7, <2>1 DEF Flattens
<1>9. Q \in Seq(Seq(Int)) /\ Len(Q) = Len(t)
  <2> HIDE DEF t
  <2>1. Len(t) \in Nat /\ \A k \in 1 .. Len(t) : Q[k] \in Seq(Int)
      BY <1>8 DEF Separated, Space
  <2>2. QED
      BY <2>1, SeqOver
<1>10. PICK q : Flattens(q, Int, Q) /\ FlattenSeq(Q) = q[Len(Q)]
  <2> HIDE DEF Q, t
  <2>1. QED
      BY <1>9, Flattened
<1>11. PICK r : Flattens(r, Int, R) /\ FlattenSeq(R) = r[Len(R)]
  <2> HIDE DEF R
  <2>1. QED
      BY <1>6, Flattened
<1>12. /\ Places(s)[0] = Outside /\ Places(t)[0] = Outside
       /\ \A n \in 1 .. N : Places(s)[n] = Strings(Places(s)[n - 1], s[n])
       /\ \A n \in 0 .. N : Places(s)[n] \in Spots
       /\ \A k \in 1 .. Len(t) : Places(t)[k] = Strings(Places(t)[k - 1], t[k])
  <2> HIDE DEF t
  <2>1. QED
      BY <1>1, <1>8, PlacesFollow
<1>13. \A k \in 1 .. Len(t) : Q[k] = Separated(Places(t)[k - 1], t[k])
    OBVIOUS
<1>14. f[0] = <<>> /\ \A n \in 0 .. N : f[n] \in Seq(Int)
    BY <1>3, <1>7 DEF Flattens
<1> HIDE DEF N, P, t, Q, R
<1>15. ASSUME NEW n \in 1 .. N
       PROVE  /\ P[n] = <<>> => f[n] = f[n - 1]
              /\ P[n] = <<s[n]>> =>
                    /\ Len(f[n]) = Len(f[n - 1]) + 1
                    /\ Len(f[n]) \in 1 .. Len(t)
                    /\ t[Len(f[n])] = s[n]
  <2> DEFINE A == Int
  <2>1. n \in 1 .. Len(P) /\ P \in Seq(Seq(A)) /\ Flattens(f, A, P) /\ s[n] \in A
      BY <1>1, <1>3, <1>7
  <2> HIDE DEF A
  <2>2. /\ P[n] = <<>> => f[n] = f[n - 1]
        /\ P[n] = <<s[n]>> =>
              /\ Len(f[n]) = Len(f[n - 1]) + 1
              /\ Len(f[n]) \in 1 .. Len(f[Len(P)])
              /\ f[Len(P)][Len(f[n])] = s[n]
      BY <2>1, PieceAdded
  <2>3. QED
      BY <1>7, <2>1, <2>2
<1> DEFINE D == {n \in Nat : n <= N => Places(t)[Len(f[n])] = Places(s)[n]}
<1>16. 0 \in D
  <2>1. Len(f[0]) = 0
      BY <1>14
  <2>2. QED
      BY <1>12, <2>1
<1>17. ASSUME NEW n \in Nat, n \in D PROVE n + 1 \in D
  <2>1. SUFFICES ASSUME n + 1 <= N PROVE Places(t)[Len(f[n + 1])] = Places(s)[n + 1]
      BY <2>1
  <2> DEFINE i == n + 1
  <2>2. i \in 1 .. N /\ i - 1 = n /\ n \in 0 .. N
      BY <1>1, <2>1
  <2>3. Places(t)[Len(f[i - 1])] = Places(s)[i - 1] /\ Places(s)[i - 1] \in Spots
      BY <1>12, <1>17, <2>2
  <2> HIDE DEF i
  <2>4. Places(s)[i] = Strings(Places(s)[i - 1], s[i])
      BY <1>12, <2>2
  <2>5. CASE P[i] = <<>>
    <3>1. f[i] = f[i - 1]
        BY <1>15, <2>2, <2>5
    <3>2. Strings(Places(s)[i - 1], s[i]) = Places(s)[i - 1]
        BY <1>2, <2>2, <2>3, <2>5, PlaceKept
    <3>3. QED
        BY <2>3, <2>4, <3>1, <3>2 DEF i
  <2>6. CASE P[i] = <<s[i]>>
    <3> DEFINE k == Len(f[i])
    <3>1. k = Len(f[i - 1]) + 1 /\ k \in 1 .. Len(t) /\ t[k] = s[i]
        BY <1>15, <2>2, <2>6
    <3>2. Len(f[i - 1]) \in Nat
        BY <1>14, <2>2
    <3>3. k - 1 = Len(f[i - 1])
        BY <3>1, <3>2
    <3> HIDE DEF k
    <3>4. Places(t)[k] = Strings(Places(t)[k - 1], t[k])
        BY <1>12, <3>1
    <3>5. Places(t)[k] = Places(s)[i]
        BY <2>3, <2>4, <3>1, <3>3, <3>4
    <3>6. QED
        BY <3>5 DEF i, k
  <2>7. QED
      BY <1>2, <2>2, <2>5, <2>6
<1>18. \A n \in Nat : n \in D
  <2> HIDE DEF D
  <2>1. QED
      BY <1>16, <1>17, Induction
<1>19. ASSUME NEW n \in 1 .. Len(P)
       PROVE  \/ Len(P[n]) = 0 /\ R[n] = <<>>
              \/ Len(P[n]) = 1 /\ R[n] = Q[Len(f[n - 1]) + 1]
              \/ Len(P[n]) = 2 /\ R[n] = Q[Len(f[n - 1]) + 1] \o Q[Len(f[n - 1]) + 2]
  <2>1. n \in 1 .. N /\ n - 1 \in Nat /\ n - 1 <= N /\ n - 1 \in 0 .. N
      BY <1>1, <1>3
  <2>2. Places(t)[Len(f[n - 1])] = Places(s)[n - 1] /\ Len(f[n - 1]) \in Nat
      BY <1>14, <1>18, <2>1
  <2>3. CASE P[n] = <<>>
      BY <1>2, <2>1, <2>3
  <2>4. CASE P[n] = <<s[n]>>
    <3> DEFINE k == Len(f[n])
    <3>1. k = Len(f[n - 1]) + 1 /\ k \in 1 .. Len(t) /\ t[k] = s[n]
        BY <1>15, <2>1, <2>4
    <3>2. k - 1 = Len(f[n - 1])
        BY <2>2, <3>1
    <3> HIDE DEF k
    <3>3. Q[k] = Separated(Places(t)[k - 1], t[k])
        BY <1>13, <3>1
    <3>4. R[n] = Separated(Places(s)[n - 1], s[n])
        BY <1>2, <2>1, <2>4
    <3>5. R[n] = Q[Len(f[n - 1]) + 1]
        BY <2>2, <3>1, <3>2, <3>3, <3>4
    <3>6. Len(P[n]) = 1
        BY <2>4
    <3>7. QED
        BY <3>5, <3>6
  <2>5. QED
      BY <1>2, <2>1, <2>3, <2>4
<1>20. q[Len(Q)] = r[Len(R)]
  <2> DEFINE A == Int
  <2>1. /\ P \in Seq(Seq(A)) /\ Q \in Seq(Seq(A)) /\ R \in Seq(Seq(A))
        /\ Flattens(f, A, P) /\ Flattens(q, A, Q) /\ Flattens(r, A, R)
        /\ Len(Q) = Len(f[Len(P)]) /\ Len(R) = Len(P)
      BY <1>3, <1>6, <1>7, <1>9, <1>10, <1>11
  <2>2. Remade(P, f, Q, R)
      BY <1>19 DEF Remade
  <2> HIDE DEF A
  <2>3. QED
      BY <2>1, <2>2, PieceByPiece
<1>21. QED
    BY <1>5, <1>10, <1>11, <1>20 DEF Q, R
\* An escaped character is a text.
LEMMA EscapeRuneIn ==
    ASSUME NEW r \in Int
    PROVE  EscapeRune(r) \in Seq(Int) /\ (r < 128 => EscapeRune(r) = <<r>>)
<1>1. \A n \in Int : Escape(n) \in Seq(Int)
  <2> DEFINE digit(d) == IF d < 10 THEN 48 + d ELSE 87 + d
  <2>1. \A d \in Int : digit(d) \in Int
      OBVIOUS
  <2>2. \A n \in Int : n \div 4096 \in Int /\ (n \div 256) % 16 \in Int /\ (n \div 16) % 16 \in Int /\ n % 16 \in Int
      OBVIOUS
  <2> HIDE DEF digit
  <2>3. ASSUME NEW n \in Int
        PROVE  <<Backslash, 117, digit(n \div 4096), digit((n \div 256) % 16), digit((n \div 16) % 16), digit(n % 16)>> \in Seq(Int)
    <3>1. \A a, b, c, d \in Int : <<Backslash, 117, a, b, c, d>> \in Seq(Int)
        BY DEF Backslash
    <3>2. /\ digit(n \div 4096) \in Int /\ digit((n \div 256) % 16) \in Int
          /\ digit((n \div 16) % 16) \in Int /\ digit(n % 16) \in Int
        BY <2>1, <2>2
    <3>3. QED
        BY <3>1, <3>2
  <2>4. QED
      BY <2>3 DEF Escape, digit
<1>2. Escape(55296 + (r - 65536) \div 1024) \in Seq(Int) /\ Escape(56320 + ((r - 65536) % 1024)) \in Seq(Int)
  <2>1. 55296 + (r - 65536) \div 1024 \in Int /\ 56320 + ((r - 65536) % 1024) \in Int
      OBVIOUS
  <2>2. QED
      BY <1>1, <2>1
<1> DEFINE x == Escape(55296 + (r - 65536) \div 1024)
           y == Escape(56320 + ((r - 65536) % 1024))
<1>3. EscapeRune(r) = IF r < 128 THEN <<r>> ELSE IF r > 65535 THEN x \o y ELSE Escape(r)
    BY DEF EscapeRune
<1>4. x \in Seq(Int) /\ y \in Seq(Int)
    BY <1>2
<1>5. Escape(r) \in Seq(Int) /\ <<r>> \in Seq(Int)
    BY <1>1
<1> HIDE DEF x, y
<1>6. x \o y \in Seq(Int)
    BY <1>4, Concatenation
<1>7. QED
    BY <1>3, <1>5, <1>6

\* Marshal prints what Go's encoder wrote as Python prints it in ASCII, where
\* there is no DEL.
LEMMA MarshalPrinted ==
    ASSUME NEW s \in JsonText, \A k \in 1 .. Len(s) : s[k] \in Whitespace => InString(s, k),
           NoDelete(s)
    PROVE  Marshal(s) = FlattenSeq(PrintedASCII(s))
<1> DEFINE N == Len(s)
           P == [i \in 1 .. N |-> Separated(Places(s)[i - 1], s[i])]
           t == SpaceSeparators(s)
           Q == [k \in 1 .. Len(t) |-> EscapeRune(t[k])]
           R == PrintedASCII(s)
<1>1. s \in Seq(Int) /\ N \in Nat /\ \A i \in 1 .. N : s[i] \in Int
    BY JsonTextIn
<1>2. ASSUME NEW i \in 1 .. N
      PROVE  /\ P[i] = Printed(s)[i]
             /\ R[i] = IF s[i] < 128 THEN P[i] ELSE EscapeRune(s[i])
             /\ \/ P[i] = <<s[i]>>
                \/ P[i] = <<s[i], Space>> /\ s[i] \in {Comma, Colon}
  <2>1. s[i] \notin Whitespace \/ InString(s, i)
      OBVIOUS
  <2>2. P[i] = Printed(s)[i]
      BY <2>1, PrintedAs
  <2>3. R[i] = IF s[i] < 128 THEN Printed(s)[i] ELSE EscapeRune(s[i])
    <3>1. s[i] \in Int /\ s[i] # Delete
        BY <1>1 DEF NoDelete
    <3>2. R[i] = IF s[i] < Delete THEN Printed(s)[i]
                 ELSE IF s[i] = Delete THEN Escape(Delete) ELSE EscapeRune(s[i])
        BY DEF PrintedASCII
    <3> HIDE DEF R
    <3>3. QED
        BY <3>1, <3>2 DEF Delete
  <2>4. QED
      BY <2>2, <2>3 DEF Separated
<1>3. P \in Seq(Seq(Int)) /\ Len(P) = N
  <2>1. \A i \in 1 .. N : <<s[i]>> \in Seq(Int) /\ <<s[i], Space>> \in Seq(Int)
      BY <1>1 DEF Space
  <2>2. P = [i \in 1 .. N |-> P[i]]
      OBVIOUS
  <2> HIDE DEF P
  <2>3. \A i \in 1 .. N : P[i] \in Seq(Int)
      BY <1>2, <2>1
  <2>4. QED
      BY <1>1, <2>2, <2>3
<1>4. t = FlattenSeq(P)
    BY DEF SpaceSeparators
<1>5. Marshal(s) = FlattenSeq(Q)
    BY DEF Marshal, EnsureASCII
<1>6. R \in Seq(Seq(Int)) /\ Len(R) = N
  <2>1. \A i \in 1 .. N : P[i] \in Seq(Int) /\ EscapeRune(s[i]) \in Seq(Int)
      BY <1>1, <1>3, EscapeRuneIn
  <2>2. R = [i \in 1 .. N |-> R[i]]
      BY DEF PrintedASCII
  <2> HIDE DEF R, P
  <2>3. \A i \in 1 .. N : R[i] \in Seq(Int)
      BY <1>2, <2>1
  <2>4. QED
      BY <1>1, <2>2, <2>3
<1>7. PICK f : Flattens(f, Int, P) /\ t = f[Len(P)]
  <2> HIDE DEF P, t
  <2>1. QED
      BY <1>3, <1>4, Flattened
<1>8. t \in Seq(Int)
  <2> HIDE DEF P, t
  <2>1. Len(P) \in 0 .. Len(P)
      BY <1>1, <1>3
  <2>2. QED
      BY <1>7, <2>1 DEF Flattens
<1>9. Q \in Seq(Seq(Int)) /\ Len(Q) = Len(t)
  <2> HIDE DEF t
  <2>1. Len(t) \in Nat /\ \A k \in 1 .. Len(t) : t[k] \in Int
      BY <1>8
  <2>2. \A k \in 1 .. Len(t) : EscapeRune(t[k]) \in Seq(Int)
      BY <2>1, EscapeRuneIn
  <2>3. QED
      BY <2>1, <2>2
<1>10. PICK q : Flattens(q, Int, Q) /\ FlattenSeq(Q) = q[Len(Q)]
  <2> HIDE DEF Q, t
  <2>1. QED
      BY <1>9, Flattened
<1>11. PICK r : Flattens(r, Int, R) /\ FlattenSeq(R) = r[Len(R)]
  <2> HIDE DEF R
  <2>1. QED
      BY <1>6, Flattened
<1>12. \A k \in 1 .. Len(t) : Q[k] = EscapeRune(t[k])
    OBVIOUS
<1> HIDE DEF N, P, t, Q, R
<1>13. ASSUME NEW n \in 1 .. Len(P)
       PROVE  \/ Len(P[n]) = 0 /\ R[n] = <<>>
              \/ Len(P[n]) = 1 /\ R[n] = Q[Len(f[n - 1]) + 1]
              \/ Len(P[n]) = 2 /\ R[n] = Q[Len(f[n - 1]) + 1] \o Q[Len(f[n - 1]) + 2]
  <2> DEFINE off == Len(f[n - 1])
  <2>1. n \in 1 .. N /\ n - 1 \in 0 .. Len(P) /\ n \in 0 .. Len(P) /\ s[n] \in Int
      BY <1>1, <1>3
  <2>2. off \in Nat /\ Len(t) \in Nat
      BY <1>7, <1>8, <2>1 DEF Flattens
  <2>3. \A j \in 1 .. Len(P[n]) : off + j \in 1 .. Len(t) /\ t[off + j] = P[n][j]
    <3> DEFINE A == Int
    <3>1. n \in 1 .. Len(P) /\ P \in Seq(Seq(A)) /\ Flattens(f, A, P)
        BY <1>3, <1>7
    <3> HIDE DEF A
    <3>2. InPlace(P, f, n)
        BY <3>1, PieceFound
    <3>3. QED
        BY <1>7, <3>2 DEF InPlace
  <2> HIDE DEF off
  <2>4. CASE P[n] = <<s[n]>>
    <3>1. Len(P[n]) = 1 /\ 1 \in 1 .. Len(P[n]) /\ P[n][1] = s[n]
        BY <2>4
    <3>2. Q[off + 1] = EscapeRune(s[n])
        BY <1>12, <2>3, <3>1
    <3>3. s[n] < 128 => EscapeRune(s[n]) = <<s[n]>>
        BY <2>1, EscapeRuneIn
    <3>4. R[n] = EscapeRune(s[n])
        BY <1>2, <2>1, <2>4, <3>3
    <3>5. QED
        BY <3>1, <3>2, <3>4 DEF off
  <2>5. CASE P[n] = <<s[n], Space>> /\ s[n] \in {Comma, Colon}
    <3>1. /\ Len(P[n]) = 2 /\ 1 \in 1 .. Len(P[n]) /\ 2 \in 1 .. Len(P[n])
          /\ P[n][1] = s[n] /\ P[n][2] = Space
        BY <2>5
    <3>2. s[n] < 128 /\ Space < 128 /\ Space \in Int
        BY <2>5 DEF Comma, Colon, Space
    <3>3. Q[off + 1] = <<s[n]>> /\ Q[off + 2] = <<Space>>
      <4>1. EscapeRune(s[n]) = <<s[n]>> /\ EscapeRune(Space) = <<Space>>
          BY <2>1, <3>2, EscapeRuneIn
      <4>2. /\ off + 1 \in 1 .. Len(t) /\ t[off + 1] = s[n]
            /\ off + 2 \in 1 .. Len(t) /\ t[off + 2] = Space
          BY <2>3, <3>1
      <4>3. QED
          BY <1>12, <4>1, <4>2
    <3>4. R[n] = <<s[n], Space>>
        BY <1>2, <2>1, <2>5, <3>2
    <3>5. <<s[n], Space>> = <<s[n]>> \o <<Space>>
        BY <2>1, <3>2
    <3>6. QED
        BY <3>1, <3>3, <3>4, <3>5 DEF off
  <2>6. QED
      BY <1>2, <2>1, <2>4, <2>5
<1>14. q[Len(Q)] = r[Len(R)]
  <2> DEFINE A == Int
  <2>1. /\ P \in Seq(Seq(A)) /\ Q \in Seq(Seq(A)) /\ R \in Seq(Seq(A))
        /\ Flattens(f, A, P) /\ Flattens(q, A, Q) /\ Flattens(r, A, R)
        /\ Len(Q) = Len(f[Len(P)]) /\ Len(R) = Len(P)
      BY <1>3, <1>6, <1>7, <1>9, <1>10, <1>11
  <2>2. Remade(P, f, Q, R)
      BY <1>13 DEF Remade
  <2> HIDE DEF A
  <2>3. QED
      BY <2>1, <2>2, PieceByPiece
<1>15. QED
    BY <1>5, <1>10, <1>11, <1>14 DEF Q, R

\* SpacedAsPython, for JSON texts of any length: FromRaw re-spaces a text and
\* changes nothing else, and Marshal makes of what Go's encoder wrote what Python
\* prints, where there is no DEL (pyjson.go).
THEOREM Respaced == CallSpec => []SpacedAsPython
<1>1. Answered => SpacedAsPython
  <2>1. SUFFICES ASSUME Answered PROVE SpacedAsPython
      BY <2>1
  <2>2. ASSUME Called("raw") PROVE answer = FlattenSeq(Printed(input.text))
    <3>1. input.text \in JsonText
        BY <2>1, <2>2, KindsOfInputs DEF Answered, Called, RawInputs
    <3>2. answer = FromRaw(input.text)
        BY <2>1, <2>2 DEF Answered
    <3>3. QED
        BY <3>1, <3>2, RawPrinted
  <2>3. ASSUME Called("marshal"), NoDelete(input.text)
        PROVE  answer = FlattenSeq(PrintedASCII(input.text))
    <3>1. input \in MarshalInputs
        BY <2>1, <2>3, KindsOfInputs DEF Answered, Called
    <3>2. /\ input.text \in JsonText
          /\ \A k \in 1 .. Len(input.text) : input.text[k] \in Whitespace => InString(input.text, k)
        BY <3>1 DEF MarshalInputs
    <3>3. answer = Marshal(input.text)
        BY <2>1, <2>3 DEF Answered
    <3>4. QED
        BY <2>3, <3>2, <3>3, MarshalPrinted
  <2>4. QED
      BY <2>2, <2>3 DEF SpacedAsPython
<1>2. QED
    BY <1>1, CallsAnswered, PTL
-----------------------------------------------------------------------------
(* What the escapes are read back as.                                     *)

\* The value of a hexadecimal digit.
HexDigit(c) == IF c < 58 THEN c - 48 ELSE c - 87

\* What \u and four hexadecimal digits stand for.
CodeUnit(text) ==
    4096 * HexDigit(text[3]) + 256 * HexDigit(text[4]) + 16 * HexDigit(text[5]) + HexDigit(text[6])

IsEscape(text) ==
    /\ text \in Seq(Int) /\ Len(text) = 6 /\ text[1] = Backslash /\ text[2] = 117
    /\ \A i \in 3 .. 6 : text[i] \in 48 .. 57 \/ text[i] \in 97 .. 102

\* Four hexadecimal digits stand for the number that is written.
LEMMA EscapeReadsBack ==
    ASSUME NEW n \in Nat, n < 65536
    PROVE  IsEscape(Escape(n)) /\ CodeUnit(Escape(n)) = n
<1> DEFINE d(k) == IF k < 10 THEN 48 + k ELSE 87 + k
           a == n \div 4096
           b == (n \div 256) % 16
           c == (n \div 16) % 16
           e == n % 16
<1>1. a \in 0 .. 15 /\ b \in 0 .. 15 /\ c \in 0 .. 15 /\ e \in 0 .. 15
    BY SMT
<1>2. n = 4096 * a + 256 * b + 16 * c + e
    BY SMT
<1>3. \A k \in 0 .. 15 : d(k) \in Int /\ (d(k) \in 48 .. 57 \/ d(k) \in 97 .. 102) /\ HexDigit(d(k)) = k
    BY SMT DEF HexDigit
<1>4. Escape(n) = <<Backslash, 117, d(a), d(b), d(c), d(e)>>
    BY SMT DEF Escape
<1> HIDE DEF d, a, b, c, e
<1>5. \A v, w, x, y \in Int : LET text == <<Backslash, 117, v, w, x, y>> IN
          /\ text \in Seq(Int) /\ Len(text) = 6 /\ text[1] = Backslash /\ text[2] = 117
          /\ text[3] = v /\ text[4] = w /\ text[5] = x /\ text[6] = y
    BY SMT DEF Backslash
<1>6. \A i \in 3 .. 6 : i = 3 \/ i = 4 \/ i = 5 \/ i = 6
    BY SMT
<1>7. d(a) \in Int /\ d(b) \in Int /\ d(c) \in Int /\ d(e) \in Int
    BY <1>1, <1>3
<1>8. /\ Escape(n) \in Seq(Int) /\ Len(Escape(n)) = 6 /\ Escape(n)[1] = Backslash /\ Escape(n)[2] = 117
      /\ Escape(n)[3] = d(a) /\ Escape(n)[4] = d(b) /\ Escape(n)[5] = d(c) /\ Escape(n)[6] = d(e)
    BY <1>4, <1>5, <1>7
<1>9. /\ HexDigit(d(a)) = a /\ HexDigit(d(b)) = b /\ HexDigit(d(c)) = c /\ HexDigit(d(e)) = e
      /\ d(a) \in 48 .. 57 \/ d(a) \in 97 .. 102
      /\ d(b) \in 48 .. 57 \/ d(b) \in 97 .. 102
      /\ d(c) \in 48 .. 57 \/ d(c) \in 97 .. 102
      /\ d(e) \in 48 .. 57 \/ d(e) \in 97 .. 102
    BY <1>1, <1>3
<1>10. CodeUnit(Escape(n)) = 4096 * a + 256 * b + 16 * c + e
  <2>1. /\ HexDigit(Escape(n)[3]) = a /\ HexDigit(Escape(n)[4]) = b
        /\ HexDigit(Escape(n)[5]) = c /\ HexDigit(Escape(n)[6]) = e
      BY <1>8, <1>9
  <2>2. QED
      BY <2>1, SMT DEF CodeUnit
<1>11. IsEscape(Escape(n))
  <2> DEFINE Digit(h) == h \in 48 .. 57 \/ h \in 97 .. 102
  <2>1. Digit(d(a)) /\ Digit(d(b)) /\ Digit(d(c)) /\ Digit(d(e))
      BY <1>9
  <2> HIDE DEF Digit
  <2>2. \A i \in 3 .. 6 : Digit(Escape(n)[i])
      BY <1>6, <1>8, <2>1
  <2> USE DEF Digit
  <2>3. QED
      BY <1>8, <2>2 DEF IsEscape
<1>12. QED
    BY <1>2, <1>10, <1>11

\* The two surrogates that stand for a character.
Surrogates(text, high, low, r) ==
    /\ text = high \o low
    /\ IsEscape(high) /\ 55296 <= CodeUnit(high) /\ CodeUnit(high) < 56320
    /\ IsEscape(low) /\ 56320 <= CodeUnit(low) /\ CodeUnit(low) < 57344
    /\ r = 65536 + 1024 * (CodeUnit(high) - 55296) + (CodeUnit(low) - 56320)

IsPair(text, r) == \E high, low \in Seq(Int) : Surrogates(text, high, low, r)

\* What a character outside ASCII is escaped as is read back as that character: its
\* number in hexadecimal digits, or the two surrogates that stand for it.
THEOREM RunesReadBack ==
    ASSUME NEW r \in Runes, r >= 128
    PROVE  \/ r < 65536 /\ IsEscape(EscapeRune(r)) /\ CodeUnit(EscapeRune(r)) = r
           \/ IsPair(EscapeRune(r), r)
<1>1. r \in Nat /\ r <= 1114111
    BY SMT DEF Runes
<1>2. CASE r < 65536
  <2>1. EscapeRune(r) = Escape(r)
      BY <1>1, <1>2, SMT DEF EscapeRune
  <2>2. QED
      BY <1>1, <1>2, <2>1, EscapeReadsBack, SMT
<1>3. CASE ~(r < 65536)
  <2> DEFINE h == 55296 + (r - 65536) \div 1024
             l == 56320 + ((r - 65536) % 1024)
  <2>1. /\ h \in Nat /\ 55296 <= h /\ h < 56320
        /\ l \in Nat /\ 56320 <= l /\ l < 57344
        /\ r = 65536 + 1024 * (h - 55296) + (l - 56320)
      BY <1>1, <1>3, SMT
  <2>2. EscapeRune(r) = Escape(h) \o Escape(l)
      BY <1>1, <1>3, SMT DEF EscapeRune
  <2> HIDE DEF h, l
  <2>3. IsEscape(Escape(h)) /\ CodeUnit(Escape(h)) = h
      BY <2>1, EscapeReadsBack, SMT
  <2>4. IsEscape(Escape(l)) /\ CodeUnit(Escape(l)) = l
      BY <2>1, EscapeReadsBack, SMT
  <2>5. Escape(h) \in Seq(Int) /\ Escape(l) \in Seq(Int)
      BY <2>3, <2>4, SMT DEF IsEscape
  <2> DEFINE high == Escape(h)
             low  == Escape(l)
  <2>6. high \in Seq(Int) /\ low \in Seq(Int)
      BY <2>5
  <2>7. Surrogates(EscapeRune(r), high, low, r)
      BY <2>1, <2>2, <2>3, <2>4, SMT DEF Surrogates
  <2> HIDE DEF high, low
  <2>8. IsPair(EscapeRune(r), r)
      BY <2>6, <2>7 DEF IsPair
  <2>9. QED
      BY <2>8
<1>4. QED
    BY <1>2, <1>3
================================================================================
