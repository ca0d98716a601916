------------------------- MODULE WidgetExchangeProofs -------------------------
(***************************************************************************)
(* Theorems about WidgetExchange, for every finite set of Browsers, any    *)
(* number of payloads, every page and all scans: who uses the page, how it *)
(* is read, and what page and bot may do.                                  *)
(***************************************************************************)
EXTENDS WidgetExchange, SequenceTheorems, WellFoundedInduction, TLAPS

-----------------------------------------------------------------------------
(* Texts.                                                                  *)

\* A part of a sequence is one.
LEMMA PartTyped ==
    ASSUME NEW S, NEW s \in Seq(S), NEW m \in Nat \ {0}, NEW n \in Int, n <= Len(s)
    PROVE  SubSeq(s, m, n) \in Seq(S)
<1>1. \A i \in m .. n : i \in 1 .. Len(s)
    BY LenProperties
<1>2. \A i \in m .. n : s[i] \in S
    BY <1>1, ElementOfSeq
<1>3. QED
    BY <1>2, SubSeqProperties

\* What is left when an occurrence of another text is cut out is made of the text.
LEMMA CutTyped ==
    ASSUME NEW S, NEW s, Len(s) \in Nat, NEW t \in Seq(S)
    PROVE  ReplaceFirstSubSeq(<<>>, s, t) \in Seq(S)
<1>1. CASE s \in SubSeqs(t)
  <2> DEFINE Ends == {i \in 0 .. Len(t) : s \in SubSeqs(SubSeq(t, 1, i))}
             end == CHOOSE i \in 0 .. Len(t) :
                      /\ s \in SubSeqs(SubSeq(t, 1, i))
                      /\ \A j \in 0 .. i - 1 : s \notin SubSeqs(SubSeq(t, 1, j))
  <2>1. Len(t) \in Nat /\ SubSeq(t, 1, Len(t)) = t
      BY LenProperties, SubSeqFull
  <2>2. Ends # {} /\ Ends \subseteq Nat
    <3>1. Len(t) \in 0 .. Len(t)
        BY <2>1
    <3>2. s \in SubSeqs(SubSeq(t, 1, Len(t)))
        BY <1>1, <2>1, Zenon
    <3>3. Len(t) \in Ends
        BY <3>1, <3>2, Zenon
    <3>4. 0 .. Len(t) \subseteq Nat
        BY <2>1
    <3>5. QED
        BY <3>3, <3>4
  <2>3. PICK i \in Ends : \A j \in Ends : ~(<<j, i>> \in OpToRel(<, Nat))
      BY <2>2, WFMin, NatLessThanWellFounded
  <2>4. \A j \in 0 .. i - 1 : s \notin SubSeqs(SubSeq(t, 1, j))
    <3>1. ASSUME NEW j \in 0 .. i - 1, s \in SubSeqs(SubSeq(t, 1, j)) PROVE FALSE
      <4>1. i \in 0 .. Len(t)
          BY <2>3, Zenon
      <4>2. j \in 0 .. Len(t) /\ j < i /\ j \in Nat /\ i \in Nat
          BY <2>1, <4>1
      <4>3. j \in Ends
          BY <3>1, <4>2, Zenon
      <4>4. <<j, i>> \in OpToRel(<, Nat)
          BY <4>2 DEF OpToRel
      <4>5. QED
          BY <2>3, <4>3, <4>4
    <3>2. QED
        BY <3>1
  <2>5. end \in 0 .. Len(t)
      BY <2>3, <2>4
  <2>6. IndexFirstSubSeq(s, t) = end - (Len(s) - 1)
      BY DEF IndexFirstSubSeq
  <2> HIDE DEF end
  <2> DEFINE a == SubSeq(t, 1, end - Len(s))
             z == SubSeq(t, end + 1, Len(t))
  <2>7. a \in Seq(S) /\ z \in Seq(S)
      BY <2>1, <2>5, PartTyped
  <2>8. end - (Len(s) - 1) - 1 = end - Len(s) /\ end - (Len(s) - 1) + Len(s) = end + 1
      BY <2>1, <2>5
  <2>9. ReplaceFirstSubSeq(<<>>, s, t) = a \o <<>> \o z
      BY <1>1, <2>6, <2>8 DEF ReplaceFirstSubSeq, ReplaceSubSeqAt
  <2> HIDE DEF a, z
  <2>10. a \o <<>> = a
      BY <2>7, ConcatEmptySeq
  <2>11. a \o z \in Seq(S)
      BY <2>7, ConcatProperties
  <2>12. QED
      BY <2>9, <2>10, <2>11
<1>2. CASE s \notin SubSeqs(t)
    BY <1>2 DEF ReplaceFirstSubSeq
<1>3. QED
    BY <1>1, <1>2

\* A passage is made of its text.
LEMMA PassageTyped ==
    ASSUME NEW S, NEW s \in Seq(S)
    PROVE  Passage(s) \in Seq(Seq(S))
BY DEF Passage

\* What the script takes for appended is made of the page's text.
LEMMA AppendedTyped ==
    ASSUME NEW S, NEW t \in Seq(S), NEW old, Len(old) \in Nat
    PROVE  Appended(t, old) \in Seq(S)
<1>1. SubSeq(t, Len(old) + 1, Len(t)) \in Seq(S)
    BY LenProperties, PartTyped
<1>2. ReplaceFirstSubSeq(<<>>, old, t) \in Seq(S)
    BY CutTyped
<1>3. <<>> \in Seq(S)
    BY EmptySeq
<1>4. QED
    BY <1>1, <1>2, <1>3 DEF Appended

\* Texts without an echo are made of the same pieces.
LEMMA WithoutEchoTyped ==
    ASSUME NEW S, NEW texts \in Seq(Seq(S)), NEW p
    PROVE  WithoutEcho(texts, p) \in Seq(Seq(S))
<1>1. CASE texts # <<>> /\ IsPrefix(<<Piece("words", p)>>, Head(texts))
  <2>1. Head(texts) \in Seq(S) /\ Tail(texts) \in Seq(Seq(S))
      BY <1>1, HeadTailProperties
  <2>2. Head(texts) # <<>>
      BY <1>1 DEF IsPrefix
  <2>3. Tail(Head(texts)) \in Seq(S)
      BY <2>1, <2>2, HeadTailProperties
  <2>4. QED
      BY <1>1, <2>1, <2>3, PassageTyped, ConcatProperties DEF WithoutEcho
<1>2. CASE ~(texts # <<>> /\ IsPrefix(<<Piece("words", p)>>, Head(texts)))
    BY <1>2 DEF WithoutEcho
<1>3. QED
    BY <1>1, <1>2

\* Pieces of texts are what the texts are made of.
LEMMA PiecesTyped ==
    ASSUME NEW S, NEW texts \in Seq(Seq(S))
    PROVE  PiecesOf(texts) \subseteq S
<1>1. \A k \in DOMAIN texts : texts[k] \in Seq(S)
    BY LenProperties, ElementOfSeq
<1>2. \A k \in DOMAIN texts : Range(texts[k]) \subseteq S
    BY <1>1, RangeOfSeq
<1>3. QED
    BY <1>2 DEF PiecesOf

LEMMA NoPieces == PiecesOf(<<>>) = {}
BY DEF PiecesOf

\* A text to which another was appended is read as that.
LEMMA AppendedRead ==
    ASSUME NEW old \in Seq(Pieces), NEW new \in Seq(Pieces)
    PROVE  Appended(old \o new, old) = new
<1>1. /\ Len(old) \in Nat /\ Len(new) \in Nat /\ Prefix \in Nat
      /\ old \o new \in Seq(Pieces) /\ Len(old \o new) = Len(old) + Len(new)
    BY BoundsAssumption, LenProperties, ConcatProperties
<1>2. CASE new = <<>>
  <2>1. old \o new = old /\ ~(Len(old) > Len(old))
      BY <1>1, <1>2, ConcatEmptySeq
  <2>2. QED
      BY <1>2, <2>1 DEF Appended
<1>3. CASE new # <<>>
  <2>1. Len(new) > 0
      BY <1>1, <1>3, EmptySeq
  <2>2. SubSeq(old \o new, Len(old) + 1, Len(old \o new)) = new
    <3>1. SubSeq(old \o new, Len(old) + 1, Len(old) + Len(new)) = SubSeq(new, 1, Len(new))
      <4>1. Len(old) + 1 \in Len(old) + 1 .. Len(old) + Len(new)
            /\ Len(old) + Len(new) \in Len(old) + 1 .. Len(old) + Len(new)
            /\ Len(old) + 1 - Len(old) = 1 /\ Len(old) + Len(new) - Len(old) = Len(new)
          BY <1>1, <2>1
      <4>2. QED
          BY <4>1, SubSeqOfConcat2
    <3>2. QED
        BY <1>1, <3>1, SubSeqFull
  <2> DEFINE k == IF Len(old) < Prefix THEN Len(old) ELSE Prefix
  <2>3. k \in 0 .. Len(old)
      BY <1>1
  <2>4. First64(old) = SubSeq(old, 1, k)
      BY SubSeqFull DEF First64
  <2> HIDE DEF k
  <2>5. SubSeq(old \o new, 1, k) = SubSeq(old, 1, k)
    <3>1. CASE k = 0
        BY <3>1, SubSeqEmpty
    <3>2. CASE k # 0
      <4>1. 1 \in 1 .. Len(old) /\ k \in 1 .. Len(old)
          BY <1>1, <2>3, <3>2
      <4>2. QED
          BY <4>1, SubSeqOfConcat1
    <3>3. QED
        BY <3>1, <3>2
  <2>6. SubSeq(old, 1, k) \in Seq(Pieces) /\ Len(SubSeq(old, 1, k)) = k
    <3>1. \A i \in 1 .. k : old[i] \in Pieces
        BY <1>1, <2>3, ElementOfSeq
    <3>2. QED
        BY <2>3, <3>1, SubSeqProperties
  <2>7. IsPrefix(First64(old), old \o new)
      BY <1>1, <2>3, <2>4, <2>5, <2>6, SubSeqFull DEF IsPrefix
  <2>8. QED
      BY <1>1, <2>1, <2>2, <2>7 DEF Appended
<1>4. QED
    BY <1>2, <1>3

\* The words of the payload are taken off the front of a text.
LEMMA EchoRead ==
    ASSUME NEW a \in Seq(Pieces), NEW p, Piece("words", p) \in Pieces
    PROVE  WithoutEcho(<<<<Piece("words", p)>> \o a>>, p) = Passage(a)
<1> DEFINE w == Piece("words", p)
           t == <<w>> \o a
<1>1. /\ <<w>> \in Seq(Pieces) /\ Len(<<w>>) = 1 /\ t \in Seq(Pieces) /\ Len(t) = Len(a) + 1
      /\ t[1] = w /\ \A i \in 1 .. Len(a) : t[i + 1] = a[i]
    BY ConcatProperties
<1> HIDE DEF w
<1>2. SubSeq(t, 1, Len(<<w>>)) = SubSeq(<<w>>, 1, Len(<<w>>))
  <2>1. 1 \in 1 .. Len(<<w>>)
      BY <1>1
  <2>2. QED
      BY <1>1, <2>1, SubSeqOfConcat1
<1>3. IsPrefix(<<w>>, t)
    BY <1>1, <1>2 DEF IsPrefix
<1>4. Tail(t) = a
  <2>1. t # <<>> /\ Len(t) - 1 = Len(a)
      BY <1>1
  <2>2. Tail(t) \in Seq(Pieces) /\ Len(Tail(t)) = Len(a) /\ \A i \in 1 .. Len(a) : Tail(t)[i] = a[i]
      BY <1>1, <2>1, HeadTailProperties
  <2>3. QED
      BY <2>2, SeqEqual
<1>5. <<t>> # <<>> /\ Head(<<t>>) = t /\ Tail(<<t>>) = <<>>
    OBVIOUS
<1>6. Passage(a) \o <<>> = Passage(a)
    BY PassageTyped, ConcatEmptySeq
<1> HIDE DEF t
<1>7. WithoutEcho(<<t>>, p) = Passage(a)
    BY <1>3, <1>4, <1>5, <1>6 DEF WithoutEcho, w
<1>8. QED
    BY <1>7 DEF t, w

-----------------------------------------------------------------------------
(* The inductive invariant.                                                *)

Waiting(b) == pc[b] \in {"start", "open"}

\* The payloads that have been typed, or whose Send failed before that.
Past == {p \in 1 .. payloads : \A b \in Browsers : Waiting(b) => msg[b] # p}

\* What a page may show of them, and what a script may have read.
PartsOf(P) == [is : {"words", "first", "second"}, of : P]
Shown      == PartsOf(Past)
Seen       == PagePieces \cup Shown

\* A payload that waits to be typed is no other's.
Numbered ==
    /\ \A b \in Browsers : Waiting(b) => msg[b] \in 1 .. payloads
    /\ \A b, c \in Browsers : Waiting(b) /\ Waiting(c) /\ msg[b] = msg[c] => b = c

\* The page shows past payloads and the answers to them.
Page ==
    /\ toEcho \subseteq Past /\ toAnswer \subseteq Past /\ answering \subseteq Past
    /\ transcript \in Seq(Shown)
    /\ \A k \in 1 .. Len(bubbles) : /\ bubbles[k].of \in Past \ toAnswer
                                    /\ bubbles[k].text \in Seq(PartsOf({bubbles[k].of}))

\* A Browser that reads bubbles has read and reported what will not be answered
\* again, and watches bubbles of which it has reported nothing.
Reported(b) ==
    /\ \A e \in told[b] \cup PiecesOf(last[b]) : e.of \in Past \ toAnswer
    /\ pc[b] = "watch" =>
          /\ beforeCount[b] \in 0 .. Len(bubbles)
          /\ \A k \in beforeCount[b] + 1 .. Len(bubbles), t \in told[b] : t.of # bubbles[k].of
          /\ \A e \in PiecesOf(last[b]), t \in told[b] : t.of # e.of

\* Nothing of the payload being sent has been reported.
Script(b) ==
    /\ last[b] \in Seq(Seq(Seen)) /\ told[b] \subseteq Seen
    /\ pc[b] # "watch" => last[b] = <<>>
    /\ pc[b] = "watch" => msg[b] \in Past
    /\ pc[b] # "idle" => \A t \in told[b] : t.is = "page" \/ t.of # msg[b]
    /\ world.mode = "bubbles" => Reported(b)

\* While a Send is under way it has no outcome, and a page is marked prepared,
\* or about to be, only after its launcher has been clicked.
Stages ==
    /\ \A b \in Browsers : /\ pc[b] # "idle" => ~outcome[b].ok /\ b \in world.users
                           /\ pc[b] = "open" => opens > 0
    /\ prepared => opens > 0

IInv ==
    /\ TypeOK /\ Numbered /\ Page /\ Stages
    /\ \A b \in Browsers : Script(b)

-----------------------------------------------------------------------------
(* What the invariant says of texts.                                       *)

\* There are two ways of reading a page.
LEMMA Modes ==
    ASSUME TypeOK
    PROVE  world.mode \in {"diff", "bubbles"} /\ (world.mode # "diff" <=> world.mode = "bubbles")
BY WorldsAssumption DEF TypeOK

\* What is seen is seen for good.
LEMMA SeenGrows ==
    ASSUME Past \subseteq Past'
    PROVE  /\ Shown \subseteq Shown' /\ Seen \subseteq Seen'
           /\ Seq(Shown) \subseteq Seq(Shown') /\ Seq(Seq(Seen)) \subseteq Seq(Seq(Seen'))
<1>1. Shown \subseteq Shown' /\ Seen \subseteq Seen'
    BY DEF Shown, Seen, PartsOf
<1>2. Seq(Shown) \subseteq Seq(Shown') /\ Seq(Seen) \subseteq Seq(Seen')
    BY <1>1, SeqMonotonic
<1>3. QED
    BY <1>1, <1>2, SeqMonotonic

\* Pieces of the page, and of its past payloads, are pieces.
LEMMA SeenPieces ==
    ASSUME TypeOK
    PROVE  /\ Past \subseteq Nat /\ Past \subseteq Payloads /\ Past \subseteq 1 .. payloads
           /\ Shown \subseteq Pieces /\ Seen \subseteq Pieces /\ PagePieces \subseteq Pieces
<1>1. payloads \in Nat /\ MaxSends \in Nat /\ payloads <= MaxSends
    BY BoundsAssumption DEF TypeOK
<1>2. 1 .. payloads \subseteq Nat /\ 1 .. payloads \subseteq Payloads
    BY <1>1 DEF Payloads
<1>3. Past \subseteq 1 .. payloads
    BY DEF Past
<1>4. QED
    BY <1>2, <1>3 DEF Shown, Seen, PartsOf, Pieces, PagePieces

\* The text of the page is a text.
LEMMA PageTextTyped ==
    ASSUME IInv
    PROVE  PageText \in Seq(Seen)
<1> DEFINE tail == IF "footer" \in world.faults THEN Footer ELSE <<>>
<1>1. head \in Seq(PagePieces) /\ tail \in Seq(PagePieces)
    BY PageAssumption, EmptySeq DEF IInv, TypeOK
<1>2. PagePieces \subseteq Seen /\ Shown \subseteq Seen
    BY DEF Seen
<1>3. head \in Seq(Seen) /\ tail \in Seq(Seen) /\ transcript \in Seq(Seen)
    BY <1>1, <1>2, SeqMonotonic DEF IInv, Page
<1>4. PageText = head \o transcript \o tail
    BY DEF PageText
<1> HIDE DEF tail
<1>5. head \o transcript \in Seq(Seen)
    BY <1>3, ConcatProperties
<1>6. QED
    BY <1>3, <1>4, <1>5, ConcatProperties

\* What is new is made of what is seen; of bubbles, of the new ones.
LEMMA NewTextRead ==
    ASSUME IInv, NEW b \in Browsers, pc[b] = "watch"
    PROVE  /\ NewText(b) \in Seq(Seq(Seen))
           /\ world.mode = "bubbles" =>
                 \A e \in PiecesOf(NewText(b)) :
                     \E k \in beforeCount[b] + 1 .. Len(bubbles) : e.of = bubbles[k].of
<1>1. CASE world.mode = "bubbles"
  <2> DEFINE n == beforeCount[b]
             New == {e \in Seen : \E k \in n + 1 .. Len(bubbles) : e.of = bubbles[k].of}
             texts == [k \in 1 .. Len(bubbles) - n |-> bubbles[n + k].text]
  <2>1. n \in 0 .. Len(bubbles) /\ Len(bubbles) \in Nat
      BY <1>1, LenProperties DEF IInv, TypeOK, Script, Reported
  <2>2. ASSUME NEW k \in 1 .. Len(bubbles) - n PROVE bubbles[n + k].text \in Seq(New)
    <3>1. n + k \in n + 1 .. Len(bubbles) /\ n + k \in 1 .. Len(bubbles)
        BY <2>1, <2>2
    <3>2. bubbles[n + k].of \in Past /\ bubbles[n + k].text \in Seq(PartsOf({bubbles[n + k].of}))
        BY <3>1 DEF IInv, Page
    <3>3. PartsOf({bubbles[n + k].of}) \subseteq New
        BY <3>1, <3>2 DEF PartsOf, Seen, Shown
    <3>4. QED
        BY <3>2, <3>3, SeqMonotonic
  <2> HIDE DEF New
  <2>3. texts \in Seq(Seq(New))
      BY <2>1, <2>2
  <2> HIDE DEF texts
  <2>4. NewText(b) = WithoutEcho(texts, msg[b])
      BY <1>1 DEF NewText, texts
  <2>5. NewText(b) \in Seq(Seq(New))
      BY <2>3, <2>4, WithoutEchoTyped
  <2>6. PiecesOf(NewText(b)) \subseteq New
      BY <2>5, PiecesTyped
  <2>7. New \subseteq Seen
      BY DEF New
  <2>8. Seq(New) \subseteq Seq(Seen)
      BY <2>7, SeqMonotonic
  <2>9. NewText(b) \in Seq(Seq(Seen))
      BY <2>5, <2>8, SeqMonotonic
  <2>10. QED
      BY <2>6, <2>9 DEF New
<1>2. CASE world.mode # "bubbles"
  <2>1. Len(beforeText[b]) \in Nat
      BY LenProperties DEF IInv, TypeOK
  <2>2. Appended(PageText, beforeText[b]) \in Seq(Seen)
      BY <2>1, PageTextTyped, AppendedTyped
  <2>3. Passage(Appended(PageText, beforeText[b])) \in Seq(Seq(Seen))
      BY <2>2, PassageTyped
  <2>4. QED
      BY <1>2, <2>3, WithoutEchoTyped DEF NewText
<1>3. QED
    BY <1>1, <1>2

-----------------------------------------------------------------------------
(* Each action keeps the invariant.                                        *)

\* The past grows, as long as no payload of the past is taken to be typed.
LEMMA PastGrows ==
    ASSUME TypeOK, payloads' \in Nat, payloads' >= payloads,
           \A c \in Browsers : Waiting(c)' => msg'[c] \notin Past
    PROVE  Past \subseteq Past'
<1>1. 1 .. payloads \subseteq 1 .. payloads'
    BY DEF TypeOK
<1>2. QED
    BY <1>1 DEF Past

\* What a script has read and reported is disturbed by its own steps only, and
\* by new bubbles.
LEMMA ScriptKept ==
    ASSUME NEW c \in Browsers, Script(c), Past \subseteq Past', UNCHANGED <<bubbles, world>>,
           toAnswer' \cap Past \subseteq toAnswer,
           pc'[c] = pc[c], msg'[c] = msg[c], told'[c] = told[c], last'[c] = last[c],
           beforeCount'[c] = beforeCount[c]
    PROVE  Script(c)'
<1>1. last'[c] \in Seq(Seq(Seen')) /\ told'[c] \subseteq Seen'
    BY SeenGrows DEF Script
<1>2. Past \ toAnswer \subseteq Past' \ toAnswer'
    OBVIOUS
<1>3. Reported(c) => Reported(c)'
    BY <1>2 DEF Reported
<1>4. QED
    BY <1>1, <1>3 DEF Script

\* The page stays as it is when payloads are added to the past.
LEMMA PageKept ==
    ASSUME Page, Past \subseteq Past', UNCHANGED <<transcript, bubbles, toEcho, toAnswer, answering>>
    PROVE  Page'
<1>1. transcript' \in Seq(Shown')
    BY SeenGrows DEF Page
<1>2. \A k \in 1 .. Len(bubbles) : bubbles[k].of \in Past' \ toAnswer'
    BY DEF Page
<1>3. QED
    BY <1>1, <1>2 DEF Page

\* A Send begins with a payload not used before.
LEMMA SendInv ==
    ASSUME IInv, NEW b \in Browsers, Send(b)
    PROVE  IInv'
<1>1. /\ payloads' = payloads + 1 /\ payloads < MaxSends /\ b \in world.users
      /\ msg' = [msg EXCEPT ![b] = payloads + 1] /\ pc' = [pc EXCEPT ![b] = "start"]
      /\ outcome' = [outcome EXCEPT ![b] = [ok |-> FALSE, reply |-> <<>>]] /\ pc[b] = "idle"
      /\ UNCHANGED <<sent, beforeCount, beforeText, last, told, head, transcript, bubbles,
                     toEcho, toAnswer, answering, prepared, opens, world>>
    BY DEF Send, Set, widgetVars, prepVars
<1>2. /\ payloads \in Nat /\ MaxSends \in Nat /\ payloads + 1 \in 0 .. MaxSends
      /\ 0 .. payloads \subseteq 0 .. payloads + 1 /\ payloads + 1 \in 1 .. payloads + 1
      /\ payloads + 1 \notin 0 .. payloads
    BY <1>1, BoundsAssumption DEF IInv, TypeOK
<1>3. \A c \in Browsers : /\ msg'[c] = IF c = b THEN payloads + 1 ELSE msg[c]
                          /\ pc'[c] = IF c = b THEN "start" ELSE pc[c]
                          /\ outcome'[c] = IF c = b THEN [ok |-> FALSE, reply |-> <<>>] ELSE outcome[c]
                          /\ msg[c] \in 0 .. payloads
    BY <1>1 DEF IInv, TypeOK
<1>4. TypeOK'
  <2>1. msg' \in [Browsers -> 0 .. payloads + 1]
      BY <1>1, <1>2 DEF IInv, TypeOK
  <2>2. [ok |-> FALSE, reply |-> <<>>] \in [ok : BOOLEAN, reply : Seq(Seq(Pieces))]
      BY EmptySeq
  <2>3. outcome' \in [Browsers -> [ok : BOOLEAN, reply : Seq(Seq(Pieces))]]
      BY <1>1, <2>2 DEF IInv, TypeOK
  <2>4. QED
      BY <1>1, <1>2, <2>1, <2>3 DEF IInv, TypeOK
<1>5. Past \subseteq Past' /\ payloads + 1 \notin Past
  <2>1. payloads + 1 \notin Past
      BY <1>2, SeenPieces DEF IInv
  <2>2. \A c \in Browsers : Waiting(c)' => msg'[c] \notin Past
      BY <1>3, <2>1 DEF Waiting, Past
  <2>3. payloads' >= payloads /\ payloads' \in Nat
      BY <1>1, <1>2
  <2>4. QED
      BY <2>1, <2>2, <2>3, PastGrows DEF IInv
<1>6. Numbered'
    BY <1>1, <1>2, <1>3 DEF IInv, Numbered, Waiting
<1>7. Page'
    BY <1>1, <1>5, PageKept DEF IInv
<1>8. Stages'
    BY <1>1, <1>3 DEF IInv, Stages
<1>9. ASSUME NEW c \in Browsers PROVE Script(c)'
  <2>1. CASE c # b
      BY <1>1, <1>3, <1>5, <2>1, ScriptKept DEF IInv
  <2>2. CASE c = b
    <3>1. last'[b] \in Seq(Seq(Seen')) /\ told'[b] \subseteq Seen' /\ last'[b] = <<>>
        BY <1>1, <1>5, SeenGrows DEF IInv, Script
    <3>2. \A t \in told[b] : t.is = "page" \/ t.of # payloads + 1
      <4>1. \A t \in told[b] : t \in PagePieces \/ t.of \in Past
          BY DEF IInv, Script, Seen, Shown, PartsOf
      <4>2. QED
          BY <1>5, <4>1 DEF PagePieces
    <3>3. world.mode = "bubbles" => Reported(b)'
        BY <1>1, <1>3, <1>5 DEF IInv, Script, Reported
    <3>4. pc'[b] = "start" /\ msg'[b] = payloads + 1 /\ told'[b] = told[b] /\ world' = world
        BY <1>1, <1>3
    <3>5. QED
        BY <2>2, <3>1, <3>2, <3>3, <3>4 DEF Script
  <2>3. QED
      BY <2>1, <2>2
<1>10. QED
    BY <1>4, <1>6, <1>7, <1>8, <1>9 DEF IInv

\* The launcher is clicked.
LEMMA OpenInv ==
    ASSUME IInv, NEW b \in Browsers, Open(b)
    PROVE  IInv'
<1>1. /\ pc' = [pc EXCEPT ![b] = "open"] /\ pc[b] = "start" /\ opens' = opens + 1
      /\ UNCHANGED <<sent, msg, beforeCount, beforeText, last, outcome, payloads, told, prepared,
                     head, transcript, bubbles, toEcho, toAnswer, answering, world>>
    BY DEF Open, Set, widgetVars
<1>2. \A c \in Browsers : pc'[c] = IF c = b THEN "open" ELSE pc[c]
    BY <1>1 DEF IInv, TypeOK
<1>3. TypeOK'
    BY <1>1 DEF IInv, TypeOK
<1>4. Past' = Past
    BY <1>1, <1>2 DEF Past, Waiting
<1>5. Numbered'
    BY <1>1, <1>2 DEF IInv, Numbered, Waiting
<1>6. Page'
    BY <1>1, <1>4, PageKept DEF IInv
<1>7. Stages'
    BY <1>1, <1>2 DEF IInv, TypeOK, Stages
<1>8. ASSUME NEW c \in Browsers PROVE Script(c)'
  <2>1. CASE c # b
      BY <1>1, <1>2, <1>4, <2>1, ScriptKept DEF IInv
  <2>2. CASE c = b
    <3>1. last'[b] \in Seq(Seq(Seen')) /\ told'[b] \subseteq Seen'
        BY <1>1, <1>4, SeenGrows DEF IInv, Script
    <3>2. Reported(b) => Reported(b)'
        BY <1>1, <1>2, <1>4 DEF Reported
    <3>3. QED
        BY <1>1, <1>2, <2>2, <3>1, <3>2 DEF IInv, Script
  <2>3. QED
      BY <2>1, <2>2
<1>9. QED
    BY <1>3, <1>5, <1>6, <1>7, <1>8 DEF IInv

\* A page that is typed into has been prepared since it was loaded.
LEMMA ReadyOpened ==
    ASSUME IInv, NEW b \in Browsers, Ready(b)
    PROVE  opens > 0 /\ Waiting(b) /\ last[b] = <<>> /\ msg[b] \in 1 .. payloads /\ msg[b] \notin Past
<1>1. opens > 0 /\ Waiting(b)
    BY DEF IInv, Stages, Ready, MustPrepare, Waiting
<1>2. QED
    BY <1>1 DEF IInv, Numbered, Script, Past, Waiting

\* The snapshot is taken, and the payload is pending from then on.
LEMMA SubmitInv ==
    ASSUME IInv, NEW b \in Browsers, Submit(b)
    PROVE  IInv'
<1> DEFINE m == msg[b]
           n == IF world.mode = "bubbles" THEN Len(bubbles) ELSE 0
           t == IF world.mode = "bubbles" THEN <<>> ELSE PageText
<1>1. /\ prepared' = TRUE /\ beforeCount' = [beforeCount EXCEPT ![b] = n]
      /\ beforeText' = [beforeText EXCEPT ![b] = t]
      /\ toEcho' = toEcho \cup {m} /\ toAnswer' = toAnswer \cup {m} /\ pc' = [pc EXCEPT ![b] = "watch"]
      /\ UNCHANGED <<sent, msg, last, outcome, payloads, told, opens, head, transcript, bubbles, answering, world>>
    BY DEF Submit, Set
<1>2. opens > 0 /\ Waiting(b) /\ last[b] = <<>> /\ m \in 1 .. payloads /\ m \notin Past
    BY ReadyOpened DEF Submit
<1>3. Len(bubbles) \in Nat /\ n \in Nat /\ t \in Seq(Pieces)
  <2>1. Len(bubbles) \in Nat
      BY LenProperties DEF IInv, TypeOK
  <2>2. PageText \in Seq(Pieces)
      BY PageTextTyped, SeenPieces, SeqMonotonic DEF IInv
  <2>3. QED
      BY <2>1, <2>2, EmptySeq
<1> HIDE DEF m, t
<1>4. \A c \in Browsers : /\ pc'[c] = IF c = b THEN "watch" ELSE pc[c]
                          /\ beforeCount'[c] = IF c = b THEN n ELSE beforeCount[c]
    BY <1>1 DEF IInv, TypeOK
<1>5. \A c \in Browsers : Waiting(c)' => Waiting(c) /\ msg[c] # m
  <2>1. \A c \in Browsers : Waiting(c)' => Waiting(c) /\ c # b
      BY <1>4 DEF Waiting
  <2>2. QED
      BY <1>2, <2>1 DEF IInv, Numbered, m
<1>6. Past \subseteq Past' /\ m \in Past'
    BY <1>1, <1>2, <1>5 DEF Past
<1>7. TypeOK'
  <2>1. m \in Payloads
      BY <1>2, BoundsAssumption DEF IInv, TypeOK, Payloads
  <2>2. QED
      BY <1>1, <1>3, <2>1 DEF IInv, TypeOK
<1>8. Numbered'
    BY <1>1, <1>5 DEF IInv, Numbered
<1>9. Page'
  <2>1. transcript' \in Seq(Shown')
      BY <1>1, <1>6, SeenGrows DEF IInv, Page
  <2>2. \A k \in 1 .. Len(bubbles) : bubbles[k].of \in Past' \ toAnswer'
      BY <1>1, <1>2, <1>6 DEF IInv, Page
  <2>3. QED
      BY <1>1, <1>6, <2>1, <2>2 DEF IInv, Page
<1>10. Stages'
    BY <1>1, <1>2, <1>4 DEF IInv, Stages, Waiting
<1>11. ASSUME NEW c \in Browsers PROVE Script(c)'
  <2>1. CASE c # b
      BY <1>1, <1>2, <1>4, <1>6, <2>1, ScriptKept DEF IInv
  <2>2. CASE c = b
    <3>1. last'[b] \in Seq(Seq(Seen')) /\ told'[b] \subseteq Seen' /\ PiecesOf(last'[b]) = {}
        BY <1>1, <1>2, <1>6, SeenGrows, NoPieces DEF IInv, Script
    <3>2. pc'[b] = "watch" /\ msg'[b] \in Past'
        BY <1>1, <1>4, <1>6 DEF m
    <3>3. \A e \in told'[b] : e.is = "page" \/ e.of # msg'[b]
        BY <1>1, <1>2 DEF IInv, Script, Waiting, m
    <3>4. world.mode = "bubbles" => Reported(b)'
      <4>1. ASSUME world.mode = "bubbles" PROVE beforeCount'[b] = Len(bubbles')
          BY <1>1, <1>4, <4>1
      <4>2. ASSUME world.mode = "bubbles" PROVE \A e \in told'[b] : e.of \in Past' \ toAnswer'
          BY <1>1, <1>2, <1>6, <4>2, ZenonT(30) DEF IInv, Script, Reported
      <4>3. QED
          BY <1>1, <1>3, <3>1, <4>1, <4>2 DEF Reported
    <3>5. QED
        BY <1>1, <2>2, <3>1, <3>2, <3>3, <3>4 DEF Script
  <2>3. QED
      BY <2>1, <2>2
<1>12. QED
    BY <1>7, <1>8, <1>9, <1>10, <1>11 DEF IInv

\* What the script sees is kept, and is no more than what is new.
LEMMA WatchInv ==
    ASSUME IInv, NEW b \in Browsers, Watch(b)
    PROVE  IInv'
<1>1. /\ pc[b] = "watch" /\ last' = [last EXCEPT ![b] = NewText(b)]
      /\ UNCHANGED <<sent, pc, msg, beforeCount, beforeText, outcome, payloads, told, prepared, opens,
                     head, transcript, bubbles, toEcho, toAnswer, answering, world>>
    BY DEF Watch, Set, widgetVars, prepVars
<1>2. \A c \in Browsers : last'[c] = IF c = b THEN NewText(b) ELSE last[c]
    BY <1>1 DEF IInv, TypeOK
<1>3. /\ NewText(b) \in Seq(Seq(Seen))
      /\ world.mode = "bubbles" =>
            \A e \in PiecesOf(NewText(b)) :
                \E k \in beforeCount[b] + 1 .. Len(bubbles) : e.of = bubbles[k].of
    BY <1>1, NewTextRead
<1> DEFINE N == NewText(b)
<1> HIDE DEF N
<1>4. TypeOK'
  <2>1. Seq(Seq(Seen)) \subseteq Seq(Seq(Pieces))
    <3>1. Seq(Seen) \subseteq Seq(Pieces)
        BY SeenPieces, SeqMonotonic DEF IInv
    <3>2. QED
        BY <3>1, SeqMonotonic
  <2>2. NewText(b) \in Seq(Seq(Pieces))
      BY <1>3, <2>1
  <2>3. last' \in [Browsers -> Seq(Seq(Pieces))]
      BY <1>1, <2>2 DEF IInv, TypeOK
  <2>4. QED
      BY <1>1, <2>3 DEF IInv, TypeOK
<1>5. Past' = Past
    BY <1>1 DEF Past, Waiting
<1>6. Numbered'
    BY <1>1 DEF IInv, Numbered, Waiting
<1>7. Page'
    BY <1>1, <1>5, PageKept DEF IInv
<1>8. Stages'
    BY <1>1 DEF IInv, Stages
<1>9. ASSUME NEW c \in Browsers PROVE Script(c)'
  <2>1. CASE c # b
      BY <1>1, <1>2, <1>5, <2>1, ScriptKept DEF IInv
  <2>2. CASE c = b
    <3>1. last'[b] \in Seq(Seq(Seen')) /\ told'[b] \subseteq Seen'
        BY <1>1, <1>2, <1>3, <1>5, SeenGrows DEF IInv, Script
    <3>2. ASSUME world.mode = "bubbles" PROVE Reported(b)'
      <4>1. /\ beforeCount[b] \in 0 .. Len(bubbles) /\ Len(bubbles) \in Nat
            /\ \A k \in beforeCount[b] + 1 .. Len(bubbles), t \in told[b] : t.of # bubbles[k].of
            /\ \A e \in told[b] : e.of \in Past \ toAnswer
          BY <1>1, <3>2, LenProperties DEF IInv, TypeOK, Script, Reported
      <4>2. ASSUME NEW e \in PiecesOf(N)
            PROVE  e.of \in Past \ toAnswer /\ \A t \in told[b] : t.of # e.of
        <5>1. PICK k \in beforeCount[b] + 1 .. Len(bubbles) : e.of = bubbles[k].of
            BY <1>3, <3>2, <4>2 DEF N
        <5>2. k \in 1 .. Len(bubbles)
            BY <4>1, <5>1
        <5>3. QED
            BY <4>1, <5>1, <5>2 DEF IInv, Page
      <4>3. last'[b] = N
          BY <1>2 DEF N
      <4>4. QED
          BY <1>1, <1>5, <4>1, <4>2, <4>3 DEF Reported
    <3>3. QED
        BY <1>1, <1>5, <2>2, <3>1, <3>2 DEF IInv, Script
  <2>3. QED
      BY <2>1, <2>2
<1>10. QED
    BY <1>4, <1>6, <1>7, <1>8, <1>9 DEF IInv

\* The script returns a text it has read, or none.
LEMMA ReturnInv ==
    ASSUME IInv, NEW b \in Browsers, pc[b] # "idle", NEW ok \in BOOLEAN, NEW reply,
           reply = <<>> \/ reply = last[b], Return(b, ok, reply),
           UNCHANGED <<msg, payloads, opens, widgetVars, world>>,
           sent' \in [Browsers -> BOOLEAN],
           prepared' = prepared \/ (prepared' = TRUE /\ opens > 0)
    PROVE  IInv'
<1>1. /\ beforeCount' = [beforeCount EXCEPT ![b] = 0] /\ beforeText' = [beforeText EXCEPT ![b] = <<>>]
      /\ last' = [last EXCEPT ![b] = <<>>]
      /\ outcome' = [outcome EXCEPT ![b] = [ok |-> ok, reply |-> reply]]
      /\ told' = [told EXCEPT ![b] = told[b] \cup PiecesOf(reply)] /\ pc' = [pc EXCEPT ![b] = "idle"]
      /\ UNCHANGED <<head, transcript, bubbles, toEcho, toAnswer, answering>>
    BY DEF Return, Set, widgetVars
<1>2. \A c \in Browsers : /\ pc'[c] = IF c = b THEN "idle" ELSE pc[c]
                          /\ last'[c] = IF c = b THEN <<>> ELSE last[c]
                          /\ beforeCount'[c] = IF c = b THEN 0 ELSE beforeCount[c]
                          /\ told'[c] = IF c = b THEN told[b] \cup PiecesOf(reply) ELSE told[c]
                          /\ outcome'[c] = IF c = b THEN [ok |-> ok, reply |-> reply] ELSE outcome[c]
    BY <1>1 DEF IInv, TypeOK
<1>3. PiecesOf(reply) \subseteq PiecesOf(last[b]) /\ PiecesOf(last[b]) \subseteq Seen
      /\ reply \in Seq(Seq(Pieces))
  <2>1. last[b] \in Seq(Seq(Seen)) /\ last[b] \in Seq(Seq(Pieces)) /\ <<>> \in Seq(Seq(Pieces))
      BY EmptySeq DEF IInv, TypeOK, Script
  <2>2. QED
      BY <2>1, NoPieces, PiecesTyped
<1>4. TypeOK'
  <2>1. PiecesOf(reply) \subseteq Pieces
      BY <1>3, SeenPieces DEF IInv
  <2>2. told' \in [Browsers -> SUBSET Pieces]
      BY <1>1, <2>1 DEF IInv, TypeOK
  <2>3. outcome' \in [Browsers -> [ok : BOOLEAN, reply : Seq(Seq(Pieces))]]
      BY <1>1, <1>3 DEF IInv, TypeOK
  <2>4. last' \in [Browsers -> Seq(Seq(Pieces))] /\ beforeText' \in [Browsers -> Seq(Pieces)]
      BY <1>1, EmptySeq DEF IInv, TypeOK
  <2>5. QED
      BY <1>1, <2>2, <2>3, <2>4 DEF IInv, TypeOK
<1>5. \A c \in Browsers : Waiting(c)' => Waiting(c)
    BY <1>2 DEF Waiting
<1>6. Past \subseteq Past'
    BY <1>5 DEF Past
<1>7. Numbered'
    BY <1>5 DEF IInv, Numbered
<1>8. Page'
    BY <1>1, <1>6, PageKept DEF IInv
<1>9. Stages'
    BY <1>2 DEF IInv, Stages
<1>10. ASSUME NEW c \in Browsers PROVE Script(c)'
  <2>1. CASE c # b
      BY <1>1, <1>2, <1>6, <2>1, ScriptKept DEF IInv
  <2>2. CASE c = b
    <3>1. last'[b] = <<>> /\ pc'[b] = "idle" /\ last'[b] \in Seq(Seq(Seen')) /\ told'[b] \subseteq Seen'
        BY <1>2, <1>3, <1>6, SeenGrows, EmptySeq DEF IInv, Script
    <3>2. ASSUME world.mode = "bubbles" PROVE Reported(b)'
      <4>1. \A e \in told'[b] : e.of \in Past' \ toAnswer'
          BY <1>1, <1>2, <1>3, <1>6, <3>2 DEF IInv, Script, Reported
      <4>2. PiecesOf(last'[b]) = {}
          BY <3>1, NoPieces
      <4>3. QED
          BY <3>1, <4>1, <4>2 DEF Reported
    <3>3. QED
        BY <2>2, <3>1, <3>2 DEF Script
  <2>3. QED
      BY <2>1, <2>2
<1>11. QED
    BY <1>4, <1>7, <1>8, <1>9, <1>10 DEF IInv

\* Every way out of a script is such a return.
LEMMA ReturnsInv ==
    ASSUME IInv, NEW b \in Browsers, SubmitFails(b) \/ Settle(b) \/ Timeout(b)
    PROVE  IInv'
<1>1. CASE SubmitFails(b)
  <2>1. opens > 0 /\ pc[b] # "idle"
      BY <1>1, ReadyOpened DEF SubmitFails, Waiting
  <2>2. QED
      BY <1>1, <2>1, ReturnInv DEF SubmitFails, IInv, TypeOK
<1>2. CASE Settle(b)
    BY <1>2, ReturnInv DEF Settle, Set, prepVars, IInv, TypeOK
<1>3. CASE Timeout(b)
  <2>1. sent[b] \in BOOLEAN /\ (last[b] # <<>>) \in BOOLEAN
      BY DEF IInv, TypeOK
  <2>2. sent' \in [Browsers -> BOOLEAN]
      BY <1>3, <2>1 DEF Timeout, Set, IInv, TypeOK
  <2>3. QED
      BY <1>3, <2>1, <2>2, ReturnInv DEF Timeout, prepVars
<1>4. QED
    BY <1>1, <1>2, <1>3

\* A reload takes the page, and what was pending, away.
LEMMA ReloadInv ==
    ASSUME IInv, Reload
    PROVE  IInv'
<1>1. /\ prepared' = FALSE /\ opens' = 0 /\ transcript' = <<>> /\ bubbles' = <<>>
      /\ toEcho' = {} /\ toAnswer' = {} /\ answering' = {}
      /\ beforeCount' = [b \in Browsers |-> 0] /\ beforeText' = [b \in Browsers |-> <<>>]
      /\ last' = [b \in Browsers |-> <<>>]
      /\ pc' = [b \in Browsers |-> IF pc[b] = "start" THEN "start" ELSE "idle"]
      /\ UNCHANGED <<sent, msg, outcome, payloads, told, head, world>>
    BY DEF Reload
<1>2. TypeOK'
    BY <1>1, EmptySeq DEF IInv, TypeOK
<1>3. \A c \in Browsers : Waiting(c)' => Waiting(c)
    BY <1>1 DEF Waiting
<1>4. Past \subseteq Past'
    BY <1>1, <1>3 DEF Past
<1>5. Numbered'
    BY <1>1, <1>3 DEF IInv, Numbered
<1>6. Page'
    BY <1>1, EmptySeq DEF Page
<1>7. Stages'
    BY <1>1 DEF IInv, Stages
<1>8. ASSUME NEW c \in Browsers PROVE Script(c)'
  <2>1. last'[c] = <<>> /\ PiecesOf(last'[c]) = {} /\ last'[c] \in Seq(Seq(Seen')) /\ told'[c] \subseteq Seen'
      BY <1>1, <1>4, SeenGrows, NoPieces, EmptySeq DEF IInv, Script
  <2>2. world.mode = "bubbles" => Reported(c)'
      BY <1>1, <1>4, <2>1 DEF IInv, Script, Reported
  <2>3. pc'[c] # "watch" /\ (pc'[c] # "idle" => pc[c] # "idle")
      BY <1>1
  <2>4. QED
      BY <1>1, <2>1, <2>2, <2>3 DEF IInv, Script
<1>9. QED
    BY <1>2, <1>5, <1>6, <1>7, <1>8 DEF IInv

\* The page around the transcript changes.
LEMMA HeadInv ==
    ASSUME IInv, HeadChanges
    PROVE  IInv'
<1>1. /\ head' \in Heads
      /\ UNCHANGED <<sent, pc, msg, beforeCount, beforeText, last, outcome, payloads, told, prepared, opens,
                     transcript, bubbles, toEcho, toAnswer, answering, world>>
    BY DEF HeadChanges, scriptVars, prepVars
<1>2. TypeOK'
    BY <1>1 DEF IInv, TypeOK
<1>3. Past' = Past
    BY <1>1 DEF Past, Waiting
<1>4. Numbered' /\ Stages'
    BY <1>1 DEF IInv, Numbered, Waiting, Stages
<1>5. Page'
    BY <1>1, <1>3, PageKept DEF IInv
<1>6. \A c \in Browsers : Script(c)'
    BY <1>1, <1>3, ScriptKept DEF IInv
<1>7. QED
    BY <1>2, <1>4, <1>5, <1>6 DEF IInv

\* What the bot does leaves the scripts and the payloads as they are.
LEMMA BotFrame ==
    ASSUME IInv, NEW p \in Payloads, BotStep(p)
    PROVE  /\ UNCHANGED <<sent, pc, msg, beforeCount, beforeText, last, outcome, payloads, told,
                          prepared, opens, head, world>>
           /\ Past' = Past /\ Numbered' /\ Stages'
           /\ Shown' = Shown /\ Seen' = Seen
<1>1. UNCHANGED <<sent, pc, msg, beforeCount, beforeText, last, outcome, payloads, told,
                  prepared, opens, head, world>>
    BY DEF BotStep, Echo, BeginAnswer, EndAnswer, scriptVars, prepVars
<1>2. Past' = Past
    BY <1>1 DEF Past, Waiting
<1>3. QED
    BY <1>1, <1>2 DEF IInv, Numbered, Waiting, Stages, Shown, Seen

\* The widget shows a payload.
LEMMA EchoInv ==
    ASSUME IInv, NEW p \in Payloads, Echo(p)
    PROVE  IInv'
<1>1. /\ p \in toEcho /\ toEcho' = toEcho \ {p} /\ transcript' = Append(transcript, Piece("words", p))
      /\ UNCHANGED <<bubbles, toAnswer, answering>>
    BY DEF Echo
<1>2. /\ UNCHANGED <<sent, pc, msg, beforeCount, beforeText, last, outcome, payloads, told,
                     prepared, opens, head, world>>
      /\ Past' = Past /\ Numbered' /\ Stages' /\ Shown' = Shown
    BY BotFrame DEF BotStep
<1>3. Piece("words", p) \in Shown /\ Shown \subseteq Pieces
    BY <1>1, SeenPieces DEF IInv, Page, Shown, PartsOf, Piece
<1>4. transcript' \in Seq(Shown) /\ transcript' \in Seq(Pieces)
    BY <1>1, <1>3, AppendProperties, SeqMonotonic DEF IInv, Page
<1>5. TypeOK'
    BY <1>1, <1>2, <1>4 DEF IInv, TypeOK
<1>6. Page'
    BY <1>1, <1>2, <1>4 DEF IInv, Page
<1>7. \A c \in Browsers : Script(c)'
    BY <1>1, <1>2, ScriptKept DEF IInv
<1>8. QED
    BY <1>2, <1>5, <1>6, <1>7 DEF IInv

\* The bot begins an answer in a bubble of its own.
LEMMA BeginAnswerInv ==
    ASSUME IInv, NEW p \in Payloads, BeginAnswer(p)
    PROVE  IInv'
<1>1. PICK quote \in {<<>>, <<Piece("words", p)>>} :
          /\ transcript' = transcript \o quote \o <<Piece("first", p)>>
          /\ bubbles' = Append(bubbles, [of |-> p, text |-> quote \o <<Piece("first", p)>>])
    BY DEF BeginAnswer
<1>2. p \in toAnswer /\ toAnswer' = toAnswer \ {p} /\ answering' = answering \cup {p} /\ toEcho' = toEcho
    BY DEF BeginAnswer
<1>3. /\ UNCHANGED <<sent, pc, msg, beforeCount, beforeText, last, outcome, payloads, told,
                     prepared, opens, head, world>>
      /\ Past' = Past /\ Numbered' /\ Stages' /\ Shown' = Shown /\ Seen' = Seen
    BY BotFrame DEF BotStep
<1>4. p \in Past
    BY <1>2 DEF IInv, Page
<1>5. /\ quote \in Seq(PartsOf({p})) /\ <<Piece("first", p)>> \in Seq(PartsOf({p}))
      /\ PartsOf({p}) \subseteq Shown /\ PartsOf({p}) \subseteq Pieces /\ Shown \subseteq Pieces
  <2>1. Piece("first", p) \in PartsOf({p}) /\ Piece("words", p) \in PartsOf({p})
      BY DEF PartsOf, Piece
  <2>2. <<Piece("first", p)>> \in Seq(PartsOf({p})) /\ <<Piece("words", p)>> \in Seq(PartsOf({p}))
      BY <2>1
  <2>3. PartsOf({p}) \subseteq Shown /\ Shown \subseteq Pieces
      BY <1>4, SeenPieces DEF IInv, PartsOf, Shown
  <2>4. QED
      BY <2>2, <2>3, EmptySeq
<1> DEFINE a == quote \o <<Piece("first", p)>>
           bubble == [of |-> p, text |-> a]
<1>6. a \in Seq(PartsOf({p})) /\ a \in Seq(Shown) /\ a \in Seq(Pieces)
    BY <1>5, ConcatProperties, SeqMonotonic
<1>7. transcript' \in Seq(Shown) /\ transcript' \in Seq(Pieces)
  <2>1. transcript \in Seq(Shown) /\ quote \in Seq(Shown) /\ <<Piece("first", p)>> \in Seq(Shown)
      BY <1>5, SeqMonotonic DEF IInv, Page
  <2>2. transcript \o quote \in Seq(Shown)
      BY <2>1, ConcatProperties
  <2>3. transcript' \in Seq(Shown)
      BY <1>1, <2>1, <2>2, ConcatProperties
  <2>4. QED
      BY <1>5, <2>3, SeqMonotonic
<1> HIDE DEF a
<1>8. /\ bubbles \in Seq([of : Payloads, text : Seq(Pieces)]) /\ bubble \in [of : Payloads, text : Seq(Pieces)]
      /\ bubbles' = Append(bubbles, bubble)
    BY <1>1, <1>6 DEF IInv, TypeOK, a
<1>9. bubble.of = p /\ bubble.text = a
    OBVIOUS
<1> HIDE DEF bubble
<1>10. /\ Len(bubbles) \in Nat /\ Len(bubbles') = Len(bubbles) + 1
      /\ bubbles' \in Seq([of : Payloads, text : Seq(Pieces)])
      /\ \A k \in 1 .. Len(bubbles) : bubbles'[k] = bubbles[k]
      /\ bubbles'[Len(bubbles) + 1] = bubble
    BY <1>8, LenProperties, AppendProperties
<1>11. TypeOK'
    BY <1>2, <1>3, <1>7, <1>10 DEF IInv, TypeOK
<1>12. \A k : k = Len(bubbles) + 1 => bubbles'[k].of = p /\ bubbles'[k].text = a
  <2>1. bubbles'[Len(bubbles) + 1] = bubble
      BY <1>8, AppendProperties
  <2>2. QED
      BY <1>9, <2>1, Zenon
<1>13. \A k \in 1 .. Len(bubbles') : k \in 1 .. Len(bubbles) \/ k = Len(bubbles) + 1
    BY <1>10
<1>14. Page'
  <2>1. ASSUME NEW k \in 1 .. Len(bubbles')
        PROVE  bubbles'[k].of \in Past \ toAnswer' /\ bubbles'[k].text \in Seq(PartsOf({bubbles'[k].of}))
    <3>1. CASE k \in 1 .. Len(bubbles)
        BY <1>2, <1>10, <3>1 DEF IInv, Page
    <3>2. CASE k = Len(bubbles) + 1
      <4>1. bubbles'[k].of = p /\ bubbles'[k].text = a
          BY <1>12, <3>2, Zenon
      <4>2. QED
          BY <1>2, <1>4, <1>6, <4>1
    <3>3. QED
        BY <1>13, <3>1, <3>2
  <2>2. QED
      BY <1>2, <1>3, <1>4, <1>7, <2>1 DEF IInv, Page
<1>15. ASSUME NEW c \in Browsers PROVE Script(c)'
  <2>1. ASSUME Reported(c), world.mode = "bubbles" PROVE Reported(c)'
    <3>1. \A e \in told[c] \cup PiecesOf(last[c]) : e.of \in Past' \ toAnswer' /\ e.of # p
        BY <1>2, <1>3, <2>1 DEF Reported
    <3>2. ASSUME pc[c] = "watch"
          PROVE  /\ beforeCount[c] \in 0 .. Len(bubbles')
                 /\ \A k \in beforeCount[c] + 1 .. Len(bubbles'), t \in told[c] : t.of # bubbles'[k].of
      <4>1. beforeCount[c] \in 0 .. Len(bubbles)
          BY <2>1, <3>2 DEF Reported
      <4>2. ASSUME NEW k \in beforeCount[c] + 1 .. Len(bubbles'), NEW t \in told[c] PROVE t.of # bubbles'[k].of
        <5>1. k \in beforeCount[c] + 1 .. Len(bubbles) \/ k = Len(bubbles) + 1
            BY <1>10, <4>1
        <5>2. k \in beforeCount[c] + 1 .. Len(bubbles) => k \in 1 .. Len(bubbles)
            BY <4>1
        <5>3. CASE k \in beforeCount[c] + 1 .. Len(bubbles)
            BY <1>10, <2>1, <3>2, <4>2, <5>2, <5>3 DEF Reported
        <5>4. CASE k = Len(bubbles) + 1
            BY <1>12, <3>1, <4>2, <5>4, Zenon
        <5>5. QED
            BY <5>1, <5>3, <5>4
      <4>3. QED
          BY <1>10, <4>1, <4>2
    <3>3. QED
        BY <1>3, <2>1, <3>1, <3>2 DEF Reported
  <2>2. QED
      BY <1>3, <2>1 DEF IInv, Script
<1>16. QED
    BY <1>3, <1>11, <1>14, <1>15 DEF IInv

\* A piece inserted into a sequence belongs to it.
LEMMA InsertTyped ==
    ASSUME NEW S, NEW s \in Seq(S), NEW j \in 1 .. Len(s) + 1, NEW x \in S
    PROVE  InsertAt(s, j, x) \in Seq(S)
<1>1. Len(s) \in Nat /\ j \in Nat \ {0} /\ j - 1 \in Int /\ j - 1 <= Len(s)
    BY LenProperties
<1>2. SubSeq(s, 1, j - 1) \in Seq(S) /\ SubSeq(s, j, Len(s)) \in Seq(S) /\ <<x>> \in Seq(S)
    BY <1>1, PartTyped
<1>3. InsertAt(s, j, x) = SubSeq(s, 1, j - 1) \o <<x>> \o SubSeq(s, j, Len(s))
    BY DEF InsertAt
<1>4. SubSeq(s, 1, j - 1) \o <<x>> \in Seq(S)
    BY <1>2, ConcatProperties
<1>5. SubSeq(s, 1, j - 1) \o <<x>> \o SubSeq(s, j, Len(s)) \in Seq(S)
    BY <1>2, <1>4, ConcatProperties
<1>6. QED
    BY <1>3, <1>5

\* The bot ends an answer, whose bubble grows.
LEMMA EndAnswerInv ==
    ASSUME IInv, NEW p \in Payloads, EndAnswer(p)
    PROVE  IInv'
<1> DEFINE e == Piece("second", p)
           Grown(k) == IF bubbles[k].of = p THEN [bubbles[k] EXCEPT !.text = Append(@, e)] ELSE bubbles[k]
<1>1. /\ p \in answering /\ answering' = answering \ {p} /\ UNCHANGED <<toEcho, toAnswer>>
      /\ bubbles' = [k \in DOMAIN bubbles |-> Grown(k)]
    BY DEF EndAnswer
<1>2. PICK i \in DOMAIN transcript : transcript' = InsertAt(transcript, i + 1, e)
    BY DEF EndAnswer
<1>3. /\ UNCHANGED <<sent, pc, msg, beforeCount, beforeText, last, outcome, payloads, told,
                     prepared, opens, head, world>>
      /\ Past' = Past /\ Numbered' /\ Stages' /\ Shown' = Shown /\ Seen' = Seen
    BY BotFrame DEF BotStep
<1>4. e \in Shown /\ e \in Pieces /\ e \in PartsOf({p}) /\ Shown \subseteq Pieces
    BY <1>1, SeenPieces DEF IInv, Page, Shown, PartsOf, Piece
<1> HIDE DEF e
<1>5. transcript' \in Seq(Shown) /\ transcript' \in Seq(Pieces)
  <2>1. transcript \in Seq(Shown) /\ DOMAIN transcript = 1 .. Len(transcript)
      BY LenProperties DEF IInv, Page
  <2>2. i + 1 \in 1 .. Len(transcript) + 1
      BY <2>1, LenProperties
  <2>3. transcript' \in Seq(Shown)
      BY <1>2, <1>4, <2>1, <2>2, InsertTyped
  <2>4. QED
      BY <1>4, <2>3, SeqMonotonic
<1>6. /\ Len(bubbles) \in Nat /\ DOMAIN bubbles = 1 .. Len(bubbles)
      /\ \A k \in 1 .. Len(bubbles) : bubbles[k] \in [of : Payloads, text : Seq(Pieces)]
    BY LenProperties, ElementOfSeq DEF IInv, TypeOK
<1>7. ASSUME NEW k \in 1 .. Len(bubbles)
      PROVE  /\ Grown(k) \in [of : Payloads, text : Seq(Pieces)] /\ Grown(k).of = bubbles[k].of
             /\ Grown(k).text \in Seq(PartsOf({bubbles[k].of}))
  <2>1. CASE bubbles[k].of = p
    <3>1. bubbles[k].text \in Seq(Pieces) /\ bubbles[k].text \in Seq(PartsOf({p}))
        BY <1>6, <2>1 DEF IInv, Page
    <3>2. Append(bubbles[k].text, e) \in Seq(Pieces) /\ Append(bubbles[k].text, e) \in Seq(PartsOf({p}))
        BY <1>4, <3>1, AppendProperties
    <3>3. QED
        BY <1>6, <2>1, <3>2
  <2>2. CASE bubbles[k].of # p
      BY <1>6, <2>2 DEF IInv, Page
  <2>3. QED
      BY <2>1, <2>2
<1> HIDE DEF Grown
<1>8. /\ bubbles' \in Seq([of : Payloads, text : Seq(Pieces)]) /\ Len(bubbles') = Len(bubbles)
      /\ \A k \in 1 .. Len(bubbles) : bubbles'[k] = Grown(k)
  <2>1. bubbles' = [k \in 1 .. Len(bubbles) |-> Grown(k)]
      BY <1>1, <1>6
  <2>2. \A k \in 1 .. Len(bubbles) : Grown(k) \in [of : Payloads, text : Seq(Pieces)]
      BY <1>7
  <2>3. [k \in 1 .. Len(bubbles) |-> Grown(k)] \in Seq([of : Payloads, text : Seq(Pieces)])
      BY <1>6, <2>2, SeqDef
  <2>4. QED
      BY <1>6, <2>1, <2>3, LenProperties
<1>9. TypeOK'
    BY <1>1, <1>3, <1>5, <1>8 DEF IInv, TypeOK
<1>10. Page'
    BY <1>1, <1>3, <1>5, <1>7, <1>8 DEF IInv, Page
<1>11. ASSUME NEW c \in Browsers PROVE Script(c)'
  <2>1. ASSUME Reported(c) PROVE Reported(c)'
    <3>1. ASSUME pc[c] = "watch"
          PROVE  \A k \in beforeCount[c] + 1 .. Len(bubbles) : k \in 1 .. Len(bubbles)
        BY <1>6, <2>1, <3>1 DEF Reported
    <3>2. /\ \A t \in told[c] \cup PiecesOf(last[c]) : t.of \in Past' \ toAnswer'
          /\ told'[c] = told[c] /\ last'[c] = last[c] /\ pc'[c] = pc[c]
          /\ beforeCount'[c] = beforeCount[c]
        BY <1>1, <1>3, <2>1 DEF Reported
    <3>3. ASSUME pc[c] = "watch"
          PROVE  /\ beforeCount[c] \in 0 .. Len(bubbles')
                 /\ \A k \in beforeCount[c] + 1 .. Len(bubbles'), t \in told[c] : t.of # bubbles'[k].of
                 /\ \A d \in PiecesOf(last[c]), t \in told[c] : t.of # d.of
        BY <1>7, <1>8, <2>1, <3>1, <3>3 DEF Reported
    <3>4. QED
        BY <3>2, <3>3 DEF Reported
  <2>2. QED
      BY <1>3, <2>1 DEF IInv, Script
<1>12. QED
    BY <1>3, <1>9, <1>10, <1>11 DEF IInv

-----------------------------------------------------------------------------
(* The theorems.                                                           *)

\* The first state satisfies the invariant.
LEMMA Initially == Init => IInv
<1> SUFFICES ASSUME Init PROVE IInv
    OBVIOUS
<1>1. /\ payloads = 0 /\ opens = 0 /\ prepared = FALSE /\ head \in Heads /\ transcript = <<>> /\ bubbles = <<>>
      /\ toEcho = {} /\ toAnswer = {} /\ answering = {} /\ world \in Worlds
    BY DEF Init
<1>2. /\ sent = [b \in Browsers |-> FALSE] /\ pc = [b \in Browsers |-> "idle"]
      /\ msg = [b \in Browsers |-> 0] /\ beforeCount = [b \in Browsers |-> 0]
      /\ beforeText = [b \in Browsers |-> <<>>] /\ last = [b \in Browsers |-> <<>>]
      /\ outcome = [b \in Browsers |-> [ok |-> FALSE, reply |-> <<>>]] /\ told = [b \in Browsers |-> {}]
    BY DEF Init
<1>3. Numbered /\ Stages
    BY <1>1, <1>2 DEF Numbered, Stages, Waiting
<1>4. Len(bubbles) = 0 /\ \A S : transcript \in Seq(S) /\ bubbles \in Seq(S)
    BY <1>1, EmptySeq
<1>5. Page
    BY <1>1, <1>4 DEF Page
<1>6. ASSUME NEW b \in Browsers PROVE Script(b)
    BY <1>2, EmptySeq, NoPieces DEF Script, Reported
<1>7. TypeOK
  <2>1. payloads \in 0 .. MaxSends /\ 0 .. payloads = {0}
      BY <1>1, BoundsAssumption
  <2>2. \A S : <<>> \in Seq(S)
      BY EmptySeq
  <2>3. /\ beforeText \in [Browsers -> Seq(Pieces)] /\ last \in [Browsers -> Seq(Seq(Pieces))]
        /\ outcome \in [Browsers -> [ok : BOOLEAN, reply : Seq(Seq(Pieces))]]
      BY <1>2, <2>2
  <2>4. QED
      BY <1>1, <1>2, <1>4, <2>1, <2>3 DEF TypeOK
<1>8. QED
    BY <1>3, <1>5, <1>6, <1>7 DEF IInv

\* Every step keeps the invariant.
LEMMA NextInv ==
    ASSUME IInv, [Next]_vars
    PROVE  IInv'
<1>1. ASSUME NEW b \in Browsers, Send(b) \/ ScriptStep(b) PROVE IInv'
    BY <1>1, SendInv, OpenInv, SubmitInv, WatchInv, ReturnsInv DEF ScriptStep
<1>2. ASSUME NEW p \in Payloads, BotStep(p) PROVE IInv'
    BY <1>2, EchoInv, BeginAnswerInv, EndAnswerInv DEF BotStep
<1>3. CASE HeadChanges \/ Reload
    BY <1>3, HeadInv, ReloadInv
<1>4. CASE UNCHANGED vars
  <2>1. UNCHANGED <<sent, pc, msg, beforeCount, beforeText, last, outcome, payloads, told, prepared, opens,
                    head, transcript, bubbles, toEcho, toAnswer, answering, world>>
      BY <1>4 DEF vars, scriptVars, widgetVars, prepVars
  <2>2. Past' = Past
      BY <2>1 DEF Past, Waiting
  <2>3. TypeOK' /\ Numbered' /\ Stages'
      BY <2>1 DEF IInv, TypeOK, Numbered, Stages, Waiting
  <2>4. Page' /\ \A c \in Browsers : Script(c)'
      BY <2>1, <2>2, PageKept, ScriptKept DEF IInv
  <2>5. QED
      BY <2>3, <2>4 DEF IInv
<1>5. QED
    BY <1>1, <1>2, <1>3, <1>4 DEF Next

\* The invariant holds in every scan.
THEOREM Invariance == Spec => []IInv
<1>1. QED
    BY Initially, NextInv, PTL DEF Spec

\* Every variable keeps its type.
THEOREM TypeCorrect == Spec => []TypeOK
<1>1. IInv => TypeOK
    BY DEF IInv
<1>2. QED
    BY <1>1, Invariance, PTL

\* A Send succeeds by its text settling or its deadline passing, and returns it.
LEMMA Replies ==
    ASSUME IInv, [Next]_vars, NEW b \in Browsers, outcome'[b].ok, outcome'[b] # outcome[b]
    PROVE  (Settle(b) \/ Timeout(b)) /\ outcome'[b].reply = last[b]
<1>1. outcome = [c \in Browsers |-> outcome[c]]
    BY DEF IInv, TypeOK
<1>2. ASSUME NEW c \in Browsers, Settle(c) PROVE c = b /\ outcome'[b].reply = last[b]
  <2>1. outcome' = [outcome EXCEPT ![c] = [ok |-> TRUE, reply |-> last[c]]]
      BY <1>2 DEF Settle, Return, Set
  <2>2. QED
      BY <1>1, <2>1
<1>3. ASSUME NEW c \in Browsers, Timeout(c) PROVE c = b /\ outcome'[b].reply = last[b]
  <2>1. outcome' = [outcome EXCEPT ![c] = [ok |-> last[c] # <<>>, reply |-> last[c]]]
      BY <1>3 DEF Timeout, Return, Set
  <2>2. QED
      BY <1>1, <2>1
<1>4. ASSUME NEW c \in Browsers, SubmitFails(c) \/ Send(c) PROVE FALSE
  <2>1. outcome' = [outcome EXCEPT ![c] = [ok |-> FALSE, reply |-> <<>>]]
      BY <1>4 DEF SubmitFails, Send, Return, Set
  <2>2. QED
      BY <1>1, <2>1
<1>5. ASSUME NEW c \in Browsers, Open(c) \/ Submit(c) \/ Watch(c) PROVE FALSE
    BY <1>5 DEF Open, Submit, Watch
<1>6. ASSUME NEW p \in Payloads, BotStep(p) PROVE FALSE
    BY <1>6, BotFrame
<1>7. ~HeadChanges /\ ~Reload /\ ~UNCHANGED vars
    BY DEF HeadChanges, Reload, vars, scriptVars
<1>8. QED
    BY <1>2, <1>3, <1>4, <1>5, <1>6, <1>7 DEF Next, ScriptStep

\* browserChatJS: nothing is typed into a page that was loaded anew and has not
\* been prepared since, although the Browser has sent before.
THEOREM TypedIfPrepared == Spec => PreparedBeforeTyping
<1>1. ASSUME IInv, [Next]_vars, NEW b \in Browsers, pc[b] # "watch", pc'[b] = "watch"
      PROVE  opens > 0
  <2>1. ASSUME NEW c \in Browsers, NEW l, l # "watch", pc' = [pc EXCEPT ![c] = l] PROVE FALSE
      BY <1>1, <2>1 DEF IInv, TypeOK
  <2>2. ASSUME NEW c \in Browsers, Send(c) \/ Open(c) \/ SubmitFails(c) \/ Settle(c) \/ Timeout(c) PROVE FALSE
      BY <2>1, <2>2 DEF Send, Open, SubmitFails, Settle, Timeout, Return, Set
  <2>3. ASSUME NEW c \in Browsers, Submit(c) PROVE opens > 0
      BY <1>1, <2>3, ReadyOpened DEF Submit
  <2>4. ASSUME NEW c \in Browsers, Watch(c) PROVE FALSE
      BY <1>1, <2>4 DEF Watch
  <2>5. ASSUME NEW p \in Payloads, BotStep(p) PROVE FALSE
      BY <1>1, <2>5, BotFrame
  <2>6. ~HeadChanges /\ ~Reload /\ ~UNCHANGED vars
      BY <1>1 DEF HeadChanges, Reload, vars, scriptVars
  <2>7. QED
      BY <1>1, <2>2, <2>3, <2>4, <2>5, <2>6 DEF Next, ScriptStep
<1>2. IInv /\ [Next]_vars =>
          [\A b \in Browsers : pc[b] # "watch" /\ pc'[b] = "watch" => opens > 0]_vars
    BY <1>1
<1>3. QED
    BY <1>2, Invariance, PTL DEF Spec, PreparedBeforeTyping

-----------------------------------------------------------------------------
(* The answer to a Browser alone.                                          *)

Words(m)  == <<Piece("words", m)>>
First(m)  == <<Piece("first", m)>>
Second(m) == <<Piece("second", m)>>

\* How an answer to m may begin.
Quotes(m) == IF "quotes" \in world.faults THEN {<<>>, Words(m)} ELSE {<<>>}

\* How far the exchange of payload m has come: the echo the page shows, and the
\* answer.
Stage(m, echo, a) ==
    \/ toEcho = {m} /\ toAnswer = {m} /\ answering = {} /\ echo = <<>> /\ a = <<>>
    \/ toEcho = {} /\ toAnswer = {m} /\ answering = {} /\ echo = Words(m) /\ a = <<>>
    \/ /\ toEcho = {} /\ toAnswer = {} /\ answering = {m} /\ echo = Words(m)
       /\ \E quote \in Quotes(m) : a = quote \o First(m)
    \/ toEcho = {} /\ toAnswer = {} /\ answering = {} /\ echo = Words(m) /\ a \in Answers(m)

\* What has been added to the page since b's snapshot is the exchange.
TextSince(b, echo, a) ==
    \E old \in Seq(Pieces) : /\ beforeText[b] = head \o old
                             /\ transcript = old \o (echo \o a)
                             /\ \A i \in 1 .. Len(old) : old[i].of # msg[b]

BubblesSince(b, a) ==
    /\ \A k \in 1 .. beforeCount[b] : bubbles[k].of # msg[b]
    /\ Len(bubbles) = beforeCount[b] + (IF a = <<>> THEN 0 ELSE 1)
    /\ a # <<>> => bubbles[beforeCount[b] + 1] = [of |-> msg[b], text |-> a]

Since(b, echo, a) ==
    /\ world.mode = "diff" => TextSince(b, echo, a)
    /\ world.mode = "bubbles" => BubblesSince(b, a)

Exchange(b) ==
    Undisturbed(b) =>
        /\ pc[b] # "watch" => toEcho = {} /\ toAnswer = {} /\ answering = {}
        /\ pc[b] = "watch" => \E echo, a \in Seq(Pieces) : Stage(msg[b], echo, a) /\ Since(b, echo, a)

Conversation ==
    \A b \in Browsers :
        /\ Exchange(b)
        /\ Undisturbed(b) /\ outcome[b].ok => \E a \in Answers(msg[b]) : outcome[b].reply = <<a>>

\* The texts of an exchange are texts.
LEMMA ExchangeTyped ==
    ASSUME TypeOK, NEW b \in Browsers
    PROVE  /\ Words(msg[b]) \in Seq(Pieces) /\ First(msg[b]) \in Seq(Pieces) /\ Second(msg[b]) \in Seq(Pieces)
           /\ Quotes(msg[b]) \subseteq Seq(Pieces)
           /\ \A quote \in Quotes(msg[b]) :
                 /\ quote \o First(msg[b]) \in Seq(Pieces) /\ quote \o First(msg[b]) # <<>>
                 /\ (quote \o First(msg[b])) \o Second(msg[b]) \in Answers(msg[b])
           /\ \A a \in Answers(msg[b]) :
                 /\ a \in Seq(Pieces) /\ a # <<>>
                 /\ \E quote \in Quotes(msg[b]) : a = (quote \o First(msg[b])) \o Second(msg[b])
<1> DEFINE m == msg[b]
<1>1. m \in Nat
    BY DEF TypeOK
<1>2. Piece("words", m) \in Pieces /\ Piece("first", m) \in Pieces /\ Piece("second", m) \in Pieces
    BY <1>1 DEF Piece, Pieces
<1> HIDE DEF m
<1>3. /\ Words(m) \in Seq(Pieces) /\ First(m) \in Seq(Pieces) /\ Second(m) \in Seq(Pieces)
      /\ <<>> \in Seq(Pieces) /\ First(m) # <<>> /\ Second(m) # <<>>
    BY <1>2 DEF Words, First, Second
<1>4. Quotes(m) \subseteq Seq(Pieces)
    BY <1>3 DEF Quotes
<1>5. First(m) \o Second(m) = <<Piece("first", m), Piece("second", m)>>
  <2> DEFINE f == Piece("first", m)
             g == Piece("second", m)
  <2>1. f \in Pieces /\ g \in Pieces
      BY <1>2
  <2> HIDE DEF f, g
  <2>2. /\ <<f>> \in Seq(Pieces) /\ <<g>> \in Seq(Pieces) /\ <<f, g>> \in Seq(Pieces)
        /\ Len(<<f>>) = 1 /\ Len(<<g>>) = 1 /\ Len(<<f, g>>) = 2
      BY <2>1
  <2>3. /\ <<f>> \o <<g>> \in Seq(Pieces) /\ Len(<<f>> \o <<g>>) = 2
        /\ \A i \in 1 .. 2 : (<<f>> \o <<g>>)[i] = <<f, g>>[i]
      BY <2>2, ConcatProperties
  <2>4. <<f>> \o <<g>> = <<f, g>>
      BY <2>2, <2>3, SeqEqual
  <2>5. QED
      BY <2>4 DEF f, g, First, Second
<1>6. Answers(m) = {quote \o (First(m) \o Second(m)) : quote \in Quotes(m)}
    BY <1>5 DEF Answers, Quotes, Words
<1>7. ASSUME NEW quote \in Quotes(m)
      PROVE  /\ quote \o First(m) \in Seq(Pieces) /\ quote \o First(m) # <<>>
             /\ (quote \o First(m)) \o Second(m) = quote \o (First(m) \o Second(m))
             /\ (quote \o First(m)) \o Second(m) \in Seq(Pieces)
             /\ (quote \o First(m)) \o Second(m) # <<>>
  <2>1. quote \in Seq(Pieces)
      BY <1>4
  <2>2. quote \o First(m) \in Seq(Pieces) /\ quote \o First(m) # <<>>
      BY <1>3, <2>1, ConcatProperties, ConcatEqualIffEmpty
  <2>3. (quote \o First(m)) \o Second(m) \in Seq(Pieces) /\ (quote \o First(m)) \o Second(m) # <<>>
      BY <1>3, <2>2, ConcatProperties, ConcatEqualIffEmpty
  <2>4. (quote \o First(m)) \o Second(m) = quote \o (First(m) \o Second(m))
      BY <1>3, <2>1, ConcatAssociative, SMTT(30)
  <2>5. QED
      BY <2>2, <2>3, <2>4
<1>8. ASSUME NEW quote \in Quotes(m)
      PROVE  (quote \o First(m)) \o Second(m) \in Answers(m)
    BY <1>6, <1>7
<1>9. ASSUME NEW a \in Answers(m)
      PROVE  /\ a \in Seq(Pieces) /\ a # <<>>
             /\ \E quote \in Quotes(m) : a = (quote \o First(m)) \o Second(m)
    BY <1>6, <1>7
<1>10. QED
    BY <1>3, <1>4, <1>7, <1>8, <1>9 DEF m

\* What follows a transcript is what is appended to the text of the page.
LEMMA TranscriptRead ==
    ASSUME NEW h \in Seq(Pieces), NEW old \in Seq(Pieces), NEW new \in Seq(Pieces)
    PROVE  Appended((h \o (old \o new)) \o <<>>, h \o old) = new
<1>1. h \o old \in Seq(Pieces)
    BY ConcatProperties
<1>2. h \o (old \o new) = (h \o old) \o new
    BY ConcatAssociative, SMTT(30)
<1> DEFINE t == h \o old
<1> HIDE DEF t
<1>3. t \o new \in Seq(Pieces) /\ t \in Seq(Pieces)
    BY <1>1, ConcatProperties DEF t
<1>4. (t \o new) \o <<>> = t \o new
    BY <1>3, ConcatEmptySeq
<1>5. Appended((t \o new) \o <<>>, t) = new
    BY <1>3, <1>4, AppendedRead
<1>6. QED
    BY <1>2, <1>5 DEF t

\* What the script reads of an exchange: no text, or the answer without the
\* words of the payload.
LEMMA ExchangeRead ==
    ASSUME IInv, NEW b \in Browsers, Undisturbed(b), pc[b] = "watch",
           NEW echo \in Seq(Pieces), NEW a \in Seq(Pieces), Since(b, echo, a), Stage(msg[b], echo, a)
    PROVE  \/ world.mode = "diff" /\ NewText(b) = Passage(a)
           \/ world.mode = "bubbles" /\ NewText(b) = WithoutEcho(Passage(a), msg[b])
<1>1. Words(msg[b]) \in Seq(Pieces)
    BY ExchangeTyped DEF IInv
<1>2. CASE world.mode = "diff"
  <2>1. PICK old \in Seq(Pieces) : beforeText[b] = head \o old /\ transcript = old \o (echo \o a)
      BY <1>2 DEF Since, TextSince
  <2>2. "footer" \notin world.faults
      BY <1>2 DEF Undisturbed
  <2>3. head \in Seq(Pieces)
      BY PageAssumption, SeenPieces, SeqMonotonic DEF IInv, TypeOK
  <2> DEFINE new == echo \o a
  <2>4. new \in Seq(Pieces)
      BY ConcatProperties
  <2> HIDE DEF new
  <2>5. PageText = (head \o (old \o new)) \o <<>>
      BY <2>1, <2>2 DEF PageText, new
  <2>6. Appended(PageText, beforeText[b]) = new
      BY <2>1, <2>3, <2>4, <2>5, TranscriptRead
  <2>7. NewText(b) = WithoutEcho(Passage(new), msg[b])
      BY <1>2, <2>6 DEF NewText
  <2>8. CASE echo = Words(msg[b])
    <3>1. new # <<>>
        BY <1>1, <2>8, ConcatEqualIffEmpty DEF new, Words
    <3>2. Passage(new) = <<Words(msg[b]) \o a>>
        BY <2>8, <3>1 DEF Passage, new
    <3>3. Piece("words", msg[b]) \in Pieces
        BY DEF IInv, TypeOK, Piece, Pieces
    <3>4. WithoutEcho(<<Words(msg[b]) \o a>>, msg[b]) = Passage(a)
        BY <3>3, EchoRead DEF Words
    <3>5. QED
        BY <1>2, <2>7, <3>2, <3>4
  <2>9. CASE echo = <<>> /\ a = <<>>
    <3>1. new = <<>>
        BY <2>9, ConcatEmptySeq DEF new
    <3>2. Passage(new) = <<>> /\ Passage(a) = <<>>
        BY <2>9, <3>1 DEF Passage
    <3>3. QED
        BY <1>2, <2>7, <3>2 DEF WithoutEcho
  <2>10. QED
      BY <2>8, <2>9 DEF Stage
<1>3. CASE world.mode = "bubbles"
  <2> DEFINE n == beforeCount[b]
             texts == [k \in 1 .. Len(bubbles) - n |-> bubbles[n + k].text]
  <2>1. n \in Nat
      BY DEF IInv, TypeOK
  <2>2. NewText(b) = WithoutEcho(texts, msg[b])
      BY <1>3 DEF NewText
  <2>3. CASE a = <<>>
    <3>1. Len(bubbles) - n = 0
        BY <1>3, <2>1, <2>3 DEF Since, BubblesSince
    <3>2. texts = <<>>
        BY <3>1
    <3>3. QED
        BY <1>3, <2>2, <2>3, <3>2 DEF Passage
  <2>4. CASE a # <<>>
    <3>1. Len(bubbles) - n = 1 /\ bubbles[n + 1].text = a
        BY <1>3, <2>1, <2>4 DEF Since, BubblesSince
    <3>2. texts = <<a>>
        BY <3>1
    <3>3. QED
        BY <1>3, <2>2, <2>4, <3>2 DEF Passage
  <2>5. QED
      BY <2>3, <2>4
<1>4. QED
    BY <1>2, <1>3, Modes DEF IInv

\* A bubble that quotes the payload is an answer without the quote as well.
LEMMA AnswerRead ==
    ASSUME TypeOK, NEW b \in Browsers, NEW a \in Answers(msg[b])
    PROVE  \E c \in Answers(msg[b]) : WithoutEcho(Passage(a), msg[b]) = <<c>>
<1> DEFINE m == msg[b]
           w == Piece("words", m)
           f == Piece("first", m)
           g == Piece("second", m)
<1>1. a # <<>> /\ Passage(a) = <<a>>
    BY ExchangeTyped DEF Passage
<1>2. m \in Nat
    BY DEF TypeOK
<1>3. w \in Pieces /\ f \in Pieces /\ g \in Pieces /\ w # f
    BY <1>2 DEF Piece, Pieces
<1>4. \/ a = <<>> \o <<f, g>>
      \/ "quotes" \in world.faults /\ a = <<w>> \o <<f, g>>
    BY DEF Answers
<1>5. <<>> \o <<f, g>> \in Answers(m)
    BY DEF Answers
<1> HIDE DEF m, w, f, g
<1>6. <<f, g>> \in Seq(Pieces) /\ <<f, g>> # <<>>
    BY <1>3
<1>7. <<>> \o <<f, g>> = <<f, g>>
    BY <1>6, ConcatEmptySeq
<1>8. CASE a = <<f, g>>
  <2>1. ~IsPrefix(<<w>>, <<f, g>>)
    <3>1. Len(<<w>>) = 1 /\ SubSeq(<<w>>, 1, 1)[1] = w
        BY <1>3, SubSeqProperties
    <3>2. Len(<<f, g>>) = 2 /\ SubSeq(<<f, g>>, 1, 1)[1] = f
        BY <1>3, SubSeqProperties
    <3>3. QED
        BY <1>3, <3>1, <3>2 DEF IsPrefix
  <2>2. Head(<<a>>) = <<f, g>>
      BY <1>8
  <2>3. WithoutEcho(<<a>>, m) = <<a>>
      BY <2>1, <2>2 DEF WithoutEcho, w
  <2>4. QED
      BY <1>1, <1>5, <1>7, <1>8, <2>3 DEF m
<1>9. CASE a = <<w>> \o <<f, g>>
  <2>1. WithoutEcho(<<a>>, m) = Passage(<<f, g>>)
      BY <1>3, <1>6, <1>9, EchoRead DEF w
  <2>2. Passage(<<f, g>>) = <<<<f, g>>>>
      BY <1>6 DEF Passage
  <2>3. QED
      BY <1>1, <1>5, <1>7, <2>1, <2>2 DEF m
<1>10. QED
    BY <1>4, <1>7, <1>8, <1>9

\* When the text of an exchange has settled, it is the whole answer.
LEMMA SettledWhole ==
    ASSUME IInv, NEW b \in Browsers, Undisturbed(b), Exchange(b), Settle(b)
    PROVE  (\E a \in Answers(msg[b]) : last[b] = <<a>>) /\ toEcho = {} /\ toAnswer = {}
<1>1. /\ pc[b] = "watch" /\ last[b] # <<>> /\ NewText(b) = last[b] /\ answering = {}
    BY DEF Settle, Undisturbed
<1>2. PICK echo, a \in Seq(Pieces) : Stage(msg[b], echo, a) /\ Since(b, echo, a)
    BY <1>1 DEF Exchange
<1>3. \/ world.mode = "diff" /\ last[b] = Passage(a)
      \/ world.mode = "bubbles" /\ last[b] = WithoutEcho(Passage(a), msg[b])
    BY <1>1, <1>2, ExchangeRead
<1>4. a # <<>>
  <2> SUFFICES ASSUME a = <<>> PROVE FALSE
      OBVIOUS
  <2>1. Passage(a) = <<>> /\ WithoutEcho(<<>>, msg[b]) = <<>>
      BY DEF Passage, WithoutEcho
  <2>2. QED
      BY <1>1, <1>3, <2>1
<1>5. a \in Answers(msg[b]) /\ toEcho = {} /\ toAnswer = {}
    BY <1>1, <1>2, <1>4 DEF Stage
<1>6. Passage(a) = <<a>>
    BY <1>4 DEF Passage
<1>7. \E c \in Answers(msg[b]) : WithoutEcho(Passage(a), msg[b]) = <<c>>
    BY <1>5, AnswerRead DEF IInv
<1>8. QED
    BY <1>3, <1>5, <1>6, <1>7

\* Texts in a row are joined in any order.
RowJoined(s, t, u, v) == (s \o (t \o u)) \o v = s \o (t \o (u \o v))

LEMMA Joined ==
    ASSUME NEW s \in Seq(Pieces), NEW t \in Seq(Pieces), NEW u \in Seq(Pieces), NEW v \in Seq(Pieces)
    PROVE  RowJoined(s, t, u, v)
<1> DEFINE w == t \o u
<1>1. w \in Seq(Pieces)
    BY ConcatProperties
<1>2. w \o v = t \o (u \o v)
    BY ConcatAssociative, SMTT(30)
<1> HIDE DEF w
<1>3. (s \o w) \o v = s \o (w \o v)
    BY <1>1, ConcatAssociative
<1>4. QED
    BY <1>2, <1>3 DEF w, RowJoined

Chained(s, t, u) == (s \o t) \o u = s \o (t \o u)

LEMMA Chain ==
    ASSUME NEW s \in Seq(Pieces), NEW t \in Seq(Pieces), NEW u \in Seq(Pieces)
    PROVE  Chained(s, t, u)
BY ConcatAssociative DEF Chained

\* What is shown next is the echo, or more of the answer.
Follows(echo, a, shown, echo1, a1) ==
    \/ echo = <<>> /\ a = <<>> /\ echo1 = shown /\ a1 = <<>>
    \/ echo1 = echo /\ a1 = a \o shown

\* What the page shows next of an exchange follows what it has shown.
LEMMA TextGoesOn ==
    ASSUME IInv, NEW b \in Browsers, NEW echo \in Seq(Pieces), NEW a \in Seq(Pieces),
           TextSince(b, echo, a), NEW shown \in Seq(Pieces), transcript' = transcript \o shown,
           UNCHANGED <<msg, beforeText, head>>,
           NEW echo1 \in Seq(Pieces), NEW a1 \in Seq(Pieces),
           Follows(echo, a, shown, echo1, a1)
    PROVE  TextSince(b, echo1, a1)'
<1>1. PICK old \in Seq(Pieces) : /\ beforeText[b] = head \o old
                                 /\ transcript = old \o (echo \o a)
                                 /\ \A i \in 1 .. Len(old) : old[i].of # msg[b]
    BY DEF TextSince
<1>2. RowJoined(old, echo, a, shown)
    BY Joined, Zenon
<1>3. CASE echo = <<>> /\ a = <<>> /\ echo1 = shown /\ a1 = <<>>
  <2>1. a \o shown = shown /\ echo \o shown = shown /\ shown \o a1 = shown
      BY <1>3, ConcatEmptySeq
  <2>2. transcript' = old \o (echo1 \o a1)
      BY <1>1, <1>2, <1>3, <2>1 DEF RowJoined
  <2>3. QED
      BY <1>1, <2>2 DEF TextSince
<1>4. CASE echo1 = echo /\ a1 = a \o shown
  <2>1. transcript' = old \o (echo1 \o a1)
      BY <1>1, <1>2, <1>4 DEF RowJoined
  <2>2. QED
      BY <1>1, <2>1 DEF TextSince
<1>5. QED
    BY <1>3, <1>4 DEF Follows

\* The first part of an answer is shown once, at the end of what the page shows
\* of the exchange: that is where the second part goes.
LEMMA EndsAtEnd ==
    ASSUME IInv, NEW b \in Browsers, NEW quote \in Quotes(msg[b]),
           TextSince(b, Words(msg[b]), quote \o First(msg[b])), NEW i \in DOMAIN transcript,
           transcript[i] = Piece("first", msg[b])
    PROVE  InsertAt(transcript, i + 1, Piece("second", msg[b])) = transcript \o Second(msg[b])
<1> DEFINE m == msg[b]
           w == Piece("words", m)
           f == Piece("first", m)
           g == Piece("second", m)
<1>1. m \in Nat /\ w \in Pieces /\ f \in Pieces /\ g \in Pieces /\ w # f /\ f.of = m
    BY DEF IInv, TypeOK, Piece, Pieces
<1>2. PICK old \in Seq(Pieces) : /\ transcript = old \o (<<w>> \o (quote \o <<f>>))
                                 /\ \A k \in 1 .. Len(old) : old[k].of # m
    BY DEF TextSince, Words, First
<1>3. quote = <<>> \/ quote = <<w>>
    BY DEF Quotes, Words
<1>4. transcript[i] = f /\ i \in DOMAIN transcript
    OBVIOUS
<1>5. /\ transcript \in Seq(Pieces) /\ Len(transcript) \in Nat /\ DOMAIN transcript = 1 .. Len(transcript)
    BY LenProperties DEF IInv, TypeOK
<1> HIDE DEF m, w, f, g
<1> DEFINE start == old \o (<<w>> \o quote)
<1>6. quote \in Seq(Pieces) /\ <<f>> \in Seq(Pieces) /\ <<w>> \in Seq(Pieces)
  <2>1. <<>> \in Seq(Pieces)
      BY EmptySeq
  <2>2. <<f>> \in Seq(Pieces) /\ <<w>> \in Seq(Pieces)
      BY <1>1
  <2>3. QED
      BY <1>3, <2>1, <2>2
<1>7. <<w>> \o quote \in Seq(Pieces) /\ \A k \in 1 .. Len(<<w>> \o quote) : (<<w>> \o quote)[k] = w
  <2>1. CASE quote = <<>>
    <3>1. <<w>> \o quote = <<w>>
        BY <1>6, <2>1, ConcatEmptySeq
    <3>2. QED
        BY <1>6, <3>1
  <2>2. CASE quote = <<w>>
    <3>1. /\ <<w>> \o <<w>> \in Seq(Pieces) /\ Len(<<w>> \o <<w>>) = 2
          /\ \A k \in 1 .. 2 : (<<w>> \o <<w>>)[k] = w
      <4>1. Len(<<w>>) = 1 /\ <<w>>[1] = w
          OBVIOUS
      <4>2. QED
          BY <1>6, <4>1, ConcatProperties
    <3>2. QED
        BY <2>2, <3>1
  <2>3. QED
      BY <1>3, <2>1, <2>2
<1>8. transcript = start \o <<f>>
    BY <1>2, <1>6, ConcatAssociative
<1> DEFINE l == Len(start)
<1>9. /\ start \in Seq(Pieces) /\ l \in Nat /\ Len(transcript) = l + 1
      /\ \A k \in 1 .. l : transcript[k] = start[k] /\ start[k] # f
  <2>1. /\ start \in Seq(Pieces) /\ l = Len(old) + Len(<<w>> \o quote)
        /\ \A k \in 1 .. Len(old) + Len(<<w>> \o quote) :
              start[k] = IF k <= Len(old) THEN old[k] ELSE (<<w>> \o quote)[k - Len(old)]
      BY <1>7, ConcatProperties
  <2>2. Len(old) \in Nat /\ Len(<<w>> \o quote) \in Nat
      BY <1>7, LenProperties
  <2>3. ASSUME NEW k \in 1 .. l PROVE start[k] # f
    <3>1. CASE k <= Len(old)
      <4>1. k \in 1 .. Len(old) /\ start[k] = old[k]
          BY <2>1, <2>2, <2>3, <3>1
      <4>2. QED
          BY <1>1, <1>2, <4>1
    <3>2. CASE ~(k <= Len(old))
      <4>1. k - Len(old) \in 1 .. Len(<<w>> \o quote) /\ start[k] = (<<w>> \o quote)[k - Len(old)]
          BY <2>1, <2>2, <2>3, <3>2
      <4>2. QED
          BY <1>1, <1>7, <4>1
    <3>3. QED
        BY <3>1, <3>2
  <2> HIDE DEF start
  <2>4. l \in Nat
      BY <2>1, LenProperties
  <2>5. Len(<<f>>) = 1
      OBVIOUS
  <2> HIDE DEF l
  <2>6. Len(transcript) = l + 1 /\ \A k \in 1 .. l + 1 :
            transcript[k] = IF k <= l THEN start[k] ELSE <<f>>[k - l]
    <3>1. start \in Seq(Pieces)
        BY <2>1
    <3>2. l = Len(start)
        BY DEF l
    <3>3. QED
        BY <1>6, <1>8, <2>5, <3>1, <3>2, ConcatProperties
  <2>7. QED
      BY <2>1, <2>3, <2>4, <2>6, SMTT(30)
<1> HIDE DEF start, l
<1>10. i = Len(transcript)
    BY <1>4, <1>5, <1>9
<1>11. i + 1 - 1 = i /\ i + 1 > Len(transcript) /\ i + 1 \in Int /\ Len(transcript) \in Int
    BY <1>5, <1>10
<1>12. SubSeq(transcript, 1, i) = transcript /\ SubSeq(transcript, i + 1, Len(transcript)) = <<>>
    BY <1>5, <1>10, <1>11, SubSeqFull, SubSeqEmpty
<1> DEFINE j == i + 1
<1>13. j - 1 = i /\ SubSeq(transcript, j, Len(transcript)) = <<>>
    BY <1>11, <1>12
<1> HIDE DEF j
<1>14. InsertAt(transcript, j, g) = SubSeq(transcript, 1, j - 1) \o <<g>> \o SubSeq(transcript, j, Len(transcript))
    BY DEF InsertAt
<1>15. transcript \o <<g>> \in Seq(Pieces)
    BY <1>1, <1>5, ConcatProperties
<1>16. InsertAt(transcript, j, g) = transcript \o <<g>>
    BY <1>12, <1>13, <1>14, <1>15, ConcatEmptySeq
<1>17. QED
    BY <1>16 DEF j, g, m, Second

\* A bubble grows.
Bubble(m, s)   == [of |-> m, text |-> s]
Grows(r, e)    == [r EXCEPT !.text = Append(@, e)]

LEMMA BubbleGrows ==
    ASSUME NEW m, NEW s, NEW e
    PROVE  Grows(Bubble(m, s), e) = Bubble(m, Append(s, e))
<1> DEFINE rec == [of |-> m, text |-> s]
           new == Append(s, e)
<1>1. [rec EXCEPT !.text = Append(@, e)] = [rec EXCEPT !.text = new]
    OBVIOUS
<1> HIDE DEF new
<1>2. [rec EXCEPT !.text = new] = [of |-> m, text |-> new]
    OBVIOUS
<1>3. QED
    BY <1>1, <1>2 DEF new, Bubble, Grows

\* A step of the page or the bot is the next stage of the exchange under way.
LEMMA ExchangeGoesOn ==
    ASSUME IInv, NEW b \in Browsers, Exchange(b), NEW p \in Payloads, BotStep(p)
    PROVE  Exchange(b)'
<1> DEFINE m == msg[b]
<1>1. /\ UNCHANGED <<pc, msg, beforeCount, beforeText, head, world>>
      /\ Undisturbed(b)' <=> Undisturbed(b)
    BY BotFrame DEF Undisturbed
<1> SUFFICES ASSUME Undisturbed(b)
             PROVE  /\ pc[b] = "watch"
                    /\ \E echo, a \in Seq(Pieces) : Stage(m, echo, a)' /\ Since(b, echo, a)'
    BY <1>1 DEF Exchange
<1>2. pc[b] = "watch"
    BY DEF Exchange, BotStep, Echo, BeginAnswer, EndAnswer
<1>3. PICK echo, a \in Seq(Pieces) : Stage(m, echo, a) /\ Since(b, echo, a)
    BY <1>2 DEF Exchange
<1>4. /\ Words(m) \in Seq(Pieces) /\ First(m) \in Seq(Pieces) /\ Second(m) \in Seq(Pieces)
      /\ Quotes(m) \subseteq Seq(Pieces) /\ m' = m /\ Answers(m)' = Answers(m) /\ Quotes(m)' = Quotes(m)
    BY <1>1, ExchangeTyped, ZenonT(30) DEF IInv, Answers, Quotes
<1>5. /\ \A quote \in Quotes(m) : /\ quote \o First(m) \in Seq(Pieces) /\ quote \o First(m) # <<>>
                                  /\ (quote \o First(m)) \o Second(m) \in Answers(m)
      /\ \A c \in Answers(m) : c \in Seq(Pieces) /\ c # <<>>
    BY ExchangeTyped DEF IInv
<1>6. Words(m)' = Words(m) /\ First(m)' = First(m) /\ Second(m)' = Second(m)
    BY <1>4 DEF Words, First, Second, Piece
<1>7. <<>> \in Seq(Pieces)
    BY EmptySeq
<1>8. transcript \in Seq(Pieces) /\ Len(bubbles) \in Nat /\ beforeCount[b] \in Nat
    BY LenProperties DEF IInv, TypeOK
<1>9. CASE toEcho = {m} /\ toAnswer = {m} /\ answering = {} /\ echo = <<>> /\ a = <<>>
  <2>1. Echo(p) /\ p = m
      BY <1>9 DEF BotStep, Echo, BeginAnswer, EndAnswer
  <2>2. /\ toEcho' = {} /\ toAnswer' = {m} /\ answering' = {} /\ bubbles' = bubbles
        /\ transcript' = transcript \o Words(m)
      BY <1>4, <1>8, <1>9, <2>1, AppendIsConcat DEF Echo, Words, IInv, TypeOK, Piece, Pieces
  <2>3. Stage(m, Words(m), <<>>)'
      BY <1>4, <1>6, <2>2 DEF Stage
  <2>4. Follows(echo, a, Words(m), Words(m), <<>>)
      BY <1>9 DEF Follows
  <2>5. world.mode = "diff" => TextSince(b, Words(m), <<>>)'
      BY <1>1, <1>3, <1>4, <1>7, <2>2, <2>4, TextGoesOn DEF Since
  <2>6. world.mode = "bubbles" => BubblesSince(b, <<>>)'
      BY <1>1, <1>3, <1>9, <2>2 DEF Since, BubblesSince
  <2>7. Since(b, Words(m), <<>>)'
      BY <1>1, <2>5, <2>6 DEF Since
  <2>8. QED
      BY <1>2, <1>4, <1>7, <2>3, <2>7
<1>10. CASE toEcho = {} /\ toAnswer = {m} /\ answering = {} /\ echo = Words(m) /\ a = <<>>
  <2>1. BeginAnswer(p) /\ p = m
      BY <1>10 DEF BotStep, Echo, BeginAnswer, EndAnswer
  <2>2. PICK quote \in Quotes(m) : /\ transcript' = transcript \o quote \o First(m)
                                   /\ bubbles' = Append(bubbles, [of |-> m, text |-> quote \o First(m)])
      BY <2>1 DEF BeginAnswer, Quotes, Words, First
  <2>3. toEcho' = {} /\ toAnswer' = {} /\ answering' = {m}
      BY <1>10, <2>1 DEF BeginAnswer
  <2>4. PICK c \in Seq(Pieces) : c = quote \o First(m) /\ c # <<>>
      BY <1>5
  <2> DEFINE bubble == [of |-> m, text |-> c]
  <2>5. Stage(m, Words(m), c)'
      BY <1>4, <1>6, <2>3, <2>4 DEF Stage
  <2>6. transcript' = transcript \o c
    <3>1. Chained(transcript, quote, First(m))
        BY <1>4, <1>8, Chain, Zenon
    <3>2. QED
        BY <2>2, <2>4, <3>1 DEF Chained
  <2>7. bubbles' = Append(bubbles, bubble) /\ bubbles \in Seq([of : Payloads, text : Seq(Pieces)])
        /\ bubble \in [of : Payloads, text : Seq(Pieces)]
      BY <2>1, <2>2, <2>4 DEF IInv, TypeOK
  <2>8. a \o c = c
      BY <1>10, <2>4, ConcatEmptySeq
  <2>9. Follows(echo, a, c, Words(m), c)
      BY <1>10, <2>8 DEF Follows
  <2>10. world.mode = "diff" => TextSince(b, Words(m), c)'
      BY <1>1, <1>3, <1>4, <1>6, <1>10, <2>4, <2>6, <2>9, TextGoesOn DEF Since
  <2>11. ASSUME world.mode = "bubbles" PROVE BubblesSince(b, c)'
    <3>1. Len(bubbles) = beforeCount[b] /\ \A k \in 1 .. beforeCount[b] : bubbles[k].of # m
        BY <1>3, <1>8, <1>10, <2>11 DEF Since, BubblesSince
    <3> HIDE DEF bubble
    <3>2. /\ Len(bubbles') = Len(bubbles) + 1 /\ bubbles'[Len(bubbles) + 1] = bubble
          /\ \A k \in 1 .. Len(bubbles) : bubbles'[k] = bubbles[k]
        BY <2>7, AppendProperties
    <3>3. QED
        BY <1>1, <1>4, <1>8, <2>4, <3>1, <3>2 DEF BubblesSince, bubble
  <2>12. Since(b, Words(m), c)'
      BY <1>1, <2>10, <2>11 DEF Since
  <2>13. QED
      BY <1>2, <1>4, <2>4, <2>5, <2>12
<1>11. CASE /\ toEcho = {} /\ toAnswer = {} /\ answering = {m} /\ echo = Words(m)
            /\ \E quote \in Quotes(m) : a = quote \o First(m)
  <2>1. EndAnswer(p) /\ p = m
      BY <1>11 DEF BotStep, Echo, BeginAnswer, EndAnswer
  <2>2. PICK quote \in Quotes(m) : a = quote \o First(m)
      BY <1>11
  <2>3. toEcho' = {} /\ toAnswer' = {} /\ answering' = {}
      BY <1>11, <2>1 DEF EndAnswer
  <2>4. PICK c \in Answers(m) : c = a \o Second(m) /\ c \in Seq(Pieces) /\ c # <<>> /\ a # <<>>
      BY <1>5, <2>2
  <2>5. Stage(m, Words(m), c)'
      BY <1>4, <1>6, <2>3, <2>4 DEF Stage
  <2>6. ASSUME world.mode = "diff" PROVE TextSince(b, Words(m), c)'
    <3>1. TextSince(b, Words(m), a)
        BY <1>3, <1>11, <2>6 DEF Since
    <3>2. PICK i \in DOMAIN transcript : /\ transcript[i] = Piece("first", m)
                                         /\ transcript' = InsertAt(transcript, i + 1, Piece("second", m))
        BY <2>1 DEF EndAnswer
    <3>3. transcript' = transcript \o Second(m)
        BY <2>2, <3>1, <3>2, EndsAtEnd
    <3>4. Follows(Words(m), a, Second(m), Words(m), c)
        BY <2>4 DEF Follows
    <3>5. QED
        BY <1>1, <1>4, <1>6, <2>4, <3>1, <3>3, <3>4, TextGoesOn
  <2>7. ASSUME world.mode = "bubbles" PROVE BubblesSince(b, c)'
    <3> DEFINE n == beforeCount[b]
               Grown(k) == IF bubbles[k].of = m THEN [bubbles[k] EXCEPT !.text = Append(@, Piece("second", m))]
                                                ELSE bubbles[k]
    <3>1. Len(bubbles) = n + 1 /\ bubbles[n + 1] = [of |-> m, text |-> a]
          /\ \A k \in 1 .. n : bubbles[k].of # m
        BY <1>3, <2>4, <2>7 DEF Since, BubblesSince
    <3>2. DOMAIN bubbles = 1 .. Len(bubbles)
        BY LenProperties DEF IInv, TypeOK
    <3>3. bubbles' = [k \in 1 .. n + 1 |-> Grown(k)]
        BY <2>1, <3>1, <3>2 DEF EndAnswer
    <3>4. Append(a, Piece("second", m)) = c
        BY <2>4, AppendIsConcat, SMTT(30) DEF Second, IInv, TypeOK, Piece, Pieces
    <3>5. Grown(n + 1) = [of |-> m, text |-> c]
      <4>1. bubbles[n + 1].of = m /\ bubbles[n + 1] = [of |-> m, text |-> a]
          BY <3>1
      <4> DEFINE g == Piece("second", m)
      <4>2. Grows(Bubble(m, a), g) = Bubble(m, Append(a, g))
          BY BubbleGrows
      <4>3. Grown(n + 1) = Grows(bubbles[n + 1], g)
          BY <4>1 DEF Grows
      <4>4. bubbles[n + 1] = Bubble(m, a)
          BY <4>1 DEF Bubble
      <4> HIDE DEF Grown
      <4>5. Grown(n + 1) = Bubble(m, c)
          BY <3>4, <4>2, <4>3, <4>4
      <4>6. QED
          BY <4>5 DEF Bubble
    <3>6. \A k \in 1 .. n : Grown(k).of # m
        BY <3>1
    <3> HIDE DEF Grown
    <3>7. Len(bubbles') = n + 1 /\ bubbles'[n + 1] = [of |-> m, text |-> c]
          /\ \A k \in 1 .. n : bubbles'[k].of # m
        BY <1>8, <3>3, <3>5, <3>6
    <3>8. QED
        BY <1>1, <1>4, <2>4, <3>7 DEF BubblesSince
  <2>8. Since(b, Words(m), c)'
      BY <1>1, <2>6, <2>7 DEF Since
  <2>9. QED
      BY <1>2, <1>4, <2>4, <2>5, <2>8
<1>12. ~(toEcho = {} /\ toAnswer = {} /\ answering = {})
    BY DEF BotStep, Echo, BeginAnswer, EndAnswer
<1>13. QED
    BY <1>3, <1>9, <1>10, <1>11, <1>12 DEF Stage

\* A scan is what it is from the start, and so is the page of an undisturbed one.
LEMMA WorldKept ==
    ASSUME [Next]_vars
    PROVE  world' = world /\ \A b \in Browsers : Undisturbed(b)' <=> Undisturbed(b)
<1>1. ASSUME NEW b \in Browsers, Send(b) \/ ScriptStep(b) PROVE world' = world
    BY <1>1 DEF Send, ScriptStep, Open, Submit, SubmitFails, Watch, Settle, Timeout
<1>2. ASSUME NEW p \in Payloads, BotStep(p) PROVE world' = world
    BY <1>2 DEF BotStep, Echo, BeginAnswer, EndAnswer
<1>3. world' = world
    BY <1>1, <1>2 DEF Next, HeadChanges, Reload, vars
<1>4. QED
    BY <1>3 DEF Undisturbed

\* An exchange stays as it is while page and script do.
LEMMA ExchangeStays ==
    ASSUME NEW b \in Browsers, Exchange(b), UNCHANGED <<toEcho, toAnswer, answering, world>>,
           pc'[b] = "watch" <=> pc[b] = "watch",
           pc[b] = "watch" => /\ msg'[b] = msg[b] /\ beforeCount'[b] = beforeCount[b]
                              /\ beforeText'[b] = beforeText[b] /\ bubbles' = bubbles
                              /\ world.mode = "diff" => transcript' = transcript /\ head' = head
    PROVE  Exchange(b)'
<1>1. Undisturbed(b)' <=> Undisturbed(b)
    BY DEF Undisturbed
<1>2. CASE pc[b] = "watch"
  <2>1. ASSUME NEW echo \in Seq(Pieces), NEW a \in Seq(Pieces), Since(b, echo, a), Stage(msg[b], echo, a)
        PROVE  Since(b, echo, a)' /\ Stage(msg[b], echo, a)'
    <3>1. Answers(msg[b])' = Answers(msg[b]) /\ Quotes(msg[b])' = Quotes(msg[b])
          /\ Words(msg[b])' = Words(msg[b]) /\ First(msg[b])' = First(msg[b])
        BY <1>2 DEF Answers, Quotes, Words, First, Piece
    <3>2. Stage(msg[b], echo, a)'
        BY <1>2, <2>1, <3>1 DEF Stage
    <3>3. Since(b, echo, a)'
        BY <1>2, <2>1 DEF Since, TextSince, BubblesSince
    <3>4. QED
        BY <3>2, <3>3
  <2>2. QED
      BY <1>1, <1>2, <2>1 DEF Exchange
<1>3. CASE pc[b] # "watch"
    BY <1>1, <1>3 DEF Exchange
<1>4. QED
    BY <1>2, <1>3

\* The other steps leave the exchange as it is, begin it or end it.
LEMMA ExchangeKept ==
    ASSUME IInv, NEW b \in Browsers, Exchange(b), [Next]_vars
    PROVE  Exchange(b)'
<1>1. ASSUME NEW p \in Payloads, BotStep(p) PROVE Exchange(b)'
    BY <1>1, ExchangeGoesOn
<1>2. ASSUME NEW c \in Browsers, Send(c) \/ Open(c) \/ Watch(c) PROVE Exchange(b)'
    BY <1>2, ExchangeStays DEF Send, Open, Watch, Set, widgetVars, IInv, TypeOK
<1>3. ASSUME NEW c \in Browsers, SubmitFails(c) PROVE Exchange(b)'
    BY <1>3, ExchangeStays DEF SubmitFails, Ready, Return, Set, widgetVars, IInv, TypeOK
<1>4. ASSUME Undisturbed(b), NEW c \in Browsers, pc[c] # "idle" PROVE c = b
    BY <1>4 DEF IInv, Stages, Undisturbed
<1>5. ASSUME NEW c \in Browsers, Submit(c), Undisturbed(b) PROVE Exchange(b)'
  <2> DEFINE m == msg[b]
             n == IF world.mode = "bubbles" THEN Len(bubbles) ELSE 0
             t == IF world.mode = "bubbles" THEN <<>> ELSE PageText
  <2>1. c = b /\ pc[b] # "watch"
      BY <1>4, <1>5 DEF Submit, Ready
  <2>2. /\ beforeCount' = [beforeCount EXCEPT ![b] = n] /\ beforeText' = [beforeText EXCEPT ![b] = t]
        /\ toEcho' = toEcho \cup {m} /\ toAnswer' = toAnswer \cup {m} /\ pc' = [pc EXCEPT ![b] = "watch"]
        /\ UNCHANGED <<msg, head, transcript, bubbles, answering, world>>
      BY <1>5, <2>1 DEF Submit, Set
  <2>3. toEcho' = {m} /\ toAnswer' = {m} /\ answering' = {}
      BY <1>5, <2>1, <2>2 DEF Exchange
  <2>4. m \notin Past
      BY <1>5, <2>1, ReadyOpened DEF Submit
  <2>5. pc'[b] = "watch" /\ beforeCount'[b] = n /\ beforeText'[b] = t /\ msg'[b] = m
      BY <2>2 DEF IInv, TypeOK
  <2>6. <<>> \in Seq(Pieces)
      BY EmptySeq
  <2>7. Stage(m, <<>>, <<>>)'
      BY <2>3, <2>5 DEF Stage
  <2>8. ASSUME world.mode = "diff" PROVE TextSince(b, <<>>, <<>>)'
    <3>1. transcript \in Seq(Pieces) /\ head \in Seq(Pieces)
        BY PageAssumption, SeenPieces, SeqMonotonic DEF IInv, TypeOK
    <3>2. head \o transcript \in Seq(Pieces)
        BY <3>1, ConcatProperties
    <3>3. "footer" \notin world.faults
        BY <1>5, <2>8 DEF Undisturbed
    <3>4. t = head \o transcript
        BY <2>8, <3>2, <3>3, ConcatEmptySeq DEF PageText
    <3>5. transcript \o (<<>> \o <<>>) = transcript
        BY <2>6, <3>1, ConcatEmptySeq
    <3>6. \A i \in 1 .. Len(transcript) : transcript[i].of # m
      <4>1. \A i \in 1 .. Len(transcript) : transcript[i] \in Shown
          BY ElementOfSeq DEF IInv, Page
      <4>2. QED
          BY <2>4, <4>1 DEF Shown, PartsOf
    <3> HIDE DEF t
    <3>7. QED
        BY <2>2, <2>5, <3>1, <3>4, <3>5, <3>6 DEF TextSince
  <2>9. ASSUME world.mode = "bubbles" PROVE BubblesSince(b, <<>>)'
    <3>1. n = Len(bubbles) /\ Len(bubbles) \in Nat
        BY <2>9, LenProperties DEF IInv, TypeOK
    <3>2. \A k \in 1 .. n : bubbles[k].of # m
        BY <2>4, <3>1 DEF IInv, Page
    <3>3. QED
        BY <2>2, <2>5, <3>1, <3>2 DEF BubblesSince
  <2>10. Since(b, <<>>, <<>>)'
      BY <2>2, <2>8, <2>9 DEF Since
  <2>11. QED
      BY <2>5, <2>6, <2>7, <2>10 DEF Exchange
<1>6. ASSUME NEW c \in Browsers, Settle(c), Undisturbed(b) PROVE Exchange(b)'
  <2>1. c = b /\ pc'[b] # "watch" /\ answering' = {} /\ UNCHANGED <<toEcho, toAnswer>>
      BY <1>4, <1>6 DEF Settle, Return, Set, widgetVars, IInv, TypeOK, Undisturbed
  <2>2. toEcho = {} /\ toAnswer = {}
      BY <1>6, <2>1, SettledWhole
  <2>3. QED
      BY <2>1, <2>2 DEF Exchange
<1>7. ASSUME NEW c \in Browsers, Timeout(c) PROVE ~Undisturbed(b)
    BY <1>4, <1>7 DEF Timeout, Undisturbed
<1>8. CASE HeadChanges
  <2>1. Undisturbed(b) => world.mode # "diff"
      BY <1>8 DEF HeadChanges, Undisturbed
  <2>2. ASSUME Undisturbed(b) PROVE Exchange(b)'
      BY <1>8, <2>1, <2>2, ExchangeStays DEF HeadChanges, scriptVars
  <2>3. QED
      BY <2>2, WorldKept DEF Exchange
<1>9. CASE Reload
    BY <1>9 DEF Reload, Exchange
<1>10. CASE UNCHANGED vars
    BY <1>10, ExchangeStays DEF vars, scriptVars, widgetVars
<1>11. ~Undisturbed(b) => Exchange(b)'
    BY WorldKept DEF Exchange
<1>12. QED
    BY <1>1, <1>2, <1>3, <1>5, <1>6, <1>7, <1>8, <1>9, <1>10, <1>11 DEF Next, ScriptStep

\* The payload of a Send that has succeeded is its Browser's until it sends again.
LEMMA PayloadKept ==
    ASSUME IInv, [Next]_vars, NEW b \in Browsers, outcome'[b].ok
    PROVE  msg'[b] = msg[b]
<1>1. ASSUME NEW c \in Browsers, Send(c) PROVE msg'[b] = msg[b]
    BY <1>1 DEF Send, Set, IInv, TypeOK
<1>2. ASSUME NEW c \in Browsers, ScriptStep(c) PROVE msg' = msg
    BY <1>2 DEF ScriptStep, Open, Submit, SubmitFails, Watch, Settle, Timeout
<1>3. ASSUME NEW p \in Payloads, BotStep(p) PROVE msg' = msg
    BY <1>3, BotFrame
<1>4. QED
    BY <1>1, <1>2, <1>3 DEF Next, HeadChanges, Reload, vars, scriptVars

\* Every scan keeps the conversation's invariant.
LEMMA Conversing == Spec => []Conversation
<1>1. Init => Conversation
  <2> SUFFICES ASSUME Init PROVE Conversation
      OBVIOUS
  <2>1. \A b \in Browsers : pc[b] = "idle" /\ ~outcome[b].ok
      BY DEF Init
  <2>2. toEcho = {} /\ toAnswer = {} /\ answering = {}
      BY DEF Init
  <2>3. QED
      BY <2>1, <2>2 DEF Conversation, Exchange
<1>2. ASSUME IInv, Conversation, [Next]_vars PROVE Conversation'
  <2> SUFFICES ASSUME NEW b \in Browsers
               PROVE  /\ Exchange(b)'
                      /\ (Undisturbed(b) /\ outcome[b].ok)' =>
                             \E a \in Answers(msg[b])' : outcome'[b].reply = <<a>>
      BY DEF Conversation
  <2>1. Exchange(b)'
      BY <1>2, ExchangeKept DEF Conversation
  <2>2. ASSUME Undisturbed(b)', outcome'[b].ok PROVE \E a \in Answers(msg[b])' : outcome'[b].reply = <<a>>
    <3>1. Undisturbed(b) /\ world' = world
        BY <1>2, <2>2, WorldKept
    <3>2. msg'[b] = msg[b]
        BY <1>2, <2>2, PayloadKept
    <3>3. Answers(msg[b])' = Answers(msg[b])
        BY <3>1, <3>2 DEF Answers, Piece
    <3>4. CASE outcome'[b] = outcome[b]
        BY <1>2, <2>2, <3>1, <3>3, <3>4 DEF Conversation
    <3>5. CASE outcome'[b] # outcome[b]
      <4>1. (Settle(b) \/ Timeout(b)) /\ outcome'[b].reply = last[b]
          BY <1>2, <2>2, <3>5, Replies
      <4>2. Settle(b)
          BY <3>1, <4>1 DEF Timeout, Undisturbed
      <4>3. QED
          BY <1>2, <3>1, <3>3, <4>1, <4>2, SettledWhole DEF Conversation
    <3>6. QED
        BY <3>4, <3>5
  <2>3. QED
      BY <2>1, <2>2
<1>3. QED
    BY <1>1, <1>2, Invariance, PTL DEF Spec

\* Browser.Send, browserChatJS: a Browser alone with a bot that neither misses the
\* deadline nor pauses for longer than `settle' gets the whole answer to its
\* payload, and only that, if it reads bubbles or the text of a page that changes
\* at the end of the transcript only.
THEOREM AnswerWhole == Spec => []WholeResponse
<1>1. Conversation => WholeResponse
    BY DEF Conversation, WholeResponse
<1>2. QED
    BY <1>1, Conversing, PTL

\* Browser.Send, browserChatJS: no piece of the transcript is reported as the
\* answer to two Sends of one Browser: by bubbles however late the bot, whoever
\* else types, and whatever reloads; by the page's text undisturbed.
THEOREM ReportedOnce == Spec => NoPieceTwice
<1>1. ASSUME IInv, Conversation, [Next]_vars, NEW b \in Browsers,
             world.mode = "bubbles" \/ Undisturbed(b), pc[b] # "idle", outcome'[b].ok
      PROVE  PiecesOf(outcome'[b].reply) \cap told[b] = {}
  <2>1. ~outcome[b].ok
      BY <1>1 DEF IInv, Stages
  <2>2. (Settle(b) \/ Timeout(b)) /\ outcome'[b].reply = last[b]
      BY <1>1, <2>1, Replies
  <2>3. pc[b] = "watch"
      BY <2>2 DEF Settle, Timeout
  <2>4. CASE world.mode = "bubbles"
      BY <1>1, <2>2, <2>3, <2>4 DEF IInv, Script, Reported
  <2>5. CASE Undisturbed(b)
    <3>1. Settle(b)
        BY <2>2, <2>5 DEF Timeout, Undisturbed
    <3>2. PICK a \in Answers(msg[b]) : last[b] = <<a>>
        BY <1>1, <2>5, <3>1, SettledWhole DEF Conversation
    <3>3. a \in Seq(PartsOf({msg[b]}))
      <4> DEFINE w == Piece("words", msg[b])
                 f == Piece("first", msg[b])
                 g == Piece("second", msg[b])
      <4>1. w \in PartsOf({msg[b]}) /\ f \in PartsOf({msg[b]}) /\ g \in PartsOf({msg[b]})
          BY DEF Piece, PartsOf
      <4>2. PICK quote \in {<<>>, <<w>>} : a = quote \o <<f, g>>
          BY DEF Answers
      <4> HIDE DEF w, f, g
      <4>3. <<>> \in Seq(PartsOf({msg[b]}))
          BY EmptySeq
      <4>4. <<w>> \in Seq(PartsOf({msg[b]})) /\ <<f, g>> \in Seq(PartsOf({msg[b]}))
          BY <4>1
      <4>5. quote \in Seq(PartsOf({msg[b]}))
          BY <4>2, <4>3, <4>4
      <4>6. QED
          BY <4>2, <4>4, <4>5, ConcatProperties
    <3>4. <<a>> \in Seq(Seq(PartsOf({msg[b]})))
        BY <3>3
    <3>5. PiecesOf(last[b]) \subseteq PartsOf({msg[b]})
        BY <3>2, <3>4, PiecesTyped
    <3>6. \A e \in told[b] : e.is = "page" \/ e.of # msg[b]
        BY <1>1 DEF IInv, Script
    <3>7. QED
        BY <2>2, <3>5, <3>6 DEF PartsOf
  <2>6. QED
      BY <1>1, <2>4, <2>5
<1>2. IInv /\ Conversation /\ [Next]_vars =>
          [\A b \in Browsers :
              /\ world.mode = "bubbles" \/ Undisturbed(b)
              /\ pc[b] # "idle" /\ outcome'[b].ok
              => PiecesOf(outcome'[b].reply) \cap told[b] = {}]_vars
    BY <1>1
<1>3. QED
    BY <1>2, Invariance, Conversing, PTL DEF Spec, NoPieceTwice
===============================================================================
