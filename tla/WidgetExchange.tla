--------------------------- MODULE WidgetExchange ---------------------------
(***************************************************************************)
(* One page and its chat widget, driven by the script that chatScript of   *)
(* connector/browser_script.go composes and Browser.Send evaluates: prepare *)
(* the page once, type and submit the payload, watch the transcript, and   *)
(* call the text that appeared the bot's reply when it stops growing.      *)
(*                                                                         *)
(* The script runs in the page between its awaits only, so what it does    *)
(* between two awaits is one action.  Several Browsers may be inside it at *)
(* once: they share the tab.  The widget, the bot and reloads are external. *)
(*                                                                         *)
(* A text is a sequence of pieces of one length: a payload's words, the two *)
(* parts in which the bot's answer appears, and what else the page says.    *)
(* The page's text is its head, the transcript as the widget shows it, and  *)
(* a footer; the bot's bubbles are the elements ResponseSelector matches.   *)
(* OpenSelector is configured and present: the case in which preparing the *)
(* page has an await in it.                                                *)
(***************************************************************************)
EXTENDS Naturals, SequencesExt

CONSTANTS
    Browsers,
    MaxSends,     \* bound: payloads sent in all
    Worlds,       \* the scans an instance is about
    Prefix,       \* how many pieces the first 64 characters of a text are
    Heads,        \* what the page may say before the transcript
    Footer        \* what it may say after it

FaultKinds == {"slow", "pause", "noInput", "noButton", "reload", "quotes", "head", "footer"}

ASSUME BrowsersAssumption == IsFiniteSet(Browsers)
ASSUME BoundsAssumption   == MaxSends \in Nat /\ Prefix \in Nat
(* users: the Browsers pointed at the page.  mode: "bubbles" if              *)
(* ResponseSelector is set, "diff" if not.  faults: what page and bot may do. *)
ASSUME WorldsAssumption   ==
    \A w \in Worlds : /\ w.users \subseteq Browsers
                      /\ w.mode \in {"bubbles", "diff"}
                      /\ w.faults \subseteq FaultKinds

Payloads == 1 .. MaxSends
Pieces   == [is : {"words", "first", "second", "page"}, of : Nat]
Piece(is, p) == [is |-> is, of |-> p]

PagePieces == [is : {"page"}, of : Nat]
ASSUME PageAssumption == Heads \subseteq Seq(PagePieces) /\ Footer \in Seq(PagePieces)

VARIABLES
    sent,         \* b.sent
    pc,           \* where b's evaluate is
    msg,          \* the payload b is sending, or last sent
    beforeCount,  \* the script's beforeCount
    beforeText,   \* the script's beforeText
    last,         \* the script's `last', in passages: see NewText
    outcome,      \* how b's last Send ended
    payloads,     \* how many payloads have been sent
    told,         \* auxiliary: the pieces b's Sends have returned
    prepared,     \* window.__redwirePrepared
    opens,        \* clicks on OpenSelector since the page was loaded
    head,         \* what the page says before the transcript
    transcript,   \* the text of the transcript
    bubbles,      \* the bot's bubbles, each with the payload it answers
    toEcho,       \* submitted payloads the widget has not shown yet
    toAnswer,     \* submitted payloads the bot has not begun to answer
    answering,    \* payloads whose answer is half shown
    world         \* the scan of this behaviour: chosen at the start

scriptVars == <<sent, pc, msg, beforeCount, beforeText, last, outcome, payloads, told>>
widgetVars == <<head, transcript, bubbles, toEcho, toAnswer, answering>>
prepVars   == <<prepared, opens>>
vars       == <<scriptVars, widgetVars, prepVars, world>>

Init ==
    /\ sent = [b \in Browsers |-> FALSE]
    /\ pc = [b \in Browsers |-> "idle"]
    /\ msg = [b \in Browsers |-> 0]
    /\ beforeCount = [b \in Browsers |-> 0]
    /\ beforeText = [b \in Browsers |-> <<>>]
    /\ last = [b \in Browsers |-> <<>>]
    /\ outcome = [b \in Browsers |-> [ok |-> FALSE, reply |-> <<>>]]
    /\ payloads = 0
    /\ told = [b \in Browsers |-> {}]
    /\ prepared = FALSE
    /\ opens = 0
    /\ head \in Heads
    /\ transcript = <<>>
    /\ bubbles = <<>>
    /\ toEcho = {}
    /\ toAnswer = {}
    /\ answering = {}
    /\ world \in Worlds

Set(f, b, v) == [f EXCEPT ![b] = v]

\* document.body.innerText.
PageText == head \o transcript \o (IF "footer" \in world.faults THEN Footer ELSE <<>>)

\* A text of pieces as a sequence of passages: of one, or of none if it is empty.
Passage(text) == IF text = <<>> THEN <<>> ELSE <<text>>

First64(text) == IF Len(text) < Prefix THEN text ELSE SubSeq(text, 1, Prefix)

\* What the script takes for the text that was appended to old: if text begins
\* as old does, what is longer; if not, text with old cut out where it occurs.
Appended(text, old) ==
    IF Len(text) > Len(old) /\ IsPrefix(First64(old), text)
    THEN SubSeq(text, Len(old) + 1, Len(text))
    ELSE IF text # old THEN ReplaceFirstSubSeq(<<>>, old, text) ELSE <<>>

\* Without the words of payload p, when it begins with them.
WithoutEcho(texts, p) ==
    IF texts # <<>> /\ IsPrefix(<<Piece("words", p)>>, Head(texts))
    THEN Passage(Tail(Head(texts))) \o Tail(texts)
    ELSE texts

\* What has appeared since b's snapshot: the texts of the new bubbles, or what
\* was appended to the text of the page.
NewText(b) ==
    WithoutEcho(IF world.mode = "bubbles"
                THEN [k \in 1 .. Len(bubbles) - beforeCount[b] |-> bubbles[beforeCount[b] + k].text]
                ELSE Passage(Appended(PageText, beforeText[b])),
                msg[b])

PiecesOf(texts) == UNION {Range(texts[k]) : k \in DOMAIN texts}

\* The script returns, and its local variables with it, and so does Send.
Return(b, ok, reply) ==
    /\ beforeCount' = Set(beforeCount, b, 0)
    /\ beforeText' = Set(beforeText, b, <<>>)
    /\ last' = Set(last, b, <<>>)
    /\ outcome' = Set(outcome, b, [ok |-> ok, reply |-> reply])
    /\ told' = Set(told, b, told[b] \cup PiecesOf(reply))
    /\ pc' = Set(pc, b, "idle")

-----------------------------------------------------------------------------
\* Send takes b.mu, composes the script with opened = b.sent and sends it.
Send(b) ==
    /\ pc[b] = "idle"
    /\ b \in world.users
    /\ payloads < MaxSends
    /\ payloads' = payloads + 1
    /\ msg' = Set(msg, b, payloads')
    /\ outcome' = Set(outcome, b, [ok |-> FALSE, reply |-> <<>>])
    /\ pc' = Set(pc, b, "start")
    /\ UNCHANGED <<sent, beforeCount, beforeText, last, told, widgetVars, prepVars, world>>

\* Mutant of MustPrepare: the Browser's flag alone decides.
MustPrepareByFlag(b) == ~sent[b]

\* The script begins in the page, whose flag it reads there and then.
MustPrepare(b) == ~sent[b] \/ ~prepared

\* Preparing clicks the launcher and sleeps.
Open(b) ==
    /\ pc[b] = "start"
    /\ MustPrepare(b)
    /\ opens' = opens + 1
    /\ pc' = Set(pc, b, "open")
    /\ UNCHANGED <<sent, msg, beforeCount, beforeText, last, outcome, payloads, told, prepared, widgetVars, world>>

Ready(b) == pc[b] = "open" \/ (pc[b] = "start" /\ ~MustPrepare(b))

\* Mutant of Submit: no snapshot is taken.
SubmitBlind(b) ==
    /\ Ready(b)
    /\ prepared' = TRUE
    /\ toEcho' = toEcho \cup {msg[b]}
    /\ toAnswer' = toAnswer \cup {msg[b]}
    /\ pc' = Set(pc, b, "watch")
    /\ UNCHANGED <<sent, msg, beforeCount, beforeText, last, outcome, payloads, told, opens, head, transcript, bubbles, answering, world>>

\* Up to the next await: mark the page prepared, find the input, take the
\* snapshot, type, submit.
Submit(b) ==
    /\ Ready(b)
    /\ prepared' = TRUE
    /\ beforeCount' = Set(beforeCount, b, IF world.mode = "bubbles" THEN Len(bubbles) ELSE 0)
    /\ beforeText' = Set(beforeText, b, IF world.mode = "bubbles" THEN <<>> ELSE PageText)
    /\ toEcho' = toEcho \cup {msg[b]}
    /\ toAnswer' = toAnswer \cup {msg[b]}
    /\ pc' = Set(pc, b, "watch")
    /\ UNCHANGED <<sent, msg, last, outcome, payloads, told, opens, head, transcript, bubbles, answering, world>>

\* No input, or a SendSelector that matches nothing: nothing was submitted.
SubmitFails(b) ==
    /\ Ready(b)
    /\ world.faults \cap {"noInput", "noButton"} # {}
    /\ prepared' = TRUE
    /\ Return(b, FALSE, <<>>)
    /\ UNCHANGED <<sent, msg, payloads, opens, widgetVars, world>>

\* One turn of the polling loop that sees the transcript change.
Watch(b) ==
    /\ pc[b] = "watch"
    /\ NewText(b) # last[b]
    /\ last' = Set(last, b, NewText(b))
    /\ UNCHANGED <<sent, pc, msg, beforeCount, beforeText, outcome, payloads, told, widgetVars, prepVars, world>>

\* Mutant of Settle: the first text that stays for one turn is the reply.
SettleAtOnce(b) ==
    /\ pc[b] = "watch"
    /\ last[b] # <<>>
    /\ NewText(b) = last[b]
    /\ Return(b, TRUE, last[b])
    /\ sent' = Set(sent, b, TRUE)
    /\ UNCHANGED <<msg, payloads, widgetVars, prepVars, world>>

\* The text has not grown for `settle': the reply is complete.  A bot that
\* never pauses that long is not in the middle of an answer.
Settle(b) ==
    /\ pc[b] = "watch"
    /\ last[b] # <<>>
    /\ NewText(b) = last[b]
    /\ answering = {} \/ "pause" \in world.faults
    /\ Return(b, TRUE, last[b])
    /\ sent' = Set(sent, b, TRUE)
    /\ UNCHANGED <<msg, payloads, widgetVars, prepVars, world>>

\* The deadline passes: whatever has appeared is the reply, and nothing is an
\* error.  A bot that is not slow has answered by then.
Timeout(b) ==
    /\ pc[b] = "watch"
    /\ "slow" \in world.faults
    /\ Return(b, last[b] # <<>>, last[b])
    /\ sent' = Set(sent, b, sent[b] \/ last[b] # <<>>)
    /\ UNCHANGED <<msg, payloads, widgetVars, prepVars, world>>

-----------------------------------------------------------------------------
(* The page and the bot. *)

Echo(p) ==
    /\ p \in toEcho
    /\ toEcho' = toEcho \ {p}
    /\ transcript' = Append(transcript, Piece("words", p))
    /\ UNCHANGED <<scriptVars, head, bubbles, toAnswer, answering, prepVars, world>>

\* The bot answers what the widget has shown, in a new bubble at the end, and
\* may begin by quoting what it answers.
BeginAnswer(p) ==
    /\ p \in toAnswer \ toEcho
    /\ toAnswer' = toAnswer \ {p}
    /\ answering' = answering \cup {p}
    /\ \E quote \in {<<>>, <<Piece("words", p)>>} :
          /\ quote = <<>> \/ "quotes" \in world.faults
          /\ transcript' = transcript \o quote \o <<Piece("first", p)>>
          /\ bubbles' = Append(bubbles, [of |-> p, text |-> quote \o <<Piece("first", p)>>])
    /\ UNCHANGED <<scriptVars, head, toEcho, prepVars, world>>

\* The bubble grows where it is, whatever has been appended behind it.
EndAnswer(p) ==
    /\ p \in answering
    /\ answering' = answering \ {p}
    /\ \E i \in DOMAIN transcript :
          /\ transcript[i] = Piece("first", p)
          /\ transcript' = InsertAt(transcript, i + 1, Piece("second", p))
    /\ bubbles' = [k \in DOMAIN bubbles |->
                     IF bubbles[k].of = p
                     THEN [bubbles[k] EXCEPT !.text = Append(@, Piece("second", p))]
                     ELSE bubbles[k]]
    /\ UNCHANGED <<scriptVars, head, toEcho, toAnswer, prepVars, world>>

\* What the page says before the transcript changes: a title, a banner, a clock.
HeadChanges ==
    /\ "head" \in world.faults
    /\ head' \in Heads \ {head}
    /\ UNCHANGED <<scriptVars, transcript, bubbles, toEcho, toAnswer, answering, prepVars, world>>

\* The page reloads: its window, its transcript and every script in it are
\* gone, and each evaluate under way fails; one not yet begun runs after it.
Reload ==
    /\ "reload" \in world.faults
    /\ prepared' = FALSE
    /\ opens' = 0
    /\ transcript' = <<>> /\ bubbles' = <<>>
    /\ toEcho' = {} /\ toAnswer' = {} /\ answering' = {}
    /\ beforeCount' = [b \in Browsers |-> 0] /\ beforeText' = [b \in Browsers |-> <<>>]
    /\ last' = [b \in Browsers |-> <<>>]
    /\ pc' = [b \in Browsers |-> IF pc[b] = "start" THEN "start" ELSE "idle"]
    /\ UNCHANGED <<sent, msg, outcome, payloads, told, head, world>>

-----------------------------------------------------------------------------
ScriptStep(b) == Open(b) \/ Submit(b) \/ SubmitFails(b) \/ Watch(b) \/ Settle(b) \/ Timeout(b)
BotStep(p)    == Echo(p) \/ BeginAnswer(p) \/ EndAnswer(p)

Next ==
    \/ \E b \in Browsers : Send(b) \/ ScriptStep(b)
    \/ \E p \in Payloads : BotStep(p)
    \/ HeadChanges
    \/ Reload

Spec == Init /\ [][Next]_vars

-----------------------------------------------------------------------------
(* Properties. *)

TypeOK ==
    /\ sent \in [Browsers -> BOOLEAN]
    /\ pc \in [Browsers -> {"idle", "start", "open", "watch"}]
    /\ payloads \in 0 .. MaxSends
    /\ msg \in [Browsers -> 0 .. payloads]
    /\ beforeCount \in [Browsers -> Nat]
    /\ beforeText \in [Browsers -> Seq(Pieces)]
    /\ last \in [Browsers -> Seq(Seq(Pieces))]
    /\ outcome \in [Browsers -> [ok : BOOLEAN, reply : Seq(Seq(Pieces))]]
    /\ told \in [Browsers -> SUBSET Pieces]
    /\ prepared \in BOOLEAN
    /\ opens \in Nat
    /\ head \in Heads
    /\ transcript \in Seq(Pieces)
    /\ bubbles \in Seq([of : Payloads, text : Seq(Pieces)])
    /\ toEcho \subseteq Payloads /\ toAnswer \subseteq Payloads /\ answering \subseteq Payloads
    /\ world \in Worlds

\* A Browser alone with a bot that neither misses the deadline nor pauses for
\* longer than `settle', which reads bubbles, or a page whose text changes only
\* at the end of the transcript.
Undisturbed(b) ==
    /\ world.users = {b}
    /\ world.faults \cap {"slow", "pause"} = {}
    /\ world.mode = "bubbles" \/ world.faults \cap {"head", "footer"} = {}

\* The answer to p, with or without the words of p when the bot quotes them.
Answers(p) ==
    {quote \o <<Piece("first", p), Piece("second", p)>> :
        quote \in IF "quotes" \in world.faults THEN {<<>>, <<Piece("words", p)>>} ELSE {<<>>}}

\* Such a Browser gets the whole answer to its payload, and only that: the
\* stream is not cut off between its pieces, whatever reloads and fails.
WholeResponse ==
    \A b \in Browsers :
        Undisturbed(b) /\ outcome[b].ok => \E a \in Answers(msg[b]) : outcome[b].reply = <<a>>

\* No piece of the transcript is reported as the answer to two Sends of one
\* Browser: by bubbles however late the bot and whoever else is typing, by the
\* page's text undisturbed; reloads included.
NoPieceTwice ==
    [][\A b \in Browsers :
          /\ world.mode = "bubbles" \/ Undisturbed(b)
          /\ pc[b] # "idle" /\ outcome'[b].ok
          => PiecesOf(outcome'[b].reply) \cap told[b] = {}]_vars

\* The comparison of page texts yields no reply rather than a wrong one: nothing
\* that was on the page before the payload was submitted.  It does not hold
\* (README, section 4).
NoneRatherThanWrong ==
    [][\A b \in Browsers :
          pc[b] = "watch" /\ outcome'[b].ok
          => PiecesOf(outcome'[b].reply) \cap Range(beforeText[b]) = {}]_vars

\* "Every attempt still records its own payload and its own response": nothing in
\* a reply answers the payload of another Send, an earlier one or another Browser's.
\* It does not hold (README, section 4).
Attributable ==
    \A b \in Browsers :
        outcome[b].ok => \A piece \in PiecesOf(outcome[b].reply) :
                            piece.is \in {"first", "second"} => piece.of = msg[b]

\* Nothing is typed into a page that was reloaded and not prepared again,
\* although b.sent still says that b has prepared it.
PreparedBeforeTyping ==
    [][\A b \in Browsers : pc[b] # "watch" /\ pc'[b] = "watch" => opens > 0]_vars
=============================================================================
