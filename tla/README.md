# redwire in TLA+

redwire delivers red-team payloads to an agent over one of several transports and returns what the
agent answered. Its one promise (`src/target.go`) is short - *a Send returns the target's answer or
an error, never one dressed as the other* - and most of what is hard about keeping it lies in state
that several Sends share: a Chrome tab, a socket, a conversation, a negotiated protocol. This
directory models that state and the pure functions around it, checks both with TLC on small
instances, and proves most of the safety properties with TLAPS for every instance.

## 1. Inventory

| part | code | state | operations | hard behaviour | what makes it correct |
|---|---|---|---|---|---|
| shared-tab registry | `connector/browser.go` 43-106, 153-302 | `liveTabs`, `liveTabsMu`, `browserTab.refs`, each Browser's `tab`, `sent`, `mu`; pages and sockets in Chrome | `Send` (`ensureSession`, exchange), `Close`, `CloseAllBrowsers`, `release` | the map is looked at, unlocked for seconds, and looked at again; Close forgets the tab before it takes the lock and keeps the lock while it talks to Chrome; CloseAll empties the map under everybody | counts are exact; nobody loses a page in use; every page is closed by somebody |
| CDP client | `browser.go` 309-526 | `nextID`, the socket and its one read deadline | `call`, `evaluate`, `navigate`, `close` | callers of a shared tab read and write one socket at once; a reply is skipped by whoever is not waiting for it; a timeout poisons the socket | a caller gets its own reply or an error, and returns unless others' calls keep moving the deadline |
| page script | `connector/browser_script.go`, `browser.go` 167-204 | `window.__redwirePrepared`, `b.sent`, the page's text | prepare, snapshot, type, watch, settle | streamed and late answers, reloads, two Browsers typing in one page | the reply is the whole answer to this payload and to no other |
| WebSocket connector | `connector/websocket.go` | `w.conn` under `w.mu` | `Send`, `reset`, `Close`, `SendWithoutAuth` | sockets that drop at any moment, late answers, denied handshakes, one retry | no other payload's answer, bounded redelivery, no lost socket, denial is final |
| A2A connector | `connector/a2a.go` | `dialect`, `taskID`, `serverTaskID` under `a.mu` | `Send`, `send`, `body`, `rememberTask` | concurrent Sends negotiate with the lock released; lost replies; fallback to the older dialect | every agent is reached, no payload runs twice, one task, an error is not a reply |
| MCP connector | `connector/mcp.go` | `tools`, `nextID` under `m.mu` | `DiscoverTools`, `CallTool`, `Send`, `rpc` | the tool cache is checked and used in two sections while discovery replaces it | "no tools" is said only when it is news and true; a reply is a tool's answer or a refusal |
| REST connector | `connector/rest.go` | `sessionID` (no lock), the configuration | `Send` with `buildPayload` and `SetNested`, `SetSession`, lookup | payloads are written in the order of a Go map from objects that Sends share; a long order of early returns decides who answered, from status and body alone; numbers pass through float64; an unlocked session id | the payload survives collisions and nothing else changes; infrastructure is an error where it can be told, a refusal a reply |
| guarded clients | `connector/dial.go`, `transports.go` | connections that are kept | build the guarded or the unguarded client | a kept connection is used without a look at DNS | only an explicit choice is unguarded |
| address policy | `ssrf/ssrf.go`, `ssrf/client.go` | none of its own; DNS changes between looks | validate, pin at connect, check redirects | names resolved more than once, redirect chains | every address connected to was the one checked |
| Python-compatible JSON | `pyjson/pyjson.go` | none | `FromRaw`, `Marshal`, `SpaceSeparators`, `EnsureASCII` | strings, escapes, surrogates | separators are added outside strings only |
| command line | `cmd/redwire/main.go` | none | build one connector, send once | exits without releasing the shared tab | - |
| Target contract | `target.go` | none | `Send` | - | the promise above |

How they interact: a scan builds one connector per agent and calls `Send` on them concurrently, from
goroutines of its own. Browser values are independent and meet only in the package-level `liveTabs`,
through which they come to share a `browserTab` - and with it one `cdpConn` (one socket, one id
counter) and one page. Browser locks its own `mu` for a whole call and `liveTabsMu` for short
sections, except that the last `Close` keeps `liveTabsMu` through `release`. `CloseAllBrowsers` takes
`liveTabsMu` alone. WebSocket holds its lock for a whole `Send`; A2A and MCP release theirs while a
request travels. REST has none. REST, A2A and MCP send through an HTTP client, which dials, keeps connections
and follows redirects under the address policy; the WebSocket dialers apply it to one dial. No part persists anything, so there is no crash recovery to model.

## 2. Plan

1. Done: the browser connector in three layers - the registry (`BrowserTabs`, its abstraction
   `SharedPage`), the DevTools client (`CdpConn`), the page (`WidgetExchange`); the connectors that
   keep state between Sends, `WebSocketConn`, `A2ADialect` and `MCPTools`; REST, as an exchange over the
   guarded client (`RestExchange` on `GuardedClient`) and as the building of a payload (`RestPayload`);
   the pure functions (`PyJson`, `ReplyText`); and `TargetContract`, which REST, A2A, WebSocket and MCP
   implement. Proofs about all three layers of the browser connector, about the WebSocket, A2A, MCP and
   REST connectors, the last in both parts, and about the pure functions: every safety property that a
   passing run checks is also a theorem, and so are the bounds on a call's own steps.
2. Next modules: the composition of `CdpConn` with the registry, in which a timeout makes a tab stale
   and `release` closes another call's socket; the exit of the command while a tab is open.
3. Next proofs: of the composition in 2, that a stale tab never gives a reply.

## 3. The modules

Every action is one atomic section of the code: what runs between two waits, or between taking and
releasing a lock without a wait. `PROJECT.json` maps each definition to its lines. A comment
*Mutant of X* marks an operator that is not used by the specification: it is X with a plausible
mistake in it, kept beside X to show that a property would notice (section 5).

**BrowserTabs** - the registry. A Browser runs one call at a time, so `pc[b]` is the position in it and
"idle" is "`b.mu` is free". `liveTabs`, `refs`, `liveTabsMu`, `tab`, `sent` are the variables of the
same names; `own[b]` is the local `tab` of `ensureSession` or `Close`; `liveTabsMu` is the holder only
when the lock is kept across a wait (sections without a wait are single actions). Chrome is `page` and
`conn`: a page is gone, blank or shown; a socket closed, open, or stale (its reads fail for ever after
a missed deadline, writes still go out). Code to actions:

| code | actions |
|---|---|
| `Send`, start of `ensureSession` | `Send`, `RefuseEndpoint`, `Join`, `Miss` |
| `dialCDP` | `DialFails`, `CreateTarget`, `SetupFails`, `Attached` |
| `navigate` and its failure | `Navigated`, `NavigateFails` |
| second look at the map | `Publish`, `LoseRace` |
| the exchange in `Send` | `ExchangeOK`, `ExchangeFails` |
| `release`, from three callers | `ReleasePage`, then `DiscardSocket` or `CloseSocket`; `SweepPage`, `SweepSocket` |
| `Close` | `Close`, `DropShared`, `DropLast` |
| `CloseAllBrowsers` | `CloseAll`, then the sweep of each tab |

The constant `Faults` says which failures an instance may have; the names are explained where they are
used. Tab identities are reused when nothing refers to them, as addresses are; `swept` is a history
variable that says which of them `CloseAllBrowsers` took.

**SharedPage** - what the registry promises: a page has at most one conversation, every Browser pointed
at it takes part in that one, it ends when the last leaves or when the scan ends them all. `BrowserTabs`
implements it with `convo <- liveTabs` and `members[k]` the Browsers that hold the tab published
under `k` - including one that is inside `Close` and has not been counted out, which is what makes
Close's two sections one step of `Leave` or `End`.

**CdpConn** - `call` and `evaluate` on one socket with any number of callers, who never stop calling. The code
counts ids up and compares them for equality only, so `Call` takes any id that no call, command, message
or deadline still bears (`Fresh`), and `MaxIDs` bounds how many are borne at once, not how many calls there are.
The read deadline belongs to the socket (`deadline` is the id of the call that set it last); a failed read
leaves the socket unreadable; what Chrome sends is an unordered answer per command with events in between. Two readers
at once may tear a frame (`TornRead`), which is how the build behaves when the library's rule of one
reader is broken. Two writers at once may also make the library panic; a program that has ended has no
further behaviour, so writes are atomic here.

**WidgetExchange** - the script in the page, which runs only between its awaits. A text is a sequence of
pieces of one length: a payload's words, the first and the second half of an answer, and what else the page
says. The page's text (`PageText`) is its head, the transcript and, where the world has one, a footer; the
bot's bubbles are kept beside it, each of which may grow where it is. A `world` is a scan: who takes part,
whether there is a response selector ("bubbles" or "diff"), and what page and bot may do - reload, change the
head, quote the payload at the beginning of an answer, come late, pause. `NewText` is the reply capture:
the bubbles past `beforeCount`, or what `Appended` makes of the page's text and `beforeText`: what is longer,
if the first 64 characters (`Prefix` pieces) agree; the text with the old one cut out where it occurs, if not -
the whole text, where it does not occur. From either the payload's words are stripped once if it begins with
them (`WithoutEcho`). The bubbles of a reply stay apart as passages, which the code joins by a line break.
The widget, the bot, the head and reloads are external actions.

**WebSocketConn** - `Send` holds `w.mu` throughout, so there is one `pc`; the probe of
`SendWithoutAuth` takes no lock and interleaves. The gateway answers each payload it receives once and on
the same socket. A write fails on a socket that is down, or by its deadline on one that is up. It implements `TargetContract` with one sender: a payload is asked while its Send runs,
reached once the gateway has received it, and a retry reaches it again, which the contract allows.

**A2ADialect** - one negotiation with any number of senders. Each critical section of `a.mu` is one
action; the request travels between `Compose` and the reply. The agent speaks one dialect or both,
executes in the task named or in a new one, refuses, or loses its reply. After a refusal the code reads
`a.dialect` again; `EarnsRetry` reads it there. It implements `TargetContract`: a payload is asked while its
Send runs, reached when the agent has run it, and every outcome but a reply is an error.

**MCPTools** - the cache of tools. Only the first tool of a list is ever used, so `tools` is that one or
`NoTool`. `Send` looks at the cache in one section, discovers if it saw nothing, and picks in another;
`Store` replaces the cache by whatever a `tools/list` decoded to, and `DiscoverTools`, which the code
exports, may do so under any Send. `Senders` call Send and `Listers` call DiscoverTools; a
goroutine that does both in turn does what one of each may do. The server lists what it exposes at that moment and may change that
between any two requests; `weather` says what else it and the network may do. `emptied` is a history
variable: the calls under way while the cache was stored empty. It implements `TargetContract` in every
weather but the one in which envelopes have neither result nor error.

**TargetContract** - what `target.go` promises of every `Send`: a payload reaches the target while it is
being sent and at no other time, a reply is returned only for a payload the target has got, and
anything else that ends a Send is an error. Four connectors implement it. The browser connector is not
mapped to it: a reload ends the Sends of all Browsers in the page in one step, each with an error, while the
contract's senders return one at a time, and a reload also takes away the transcript that shows what was
reached. What it promises of a reply is stated directly, by `WholeResponse` and `NoPieceTwice`.

**GuardedClient** - the HTTP client of `ssrf/client.go` and `dial.go`, guarded or not. A request goes
from hop to hop; `at[s]` is where it is. Each hop is dialled after a resolution of its own, which is any
set of addresses (`Dial`, `DialFails`), or goes out on the connection kept for its host (`Reuse`). A
redirect is first compared with the hop before it and counted (`Redirect`, `RefuseRedirect`), then, by
the guarded client, resolved and validated (`Validate`, `RefuseHop`) before the next dial resolves again.
An address is internal or not. Servers redirect anywhere (`AnswerRedirect`) and keep connections
(`Keep`, `CloseIdle`); net/http is external.

**RestExchange** - `REST.Send` over that client: `Send`, then the client's steps, then `Receive` or
`SendFails`. `Verdict` is the order of early returns on status and body. Who wrote a response is kept in
the history variable `spoke`, which `Verdict` does not see: the agent (`AgentAnswers`), or a gateway,
sign-in page or server without an agent (`OtherAnswers`) that may or may not have passed the payload on.
`front` is what there may be in front of the agent: something that refuses requests with statuses an agent
uses too (400, 413), something that serves pages. `Telling` is that none of it can pass for the agent: there
is no refuser, and pages only where a field is named, which they do not have. Whether redirects may drop the
body is the constant `Drops`. It implements `TargetContract` when they may not and `Telling` holds.

**RestPayload** - `buildPayload` in any number of Sends over one `RequestMapping`, and `SetSession` beside
them. A JSON value is a function from the paths of its leaves; `SetNested` replaces what collides with a
path. `Write` follows Go's aliasing: a write through an object that a payload shares with the
configuration would change both, and every other payload that shares it (`borrows`). `CloneJSON` is why
it never does, and its mutant why that matters. `SetSession` is a write with a beginning and an end,
and a read in between may yield the old id, the new one, or neither; the id is read twice.

**PyJson, ReplyText** - functions without state: the byte-wise walk of `SpaceSeparators`, `FromRaw` and
`Marshal`; `LookupNested`, `Decode` and `Stringify` of REST, the answer's text in an A2A result, an MCP result
or a stream of events, and `ArgNameFor`. A number is counted in halves; the decoder makes of it a nearest of
the numbers that a float64 holds (`Floats`), either one when two are as near, where Go takes the even one.
An MCP part decodes or not, as Go's decoder has it: null leaves a field as it is, and another kind of value
fails the whole result. Text is a sequence of code points where a byte matters, and a value
elsewhere. A loop of the code is a recursive function of the number of rounds, from which its result is read:
`Places` is where the walk over a text is (`inStr`, `escaped`), `Lookups` where the walk along a path is.

**ReplyCalls** - what these functions are for. A behaviour is one call with an input of one of eight kinds:
texts that are JSON as far as it matters (a backslash only within a string), replies and paths, results made of
parts of which it is known what they say and whether they can be read as parts, streams, schemas, numbers. Each is of any length and
shape; `Inputs` are those of an instance. What a call should return is defined without the code's loops:
whether a place in a text is in a string is the parity of the quotes before it, and whether a quote counts
is the parity of the backslashes in front of it (`InString`, `Escaped`); what a path leads to is a set
(`Resolved`); what a reply says is put together from its parts (`Said`). `MCReplyText` has the bounded
inputs and, by an ASSUME that TLC evaluates, compares that definition of Python's printing with bytes that
Python prints.

## 4. The runs

The bounds are the smallest at which everything in a property can happen. Two Browsers are the least
that race for a page, lose the race and share a count; the third is on another page, so that a sweep and
a deletion by identity meet a key that is not theirs. Three tabs allow one that is published, one that
is being opened beside it, and one still being swept or lost. Two payloads are the least that can be
mistaken for each other, three let a reply come after two others, and two sockets let a Send and a
probe, or an old and a new connection, be open at once. Three hosts are an apex, its www form and a
stranger, a cap of three requests lets a chain go there, back and once too often, and two static fields
can be in each other's way in both orders. Three ids are the least with which two calls can be under way while the
socket still bears an older one, and a behaviour may make any number of calls with them. A piece of text stands for 64
characters or more (`Prefix` is 1), so that the first one decides the prefix test; three heads are a title, another,
and a longer one that begins differently. The functions are called on strings of up to two units from
each class the code tells apart, arrays of up to two items with indices one past both ends, contents of up to
three parts, and all numbers of a small integer type up to three times its edges, halves included, with floats
whose mantissa has three bits, so that integers within the type are rounded.

| run | instance | checks |
|---|---|---|
| BrowserTabsSafety | 2 Browsers, 1 page, 3 tabs; every fault but the two that lose a page; fairness | `RefsExact`, `HeldTabIsLive`, `NoLitter`, `LitterCleared`, `CallsReturn` |
| BrowserTabsShared | 3 Browsers, 2 pages, 3 interchangeable tabs; with lost pages and ignored closes | `ImplementsSharedPage` |
| CdpConnShared | 2 callers that go on calling, 3 ids remembered at once, 2 unread messages; events, deadlines, hang-up; fairness | `OwnReply`, `TimeoutIsOwn`, `CallsReturn` |
| WidgetSends | 3 payloads in each of four scans: one Browser reading the page's text, with reloads, missing controls and answers that quote; one reading bubbles on a page with a changing head and a footer, with reloads and quotes; one reading bubbles, with a bot that is late and pauses, and reloads; two reading bubbles from a bot that pauses | `WholeResponse`, `NoPieceTwice`, `PreparedBeforeTyping` |
| WebSocketSends | 2 sockets, 3 Sends, 2 probes; every fault, or drops between turns only; fairness | `OwnAnswer`, `AtMostTwice`, `NoSocketLeak`, `DeniedIsFinal`, `DropsBetweenTurnsUnseen`, `ImplementsTarget`, `SendsReturn` |
| A2ANegotiation | 2 senders, 4 payloads, agents of either or both dialects; refusals, lost replies, Messages; fairness | `SequentialConversation`, `PinnedIsSpoken`, `ExecutedOnce`, `ImplementsTarget`, `SendsReturn` |
| MCPSends | 2 senders and a lister, 2 Sends, a discovery beside those that the Sends make, 2 tools and a change of them; failures alone, failures with empty lists and listing errors, and answers without a result; fairness | `NoToolsIsNews`, `NoToolsIsTrue`, `ImplementsTarget`, `CallsReturn` |
| RestSends | 2 senders, 2 payloads, either client, a field named or not, anything in front of the agent, 3 hosts, 2 addresses, 3 requests per Send; redirects that keep the body | `OnlyPublic`, `StaysOnSite`, `AnswersAreReplies`, `ImplementsTarget` |
| RestPayloads | 2 Sends, one session id, every mapping of 3 message paths, 3 session paths and up to 2 static fields | `MessageSent`, `StaticSent`, `SessionSettled` |
| ReplyTexts | one call of each function on every bounded input of `ReplyCalls`; integers of 5 bits, floats of 3 | `SpacedAsPython`, `FieldIsRead`, `NumberKept`, `TextKept`, `ArgumentDeclared` |

Type invariants, the inductive invariants and MCP's `ReplyMeansReached`, most of which `ImplementsTarget` says
again, are proved by TLAPS for every instance (section 6), and no run checks them again.

Where a property needs the absence of some fault or of company, that is part of what is claimed.
`NoLitter` holds without `setup` and `closeTarget`; `WholeResponse` for a Browser alone with a bot that
neither misses the deadline nor pauses longer than the settle time, reading bubbles, or the text of a page that
changes at the end of the transcript only (`Undisturbed`), and up to the payload's own words at the beginning of
an answer, which are taken for an echo; `NoPieceTwice` under the same condition when text is read, and without
any when bubbles are; `CallsReturn` of `CdpConn` unless other calls re-arm the socket for ever; `TimeoutIsOwn`
for a caller alone on the socket; `SequentialConversation` for Sends that do not overlap; the A2A
run's `PinnedIsSpoken` and `ImplementsTarget` for agents that send no null result, which its `Faults` leave out;
`NoToolsIsTrue` for a server that always exposes a tool and lists it when asked; the MCP
run's `ImplementsTarget` for one that does not leave out result and error alike; `ImplementsTarget` of REST for redirects that keep
the body and where nothing in front of the agent can pass for it; `AnswersAreReplies` for an agent that answers
in the shape that was declared, or refuses with 400 or 422 - which is always returned - and, that a reply is the
agent's, again where nothing in front can pass for it: a gateway's 400 or 413, and a page where no field is
named, are returned as replies; `SessionSettled` for payloads that no `SetSession`
overlaps; `NumberKept` but for what is decoded to the one number just past the largest integer, and up to the
nearest float64 for a number that none holds; `SpacedAsPython` of `Marshal` for texts without DEL, and of `FromRaw` for
the separators alone, every other character being left as it is; `FieldIsRead` for paths that do not
lead on from what is no object, where the code answers with what it has got to; `ArgumentDeclared` for schemas
whose required arguments are declared.
In `WidgetExchange`, `WebSocketConn` and `MCPTools` the faults are a variable chosen at the start (`world`, `weather`), so that one run
covers several such cases and a property can name the one it is about. The Widget, CDP, WebSocket,
A2A, MCP and REST runs stop when their payloads are used up, and ReplyTexts after its call, so they
are not checked for deadlock. The registry has no such bound, and is.

**Violations.** Two runs state what a comment of the repository says and find a behaviour of the code
that is different; `PROJECT.json` quotes the line. A2AMissed: a sender refused after another has pinned 0.2
fails instead of speaking 0.2 (`a2a.go:111`). RestRedirect: a redirect turns the POST into a GET, and the answer to a
request without the payload is the reply (`rest.go:160`).

**Where else the code is not what it says.** The models have these behaviours, and the passing runs and the theorems are
about what is left when they are excepted. For each claim that fails, the property that states it is kept in its
module, outside the runs: put in the place of the properties of the configuration named, with the constants given, TLC
refutes it.

| claim | property | configuration | what happens |
|---|---|---|---|
| a call waits for its timeout "before giving up" (`browser.go:131`) | `CallsGiveUp` | CdpConnShared | a call whose reply another one discarded never gives up, since the calls that go on keep moving the socket's deadline (`browser.go:427-436`) |
| an orphan page is "the leak this whole change exists to close" (`browser.go:290-291`) | `NoLitter` | BrowserTabsSafety, `Faults = {"setup"}` | a dial that fails after `createTarget` leaves its page in Chrome (`browser.go:354-372`) |
| the diff "degrades to no reply rather than to a wrong one" (`browser_script.go:51-52`) | `NoneRatherThanWrong` | WidgetSends, `Worlds <- RestlessWorlds` | page text is compared by length and prefix (148-152): with a footer, or when the head changes, old text is the reply |
| "a finding remains attributable to the payload that produced it" (`browser.go:61-62`) | `Attributable` | WidgetSends, `Worlds <- SharedWorlds` | the answer that missed one Send's deadline, or the answer to the other Browser's payload, is an attempt's reply; each of the two worlds suffices |
| a 400 is "an agent that received the payload" (`rest.go:209-210`) | `ReplyMeansDelivered` | RestRedirect, `Targets <- RefusingTargets`, `Drops = FALSE` | a gateway refuses with 400 or 413 a request that the agent never gets: its page is the reply; so is a page served with 200 where no field is named |
| "only auth rejections (401/403) are errors; everything else is captured as text and scored" (`rest.go:7-11`) | `OnlyAuthIsError` | RestRedirect | 404, 405, 429, 5xx and a 200 without the named field are errors (`rest.go:174-232`), as the comments beside those lines mean them to be |
| `FromRaw` lands on "the single form Python would print" (`pyjson.go:35-37`), which "by default" is ASCII (77) | `RawIsPython` | ReplyTexts | what is not ASCII is left as it is |
| `Marshal` "encodes a value the way Python's json.dumps would" (`pyjson.go:119`) | `MarshalIsPython` | ReplyTexts | a DEL is left as it is, which `json.dumps` escapes |
| "the evidence must match" the text of a number (`rest.go:344-345`) | `IntegerAsSent` | ReplyTexts | an integer that no float64 holds, 2^53 + 1 say, is reported as one next to it (`rest.go:221-222`) |
| "the text parts are what a red-team judge reads" (`mcp.go:254`) | `OnlyTextParts` | ReplyTexts | the text of an MCP part of any type is the tool's reply (`mcp.go:273-276`) |

Other behaviours the models have, without a property of their own:

- Browsers sharing a tab use its socket at once, and one throws away the reply the other waits for
  (`browser.go:437`);
- a Browser that joins an open page clicks its launcher again, because `b.sent` and the page's flag are
  alternatives in the condition (`browser_script.go:65`);
- a payload's words are stripped from an answer that begins with them, in bubbles too, where nothing is echoed
  (`browser_script.go:155`);
- an MCP reply that is split over several data lines of a stream, as server-sent events may be, is malformed,
  since only the last line is read (`mcp.go:150-155`);
- an A2A error with `"result": null` is returned as a reply (the fault `nullResult`), an A2A artifact without text
  hides the text of the status, and overlapping A2A Sends start a task each while none is known yet;
- an MCP envelope with neither result nor error is an empty reply without an error (`mcp.go:143`; the
  fault `noResult`);
- the session id, written after the message, takes its place when both go to one path, where the
  comment at `rest.go:101` lets the technique's payload win; 2^63 is printed as 2^63 - 1 by builds whose
  conversion saturates (`rest.go:359`).

**Fairness.** A started call is scheduled, and what it waits for carries a deadline - but for writes to the
DevTools socket, which do not: they are taken to end, which needs a Chrome that reads its
socket - so its steps are weakly fair. Sections under `liveTabsMu` are strongly fair: the lock is free again and again
because its holders return, and Go's mutex hands itself to a waiter that starves for a millisecond.
Starting a call is never forced, and nothing is assumed of Chrome in `CdpConn`, where a read under a
deadline that has passed can only consume what is buffered and then fails. That deadline may be another
call's by then, which is why `CallsReturn` excepts a caller beside whom calls never end. The gateway in
`WebSocketConn` is fair; in the weather "slow" the deadline may end the wait instead. The page script is
checked for safety only: what ends it is its own deadline. So is REST, whose one request is ended by the
client's timeout, and which has no loop but the redirects that `StaysOnSite` bounds.

## 5. Mistakes the properties catch

Each property of a passing run is paired with one plausible mistake that violates it in that very run:
a join that is not counted, a lost race that forgets its page, a deletion by key instead of by
identity, a publication without the second look, a release that closes the socket alone, a read
deadline set once, a reply taken by arrival, a snapshot not taken, an answer taken at the first
silence, a preparation guarded by `b.sent` alone, a retry not counted, a timed-out socket kept, a
denial retried, a dialect pinned before it worked, any error earning a retry, an error taken for a
result, a socket's error returned as a reply, no tools reported from a cache that was not refreshed, a dialer that trusts a resolution, a
redirect not compared, an error page scored, a static object not copied, an escaped quote that ends a
string, an index off by one, and others. `PROJECT.json` lists them under "mutants".

## 6. What is proved

`BrowserTabsProofs` proves, for every finite set of Browsers, any pages, any supply of tabs, any
assignment of Browsers to pages and any faults (the assumptions are the four ASSUMEs of
`BrowserTabs`: a finite set of Browsers, values for "nil" and "unlocked" that are not tabs or Browsers,
keys that are keys):

| theorem | of |
|---|---|
| `Invariance` | `IInv`, the inductive invariant |
| `TypeCorrect` | `TypeOK` |
| `ReferencesExact` | `RefsExact` |
| `HeldTabStaysLive` | `HeldTabIsLive` |
| `LitterFree` | `NoLitter`, assuming that dialCDP does not fail half way and Chrome executes every closeTarget (`Clean`) |
| `Refinement` | `ImplementsSharedPage` |
| `CallsAreBounded` | a Send or a Close takes eight steps of its own at most |

`RefsExact` is not inductive: that a count equals the number of holders survives a step only if a tab
being opened or released is known to nobody else (`OwnTabs`), a published tab is held by somebody and
under one key (`LiveTabs`), a tab held under a key is that key's tab unless it was swept (`HeldTabs`),
an opener's tab is counted once before anybody holds it (`OpeningTabs`), and a call's local variable and
the lock follow its position (`CallShape`). `IInv` is the conjunction. The argument is one lemma per kind
of step: steps of one Browser that change nobody's holding (`OwnStepInv`), joins (`EnterInv`), the
publication (`PublishInv`), the two ways of giving up (`DropSharedInv`, `DropLastInv`), CloseAll and the
sweeps. What each step does to `Holds` is stated first (`OwnStepHolds`, `EnterHolds`, `DropHolds`), so
that the counting is done once per lemma, with the library's facts about cardinality: the last
reference is given up only by the only holder (`LastTab`), a shared one only when another remains
(`SharedTab`). Theorems about the properties then follow from `IInv`. `LitterFree` adds that a socket is
closed only after its page was asked to close (`PageFollowsSocket`). `Refinement` maps each step
by a lemma: joins to `Enter`, the publication to `Start`, giving up to `Leave`, `End` or, for a
tab that was swept, to nothing, `CloseAll` to `Disband`, and all others to a stutter.

`CdpConnProofs`, for every finite set of callers, any number of calls, of ids borne at once and of unread
messages, and any faults (`CallersAssumption`, `BoundsAssumption`):

| theorem | of |
|---|---|
| `Invariance`, `TypeCorrect` | `IInv`, `TypeOK` |
| `RepliesAreOwn` | `OwnReply` |
| `TimeoutsAreOwn` | `TimeoutIsOwn` |

That a caller is handed its own reply rests on ids: no two callers have the same (`Ids`), and a command or a
message with the id of a call is that call's (`Messages`) - also when the call before it was given up, since an
id that a command or a message bears is not given out. A caller alone reads under a deadline it set itself (`Deadlines`).

`WebSocketConnProofs`, for any sockets, Sends, probes and faults (`ConnsAssumption`,
`BoundsAssumption`):

| theorem | of |
|---|---|
| `Invariance`, `TypeCorrect` | `IInv`, `TypeOK` |
| `AnswersAreOwn` | `OwnAnswer` |
| `RetriedOnce` | `AtMostTwice` |
| `NoneLeaked` | `NoSocketLeak` |
| `DenialEnds` | `DeniedIsFinal` |
| `RepairUnseen` | `DropsBetweenTurnsUnseen` |
| `Refinement` | `ImplementsTarget` |
| `SendsAreBounded` | a Send takes six steps of its own at most |

A reply is the right one because nothing is under way on the socket between turns, and only this Send's
payload or its answer within one (`Turn`), which in turn needs that a socket given up is closed and that
a closed one carries nothing (`Sockets`). `Deliveries` counts what was received against the attempt;
`Ends` says that a Send under way has no outcome; `IdleDrops` is the history of a drop between turns: the
first attempt lost the payload unread, the second has a socket that is up. `Refinement` needs one more
invariant: every answer on its way, and every reply returned, is to a payload that the gateway has received
(`Heard`). A write maps to `Reach` or, on the second attempt, to a stutter.

`MCPToolsProofs`, for any finite sets of senders and listers, any tools and any numbers of Sends, discoveries
and deployments (`CallersAssumption`, `ToolsAssumption`, `BoundsAssumption`):

| theorem | of |
|---|---|
| `Invariance`, `TypeCorrect` | `IInv`, `TypeOK` |
| `NewsOnly` | `NoToolsIsNews` |
| `TrueOnly` | `NoToolsIsTrue` |
| `RepliesReached` | `ReplyMeansReached` |
| `Refinement` | `ImplementsTarget` |
| `CallsAreBounded` | a Send or a DiscoverTools takes five steps of its own at most |

`Shape` ties the position of a call to the replies it may hold; `News` says that a Send which is about to
find no tool was under way when the last was lost; `Honest` that a server which lists what it has never
empties the cache; `Reached` follows a payload from its Send to a tool. `Refinement` is from the same
invariant: a call of a tool maps to `Reach`, the end of a Send to `Reply` or `Fail`, and everything a lister does to a
stutter.

`A2ADialectProofs`, for any finite set of senders, any number of Sends, any dialects and faults
(`SendersAssumption`, `BoundAssumption`); where marked, without `nullResult` among the faults:

| theorem | of |
|---|---|
| `Invariance`, `TypeCorrect` | `IInv`, `TypeOK` |
| `OnceOnly` | `ExecutedOnce` |
| `PinnedSpoken` (marked) | `PinnedIsSpoken` |
| `OneTask` (marked) | `SequentialConversation` |
| `Refinement` (marked) | `ImplementsTarget` |
| `SendsAreBounded` | a Send takes seven steps of its own at most, in both dialects together |

`Running` says that a payload whose exchange has yet to run it, or was refused for its verb, has not been
run: falling back cannot repeat it. `Sending` says that payloads belong to one sender each;
`Resulting` that a result comes from an agent that speaks the dialect and ran the payload. `Counting` bounds
the task ids: one for the connector and one for each payload that was run, which `TypeCorrect` needs and
which rests on the library's facts about cardinality. `Conversing` is about a sender that is alone:
it tries 0.2 only where 0.3 is unknown, and what the agent ran it ran in the one task that
goes with the dialect - remembered, or in the reply not yet read. That nobody else can be inside while
it is (`AloneInside`) is what makes the invariant inductive under concurrent senders.

`RestExchangeProofs`, for any senders, hosts, www pairs, addresses, block lists, cap and number of Sends
(the assumptions of `GuardedClient` and `RestExchange`):

| theorem | of |
|---|---|
| `Invariance`, `TypeCorrect` | `IInv`, `TypeOK` |
| `PublicOnly` | `OnlyPublic` |
| `OnSite` | `StaysOnSite` |
| `AnswersJudged` | `AnswersAreReplies` |
| `Refinement`, assuming `~Drops` | `ImplementsTarget` |

The client's part of the invariant is proved of the client's steps alone and then carried through the
exchange. `HopInv` says that a request is on the endpoint's site at every hop and below the cap while it
may go on; the site is the closure of the endpoint under www links, so that comparing each hop with the
last one is enough (`SiteClosed`). `PinInv` adds the kept connections to what `OnlyPublic` says of those
in use, since `Reuse` looks at nothing. `AnswerInv` says of a response what `Verdict` will make of it: a reply, if the agent wrote it, and if not, only
where something may pass for the agent;
`SentInv` that payloads are told apart; `CarriedInv` that without dropped bodies what the agent answers
it has got. With `Telling`, the last two make the refinement's steps legal: a new payload is in nobody's hands, and a
reply is to a payload that was reached.

`JsonProofs` has two parts. The first is about `RestPayload`, for any senders, mappings, JSON values and session ids (`SessionsAssumption`; paths are
sequences of strings and values have no leaf above another, `ConfigsAssumption`; a static value is told
apart from a session id, and so is a message, `ContentsAssumption`):

| theorem | of |
|---|---|
| `Invariance`, `TypeCorrect` | `IInv`, `TypeOK` |
| `MessageIsSent` | `MessageSent` |
| `StaticIsSent` | `StaticSent` |
| `SessionIsSettled` | `SessionSettled` |

`SetNestedValue` says what one write does: a JSON value comes out, with the new leaves at the path and
what does not collide with it as it was. It rests on two facts about paths: what collides with a leaf
under a path collides with the path (`CollidesAbove`), and leaves under one path are above each other only if
they are so in the value (`UnderPath`). `Copied` - no payload shares an object with the configuration -
makes a write one Send's own (`WriteOwn`), so that what the others have written stays (`OthersKeep`).
`Placed` and `Kept` follow the message and the static leaves through the later writes; `Settled` says that
while no SetSession overlaps a Send, both of its reads find the id it began with.

`WidgetExchangeProofs`, for any finite set of Browsers, any number of payloads and any scans
(`BrowsersAssumption`, `MaxSendsAssumption`, `WorldsAssumption`):

| theorem | of |
|---|---|
| `Invariance`, `TypeCorrect` | `IInv`, `TypeOK` |
| `ReportedOnce` | `NoPieceTwice` |
| `TypedIfPrepared` | `PreparedBeforeTyping` |
| `AnswerWhole` | `WholeResponse` |

`NoPieceTwice` is not inductive: a piece could come back if the page showed it again, or if the snapshot of a
later Send did not cover it. `Numbered` says that a payload which waits to be typed is new to page and scripts,
so typing it repeats nothing; `Page` that a bubble's text is all about the payload it answers, which is not
pending; `Reported`, of a page read by bubbles, that what was told or read is not pending either, and that no
bubble past a watching script's count answers a payload of which its Browser has been told something: a bubble
that was told may still grow, but it lies below the count. A reload empties the transcript and stops
every script, so that no snapshot outlives the page it was taken in. `WholeResponse`, and `NoPieceTwice` of page
text, need a second invariant, `Conversation`: for a Browser alone with a good bot nothing is pending between its
Sends, and within one the page is at one of four stages (`Stage`) - its payload unseen, echoed, half answered, answered.
What has been added since the snapshot is that exchange (`TextSince`: the snapshot is the head and a beginning of the
transcript; `BubblesSince`: one bubble past the count), and the capture reads just that: the code's slice by
length is then the right one (`AppendedRead`), and what the prefix strip leaves of echo and quotation is the answer
(`EchoRead`, `ExchangeRead`). `Settle` is possible only in the last stage (`SettledWhole`).

The second part of `JsonProofs` is about `ReplyCalls`, for any set of inputs: texts, paths, lists of parts,
streams and schemas of any length, replies of any shape, integers of any width and any set of floats
(`ValuesAssumption`: what a JSON value holds are JSON values; `KindsAssumption`: the other kinds of parts are not
text; `InputsAssumption`; `MaxIntAssumption`; `FloatsAssumption`):

| theorem | of |
|---|---|
| `CallsAnswered` | the invariant: a call returns what the function called makes of its input |
| `Respaced` | `SpacedAsPython` |
| `FieldsRead` | `FieldIsRead` |
| `TextsKept` | `TextKept` |
| `ArgumentsDeclared` | `ArgumentDeclared` |
| `NumbersKept` | `NumberKept` |
| `RunesReadBack` | `EscapeRune`: `\uXXXX`, or a pair of surrogates, is read back as the character it was made from |

`SpacedAsPython` lets `EscapeRune` say what an escaped character is, and `RunesReadBack` says that it is right.
The others are about loops, and loops are about every length. The library's induction theorems take an operator
as a parameter, which the provers cannot instantiate; induction is therefore done over sets: `Induction` says that a
set of numbers with 0 and all successors has all numbers, from the library's fact that `<` on the numbers is
well-founded. From it come `Recursion` - there is a function that follows a
sequence of steps, one place longer at a time - and `StaysIn`, and with them what the recursive functions of the model
return (`PlacesFollow`, `LookupsFollow`, `ResolvedFollows`) and what `FlattenSeq` does (`Flattened`, `FlatPrefix`).

`SpacedAsPython` is then an argument in two steps. `PlacesKnown`: the walk's two flags say at every place what the
parities say, since a run of backslashes grows by one or ends (`RunNext`, `EscapedNext`) and a quote that is not
escaped changes the parity of the quotes (`InStringNext`). `PieceByPiece`: two passes over a text, the second
over what the pieces of the first make, come to what one pass with the composed pieces makes - `json.Compact`
and then `SpaceSeparators` in `FromRaw`, where what is left out leaves the walk where it is (`PlaceKept`), and
`SpaceSeparators` and then `EnsureASCII` in `Marshal`. `FieldIsRead` follows a path (`LookupFinds`): after
each segment the walk has what the path leads to, or has ended and it leads to nothing. `TextKept`
rests on `PartsJoined`, which compares the parts one by one, and on the last data line of a stream
(`LastDataRead`); `NumberKept` on the decoder's choice among the nearest floats (`FloatDecoded`) and on what is
printed being the float that was chosen (`NumberPrinted`); `ArgumentDeclared` on the least place that the `CHOOSE` in `FirstIn` chooses (`FirstFound`).

The four theorems of bounds are the half of `CallsReturn` and `SendsReturn` that needs no fairness: every step of a
call lowers `Ahead`, the number of steps it can still take, whatever has failed in it, and no step of another
caller, the network or the far end raises it. `Ahead` counts the places still to be passed, and once more
for the second attempt or the older dialect that has not been tried. So a started call that does not return has
been stopped, waiting for the lock or for an answer; it never goes round in its retries.

Model-checked only: every liveness property - `CallsReturn` of three modules, `SendsReturn` of two, and
`LitterCleared` - because the prover has no ENABLED. `CallsReturn` of `CdpConn` has no such bound: a call reads
past as many events as Chrome sends before its deadline, and its return rests on fairness alone.

## 7. What is not modelled

The command line: it builds one connector, sends once and prints; the page it may leave in Chrome is a state of
`BrowserTabs`, but the end of the process is in no model. In the parts modelled, left
out are: selector detection and text normalisation in the page, pieces of text of different lengths, and a page
that shows its transcript in another order than it grew; how Go's decoder matches keys without regard to case and
treats duplicate ones; the wording of errors; headers and
credentials, beyond the fact that a probe uses a socket of its own; A2A, MCP and WebSocket request ids
and paths, which the code does not compare; the parsing of URLs and which networks the address policy names
(an address is internal or not); the proxies of the private client; the address check in the WebSocket
dialers, which is one dial of `GuardedClient`; `transports.go`, a constant table; a WebSocket gateway that does not
answer one for one, or what it remembers across a re-dial; and a panic in the WebSocket library under concurrent writers.
