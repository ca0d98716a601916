-------------------------- MODULE MCWidgetExchange --------------------------
(* Small instances of WidgetExchange for TLC: two Browsers, and the scans    *)
(* they may be in.                                                          *)
EXTENDS WidgetExchange

CONSTANTS b1, b2

World(users, mode, faults) == [users |-> users, mode |-> mode, faults |-> faults]

\* A title that changes, and a banner that comes and goes.
PageHeads == {<<Piece("page", 1)>>, <<Piece("page", 2)>>, <<Piece("page", 3), Piece("page", 1)>>}
PageFooter == <<Piece("page", 4)>>

\* A well-behaved bot on a page that reloads, a bot that is late and pauses on
\* a restless page, and two Browsers in one page; the page text read as a whole
\* or by bubbles.
SomeWorlds ==
    {World({b1}, "diff", {"noInput", "noButton", "reload", "quotes"}),
     World({b1}, "bubbles", {"reload", "quotes", "head", "footer"}),
     World({b1}, "bubbles", {"slow", "pause", "noInput", "reload"}),
     World({b1, b2}, "bubbles", {"pause"})}

\* Page text read as a whole on pages that say something besides the transcript:
\* a head that changes, or a footer.
RestlessWorlds ==
    {World({b1}, "diff", {"head"}), World({b1}, "diff", {"footer"})}

\* A bot that is late, and one that is not but talks to two Browsers.
SharedWorlds ==
    {World({b1}, "bubbles", {"slow"}), World({b1, b2}, "bubbles", {})}
=============================================================================
