------------------------------- MODULE PyJson -------------------------------
(***************************************************************************)
(* pyjson/pyjson.go: JSON written the way Python writes it, by walking the *)
(* bytes of JSON that is there already.  Text is a sequence of code points.*)
(***************************************************************************)
EXTENDS Integers, SequencesExt

Space      == 32
Quote      == 34
Comma      == 44
Colon      == 58
Backslash  == 92
Whitespace == {9, 10, 13, Space}

-----------------------------------------------------------------------------
(* SpaceSeparators, and the state it keeps from byte to byte. *)

Outside == [inStr |-> FALSE, escaped |-> FALSE]

\* Mutant of Strings: an escaped quote ends the string.
StringsUnescaped(w, c) ==
    [inStr   |-> IF c = Quote THEN ~w.inStr ELSE w.inStr,
     escaped |-> FALSE]

\* Where a walk is after c: in a string, and behind a backslash in it.
Strings(w, c) ==
    [inStr   |-> IF c = Quote /\ ~w.escaped THEN ~w.inStr ELSE w.inStr,
     escaped |-> c = Backslash /\ w.inStr /\ ~w.escaped]

\* Where a walk over s is once it has read n of it.
Places(s) ==
    LET at[n \in 0 .. Len(s)] == IF n = 0 THEN Outside ELSE Strings(at[n - 1], s[n]) IN at

\* What a walk writes for a character, and what json.Compact does: insignificant
\* whitespace is left out.
Separated(w, c) == IF c \in {Comma, Colon} /\ ~w.inStr /\ ~w.escaped THEN <<c, Space>> ELSE <<c>>
Compacted(w, c) == IF c \in Whitespace /\ ~w.inStr THEN <<>> ELSE <<c>>

SpaceSeparators(s) == FlattenSeq([i \in 1 .. Len(s) |-> Separated(Places(s)[i - 1], s[i])])

Compact(s) == FlattenSeq([i \in 1 .. Len(s) |-> Compacted(Places(s)[i - 1], s[i])])

FromRaw(s) == SpaceSeparators(Compact(s))

-----------------------------------------------------------------------------
(* EnsureASCII. *)

\* %04x of n, and the \u before it.
Escape(n) ==
    LET digit(d) == IF d < 10 THEN 48 + d ELSE 87 + d IN
    <<Backslash, 117, digit(n \div 4096), digit((n \div 256) % 16), digit((n \div 16) % 16), digit(n % 16)>>

EscapeRune(r) ==
    IF r < 128 THEN <<r>>
    ELSE IF r > 65535 THEN Escape(55296 + (r - 65536) \div 1024) \o Escape(56320 + ((r - 65536) % 1024))
    ELSE Escape(r)

EnsureASCII(s) == FlattenSeq([i \in 1 .. Len(s) |-> EscapeRune(s[i])])

\* Marshal, from what Go's encoder has written.
Marshal(s) == EnsureASCII(SpaceSeparators(s))
=============================================================================
