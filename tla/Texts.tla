------------------------------- MODULE Texts -------------------------------
(***************************************************************************)
(* The texts the option parser of AirPlayServer.cpp works on, as far as it *)
(* looks into them.  A text is a sequence of chunks: a chunk stands for a  *)
(* run of characters no rule of the parser tells apart, or for the numbers *)
(* it spells.  A text of several chunks is one with spaces or quotes in it.*)
(***************************************************************************)
EXTENDS Integers, Sequences

Chunk(text) == [text |-> text, dash |-> FALSE, num |-> <<>>]
Text(text) == <<Chunk(text)>>
Option(text) == <<[Chunk(text) EXCEPT !.dash = TRUE]>>
Number(n) == <<[text |-> "", dash |-> n < 0, num |-> <<n>>]>>
\* Numbers with commas, colons or an x and an @ between them.
Numbers(sep, ns) == <<[text |-> sep, dash |-> ns[1] < 0, num |-> ns]>>

SPACE == Chunk(" ")
QUOTE == Chunk("'")
BACKSLASH == Chunk("\\")

Dash(text) == text[1].dash
IsNumber(text) == Len(text) = 1 /\ text[1].text = "" /\ text[1].num # <<>>
=============================================================================
