------------------------------ MODULE TextEdit ------------------------------
(***************************************************************************)
(* Draw::TextEdit of btop_draw.cpp, which edits the filter of the process  *)
(* box and the options: a string of bytes, with the place of the cursor    *)
(* kept twice, in bytes and in characters.                                 *)
(*                                                                         *)
(* A character is one to four bytes, and byte k of character c is          *)
(* <<c, k>>; only the first is not a continuation byte.  A key arrives     *)
(* whole: bytes of one that were read apart are left out.                  *)
(***************************************************************************)
EXTENDS Integers, Sequences, SequencesExt, FiniteSetsExt

CONSTANTS
  Characters,  \* what is typed
  Width,       \* how many bytes each of them has
  Space,       \* the key with a name
  Digits,      \* what isint() accepts
  Limit        \* of the text, in bytes: max_size() - 20, and the bound of runs

ASSUME TextEditAssumption ==
  /\ Width \in [Characters -> 1 .. 4]
  /\ Digits \cup {Space} \subseteq Characters
  /\ \A c \in Digits \cup {Space} : Width[c] = 1
  /\ Limit \in Nat

VARIABLES
  text,    \* text
  pos,     \* the cursor, in bytes
  upos,    \* the cursor, in characters
  numeric  \* numeric

textEditVars == <<text, pos, upos, numeric>>

Encode(c) == [k \in 1 .. Width[c] |-> <<c, k>>]
Encoded(s) ==
  LET upTo[n \in 0 .. Len(s)] == IF n = 0 THEN <<>> ELSE upTo[n - 1] \o Encode(s[n])
  IN  upTo[Len(s)]
Bytes == UNION {ToSet(Encode(c)) : c \in Characters}

---------------------------------------------------------------------------
(* btop_tools                                                              *)

Leads(s) == {n \in DOMAIN s : s[n][2] = 1}
ULen(s) == Cardinality(Leads(s))

\* The first len characters: up to the one after them.
UResize(s, len) ==
  LET past == {n \in Leads(s) : ULen(SubSeq(s, 1, n)) > len}
  IN  IF len < 1 THEN <<>> ELSE IF past = {} THEN s ELSE SubSeq(s, 1, Min(past) - 1)

\* The last len characters; the first byte is not looked at.
LUResize(s, len) ==
  LET from == {n \in Leads(s) \ {1} : ULen(SubSeq(s, n, Len(s))) >= len}
  IN  IF len < 1 THEN <<>> ELSE IF from = {} THEN s ELSE SubSeq(s, Max(from), Len(s))

---------------------------------------------------------------------------
(* command()                                                               *)

Text(t, p, u) == text' = t /\ pos' = p /\ upos' = u /\ UNCHANGED numeric
From(n) == SubSeq(text, n + 1, Len(text))      \* text.substr(n)

Left == upos > 0 /\ Text(text, Len(UResize(text, upos - 1)), upos - 1)
Right == pos < Len(text) /\ Text(text, Len(UResize(text, upos + 1)), upos + 1)
Home == text # <<>> /\ pos > 0 /\ Text(text, 0, 0)
End == text # <<>> /\ pos < Len(text) /\ Text(text, Len(text), ULen(text))

Backspace ==
  /\ pos > 0
  /\ LET first == UResize(text, upos - 1)
     IN  Text(IF pos = Len(text) THEN first
              ELSE first \o LUResize(From(Len(first)), ULen(text) - upos),
              Len(first), upos - 1)

Delete ==
  /\ pos < Len(text)
  /\ LET first == UResize(text, upos + 1)
     IN  Text(UResize(first, ULen(first) - 1) \o From(Len(first)), pos, upos)

\* Space, and what has one byte, goes in at pos.
InsertByte ==
  /\ Len(text) < Limit
  /\ \E c \in {c \in Characters : Width[c] = 1} :
       /\ numeric => c \in Digits
       /\ Text(InsertAt(text, pos + 1, <<c, 1>>), pos + 1, upos + 1)

\* Other characters follow the first upos.
InsertWideByte ==                              \* slip: moves on one byte
  /\ Len(text) < Limit /\ ~ numeric
  /\ \E c \in {c \in Characters : Width[c] > 1} :
       Text(UResize(text, upos) \o Encode(c) \o From(pos), pos + 1, upos + 1)
InsertWide ==
  /\ Len(text) < Limit /\ ~ numeric
  /\ \E c \in {c \in Characters : Width[c] > 1} :
       LET first == UResize(text, upos) \o Encode(c)
       IN  Text(first \o From(pos), Len(first), upos + 1)

\* A new one, for what the setting holds.
TextEditInit ==
  /\ text \in {Encoded(s) : s \in {<<>>} \cup {<<c, Space>> : c \in Characters}}
  /\ pos = Len(text) /\ upos = ULen(text)
  /\ numeric \in BOOLEAN

TextEditNext ==
  Left \/ Right \/ Home \/ End \/ Backspace \/ Delete \/ InsertByte \/ InsertWide

TextEditSpec == TextEditInit /\ [][TextEditNext]_textEditVars

---------------------------------------------------------------------------
(* Properties.                                                             *)

TextEditTypeOK ==
  /\ text \in Seq(Bytes) /\ pos \in 0 .. Len(text) /\ upos \in Nat
  /\ numeric \in BOOLEAN

\* The characters of the text; bytes that do not make up characters are
\* no line at all.  (The empty line comes first as it is simple.)
Lead(n) == CHOOSE i \in Leads(text) : ULen(SubSeq(text, 1, i)) = n
Spelled == IF text = <<>> THEN <<>> ELSE [n \in 1 .. ULen(text) |-> text[Lead(n)][1]]
Broken == /\ text # <<>> \/ pos # 0 \/ upos # 0
          /\ \/ Encoded(Spelled) # text
             \/ pos # Len(Encoded(SubSeq(Spelled, 1, upos)))

\* Every key does to the characters what its name says, with the cursor
\* between the same two of them in bytes and in characters, and never takes
\* one apart, however long each is.  (TextEdit::command)
Line == INSTANCE LineEditor WITH line <- IF Broken THEN <<"broken">> ELSE Spelled,
                                 cursor <- upos
EditsALine == Line!LineSpec
=============================================================================
