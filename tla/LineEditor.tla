----------------------------- MODULE LineEditor -----------------------------
(***************************************************************************)
(* What editing a line promises: characters, and a cursor between them.    *)
(***************************************************************************)
EXTENDS Integers, Sequences

CONSTANT Characters

VARIABLES line, cursor

LineInit == cursor = Len(line)

Before == SubSeq(line, 1, cursor)
After == SubSeq(line, cursor + 1, Len(line))

MoveCursor == cursor' \in {cursor - 1, cursor + 1, 0, Len(line)} \cap (0 .. Len(line)) /\ line' = line

Insert(c) == line' = Append(Before, c) \o After /\ cursor' = cursor + 1

RemoveBefore ==
  /\ cursor > 0
  /\ line' = SubSeq(line, 1, cursor - 1) \o After
  /\ cursor' = cursor - 1

RemoveAfter ==
  /\ cursor < Len(line)
  /\ line' = Before \o Tail(After)
  /\ cursor' = cursor

LineNext == MoveCursor \/ (\E c \in Characters : Insert(c)) \/ RemoveBefore \/ RemoveAfter

LineSpec == LineInit /\ [][LineNext]_<<line, cursor>>
=============================================================================
