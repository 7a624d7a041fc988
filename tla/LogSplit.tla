------------------------------ MODULE LogSplit ------------------------------
(***************************************************************************)
(* How logToSplitEntries (exporter/collector/logs.go) splits the text of a *)
(* log record over several entries, so that none is larger than            *)
(* maxEntrySize.  A text is the widths in bytes of its characters; all the *)
(* indices of the code are in bytes.                                       *)
(***************************************************************************)
EXTENDS Integers, Sequences, Sums

BytesOf(text) == Total(text)
Room(maxEntrySize, overheadBytes) == maxEntrySize - overheadBytes

(* math.Ceil(len / room); what a negative room gives is never above 1.     *)
SplitsFor_Floor(n, room) == IF room > 0 THEN n \div room ELSE 0
SplitsFor(n, room) == IF room > 0 THEN (n + room - 1) \div room ELSE 0

(* An empty text leaves the payload unset.  A room of zero divides by      *)
(* zero, and int(+Inf) depends on the platform: the least int, which does  *)
(* not split, or the greatest, which make refuses.                         *)
Outcome(n, room) ==
    CASE n = 0 -> "unset"
      [] n > 0 /\ room = 0 -> "panic"
      [] n > 0 /\ room # 0 -> IF SplitsFor(n, room) <= 1 THEN "whole" ELSE "split"

(* int(math.Floor((k / s) * n)), in float64.  A product that should be an  *)
(* integer may come out just under it, as 7 / 10 * 90 does: slips are the  *)
(* k where it does.  With fewer than ten pieces there is none, nor is the  *)
(* last one.                                                               *)
Inexact(n, s) == {k \in 1..(s - 1) : s >= 10 /\ (k * n) % s = 0}
Boundary_RoundFirst(k, s, n, slips) == k * (n \div s)
Boundary(k, s, n, slips) == (k * n) \div s - IF k \in slips THEN 1 ELSE 0

(* The inner loop takes bytes off a piece until it fits.                   *)
Fitted(start, end, maxEntrySize) ==
    IF end - start > maxEntrySize THEN start + maxEntrySize ELSE end

(* Where piece k ends, and the next one starts; the first starts at 0.     *)
Cuts(n, s, slips, maxEntrySize) ==
    LET cuts[k \in 0..s] ==
            IF k = 0 THEN 0
            ELSE Fitted(cuts[k - 1], Boundary(k, s, n, slips), maxEntrySize)
    IN  cuts
-----------------------------------------------------------------------------
(* The slices the loop takes are legal, the pieces are the text, and none  *)
(* is larger than the room for it (which is short of the payload's tag and *)
(* of the Split field), up to the byte the rounding may move; they are     *)
(* even but for two bytes.                                                 *)
PiecesLegal(n, maxEntrySize, overheadBytes, slips) ==
    LET room == Room(maxEntrySize, overheadBytes)
        s    == SplitsFor(n, room)
        cuts == Cuts(n, s, slips, maxEntrySize)
        Size(k) == cuts[k] - cuts[k - 1]
    IN  Outcome(n, room) = "split" =>
            /\ \A k \in 1..s : cuts[k - 1] <= Boundary(k, s, n, slips) /\ Boundary(k, s, n, slips) <= n
            /\ cuts[s] = n
            /\ \A k \in 1..s : Size(k) <= room + 1
            /\ \A j, k \in 1..s : Size(j) <= Size(k) + 2

(* "not all characters are exactly 1 byte": no character is cut in two.    *)
CharactersKept(text, maxEntrySize, overheadBytes) ==
    LET n    == BytesOf(text)
        room == Room(maxEntrySize, overheadBytes)
        cuts == Cuts(n, SplitsFor(n, room), {}, maxEntrySize)
    IN  Outcome(n, room) = "split" =>
            \A k \in DOMAIN cuts : \E m \in 0..Len(text) : BytesOf(SubSeq(text, 1, m)) = cuts[k]
=============================================================================
