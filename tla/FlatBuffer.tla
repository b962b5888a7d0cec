----------------------------- MODULE FlatBuffer -----------------------------
(***************************************************************************)
(* What a ByteArray promises its callers, without nodes: a flat array of  *)
(* bytes with a read/write position and a size.  A write stores its bytes *)
(* at the position and moves it; a read returns the bytes at the position *)
(* and moves it; toString and getReadBuffers return bytes from the        *)
(* position without moving it; setPosition may extend the size, and the   *)
(* bytes it exposes are whatever the memory held; clear empties it.       *)
(* Bytes at or past the size are Junk.  `out` is the last result handed   *)
(* to the caller.                                                          *)
(***************************************************************************)
EXTENDS Naturals, Sequences

CONSTANTS Vals, Junk, MaxCap

VARIABLES data, pos, size, out

vars == <<data, pos, size, out>>

Cells == 0..(MaxCap - 1)

\* The n bytes starting at the position.
Slice(n) == [j \in 1..n |-> data[pos + j - 1]]

Init ==
    /\ data = [p \in Cells |-> Junk]
    /\ pos = 0 /\ size = 0 /\ out = <<>>

Write(buf) ==
    LET n == Len(buf) IN
    /\ pos + n <= MaxCap
    /\ pos' = pos + n
    /\ size' = IF pos + n > size THEN pos + n ELSE size
    /\ UNCHANGED out
    /\ data' = [p \in Cells |->
                  IF pos <= p /\ p < pos + n THEN buf[p - pos + 1]
                  ELSE IF p < size THEN data[p] ELSE Junk]

Read(n) ==
    /\ n <= size - pos
    /\ pos' = pos + n
    /\ UNCHANGED <<data, size>>
    /\ out' = Slice(n)

Peek(n) ==
    /\ n <= size - pos
    /\ UNCHANGED <<pos, size, data>>
    /\ out' = Slice(n)

SetPosition(v) ==
    /\ v \in Cells \cup {MaxCap}
    /\ pos' = v
    /\ size' = IF v > size THEN v ELSE size
    /\ data' \in [Cells -> Vals \cup {Junk}]
    /\ \A p \in Cells : p < size \/ p >= size' => data'[p] = data[p]
    /\ UNCHANGED out

Clear ==
    /\ pos' = 0 /\ size' = 0
    /\ UNCHANGED out
    /\ data' = [p \in Cells |-> Junk]

Next ==
    \/ \E n \in 1..MaxCap : \E buf \in [1..n -> Vals] : Write(buf)
    \/ \E n \in 0..MaxCap : Read(n) \/ Peek(n) \/ SetPosition(n)
    \/ Clear

Spec == Init /\ [][Next]_vars
=============================================================================
