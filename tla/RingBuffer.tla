------------------------------ MODULE RingBuffer ------------------------------
(***************************************************************************)
(* The ring buffer of the driver framework (ringbuffer.c) as operators on  *)
(* a record r: the bytes, the two indices and a mirror bit for each, which *)
(* is flipped whenever its index starts over.  Equal indices mean an empty *)
(* buffer if the mirrors agree and a full one if they differ.              *)
(***************************************************************************)
EXTENDS Naturals, Sequences

CONSTANTS
  Size,    \* rb->buffer_size
  Byte     \* the values stored

RingAssumption == Size \in Nat \ {0} /\ Byte # {}

Ring ==
  [ buf : [0 .. Size - 1 -> Byte],
    ri  : 0 .. Size - 1,  wi : 0 .. Size - 1,     \* read_index, write_index
    rm  : BOOLEAN,        wm : BOOLEAN ]          \* read_mirror, write_mirror

(* rt_ringbuffer_init *)
NewRing(b) == [buf |-> [i \in 0 .. Size - 1 |-> b], ri |-> 0, wi |-> 0, rm |-> FALSE, wm |-> FALSE]

DataLen(r) ==
  IF r.ri = r.wi THEN IF r.rm = r.wm THEN 0 ELSE Size
  ELSE IF r.wi > r.ri THEN r.wi - r.ri ELSE Size - (r.ri - r.wi)

SpaceLen(r) == Size - DataLen(r)

(* The index n bytes on, and whether it passes the end of the buffer.      *)
(* ("Size - i > n" keeps it in the mirror.)                                *)
Plus(i, n)  == IF Size - i > n THEN i + n ELSE n - (Size - i)
Wraps(i, n) == ~(Size - i > n)

(* How far behind index i the index j is. *)
Ahead(i, j) == IF j >= i THEN j - i ELSE j + Size - i

AtMost(n, m) == IF m < n THEN m ELSE n

(* rt_ringbuffer_put: as many bytes of s as there is space for.            *)
Accepted(r, s) == SubSeq(s, 1, AtMost(Len(s), SpaceLen(r)))

Advance(r, n) ==
  [r EXCEPT !.wi = Plus(r.wi, n), !.wm = IF Wraps(r.wi, n) THEN ~@ ELSE @]

PutBytes(r, s) ==
  LET a == Accepted(r, s)
  IN  IF SpaceLen(r) = 0 THEN r
      ELSE [Advance(r, Len(a)) EXCEPT
              !.buf = [j \in 0 .. Size - 1 |->
                         IF Ahead(r.wi, j) < Len(a) THEN a[Ahead(r.wi, j) + 1] ELSE r.buf[j]]]

(* rt_ringbuffer_get: at most n bytes; Taken(r, n) are the bytes copied.   *)
Taken(r, n) == [i \in 1 .. AtMost(n, DataLen(r)) |-> r.buf[Plus(r.ri, i - 1)]]

GetBytesUnflipped(r, n) ==      \* mutant: the mirror bit is not flipped
  IF DataLen(r) = 0 THEN r
  ELSE [r EXCEPT !.ri = Plus(r.ri, AtMost(n, DataLen(r)))]

GetBytes(r, n) ==
  LET m == AtMost(n, DataLen(r))
  IN  IF DataLen(r) = 0 THEN r
      ELSE [r EXCEPT !.ri = Plus(r.ri, m), !.rm = IF Wraps(r.ri, m) THEN ~@ ELSE @]

(* rt_ringbuffer_putchar, _putchar_force and _getchar                      *)
Next1(i) == IF i = Size - 1 THEN 0 ELSE i + 1

PutChar(r, b) ==
  IF SpaceLen(r) = 0 THEN r
  ELSE [r EXCEPT !.buf[r.wi] = b, !.wi = Next1(@), !.wm = IF r.wi = Size - 1 THEN ~@ ELSE @]

(* On a full buffer the oldest byte is overwritten and the read index goes *)
(* along.                                                                  *)
PutCharForce(r, b) ==
  LET full == r.ri = r.wi /\ r.rm # r.wm
      last == r.wi = Size - 1
  IN  [r EXCEPT !.buf[r.wi] = b, !.wi = Next1(@), !.wm = IF last THEN ~@ ELSE @,
                !.ri = IF full THEN Next1(r.wi) ELSE @,
                !.rm = IF full /\ last THEN ~@ ELSE @]

GetChar(r) ==
  IF DataLen(r) = 0 THEN r
  ELSE [r EXCEPT !.ri = Next1(@), !.rm = IF r.ri = Size - 1 THEN ~@ ELSE @]

-----------------------------------------------------------------------------
(* The bytes in the buffer, the oldest first *)
Stored(r) == Taken(r, Size)
=============================================================================
