------------------------------- MODULE Buffer -------------------------------
(***************************************************************************)
(* network/Buffer.h: the input and the output of a Context, as operators   *)
(* on records.  The bytes between the cursors r and w are waiting to be    *)
(* read; those outside are stale.                                          *)
(***************************************************************************)
EXTENDS Integers, Sequences, SequencesExt

CONSTANT Stale      \* a byte that was never written

Empty(size) == [buf |-> [i \in 1..size |-> Stale], r |-> 0, w |-> 0]

capacity(b) == Len(b.buf)
unread(b) == b.w - b.r
unwrite(b) == capacity(b) - b.w
available(b) == capacity(b) - unread(b)

\* [readBuffer(), writeBuffer())
Content(b) == SubSeq(b.buf, b.r + 1, b.w)

\* memcpy to position at
Copy(buf, at, data) ==
    [i \in DOMAIN buf |-> IF i - at \in DOMAIN data THEN data[i - at] ELSE buf[i]]

\* Mutant of gc: the cursor w is left where it was.
gcHalf(b) == [b EXCEPT !.buf = Copy(b.buf, 0, Content(b)), !.r = 0]

gc(b) == [buf |-> Copy(b.buf, 0, Content(b)), r |-> 0, w |-> unread(b)]

\* The least power of two that is not below v; an int has no larger one.
roundToPowerOfTwo(v) == CHOOSE p \in {2 ^ i : i \in 0..30} : v <= p /\ p < 2 * v

expandTo(b, size) ==
    [b EXCEPT !.buf = [i \in 1..size |-> IF i <= capacity(b) THEN b.buf[i] ELSE Stale]]

\* gc(hint): room for hint bytes behind w
gcHint(b, hint) ==
    LET c == gc(b)
    IN  IF hint <= unwrite(b) THEN b
        ELSE IF hint <= available(c) THEN c
        ELSE expandTo(c, roundToPowerOfTwo(capacity(c) + hint - available(c)))

hasWritten(b, n) == [b EXCEPT !.w = @ + n]

append(b, data) ==
    LET c == gcHint(b, Len(data))
    IN  hasWritten([c EXCEPT !.buf = Copy(c.buf, c.w, data)], Len(data))

reuseIfPossible(b) ==
    IF b.r = b.w THEN [b EXCEPT !.r = 0, !.w = 0]
    ELSE IF unread(b) < capacity(b) \div 16 /\ b.r > capacity(b) \div 16 THEN gc(b)
    ELSE b

hasRead(b, n) == reuseIfPossible([b EXCEPT !.r = @ + n])

\* readFrom: readv() fills the room behind w first, then a local buffer
readFrom(b, data) ==
    LET limit == unwrite(b)
        n == IF Len(data) <= limit THEN Len(data) ELSE limit
        c == hasWritten([b EXCEPT !.buf = Copy(b.buf, b.w, SubSeq(data, 1, n))], n)
    IN  append(c, SubSeq(data, n + 1, Len(data)))
=============================================================================
