-------------------------------- MODULE Blocks --------------------------------
(***************************************************************************)
(* The arithmetic between the source and cldflt, cfapi/src/blocks.rs:      *)
(* BlockBuffer, which passes on aligned chunks only, and error_domain, the *)
(* range a failure report names.  Bytes are counted in units, one unit     *)
(* being what the engine hands over at a time (hydration.rs, CHUNK); Chunk *)
(* is the number of units in one transfer (blocks.rs, CHUNK_SIZE).         *)
(***************************************************************************)
EXTENDS Naturals, Integers

CONSTANT Chunk

ASSUME ChunkAssumption == Chunk \in Nat \ {0}

CF_EOF == -1 \* a requested length up to the end of the file

Buffer == [total : Nat, received : Nat, sent : Nat, buf : Nat]

BlockBuffer(total) == [total |-> total, received |-> 0, sent |-> 0, buf |-> 0]

\* take: the piece is the next one and does not run over the end of the placeholder
Fits(b, offset, n) == offset = b.received /\ offset + n <= b.total

\* how much of the buffer and the piece goes out at once: whole chunks only
Whole(b, n) == ((b.buf + n) \div Chunk) * Chunk

Taken(b, n) ==
  [b EXCEPT !.received = @ + n, !.sent = @ + Whole(b, n), !.buf = @ + n - Whole(b, n)]

\* the transfer was refused by cldflt: the piece counts as received, nothing more was sent
Stuck(b, n) == [b EXCEPT !.received = @ + n, !.buf = @ + n]

\* complete: everything arrived, and something is left to send (or the file is empty)
Arrived(b) == b.received = b.total

HasRest(b) == b.buf > 0 \/ b.total = 0

Completed(b) == [b EXCEPT !.sent = @ + b.buf, !.buf = 0]

Larger(a, b) == IF a >= b THEN a ELSE b

RangeEnd(offset, length, size) == IF length < 0 THEN size ELSE offset + length

(***************************************************************************)
(* error_domain: the open part of the requested range as <<start, length>>,*)
(* or <<>> if nothing is open any more.                                    *)
(***************************************************************************)
error_domain(offset, length, size, sent) ==
  LET start == Larger(Larger(offset, sent), 0)
      stop  == RangeEnd(offset, length, size)
  IN  CASE length = 0                   -> <<Larger(offset, 0), 0>>
        [] length # 0 /\ stop > start   -> <<start, stop - start>>
        [] length # 0 /\ stop <= start  -> <<>>
===============================================================================
