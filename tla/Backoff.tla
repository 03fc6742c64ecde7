------------------------------ MODULE Backoff ------------------------------
(***************************************************************************)
(* The delay before a failed remote is tried again (fail_remote, main.c),  *)
(* in unsigned words of WordBits bits.                                     *)
(***************************************************************************)
EXTENDS Integers

CONSTANTS
  Unit,          \* RECONNECT_INTERVAL_UNIT
  MaxInterval,   \* config->reconnect.max_interval
  WordBits       \* CHAR_BIT * sizeof(uint64_t)

Word == 0..2^WordBits - 1

\* The second conjunct says what the prover does not know of exponentiation.
ASSUME BackoffAssumption ==
  /\ WordBits \in Nat \ {0}
  /\ 2^0 = 1 /\ \A i \in 0..WordBits - 1 : 2^i \in Nat /\ 2^(i + 1) = 2 * 2^i
  /\ Unit \in Word \ {0} /\ MaxInterval \in Word
  /\ MaxInterval \div Unit <= 2^(WordBits - 1)

Least(a, b) == IF a <= b THEN a ELSE b

\* next_reconnect_delay; failcount is at least 1.  A shift by the width of the
\* word is undefined, so that the count is limited first.
ReconnectDelay(failcount) ==
  LET lshift == Least(failcount - 1, WordBits - 1)
      tmp    == Least(2^lshift, MaxInterval \div Unit)
  IN (tmp * Unit) % 2^WordBits
=============================================================================
