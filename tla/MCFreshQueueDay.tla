-------------------------- MODULE MCFreshQueueDay --------------------------
(***************************************************************************)
(* FreshQueue with the retention period that the expression of clear()     *)
(* really has.  24*3600*1000*1000 is a product of four ints, so it is      *)
(* computed modulo 2^32 before it is subtracted from a 64-bit time.        *)
(* TLC's integers have the same 32 bits: a product is computed here in two *)
(* halves of 16 bits.                                                      *)
(***************************************************************************)
EXTENDS FreshQueue

Half == 65536

\* a * b as a 32-bit int computes it, for products that stay below 2^31 after
\* reduction modulo 2^32; b is a small factor.
IntTimes(a, b) ==
  LET low  == (a % Half) * b
      high == (a \div Half) * b + low \div Half
  IN  ((high % Half) * Half) + (low % Half)

\* 24*3600*1000*1000, in microseconds.
RetentionUs == IntTimes(IntTimes(IntTimes(24, 3600), 1000), 1000)

\* The unit of the clock of this instance, in microseconds, and a day in it.
TickUs         == 250000000
RetentionTicks == RetentionUs \div TickUs
DayTicks       == (24 * 3600) \div (TickUs \div 1000000)

\* fresh_kafka.cc:193 says that clear() deletes the uids of a day ago: a uid
\* leaves the map of new users only on account of a registration made more than
\* a day before.
KeptForADay ==
  [][\A u \in DOMAIN kq \ DOMAIN kq' :
        \E e \in rubsh : e.uid = u /\ e.stamp + DayTicks < now]_vars
=============================================================================
