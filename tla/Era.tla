---------------------------------- MODULE Era ----------------------------------
(***************************************************************************)
(* The mortality of transactions, as sp_runtime computes it (external), on *)
(* numbers of blocks.  An era is a period and a phase; it says nothing of  *)
(* the block it was made for, which is found again from the current one.   *)
(***************************************************************************)
EXTENDS Integers

PowersOfTwo ==
  {1, 2, 4, 8, 16, 32, 64, 128, 256, 512, 1024, 2048, 4096, 8192, 16384, 32768, 65536,
   131072, 262144, 524288, 1048576, 2097152, 4194304, 8388608, 16777216, 33554432,
   67108864, 134217728, 268435456, 536870912, 1073741824}

\* checked_next_power_of_two of a block number; a U32 in the code.
next_power_of_two(n) ==
  CHOOSE p \in PowersOfTwo : p >= n /\ (p = 1 \/ p \div 2 < n)

max(a, b) == IF a >= b THEN a ELSE b
min(a, b) == IF a <= b THEN a ELSE b

\* Era::mortal: the period is a power of two from 4 to 65536; long periods
\* have a coarse phase.
mortal(period, current) ==
  LET p == min(max(next_power_of_two(period), 4), 65536)
      quantize_factor == max(p \div 4096, 1)
  IN  [period |-> p, phase |-> ((current % p) \div quantize_factor) * quantize_factor]

Immortal == [period |-> 0, phase |-> 0]

\* The first block of the era that current is in.
birth(era, current) ==
  IF era = Immortal THEN 0
  ELSE ((max(current, era.phase) - era.phase) \div era.period) * era.period + era.phase
=============================================================================
