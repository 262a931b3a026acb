------------------------------ MODULE DistData -------------------------------
(***************************************************************************)
(* How the data of a region are divided among its devices:                 *)
(* acc_distributed_data (private/memory.c) gives a device its first byte   *)
(* and its size for the transfers, acc_enqueue_kernel (private/kernel.c)   *)
(* gives the kernel the first row it finds there.  The portions are a      *)
(* sequence with one number per device.  Numbers are not bounded here.     *)
(***************************************************************************)
EXTENDS Integers, Sequences

\* The loops that add up portions, after each of their turns.
Sums(portions) ==
  LET sum[k \in 0 .. Len(portions)] == IF k = 0 THEN 0 ELSE sum[k - 1] + portions[k]
  IN  sum

\* sum_portions and prev_portion.
SumOf(portions) == Sums(portions)[Len(portions)]
Previous(portions, k) == Sums(portions)[k - 1]

\* Mutant: the part of one portion is computed first, and rounded.
StartOfPortions(n, portions, k) == (n \div SumOf(portions)) * Previous(portions, k)

\* acc_distributed_data: what is added to host_ptr, and the new n.
Start(n, portions, k) == (n * Previous(portions, k)) \div SumOf(portions)
Size(n, portions, k) == (n * portions[k]) \div SumOf(portions)

\* acc_enqueue_kernel: offset, in elements of the dominant dimension.
Offset(rows, portions, k) == (rows * Previous(portions, k)) \div SumOf(portions)
==============================================================================
