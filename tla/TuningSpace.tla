----------------------------- MODULE TuningSpace -----------------------------
(***************************************************************************)
(* The runs that the tuner generates (first half of utils/tuning.c) and    *)
(* the layout of a run in memory (acc_sqlite_read_run_table).              *)
(*                                                                         *)
(* A record g of generation data has, per device, the versions to try and  *)
(* the values for gang, worker and vector, and the portions the devices    *)
(* share.  loops[v] are the loops of version v, each with its seven tiles  *)
(* (0: dynamic) and its length, which the program computes.                *)
(***************************************************************************)
EXTENDS Integers, Sequences, FiniteSets, SequencesExt

Devices(g) == DOMAIN g.devices
Num(g) == Len(g.devices)

\* Generation data that lists no value twice (nothing checks it: a value that is
\* listed twice is tried twice).
NoRepeats(s) == s \in Seq(ToSet(s)) /\ \A i, j \in DOMAIN s : s[i] = s[j] => i = j

GenDataOK(g) ==
  /\ g.devices \in Seq(ToSet(g.devices)) /\ g.devices # <<>>
  /\ g.portions \in Nat
  /\ \A d \in Devices(g) :
       /\ NoRepeats(g.devices[d].versions)
       /\ NoRepeats(g.devices[d].gang)
       /\ NoRepeats(g.devices[d].worker)
       /\ NoRepeats(g.devices[d].vector)

\* Concatenation of f[1], ..., f[n].
Joined(f) == FlattenSeq(f)

------------------------------------------------------------------------------
\* All choices of a version for each device, in the order of the recursion.

acc_tuning_gen_all_version_combinaisons(g) ==
  LET from[d \in 1 .. Num(g) + 1] ==
        IF d > Num(g)
          THEN <<(<<>>)>>
          ELSE Joined([k \in DOMAIN g.devices[d].versions |->
                  [r \in DOMAIN from[d + 1] |-> <<g.devices[d].versions[k]>> \o from[d + 1][r]]])
  IN  from[1]

NumVersionCombinaisons(g) ==
  LET num[d \in 0 .. Num(g)] ==
        IF d = 0 THEN 1 ELSE num[d - 1] * Len(g.devices[d].versions)
  IN  num[Num(g)]

\* All ways to give a number of portions to the devices.  Their number is
\* computed by another recursion, and the program asserts that they agree.

\* Mutant: the last value of the loop is left out.
CountBelow(portions, num_dev) ==
  LET count[n \in 1 .. num_dev] ==
        [k \in 0 .. portions |->
           IF k = 0 \/ n = 1 THEN 1
           ELSE LET upto[i \in 0 .. k] == IF i = 0 THEN 0 ELSE upto[i - 1] + count[n - 1][i - 1]
                IN  upto[k]]
  IN  count[num_dev][portions]

acc_tuning_count_portion_combinaisons(portions, num_dev) ==
  LET count[n \in 1 .. num_dev] ==
        [k \in 0 .. portions |->
           IF k = 0 \/ n = 1 THEN 1
           ELSE LET upto[i \in 0 .. k] ==
                      count[n - 1][i] + (IF i = 0 THEN 0 ELSE upto[i - 1])
                IN  upto[k]]
  IN  count[num_dev][portions]

acc_tuning_gen_all_portion_combinaisons(portions, num_dev) ==
  LET gen[n \in 1 .. num_dev] ==
        [k \in 0 .. portions |->
           IF n = 1
             THEN <<(<<k>>)>>
             ELSE Joined([i \in 1 .. k + 1 |->
                    LET rest == gen[n - 1][k - i + 1]
                    IN  [r \in DOMAIN rest |-> <<i - 1>> \o rest[r]]])]
  IN  gen[num_dev][portions]

------------------------------------------------------------------------------
\* Gang, worker and vector.

\* The values of one device, gang outermost.
GwvList(dev) ==
  Joined([a \in DOMAIN dev.gang |->
    Joined([b \in DOMAIN dev.worker |->
      [c \in DOMAIN dev.vector |-> <<dev.gang[a], dev.worker[b], dev.vector[c]>>]])])

\* Tiles 1, 3, 5 are those of gang, worker and vector (counted from 0); the
\* program asserts that they are 0 or 1.
Chosen(tiles, gwv, k) == IF tiles[2 * k] = 0 THEN gwv[k] ELSE 1
Static(n) == IF n = 0 THEN 1 ELSE n

LoopFits(loop, gwv) ==
  LET t == loop.tiles
      length == Static(t[1]) * Static(t[3]) * Static(t[5]) * Static(t[7])
                  * Chosen(t, gwv, 1) * Chosen(t, gwv, 2) * Chosen(t, gwv, 3)
      has_dynamic_tile == \E k \in {1, 3, 5, 7} : t[k] = 0
  IN  \/ \A k \in 1 .. 3 : t[2 * k] = 1
      \/ length <= loop.length /\ (has_dynamic_tile \/ length = loop.length)

acc_tuner_is_valid_gwv_combinaison(loops, gwv) ==
  \A l \in DOMAIN loops : LoopFits(loops[l], gwv)

\* One valid triple per device, all devices' in one array.
acc_tuning_gen_valid_gwv_combinaisons(g, versions, loops) ==
  LET gwv(d) == GwvList(g.devices[d])
      from[d \in 1 .. Num(g) + 1] ==
        IF d > Num(g)
          THEN <<(<<>>)>>
          ELSE Joined([k \in DOMAIN gwv(d) |->
                  IF acc_tuner_is_valid_gwv_combinaison(loops[versions[d]], gwv(d)[k])
                    THEN [r \in DOMAIN from[d + 1] |-> <<gwv(d)[k]>> \o from[d + 1][r]]
                    ELSE <<>>])
  IN  from[1]

\* The parameters of a run: the array of triples is addressed with the number
\* of the combination alone, whatever the device.
DeviceParams(g, versions, portions, combos, k) ==
  LET flat == Joined(combos)
  IN  [d \in Devices(g) |-> [version |-> versions[d], gwv |-> flat[k], portion |-> portions[d]]]

acc_tuning_generate(g, loops) ==
  LET versions == acc_tuning_gen_all_version_combinaisons(g)
      portions == acc_tuning_gen_all_portion_combinaisons(g.portions, Num(g))
      runs(v, q) == LET combos == acc_tuning_gen_valid_gwv_combinaisons(g, versions[v], loops)
                    IN  [k \in DOMAIN combos |-> DeviceParams(g, versions[v], portions[q], combos, k)]
  IN  Joined([v \in DOMAIN versions |-> Joined([q \in DOMAIN portions |-> runs(v, q)])])

CountsAgree(g) ==
  /\ Len(acc_tuning_gen_all_version_combinaisons(g)) = NumVersionCombinaisons(g)
  /\ Len(acc_tuning_gen_all_portion_combinaisons(g.portions, Num(g)))
       = acc_tuning_count_portion_combinaisons(g.portions, Num(g))

------------------------------------------------------------------------------
\* The fields of a run as it is read: with one device the offsets begin behind
\* the rowid, with more of them at 0.

FieldSize == [rowid |-> 8, version |-> 8, type |-> 40, gang |-> 8, worker |-> 8, vector |-> 8, portion |-> 8]

Fields(n) ==
  IF n = 1
    THEN <<"version", "type", "gang", "worker", "vector">>
    ELSE FlattenSeq([d \in 1 .. n |-> <<"version", "type", "gang", "worker", "vector", "portion">>])

FieldOffset(n, k) ==
  FoldLeft(LAMBDA o, f : o + FieldSize[f], IF n = 1 THEN FieldSize["rowid"] ELSE 0,
           SubSeq(Fields(n), 1, k - 1))

\* Fields are copied in order: what is at offset 0 in the end.
RunIdRead(n, rowid, devices) ==
  IF \E k \in DOMAIN Fields(n) : FieldOffset(n, k) = 0 THEN devices[1].version ELSE rowid
==============================================================================
