---------------------------- MODULE DataEnvProofs ----------------------------
(***************************************************************************)
(* Proofs about modules DataEnv and RegionExec, for every set of devices,  *)
(* addresses, buffers and layouts.                                         *)
(*                                                                         *)
(* The calls change the device data in few ways: an entry is gained or     *)
(* lost in the innermost environment, an environment is opened or closed,  *)
(* buffers come and go.  Each way is described by a predicate, the calls   *)
(* are shown to be one of them, and the invariants are shown for the       *)
(* predicates.                                                             *)
(*                                                                         *)
(* Of the execution of regions the last part shows, for every region and   *)
(* every timing of the kernels, that no kernel outlives the call that      *)
(* launched it, and that the device data it works on is in place.  These   *)
(* properties are not inductive: each phase of the call owes them to the   *)
(* ones before it, which is what PhaseInv says.                            *)
(***************************************************************************)
EXTENDS RegionExec, SequenceTheorems, FiniteSetTheorems, TLAPS

EnvType == [Device -> SUBSET HostPtr]

\* The part of TypeOK about data, and the rest of it.
DataOK ==
  /\ envs \in Seq(EnvType) /\ Len(envs) > 0
  /\ DOMAIN present = Device
  /\ \A d \in Device :
       /\ DOMAIN present[d] \subseteq HostPtr
       /\ present[d] \in [DOMAIN present[d] -> [ptr : Buffer, n : Bytes]]
  /\ DOMAIN buffers \subseteq Buffer
  /\ buffers \in [DOMAIN buffers -> [dev : Device, old : BOOLEAN]]
  /\ held \subseteq Buffer

ControlOK ==
  /\ devices_data \in [Device -> {"null", "ready", "freed"}]
  /\ curr \in Device
  /\ call.op \in RegionOps \cup {"none"} /\ call.todo \in Seq(Transfer)
  /\ status \in {"running", "abort", "exit", "crash"}

LEMMA TypeParts == TypeOK <=> DataOK /\ ControlOK
BY DEF TypeOK, DataOK, ControlOK, EnvType

\* Every environment, as a function on devices.
LEMMA EnvFacts ==
  ASSUME DataOK
  PROVE  /\ Len(envs) \in Nat \ {0}
         /\ DOMAIN envs = 1 .. Len(envs)
         /\ \A i \in 1 .. Len(envs) : envs[i] \in EnvType
         /\ Top \in EnvType
BY DEF DataOK, Top

------------------------------------------------------------------------------
\* The ways in which the device data change.

\* The entry of h on device d, in buffer b, is new in the innermost environment.
Gained(d, h, b, n) ==
  /\ h \notin DOMAIN present[d]
  /\ b \notin Mapped(d)
  /\ DOMAIN present' = Device
  /\ DOMAIN present'[d] = DOMAIN present[d] \cup {h}
  /\ present'[d] \in [DOMAIN present'[d] -> [ptr : Buffer, n : Bytes]]
  /\ present'[d][h] = [ptr |-> b, n |-> n]
  /\ \A x \in DOMAIN present[d] : present'[d][x] = present[d][x]
  /\ \A e \in Device \ {d} : present'[e] = present[e]
  /\ envs' \in Seq(EnvType)
  /\ Len(envs') = Len(envs)
  /\ \A i \in 1 .. Len(envs) - 1 : envs'[i] = envs[i]
  /\ envs'[Len(envs)][d] = Top[d] \cup {h}
  /\ \A e \in Device \ {d} : envs'[Len(envs)][e] = Top[e]

\* The entry of h on device d, if any, is gone.
Lost(d, h) ==
  /\ DOMAIN present' = Device
  /\ DOMAIN present'[d] = DOMAIN present[d] \ {h}
  /\ present'[d] \in [DOMAIN present'[d] -> [ptr : Buffer, n : Bytes]]
  /\ \A x \in DOMAIN present[d] \ {h} : present'[d][x] = present[d][x]
  /\ \A e \in Device \ {d} : present'[e] = present[e]
  /\ envs' \in Seq(EnvType)
  /\ Len(envs') = Len(envs)
  /\ \A i \in 1 .. Len(envs) - 1 : envs'[i] = envs[i]
  /\ envs'[Len(envs)][d] = Top[d] \ {h}
  /\ \A e \in Device \ {d} : envs'[Len(envs)][e] = Top[e]

\* An empty environment is opened.
Opened ==
  /\ envs' \in Seq(EnvType)
  /\ Len(envs') = Len(envs) + 1
  /\ \A i \in 1 .. Len(envs) : envs'[i] = envs[i]
  /\ \A d \in Device : envs'[Len(envs) + 1][d] = {}
  /\ UNCHANGED <<present, buffers>>

\* The innermost environment is closed, or emptied if it is the only one.
Closed ==
  /\ CanClear
  /\ DOMAIN present' = Device
  /\ \A d \in Device :
       /\ DOMAIN present'[d] = DOMAIN present[d] \ Top[d]
       /\ present'[d] \in [DOMAIN present'[d] -> [ptr : Buffer, n : Bytes]]
       /\ \A h \in DOMAIN present'[d] : present'[d][h] = present[d][h]
  /\ Release(TopBuffers)
  /\ envs' \in Seq(EnvType)
  /\ \/ /\ Len(envs) > 1
        /\ Len(envs') = Len(envs) - 1
        /\ \A i \in 1 .. Len(envs) - 1 : envs'[i] = envs[i]
     \/ /\ Len(envs) = 1
        /\ Len(envs') = 1
        /\ \A d \in Device : envs'[1][d] = {}

LEMMA MapGains ==
  ASSUME DataOK, NEW d \in Device, NEW h \in HostPtr, NEW b \in Buffer,
         NEW n \in Bytes, acc_map_data_(d, h, b, n)
  PROVE  Gained(d, h, b, n)
<1> DEFINE p == [x \in DOMAIN present[d] \cup {h} |->
                   IF x = h THEN [ptr |-> b, n |-> n] ELSE present[d][x]]
           e == [Top EXCEPT ![d] = Top[d] \cup {h}]
<1>1. h \notin DOMAIN present[d] /\ b \notin Mapped(d)
  BY DEF acc_map_data_, CanRegister
<1>2. present' = [present EXCEPT ![d] = p]
  BY DEF acc_map_data_, With
<1>3. p \in [DOMAIN p -> [ptr : Buffer, n : Bytes]]
  BY DEF DataOK
<1>4. e \in EnvType
  BY EnvFacts DEF EnvType
<1>5. envs' = [envs EXCEPT ![Len(envs)] = e]
  BY EnvFacts DEF acc_map_data_, Top
<1> HIDE DEF e
<1>6. /\ envs' \in Seq(EnvType)
      /\ Len(envs') = Len(envs)
      /\ \A j \in 1 .. Len(envs) : envs'[j] = IF j = Len(envs) THEN e ELSE envs[j]
  BY <1>4, <1>5, EnvFacts, ExceptSeq DEF DataOK
<1>7. envs'[Len(envs)] = e /\ \A i \in 1 .. Len(envs) - 1 : envs'[i] = envs[i]
  BY <1>6, EnvFacts
<1>8. e[d] = Top[d] \cup {h} /\ \A x \in Device \ {d} : e[x] = Top[x]
  BY EnvFacts DEF e, EnvType
<1>9. /\ DOMAIN present' = Device
      /\ present'[d] = p
      /\ \A x \in Device \ {d} : present'[x] = present[x]
  BY <1>2 DEF DataOK
<1>10. /\ DOMAIN p = DOMAIN present[d] \cup {h}
       /\ p[h] = [ptr |-> b, n |-> n]
       /\ \A x \in DOMAIN present[d] : p[x] = present[d][x]
  BY <1>1
<1> HIDE DEF p
<1> QED BY <1>1, <1>3, <1>6, <1>7, <1>8, <1>9, <1>10 DEF Gained

LEMMA UnmapLoses ==
  ASSUME DataOK, NEW d \in Device, NEW h, acc_unmap_data_(d, h)
  PROVE  Lost(d, h)
<1> DEFINE p == [x \in DOMAIN present[d] \ {h} |-> present[d][x]]
           e == [Top EXCEPT ![d] = Top[d] \ {h}]
<1>2. present' = [present EXCEPT ![d] = p]
  BY DEF acc_unmap_data_, Without
<1>3. p \in [DOMAIN p -> [ptr : Buffer, n : Bytes]]
  BY DEF DataOK
<1>4. e \in EnvType
  BY EnvFacts DEF EnvType
<1>5. envs' = [envs EXCEPT ![Len(envs)] = e]
  BY EnvFacts DEF acc_unmap_data_, Top
<1> HIDE DEF e
<1>6. /\ envs' \in Seq(EnvType)
      /\ Len(envs') = Len(envs)
      /\ \A j \in 1 .. Len(envs) : envs'[j] = IF j = Len(envs) THEN e ELSE envs[j]
  BY <1>4, <1>5, EnvFacts, ExceptSeq DEF DataOK
<1>7. envs'[Len(envs)] = e /\ \A i \in 1 .. Len(envs) - 1 : envs'[i] = envs[i]
  BY <1>6, EnvFacts
<1>8. e[d] = Top[d] \ {h} /\ \A x \in Device \ {d} : e[x] = Top[x]
  BY EnvFacts DEF e, EnvType
<1>9. /\ DOMAIN present' = Device
      /\ present'[d] = p
      /\ \A x \in Device \ {d} : present'[x] = present[x]
  BY <1>2 DEF DataOK
<1>10. /\ DOMAIN p = DOMAIN present[d] \ {h}
       /\ \A x \in DOMAIN present[d] \ {h} : p[x] = present[d][x]
  OBVIOUS
<1> HIDE DEF p
<1> QED BY <1>3, <1>6, <1>7, <1>8, <1>9, <1>10 DEF Lost

LEMMA PushOpens ==
  ASSUME DataOK, envs' = Append(envs, NoEntries), UNCHANGED <<present, buffers>>
  PROVE  Opened
<1>1. NoEntries \in EnvType /\ \A d \in Device : NoEntries[d] = {}
  BY DEF NoEntries, EnvType
<1>2. envs \in Seq(EnvType)
  BY DEF DataOK
<1> HIDE DEF NoEntries
<1>3. /\ envs' \in Seq(EnvType)
      /\ Len(envs') = Len(envs) + 1
      /\ \A i \in 1 .. Len(envs) : envs'[i] = envs[i]
      /\ envs'[Len(envs) + 1] = NoEntries
  BY <1>1, <1>2
<1> QED BY <1>1, <1>3 DEF Opened

LEMMA PopCloses ==
  ASSUME DataOK, acc_clear_data_environment, envs' = Parents
  PROVE  Closed
<1>1. /\ CanClear
      /\ Release(TopBuffers)
      /\ present' = [d \in Device |-> [h \in DOMAIN present[d] \ Top[d] |-> present[d][h]]]
  BY DEF acc_clear_data_environment
<1>2. DOMAIN present' = Device
  BY <1>1
<1>3. ASSUME NEW d \in Device
      PROVE  /\ DOMAIN present'[d] = DOMAIN present[d] \ Top[d]
             /\ present'[d] \in [DOMAIN present'[d] -> [ptr : Buffer, n : Bytes]]
             /\ \A h \in DOMAIN present'[d] : present'[d][h] = present[d][h]
  <2>1. present'[d] = [h \in DOMAIN present[d] \ Top[d] |-> present[d][h]]
    BY <1>1
  <2> QED BY <2>1 DEF DataOK
<1>4. CASE Len(envs) > 1
  <2>1. \A i \in 1 .. Len(envs) - 1 : envs[i] \in EnvType
    BY EnvFacts
  <2>2. envs' = SubSeq(envs, 1, Len(envs) - 1)
    BY <1>4 DEF Parents
  <2>3. /\ envs' \in Seq(EnvType)
        /\ Len(envs') = Len(envs) - 1
        /\ \A i \in 1 .. Len(envs) - 1 : envs'[i] = envs[i]
    BY <1>4, <2>1, <2>2, EnvFacts, SubSeqProperties
  <2> QED BY <1>1, <1>2, <1>3, <1>4, <2>3 DEF Closed
<1>5. CASE Len(envs) = 1
  <2>1. envs' = <<NoEntries>>
    BY <1>5 DEF Parents
  <2>2. NoEntries \in EnvType /\ \A d \in Device : NoEntries[d] = {}
    BY DEF NoEntries, EnvType
  <2> HIDE DEF NoEntries
  <2>3. envs' \in Seq(EnvType) /\ Len(envs') = 1 /\ envs'[1] = NoEntries
    BY <2>1, <2>2
  <2> QED BY <1>1, <1>2, <1>3, <1>5, <2>2, <2>3 DEF Closed
<1> QED BY <1>4, <1>5, EnvFacts

------------------------------------------------------------------------------
\* What a call for one device of a region, or for the current device, can do.

\* A buffer that did not exist is allocated, and mapped.
Filled(d, h, n) ==
  \E b \in Buffer :
    /\ b \notin DOMAIN buffers
    /\ buffers' = With(buffers, b, [dev |-> d, old |-> FALSE])
    /\ Gained(d, h, b, n)

Status == {"running", "abort", "exit", "crash"}

LEMMA MemcpyKeepsData ==
  ASSUME NEW d \in Device, NEW b, acc_memcpy_(d, b), status \in Status
  PROVE  UNCHANGED data /\ status' \in Status
BY DEF acc_memcpy_, BadDevice, BadHandle, Stop, data, Status

LEMMA CreateFills ==
  ASSUME DataOK, status \in Status, NEW d \in Device, NEW h \in HostPtr, NEW n \in Bytes,
         acc_create_(d, h, n)
  PROVE  (UNCHANGED data \/ Filled(d, h, n)) /\ status' \in Status
<1>1. CASE \E b \in Buffer : acc_malloc_(d, b) /\ acc_map_data_(d, h, b, n) /\ UNCHANGED status
  <2>1. PICK b \in Buffer : acc_malloc_(d, b) /\ acc_map_data_(d, h, b, n) /\ UNCHANGED status
    BY <1>1
  <2>2. Gained(d, h, b, n)
    BY <2>1, MapGains
  <2> QED BY <2>1, <2>2 DEF acc_malloc_, Filled
<1>2. CASE UNCHANGED data /\ status' \in Status
  BY <1>2
<1> QED BY <1>1, <1>2
      DEF acc_create_, MallocFails, BadDevice, Stop, Status

LEMMA RegionOpFills ==
  ASSUME DataOK, status \in Status, NEW d \in Device, NEW h \in HostPtr, NEW n \in Bytes,
         NEW op, RegionOp(op, d, h, n)
  PROVE  (UNCHANGED data \/ Filled(d, h, n)) /\ status' \in Status
<1>1. CASE acc_create_(d, h, n)
  BY <1>1, CreateFills
<1>2. CASE \E b : acc_memcpy_(d, b)
  BY <1>2, MemcpyKeepsData
<1>3. CASE UNCHANGED data /\ status' \in Status
  BY <1>3
<1>4. CASE acc_copyout_(d, h, n)
  BY <1>2, <1>3, <1>4 DEF acc_copyout_, Stop, Status
<1> QED BY <1>1, <1>2, <1>3, <1>4
      DEF RegionOp, acc_copyin_, acc_present_or_copyin_, acc_present_or_create_,
          acc_present_, acc_present_or_copyout_, Stop, Status, data

------------------------------------------------------------------------------
\* Every step of the program is one of these, as far as data are concerned.

Fills == \E d \in Device, h \in HostPtr, n \in Bytes : Filled(d, h, n) /\ UNCHANGED held

UserMaps ==
  \E d \in Device, h \in HostPtr, b \in Buffer, n \in Bytes :
    MayMap(d, b) /\ Gained(d, h, b, n) /\ UNCHANGED <<buffers, held>>

UserUnmaps ==
  \E d \in Device, h \in HostPtr :
    MayUnmap(d, h) /\ Lost(d, h) /\ UNCHANGED <<buffers, held>>

Allocates ==
  \E d \in Device, b \in Buffer :
    /\ acc_malloc_(d, b)
    /\ held' = held \cup {b}
    /\ UNCHANGED <<envs, present>>

Frees ==
  \E b \in Buffer :
    /\ MayFree(b)
    /\ Release({b})
    /\ held' = held \ {b}
    /\ UNCHANGED <<envs, present>>

Deletes ==
  \E d \in Device, h \in HostPtr :
    /\ MayDelete(d, h)
    /\ h \in DOMAIN present[d]
    /\ Lost(d, h)
    /\ Release({present[d][h].ptr})
    /\ UNCHANGED held

Opens == Opened /\ UNCHANGED held

Closes == MayPop /\ Closed /\ UNCHANGED held

Retires ==
  \E d \in Device :
    /\ MayShutdown(d)
    /\ buffers' = [b \in DOMAIN buffers |->
                     [dev |-> buffers[b].dev,
                      old |-> buffers[b].old \/ buffers[b].dev = d]]
    /\ UNCHANGED <<envs, present, held>>

Still == UNCHANGED <<data, held>>

Step ==
  \/ Still \/ Fills \/ UserMaps \/ UserUnmaps \/ Allocates
  \/ Frees \/ Deletes \/ Opens \/ Closes \/ Retires

LEMMA NextIsStep == ASSUME TypeOK, [Next]_vars PROVE Step
<1> USE TypeParts
<1>1. CASE \E d \in Device : acc_set_device_num(d)
  BY <1>1 DEF acc_set_device_num, Step, Still, data
<1>2. CASE \E d \in Device : acc_init_(d)
  BY <1>2 DEF acc_init_, InitExits, Stop, Step, Still, data
<1>3. CASE \E d \in Device : acc_shutdown_(d)
  <2>1. PICK d \in Device : acc_shutdown_(d)
    BY <1>3
  <2>2. CASE UNCHANGED data
    BY <2>1, <2>2 DEF acc_shutdown_, Step, Still
  <2>3. CASE Retires
    BY <2>3 DEF Step
  <2> QED BY <2>1, <2>2, <2>3 DEF acc_shutdown_, Retires, Stop
<1>4. CASE acc_malloc
  <2>1. CASE MallocFails(curr) /\ UNCHANGED held
    BY <2>1 DEF MallocFails, BadDevice, Stop, Step, Still
  <2>2. CASE \E b \in Buffer : /\ acc_malloc_(curr, b)
                               /\ held' = held \cup {b}
                               /\ UNCHANGED <<envs, present, status>>
    BY <2>2 DEF Allocates, Step, ControlOK
  <2> QED BY <1>4, <2>1, <2>2 DEF acc_malloc
<1>5. CASE \E b \in Buffer : acc_free(b)
  <2>1. PICK b \in Buffer : acc_free(b)
    BY <1>5
  <2>2. CASE b \notin DOMAIN buffers
    BY <2>1, <2>2 DEF acc_free, BadHandle, Stop, Step, Still
  <2>3. CASE b \in DOMAIN buffers
    BY <2>1, <2>3 DEF acc_free, Frees, Step
  <2> QED BY <2>2, <2>3
<1>6. CASE \E b \in Buffer : acc_memcpy(b)
  BY <1>6 DEF acc_memcpy, acc_memcpy_, BadDevice, BadHandle, Stop, Step, Still, data
<1>7. CASE \E h \in HostPtr, b \in Buffer, n \in Bytes : acc_map_data(h, b, n)
  <2>1. PICK h \in HostPtr, b \in Buffer, n \in Bytes : acc_map_data(h, b, n)
    BY <1>7
  <2>2. CASE UNCHANGED data
    BY <2>1, <2>2 DEF acc_map_data, Step, Still
  <2>3. CASE acc_map_data_(curr, h, b, n) /\ UNCHANGED buffers
    <3>1. curr \in Device /\ Gained(curr, h, b, n)
      BY <2>3, MapGains DEF ControlOK
    <3>2. MayMap(curr, b) /\ UNCHANGED held
      BY <2>1 DEF acc_map_data
    <3> QED BY <2>3, <3>1, <3>2 DEF UserMaps, Step
  <2> QED BY <2>1, <2>2, <2>3 DEF acc_map_data, Stop
<1>8. CASE \E h \in HostPtr : acc_unmap_data(h)
  <2>1. PICK h \in HostPtr : acc_unmap_data(h)
    BY <1>8
  <2>2. curr \in Device /\ Lost(curr, h)
    BY <2>1, UnmapLoses DEF acc_unmap_data, ControlOK
  <2> QED BY <2>1, <2>2 DEF acc_unmap_data, UserUnmaps, Step
<1>9. CASE \E h \in HostPtr, n \in Bytes : acc_delete(h, n)
  <2>1. PICK h \in HostPtr, n \in Bytes : acc_delete(h, n)
    BY <1>9
  <2>2. CASE UNCHANGED data
    BY <2>1, <2>2 DEF acc_delete, Step, Still
  <2>3. CASE /\ acc_check_present(curr, h, n)
             /\ acc_unmap_data_(curr, h)
             /\ Release({present[curr][h].ptr})
    <3>1. curr \in Device /\ Lost(curr, h)
      BY <2>3, UnmapLoses DEF ControlOK
    <3>2. h \in DOMAIN present[curr] /\ MayDelete(curr, h) /\ UNCHANGED held
      BY <2>1, <2>3 DEF acc_delete, acc_check_present
    <3> QED BY <2>3, <3>1, <3>2 DEF Deletes, Step
  <2> QED BY <2>1, <2>2, <2>3 DEF acc_delete, acc_delete_, BadHandle, Stop
<1>10. CASE \E op \in RegionOps, h \in HostPtr, n \in Bytes : acc_data_call(op, h, n)
  <2>1. PICK op \in RegionOps, h \in HostPtr, n \in Bytes : acc_data_call(op, h, n)
    BY <1>10
  <2>2. UNCHANGED data \/ Filled(curr, h, n)
    BY <2>1, RegionOpFills DEF acc_data_call, ControlOK, Status
  <2>3. curr \in Device /\ UNCHANGED held
    BY <2>1 DEF acc_data_call, ControlOK
  <2> QED BY <2>2, <2>3 DEF Fills, Step, Still
<1>11. CASE acc_push_data_environment
  <2>1. CASE UNCHANGED data
    BY <1>11, <2>1 DEF acc_push_data_environment, Step, Still
  <2>2. CASE envs' = Append(envs, NoEntries) /\ UNCHANGED <<present, buffers>>
    BY <1>11, <2>2, PushOpens DEF acc_push_data_environment, Opens, Step
  <2> QED BY <1>11, <2>1, <2>2 DEF acc_push_data_environment, InitExits, Stop
<1>12. CASE acc_pop_data_environment
  <2>1. CASE UNCHANGED data
    BY <1>12, <2>1 DEF acc_pop_data_environment, Step, Still
  <2>2. CASE acc_clear_data_environment /\ envs' = Parents
    BY <1>12, <2>2, PopCloses DEF acc_pop_data_environment, Closes, Step
  <2> QED BY <1>12, <2>1, <2>2 DEF acc_pop_data_environment, BadDevice, BadHandle, Stop
<1>13. CASE \E op \in RegionOps, layout \in Layouts : acc_regions_(op, layout)
  BY <1>13 DEF acc_regions_, InitExits, Stop, Step, Still, data
<1>14. CASE NextDevice
  <2> DEFINE t == Head(call.todo)
  <2>1. t \in Transfer
    BY <1>14, HeadTailProperties DEF NextDevice, ControlOK
  <2>2. CASE UNCHANGED data
    BY <1>14, <2>2 DEF NextDevice, Step, Still
  <2>3. CASE t.n > 0 /\ RegionOp(call.op, t.dev, t.host, t.n)
    <3>1. t.dev \in Device /\ t.host \in HostPtr /\ t.n \in Bytes
      BY <2>1, <2>3 DEF Transfer
    <3>2. UNCHANGED data \/ Filled(t.dev, t.host, t.n)
      BY <2>3, <3>1, RegionOpFills DEF ControlOK, Status
    <3>3. UNCHANGED held
      BY <1>14 DEF NextDevice
    <3> HIDE DEF t
    <3> QED BY <3>1, <3>2, <3>3 DEF Fills, Step, Still
  <2> QED BY <1>14, <2>2, <2>3 DEF NextDevice
<1>15. CASE UNCHANGED vars
  BY <1>15 DEF vars, Step, Still, data
<1> QED BY <1>1, <1>2, <1>3, <1>4, <1>5, <1>6, <1>7, <1>8, <1>9, <1>10,
           <1>11, <1>12, <1>13, <1>14, <1>15 DEF Next

------------------------------------------------------------------------------
\* Types.

LEMMA InitTypes == ASSUME DataEnvAssumption, Init PROVE TypeOK
<1>1. envs = <<NoEntries>> /\ NoEntries \in EnvType
  BY DEF Init, NoEntries, EnvType
<1> HIDE DEF NoEntries
<1>2. envs \in Seq(EnvType) /\ Len(envs) > 0
  BY <1>1
<1>3. ASSUME NEW d \in Device
      PROVE  /\ DOMAIN present[d] = {}
             /\ present[d] \in [{} -> [ptr : Buffer, n : Bytes]]
  BY DEF Init
<1>4. DOMAIN present = Device /\ held \subseteq Buffer
  BY DEF Init
<1>5. DOMAIN buffers = {} /\ buffers \in [{} -> [dev : Device, old : BOOLEAN]]
  BY DEF Init
<1>6. DataOK
  BY <1>2, <1>3, <1>4, <1>5 DEF DataOK
<1>7. ControlOK
  BY DEF Init, ControlOK, NoCall
<1> QED BY <1>6, <1>7, TypeParts

LEMMA ControlStep == ASSUME DataEnvAssumption, TypeOK, [Next]_vars PROVE ControlOK'
<1>0. DataOK /\ ControlOK
  BY TypeParts
<1>1. CASE \E d \in Device : acc_set_device_num(d)
  BY <1>0, <1>1 DEF acc_set_device_num, ControlOK
<1>2. ASSUME NEW ds, acc_init__(ds)
      PROVE  devices_data' \in [Device -> {"null", "ready", "freed"}]
  BY <1>2 DEF acc_init__
<1>3. CASE \E d \in Device : acc_init_(d)
  BY <1>0, <1>2, <1>3 DEF acc_init_, InitExits, Stop, ControlOK
<1>4. CASE \E d \in Device : acc_shutdown_(d)
  BY <1>0, <1>4 DEF acc_shutdown_, Stop, ControlOK
<1>5. CASE OnCurrent /\ status' \in Status
  BY <1>0, <1>5 DEF OnCurrent, ControlOK, Status
<1>6. CASE acc_malloc
  BY <1>0, <1>5, <1>6
    DEF acc_malloc, MallocFails, BadDevice, Stop, ControlOK, Status
<1>7. CASE \E b \in Buffer : acc_free(b)
  BY <1>0, <1>5, <1>7 DEF acc_free, BadHandle, Stop, ControlOK, Status
<1>8. CASE \E b \in Buffer : acc_memcpy(b)
  BY <1>0, <1>5, <1>8
    DEF acc_memcpy, acc_memcpy_, BadDevice, BadHandle, Stop, ControlOK, Status
<1>9. CASE \E h \in HostPtr, b \in Buffer, n \in Bytes : acc_map_data(h, b, n)
  BY <1>0, <1>5, <1>9 DEF acc_map_data, Stop, ControlOK, Status
<1>10. CASE \E h \in HostPtr : acc_unmap_data(h)
  BY <1>0, <1>5, <1>10 DEF acc_unmap_data, ControlOK, Status
<1>11. CASE \E h \in HostPtr, n \in Bytes : acc_delete(h, n)
  BY <1>0, <1>5, <1>11 DEF acc_delete, acc_delete_, BadHandle, Stop, ControlOK, Status
<1>12. CASE \E op \in RegionOps, h \in HostPtr, n \in Bytes : acc_data_call(op, h, n)
  <2>1. PICK op \in RegionOps, h \in HostPtr, n \in Bytes : acc_data_call(op, h, n)
    BY <1>12
  <2>2. status' \in Status
    BY <1>0, <2>1, RegionOpFills DEF acc_data_call, ControlOK, Status
  <2> QED BY <1>5, <2>1, <2>2 DEF acc_data_call
<1>13. CASE acc_push_data_environment
  BY <1>0, <1>2, <1>13 DEF acc_push_data_environment, InitExits, Stop, ControlOK
<1>14. CASE acc_pop_data_environment
  BY <1>0, <1>5, <1>14
    DEF acc_pop_data_environment, BadDevice, BadHandle, Stop, ControlOK, Status
<1>15. CASE \E op \in RegionOps, layout \in Layouts : acc_regions_(op, layout)
  <2>1. PICK op \in RegionOps, layout \in Layouts : acc_regions_(op, layout)
    BY <1>15
  <2>2. layout \in Seq(Transfer)
    BY DEF DataEnvAssumption
  <2>3. call' = call \/ call' = [op |-> op, todo |-> layout]
    BY <2>1 DEF acc_regions_
  <2>4. call'.op \in RegionOps \cup {"none"} /\ call'.todo \in Seq(Transfer)
    BY <1>0, <2>2, <2>3 DEF ControlOK
  <2> QED BY <1>0, <1>2, <2>1, <2>4 DEF acc_regions_, InitExits, Stop, ControlOK
<1>16. CASE NextDevice
  <2> DEFINE t == Head(call.todo)
  <2>1. t \in Transfer /\ Tail(call.todo) \in Seq(Transfer)
    BY <1>0, <1>16, HeadTailProperties DEF NextDevice, ControlOK
  <2>2. status' \in Status
    <3>1. CASE t.n > 0 /\ RegionOp(call.op, t.dev, t.host, t.n)
      <4>1. t.dev \in Device /\ t.host \in HostPtr /\ t.n \in Bytes
        BY <2>1, <3>1 DEF Transfer
      <4> QED BY <1>0, <3>1, <4>1, RegionOpFills DEF ControlOK, Status
    <3> QED BY <1>0, <1>16, <3>1 DEF NextDevice, ControlOK, Status
  <2>3. call'.op \in RegionOps \cup {"none"} /\ call'.todo \in Seq(Transfer)
    BY <1>0, <1>16, <2>1 DEF NextDevice, NoCall, ControlOK
  <2> QED BY <1>0, <1>16, <2>2, <2>3 DEF NextDevice, ControlOK, Status
<1>17. CASE UNCHANGED vars
  BY <1>0, <1>17 DEF vars, ControlOK
<1> QED BY <1>1, <1>3, <1>4, <1>6, <1>7, <1>8, <1>9, <1>10, <1>11, <1>12,
           <1>13, <1>14, <1>15, <1>16, <1>17 DEF Next

LEMMA DataStep == ASSUME DataOK, Step PROVE DataOK'
<1>1. CASE Still
  BY <1>1 DEF Still, data, DataOK
<1>2. ASSUME NEW d \in Device, NEW h \in HostPtr, NEW b \in Buffer, NEW n \in Bytes,
             Gained(d, h, b, n)
      PROVE  /\ envs' \in Seq(EnvType) /\ Len(envs') > 0
             /\ DOMAIN present' = Device
             /\ \A e \in Device :
                  /\ DOMAIN present'[e] \subseteq HostPtr
                  /\ present'[e] \in [DOMAIN present'[e] -> [ptr : Buffer, n : Bytes]]
  BY <1>2 DEF Gained, DataOK
<1>3. ASSUME NEW d \in Device, NEW h \in HostPtr, Lost(d, h)
      PROVE  /\ envs' \in Seq(EnvType) /\ Len(envs') > 0
             /\ DOMAIN present' = Device
             /\ \A e \in Device :
                  /\ DOMAIN present'[e] \subseteq HostPtr
                  /\ present'[e] \in [DOMAIN present'[e] -> [ptr : Buffer, n : Bytes]]
  BY <1>3 DEF Lost, DataOK
<1>4. ASSUME NEW bs, Release(bs)
      PROVE  DOMAIN buffers' \subseteq Buffer
             /\ buffers' \in [DOMAIN buffers' -> [dev : Device, old : BOOLEAN]]
  BY <1>4 DEF Release, DataOK
<1>5. ASSUME NEW d \in Device, NEW b \in Buffer,
             buffers' = With(buffers, b, [dev |-> d, old |-> FALSE])
      PROVE  DOMAIN buffers' \subseteq Buffer
             /\ buffers' \in [DOMAIN buffers' -> [dev : Device, old : BOOLEAN]]
  BY <1>5 DEF With, DataOK
<1>6. CASE Fills
  BY <1>2, <1>5, <1>6 DEF Fills, Filled, DataOK
<1>7. CASE UserMaps
  BY <1>2, <1>7 DEF UserMaps, DataOK
<1>8. CASE UserUnmaps
  BY <1>3, <1>8 DEF UserUnmaps, DataOK
<1>9. CASE Allocates
  BY <1>5, <1>9 DEF Allocates, acc_malloc_, DataOK
<1>10. CASE Frees
  BY <1>4, <1>10 DEF Frees, DataOK
<1>11. CASE Deletes
  BY <1>3, <1>4, <1>11 DEF Deletes, DataOK
<1>12. CASE Opens
  BY <1>12, EnvFacts DEF Opens, Opened, DataOK
<1>13. CASE Closes
  <2>1. /\ DOMAIN present' = Device
        /\ \A d \in Device :
             /\ DOMAIN present'[d] \subseteq HostPtr
             /\ present'[d] \in [DOMAIN present'[d] -> [ptr : Buffer, n : Bytes]]
    BY <1>13 DEF Closes, Closed, DataOK
  <2>2. envs' \in Seq(EnvType) /\ Len(envs') > 0
    <3> DEFINE L == Len(envs)
               M == Len(envs')
    <3>1. L \in Nat
      BY EnvFacts
    <3>2. Closed
      BY <1>13 DEF Closes
    <3>3. envs' \in Seq(EnvType) /\ ((L > 1 /\ M = L - 1) \/ M = 1)
      BY <3>2 DEF Closed
    <3> HIDE DEF L, M
    <3>4. M > 0
      BY <3>1, <3>3
    <3> QED BY <3>3, <3>4 DEF M
  <2>3. Release(TopBuffers) /\ held' = held
    BY <1>13 DEF Closes, Closed
  <2> QED BY <1>4, <2>1, <2>2, <2>3 DEF DataOK
<1>14. CASE Retires
  <2>1. /\ DOMAIN buffers' = DOMAIN buffers
        /\ buffers' \in [DOMAIN buffers -> [dev : Device, old : BOOLEAN]]
    BY <1>14 DEF Retires, DataOK
  <2> QED BY <1>14, <2>1 DEF Retires, DataOK
<1> QED BY <1>1, <1>6, <1>7, <1>8, <1>9, <1>10, <1>11, <1>12, <1>13, <1>14 DEF Step

------------------------------------------------------------------------------
\* What holds in every program.

AnyInv == TypeOK /\ Tracked /\ NoAliases

LEMMA InitAny == ASSUME DataEnvAssumption, Init PROVE AnyInv
BY InitTypes DEF AnyInv, Init, Tracked, NoAliases

\* An environment keeps track of the entries it had, and of the new one.
LEMMA TrackedStep == ASSUME DataOK, Tracked, Step PROVE Tracked'
<1>1. CASE UNCHANGED <<envs, present>>
  BY <1>1 DEF Tracked
<1>2. ASSUME NEW d \in Device, NEW h \in HostPtr, NEW b \in Buffer, NEW n \in Bytes,
             Gained(d, h, b, n)
      PROVE  Tracked'
  <2> SUFFICES ASSUME NEW e \in Device, NEW x \in DOMAIN present'[e]
               PROVE  \E i \in DOMAIN envs' : x \in envs'[i][e]
    BY DEF Tracked
  <2>1. /\ Len(envs) \in Nat \ {0}
        /\ DOMAIN envs = 1 .. Len(envs) /\ DOMAIN envs' = 1 .. Len(envs)
    BY <1>2, EnvFacts DEF Gained
  <2>2. CASE e = d /\ x = h
    <3>1. x \in envs'[Len(envs)][e]
      BY <1>2, <2>2 DEF Gained
    <3> QED BY <2>1, <3>1
  <2>3. CASE x \in DOMAIN present[e]
    <3>1. PICK i \in 1 .. Len(envs) : x \in envs[i][e]
      BY <2>1, <2>3 DEF Tracked
    <3>2. x \in envs'[i][e]
      BY <1>2, <2>1, <3>1 DEF Gained, Top
    <3> QED BY <2>1, <3>2
  <2> QED BY <1>2, <2>2, <2>3 DEF Gained
<1>3. ASSUME NEW d \in Device, NEW h \in HostPtr, Lost(d, h)
      PROVE  Tracked'
  <2> SUFFICES ASSUME NEW e \in Device, NEW x \in DOMAIN present'[e]
               PROVE  \E i \in DOMAIN envs' : x \in envs'[i][e]
    BY DEF Tracked
  <2>1. /\ Len(envs) \in Nat \ {0}
        /\ DOMAIN envs = 1 .. Len(envs) /\ DOMAIN envs' = 1 .. Len(envs)
    BY <1>3, EnvFacts DEF Lost
  <2>2. x \in DOMAIN present[e] /\ ~(e = d /\ x = h)
    BY <1>3 DEF Lost
  <2>3. PICK i \in 1 .. Len(envs) : x \in envs[i][e]
    BY <2>1, <2>2 DEF Tracked
  <2>4. x \in envs'[i][e]
    BY <1>3, <2>1, <2>2, <2>3 DEF Lost, Top
  <2> QED BY <2>1, <2>4
<1>4. CASE Opened
  <2> SUFFICES ASSUME NEW e \in Device, NEW x \in DOMAIN present'[e]
               PROVE  \E i \in DOMAIN envs' : x \in envs'[i][e]
    BY DEF Tracked
  <2>1. PICK i \in 1 .. Len(envs) : x \in envs[i][e]
    BY <1>4, EnvFacts DEF Opened, Tracked
  <2>2. i \in DOMAIN envs' /\ x \in envs'[i][e]
    BY <1>4, <2>1, EnvFacts DEF Opened
  <2> QED BY <2>2
<1>5. CASE Closed
  <2> SUFFICES ASSUME NEW e \in Device, NEW x \in DOMAIN present'[e]
               PROVE  \E i \in DOMAIN envs' : x \in envs'[i][e]
    BY DEF Tracked
  <2>1. x \in DOMAIN present[e] /\ x \notin Top[e]
    BY <1>5 DEF Closed
  <2>2. PICK i \in 1 .. Len(envs) : x \in envs[i][e]
    BY <2>1, EnvFacts DEF Tracked
  <2>3. i # Len(envs)
    BY <2>1, <2>2 DEF Top
  <2> DEFINE L == Len(envs)
  <2>4. L \in Nat
    BY EnvFacts
  <2>5. i \in 1 .. L /\ i # L
    BY <2>2, <2>3
  <2>6. /\ envs' \in Seq(EnvType)
        /\ L # 1 => /\ Len(envs') = L - 1
                    /\ \A j \in 1 .. L - 1 : envs'[j] = envs[j]
    BY <1>5 DEF Closed
  <2>7. DOMAIN envs' = 1 .. Len(envs')
    BY <2>6
  <2> HIDE DEF L
  <2>8. L # 1 /\ i \in 1 .. L - 1
    BY <2>4, <2>5
  <2>9. i \in DOMAIN envs' /\ x \in envs'[i][e]
    BY <2>2, <2>6, <2>7, <2>8
  <2> QED BY <2>9
<1> QED BY <1>1, <1>2, <1>3, <1>4, <1>5
      DEF Step, Still, data, Fills, Filled, UserMaps, UserUnmaps, Allocates,
          Frees, Deletes, Opens, Closes, Retires

\* Entries that remain keep their buffers, and a new one has a buffer of its own.
LEMMA NoAliasesStep == ASSUME DataOK, NoAliases, Step PROVE NoAliases'
<1>1. CASE UNCHANGED present
  BY <1>1 DEF NoAliases
<1>2. ASSUME NEW d \in Device, NEW h \in HostPtr, NEW b \in Buffer, NEW n \in Bytes,
             Gained(d, h, b, n)
      PROVE  NoAliases'
  <2> SUFFICES ASSUME NEW e \in Device, NEW x \in DOMAIN present'[e],
                      NEW y \in DOMAIN present'[e],
                      present'[e][x].ptr = present'[e][y].ptr
               PROVE  x = y
    BY DEF NoAliases
  <2>1. CASE e # d
    BY <1>2, <2>1 DEF Gained, NoAliases
  <2>2. CASE e = d
    <3>1. \A z \in DOMAIN present[d] : present[d][z].ptr # b
      BY <1>2 DEF Gained, Mapped
    <3> QED BY <1>2, <2>2, <3>1 DEF Gained, NoAliases
  <2> QED BY <2>1, <2>2
<1>3. ASSUME NEW d \in Device, NEW h \in HostPtr, Lost(d, h)
      PROVE  NoAliases'
  BY <1>3 DEF Lost, NoAliases
<1>4. CASE Closed
  BY <1>4 DEF Closed, NoAliases
<1> QED BY <1>1, <1>2, <1>3, <1>4
      DEF Step, Still, data, Fills, Filled, UserMaps, UserUnmaps, Allocates,
          Frees, Deletes, Opens, Opened, Closes, Retires

\* Entries that remain are unchanged.
LEMMA PointersStep ==
  ASSUME DataOK, Step
  PROVE  \A d \in Device : \A h \in DOMAIN present[d] \cap DOMAIN present'[d] :
           present'[d][h] = present[d][h]
<1>1. CASE UNCHANGED present
  BY <1>1
<1>2. ASSUME NEW d \in Device, NEW h \in HostPtr, NEW b \in Buffer, NEW n \in Bytes,
             Gained(d, h, b, n), NEW e \in Device,
             NEW x \in DOMAIN present[e] \cap DOMAIN present'[e]
      PROVE  present'[e][x] = present[e][x]
  BY <1>2 DEF Gained
<1>3. ASSUME NEW d \in Device, NEW h \in HostPtr, Lost(d, h), NEW e \in Device,
             NEW x \in DOMAIN present[e] \cap DOMAIN present'[e]
      PROVE  present'[e][x] = present[e][x]
  BY <1>3 DEF Lost
<1>4. CASE Closed
  BY <1>4 DEF Closed
<1> QED BY <1>1, <1>2, <1>3, <1>4
      DEF Step, Still, data, Fills, Filled, UserMaps, UserUnmaps, Allocates,
          Frees, Deletes, Opens, Opened, Closes, Retires

LEMMA NextAny ==
  ASSUME DataEnvAssumption, AnyInv, [Next]_vars
  PROVE  AnyInv'
<1>1. DataOK /\ Step
  BY NextIsStep, TypeParts DEF AnyInv
<1>2. DataOK' /\ ControlOK'
  BY <1>1, DataStep, ControlStep DEF AnyInv
<1>3. TypeOK'
  BY <1>2 DEF TypeOK, DataOK, ControlOK, EnvType
<1>4. Tracked' /\ NoAliases'
  BY <1>1, TrackedStep, NoAliasesStep DEF AnyInv
<1> QED BY <1>3, <1>4 DEF AnyInv

\* The invariants of all programs are inductive together.
THEOREM AnyInvariant == Spec => []AnyInv
<1>1. Init => AnyInv
  BY DataEnvAssumption, InitAny
<1>2. AnyInv /\ [Next]_vars => AnyInv'
  BY DataEnvAssumption, NextAny
<1> QED BY <1>1, <1>2, PTL DEF Spec

\* The state of the device data is well formed, whatever the program calls.
THEOREM DataTypeCorrect == Spec => []TypeOK
<1>1. AnyInv => TypeOK
  BY DEF AnyInv
<1> QED BY <1>1, AnyInvariant, PTL

\* Whatever a program calls, every mapping is in the set of an open environment.
THEOREM MappingsTracked == Spec => []Tracked
<1>1. AnyInv => Tracked
  BY DEF AnyInv
<1> QED BY <1>1, AnyInvariant, PTL

\* Whatever a program calls, no two variables of a device share a buffer.
THEOREM NoTwoShare == Spec => []NoAliases
<1>1. AnyInv => NoAliases
  BY DEF AnyInv
<1> QED BY <1>1, AnyInvariant, PTL

\* Whatever a program calls, the device pointer of a variable that stays present
\* does not change.
THEOREM PointersStable == Spec => StablePointers
<1> DEFINE A == \A d \in Device : \A h \in DOMAIN present[d] \cap DOMAIN present'[d] :
                  present'[d][h] = present[d][h]
<1>1. AnyInv /\ [Next]_vars => [A]_vars
  <2> SUFFICES ASSUME AnyInv, [Next]_vars PROVE A
    OBVIOUS
  <2>1. DataOK /\ Step
    BY NextIsStep, TypeParts DEF AnyInv
  <2> QED BY <2>1, PointersStep
<1> QED BY <1>1, AnyInvariant, PTL DEF Spec, StablePointers

------------------------------------------------------------------------------
\* The programs that nest their data regions (Scoped): every environment owns
\* its data, nothing leaks, and an environment can always be closed.  The two
\* invariants are inductive together with those of all programs.

ScopedInv == AnyInv /\ ScopesOwnData /\ NothingLeaks

\* In a scoped program every mapping is usable, and no two mappings share a
\* buffer, be it on one device or on two.
LEMMA EntriesUsable ==
  ASSUME Tracked, ScopesOwnData
  PROVE  \A d \in Device : \A h \in DOMAIN present[d] : Usable(d, present[d][h].ptr)
BY DEF Tracked, ScopesOwnData

LEMMA EntriesApart ==
  ASSUME Tracked, NoAliases, ScopesOwnData,
         NEW d \in Device, NEW h \in DOMAIN present[d],
         NEW e \in Device, NEW x \in DOMAIN present[e],
         present[d][h].ptr = present[e][x].ptr
  PROVE  d = e /\ h = x
<1>1. d = e
  BY EntriesUsable DEF Usable
<1> QED BY <1>1 DEF NoAliases

\* The buffers in use by mappings.
LEMMA AllMappedIs ==
  ASSUME NEW b
  PROVE  b \in AllMapped <=> \E d \in Device : \E h \in DOMAIN present[d] : present[d][h].ptr = b
BY DEF AllMapped, Mapped

LEMMA AllMappedNext ==
  ASSUME NEW b
  PROVE  (b \in AllMapped)' <=>
           \E d \in Device : \E h \in DOMAIN present'[d] : present'[d][h].ptr = b'
BY DEF AllMapped, Mapped

------------------------------------------------------------------------------
\* Every environment still owns its data after a step.

\* What a new entry and a released buffer leave alone.
LEMMA GainedScopes ==
  ASSUME DataOK, ScopesOwnData, NEW d \in Device, NEW h \in HostPtr, NEW b \in Buffer,
         NEW n \in Bytes, Gained(d, h, b, n), Usable(d, b)',
         \A e \in Device, c \in Buffer : Usable(e, c) => Usable(e, c)'
  PROVE  ScopesOwnData'
<1> DEFINE L == Len(envs)
<1>1. /\ L \in Nat \ {0}
      /\ DOMAIN envs = 1 .. L /\ DOMAIN envs' = 1 .. L
  BY EnvFacts DEF Gained
<1>2. ASSUME NEW i \in 1 .. L, NEW e \in Device, NEW x \in HostPtr
      PROVE  x \in envs'[i][e] <=> x \in envs[i][e] \/ (i = L /\ e = d /\ x = h)
  <2>1. CASE i = L /\ e = d
    BY <2>1 DEF Gained, Top
  <2>2. CASE i = L /\ e # d
    BY <2>2 DEF Gained, Top
  <2>3. CASE i # L
    <3> HIDE DEF L
    <3>1. i \in 1 .. L - 1
      BY <1>1, <2>3
    <3>2. envs'[i] = envs[i]
      BY <3>1 DEF Gained, L
    <3> QED BY <2>3, <3>2
  <2> QED BY <2>1, <2>2, <2>3
<1>3. \A i \in 1 .. L, e \in Device : envs[i][e] \subseteq HostPtr /\ envs'[i][e] \subseteq HostPtr
  BY <1>1, EnvFacts DEF EnvType, Gained
<1>4. \A i \in 1 .. L : h \notin envs[i][d]
  BY <1>1 DEF ScopesOwnData, Gained
<1> HIDE DEF L
<1> SUFFICES ASSUME NEW i \in 1 .. L, NEW e \in Device, NEW x \in envs'[i][e]
             PROVE  /\ x \in DOMAIN present'[e]
                    /\ Usable(e, present[e][x].ptr)'
                    /\ \A j \in 1 .. L : x \in envs'[j][e] => i = j
  BY <1>1 DEF ScopesOwnData
<1>5. CASE e = d /\ x = h
  BY <1>2, <1>3, <1>4, <1>5 DEF Gained, Usable
<1>6. CASE ~(e = d /\ x = h)
  <2>1. x \in envs[i][e] /\ x \in HostPtr
    BY <1>2, <1>3, <1>6
  <2>2. /\ x \in DOMAIN present[e]
        /\ Usable(e, present[e][x].ptr)
        /\ \A j \in 1 .. L : x \in envs[j][e] => i = j
    BY <1>1, <2>1 DEF ScopesOwnData
  <2>3. x \in DOMAIN present'[e] /\ present'[e][x] = present[e][x]
    BY <1>6, <2>2 DEF Gained
  <2>4. present[e][x].ptr \in Buffer
    BY <2>2 DEF DataOK
  <2>5. Usable(e, present[e][x].ptr)'
    BY <2>2, <2>3, <2>4 DEF Usable
  <2> QED BY <1>2, <1>6, <2>1, <2>2, <2>3, <2>5
<1> QED BY <1>5, <1>6

LEMMA LostScopes ==
  ASSUME DataOK, ScopesOwnData, NEW d \in Device, NEW h \in HostPtr, Lost(d, h),
         h \in DOMAIN present[d] => h \in Top[d],
         \A e \in Device : \A x \in DOMAIN present[e] :
           (e # d \/ x # h) /\ Usable(e, present[e][x].ptr)
             => /\ present[e][x].ptr \in DOMAIN buffers'
                /\ buffers'[present[e][x].ptr] = buffers[present[e][x].ptr]
  PROVE  ScopesOwnData'
<1> DEFINE L == Len(envs)
<1>1. /\ L \in Nat \ {0}
      /\ DOMAIN envs = 1 .. L /\ DOMAIN envs' = 1 .. L
  BY EnvFacts DEF Lost
<1>2. ASSUME NEW i \in 1 .. L, NEW e \in Device, NEW x \in HostPtr
      PROVE  x \in envs'[i][e] <=> x \in envs[i][e] /\ ~(i = L /\ e = d /\ x = h)
  <2>1. CASE i = L /\ e = d
    BY <2>1 DEF Lost, Top
  <2>2. CASE i = L /\ e # d
    BY <2>2 DEF Lost, Top
  <2>3. CASE i # L
    <3> HIDE DEF L
    <3>1. i \in 1 .. L - 1
      BY <1>1, <2>3
    <3>2. envs'[i] = envs[i]
      BY <3>1 DEF Lost, L
    <3> QED BY <2>3, <3>2
  <2> QED BY <2>1, <2>2, <2>3
<1>3. \A i \in 1 .. L, e \in Device : envs[i][e] \subseteq HostPtr /\ envs'[i][e] \subseteq HostPtr
  BY <1>1, EnvFacts DEF EnvType, Lost
<1>4. Top = envs[L]
  BY DEF Top
<1> HIDE DEF L
<1> SUFFICES ASSUME NEW i \in 1 .. L, NEW e \in Device, NEW x \in envs'[i][e]
             PROVE  /\ x \in DOMAIN present'[e]
                    /\ Usable(e, present[e][x].ptr)'
                    /\ \A j \in 1 .. L : x \in envs'[j][e] => i = j
  BY <1>1 DEF ScopesOwnData
<1>5. x \in envs[i][e] /\ x \in HostPtr
  BY <1>2, <1>3
<1>6. /\ x \in DOMAIN present[e]
      /\ Usable(e, present[e][x].ptr)
      /\ \A j \in 1 .. L : x \in envs[j][e] => i = j
  BY <1>1, <1>5 DEF ScopesOwnData
<1>7. ~(e = d /\ x = h)
  BY <1>1, <1>2, <1>4, <1>5, <1>6
<1>8. x \in DOMAIN present'[e] /\ present'[e][x] = present[e][x]
  BY <1>6, <1>7 DEF Lost
<1>9. Usable(e, present[e][x].ptr)'
  BY <1>6, <1>7, <1>8 DEF Usable
<1> QED BY <1>2, <1>5, <1>6, <1>8, <1>9

\* The last environment to close takes with it what no other one has.
LEMMA ClosedScopes ==
  ASSUME DataOK, Tracked, NoAliases, ScopesOwnData, Closed
  PROVE  ScopesOwnData'
<1> DEFINE L == Len(envs)
<1>1. L \in Nat \ {0} /\ DOMAIN envs = 1 .. L /\ Top = envs[L]
  BY EnvFacts DEF Top
<1>2. CASE L = 1
  <2>1. DOMAIN envs' = {1} /\ \A e \in Device : envs'[1][e] = {}
    BY <1>2 DEF Closed
  <2> QED BY <2>1 DEF ScopesOwnData
<1>3. CASE L # 1
  <2>1. /\ envs' \in Seq(EnvType)
        /\ Len(envs') = L - 1
        /\ \A j \in 1 .. L - 1 : envs'[j] = envs[j]
    BY <1>3 DEF Closed
  <2>2. DOMAIN envs' = 1 .. Len(envs')
    BY <2>1
  <2> HIDE DEF L
  <2>3. DOMAIN envs' = 1 .. L - 1 /\ 1 .. L - 1 \subseteq 1 .. L
    BY <1>1, <2>1, <2>2
  <2> SUFFICES ASSUME NEW i \in 1 .. L - 1, NEW e \in Device, NEW x \in envs[i][e]
               PROVE  /\ x \in DOMAIN present'[e]
                      /\ Usable(e, present[e][x].ptr)'
                      /\ \A j \in 1 .. L - 1 : x \in envs[j][e] => i = j
    BY <2>1, <2>3 DEF ScopesOwnData
  <2>4. /\ x \in DOMAIN present[e]
        /\ Usable(e, present[e][x].ptr)
        /\ \A j \in 1 .. L : x \in envs[j][e] => i = j
    BY <1>1, <2>3 DEF ScopesOwnData
  <2>5. L \in 1 .. L /\ i # L
    BY <1>1
  <2>6. x \notin Top[e]
    BY <1>1, <2>4, <2>5
  <2>7. x \in DOMAIN present'[e] /\ present'[e][x] = present[e][x]
    BY <2>4, <2>6 DEF Closed
  <2>8. present[e][x].ptr \notin TopBuffers
    <3>1. SUFFICES ASSUME NEW f \in Device, NEW y \in Top[f],
                          present[f][y].ptr = present[e][x].ptr
                   PROVE  FALSE
      BY DEF TopBuffers, TopEntries
    <3>2. y \in DOMAIN present[f]
      BY <1>1, <2>5 DEF ScopesOwnData
    <3> QED BY <2>4, <2>6, <3>1, <3>2, EntriesApart
  <2>9. Usable(e, present[e][x].ptr)'
    BY <2>4, <2>7, <2>8 DEF Closed, Release, Usable
  <2> QED BY <2>3, <2>4, <2>7, <2>9
<1> QED BY <1>2, <1>3

LEMMA ScopesStep ==
  ASSUME Scoped, DataOK, Tracked, NoAliases, ScopesOwnData, NothingLeaks, Step
  PROVE  ScopesOwnData'
<1>1. CASE Still
  BY <1>1 DEF Still, data, ScopesOwnData, Usable
<1>2. ASSUME NEW d \in Device, NEW b \in Buffer, b \notin DOMAIN buffers,
             buffers' = With(buffers, b, [dev |-> d, old |-> FALSE])
      PROVE  /\ Usable(d, b)'
             /\ \A e \in Device, c \in Buffer : Usable(e, c) => Usable(e, c)'
  BY <1>2 DEF With, Usable
<1>3. CASE Fills
  <2>1. PICK d \in Device, h \in HostPtr, n \in Bytes, b \in Buffer :
          /\ b \notin DOMAIN buffers
          /\ buffers' = With(buffers, b, [dev |-> d, old |-> FALSE])
          /\ Gained(d, h, b, n)
    BY <1>3 DEF Fills, Filled
  <2> QED BY <1>2, <2>1, GainedScopes
<1>4. CASE UserMaps
  <2>1. PICK d \in Device, h \in HostPtr, b \in Buffer, n \in Bytes :
          MayMap(d, b) /\ Gained(d, h, b, n) /\ UNCHANGED <<buffers, held>>
    BY <1>4 DEF UserMaps
  <2>2. Usable(d, b)' /\ \A e \in Device, c \in Buffer : Usable(e, c) => Usable(e, c)'
    BY <2>1 DEF MayMap, Usable
  <2> QED BY <2>1, <2>2, GainedScopes
<1>5. CASE UserUnmaps
  <2>1. PICK d \in Device, h \in HostPtr :
          MayUnmap(d, h) /\ Lost(d, h) /\ UNCHANGED <<buffers, held>>
    BY <1>5 DEF UserUnmaps
  <2>2. h \in DOMAIN present[d] => h \in Top[d]
    BY <2>1 DEF MayUnmap
  <2>3. \A c : Usable(d, c) => c \in DOMAIN buffers' /\ buffers'[c] = buffers[c]
    BY <2>1 DEF Usable
  <2> QED BY <2>1, <2>2, <2>3, LostScopes DEF Usable
<1>6. CASE Deletes
  <2>1. PICK d \in Device, h \in HostPtr :
          /\ MayDelete(d, h)
          /\ h \in DOMAIN present[d]
          /\ Lost(d, h)
          /\ Release({present[d][h].ptr})
    BY <1>6 DEF Deletes
  <2>2. h \in Top[d]
    BY <2>1 DEF MayDelete
  <2>3. ASSUME NEW e \in Device, NEW x \in DOMAIN present[e], e # d \/ x # h,
               Usable(e, present[e][x].ptr)
        PROVE  /\ present[e][x].ptr \in DOMAIN buffers'
               /\ buffers'[present[e][x].ptr] = buffers[present[e][x].ptr]
    <3>1. present[e][x].ptr # present[d][h].ptr
      BY <2>1, <2>3, EntriesApart
    <3> QED BY <2>1, <2>3, <3>1 DEF Release, Usable
  <2> QED BY <2>1, <2>2, <2>3, LostScopes
<1>7. CASE Allocates
  BY <1>2, <1>7 DEF Allocates, acc_malloc_, ScopesOwnData, DataOK
<1>8. CASE Frees
  BY <1>8, AllMappedIs DEF Frees, MayFree, Release, ScopesOwnData, Usable
<1>9. CASE Opens
  BY <1>9, EnvFacts DEF Opens, Opened, ScopesOwnData, Usable
<1>10. CASE Closes
  BY <1>10, ClosedScopes DEF Closes
<1>11. CASE Retires
  <2>1. /\ UNCHANGED <<envs, present>>
        /\ \A e \in Device : \A c : Usable(e, c) => Usable(e, c)'
    <3>1. PICK d \in Device :
            /\ MayShutdown(d)
            /\ buffers' = [b \in DOMAIN buffers |->
                             [dev |-> buffers[b].dev,
                              old |-> buffers[b].old \/ buffers[b].dev = d]]
            /\ UNCHANGED <<envs, present, held>>
      BY <1>11 DEF Retires
    <3>2. ASSUME NEW e \in Device, NEW c, Usable(e, c)
          PROVE  Usable(e, c)'
      <4>1. c \in DOMAIN buffers' /\ buffers[c].dev # d /\ ~buffers[c].old /\ buffers[c].dev = e
        BY <3>1, <3>2 DEF Usable, MayShutdown
      <4>2. buffers'[c] = [dev |-> buffers[c].dev,
                           old |-> buffers[c].old \/ buffers[c].dev = d]
        BY <3>1, <4>1
      <4>3. buffers'[c].dev = e
        BY <4>1, <4>2
      <4>4. buffers'[c].old = (buffers[c].old \/ buffers[c].dev = d)
        BY <4>2
      <4>5. ~buffers'[c].old
        BY <4>1, <4>4, Zenon
      <4> QED BY <4>1, <4>3, <4>5 DEF Usable
    <3> QED BY <3>1, <3>2
  <2> QED BY <2>1 DEF ScopesOwnData
<1> QED BY <1>1, <1>3, <1>4, <1>5, <1>6, <1>7, <1>8, <1>9, <1>10, <1>11 DEF Step

------------------------------------------------------------------------------
\* Buffers are gained and lost together with the mappings or the program's hold.

LEMMA LeaksStep ==
  ASSUME Scoped, DataOK, Tracked, NoAliases, ScopesOwnData, NothingLeaks, Step
  PROVE  NothingLeaks'
<1> SUFFICES ASSUME NEW c
             PROVE  c \in DOMAIN buffers' <=> (c \in AllMapped)' \/ c \in held'
  BY DEF NothingLeaks
<1>0. c \in DOMAIN buffers <=> c \in AllMapped \/ c \in held
  BY DEF NothingLeaks
<1>1. CASE Still
  BY <1>0, <1>1 DEF Still, data, AllMapped, Mapped
<1>2. ASSUME NEW d \in Device, NEW h \in HostPtr, NEW b \in Buffer, NEW n \in Bytes,
             Gained(d, h, b, n)
      PROVE  (c \in AllMapped)' <=> c \in AllMapped \/ c = b
  <2>1. ASSUME NEW e \in Device
        PROVE  (c \in Mapped(e))' <=> c \in Mapped(e) \/ (e = d /\ c = b)
    BY <1>2 DEF Gained, Mapped
  <2> QED BY <2>1 DEF AllMapped
<1>3. ASSUME NEW d \in Device, NEW h \in HostPtr, Lost(d, h)
      PROVE  /\ h \notin DOMAIN present[d] => ((c \in AllMapped)' <=> c \in AllMapped)
             /\ h \in DOMAIN present[d] =>
                  ((c \in AllMapped)' <=> c \in AllMapped /\ c # present[d][h].ptr)
  <2>1. (c \in AllMapped)' <=>
          \E e \in Device : \E x \in DOMAIN present[e] :
            (e # d \/ x # h) /\ present[e][x].ptr = c
    BY <1>3, AllMappedNext DEF Lost
  <2> QED BY <2>1, AllMappedIs, EntriesApart
<1>4. CASE Fills
  <2>1. PICK d \in Device, h \in HostPtr, n \in Bytes, b \in Buffer :
          /\ buffers' = With(buffers, b, [dev |-> d, old |-> FALSE])
          /\ Gained(d, h, b, n)
          /\ UNCHANGED held
    BY <1>4 DEF Fills, Filled
  <2> QED BY <1>0, <1>2, <2>1 DEF With
<1>5. CASE UserMaps
  <2>1. PICK d \in Device, h \in HostPtr, b \in Buffer, n \in Bytes :
          MayMap(d, b) /\ Gained(d, h, b, n) /\ UNCHANGED <<buffers, held>>
    BY <1>5 DEF UserMaps
  <2> QED BY <1>0, <1>2, <2>1 DEF MayMap
<1>6. CASE UserUnmaps
  <2>1. PICK d \in Device, h \in HostPtr :
          MayUnmap(d, h) /\ Lost(d, h) /\ UNCHANGED <<buffers, held>>
    BY <1>6 DEF UserUnmaps
  <2> QED BY <1>0, <1>3, <2>1 DEF MayUnmap
<1>7. CASE Deletes
  <2>1. PICK d \in Device, h \in HostPtr :
          /\ MayDelete(d, h)
          /\ h \in DOMAIN present[d]
          /\ Lost(d, h)
          /\ Release({present[d][h].ptr})
          /\ UNCHANGED held
    BY <1>7 DEF Deletes
  <2>2. present[d][h].ptr \notin held
    BY <2>1 DEF MayDelete
  <2>3. (c \in AllMapped)' <=> c \in AllMapped /\ c # present[d][h].ptr
    BY <1>3, <2>1
  <2> QED BY <1>0, <2>1, <2>2, <2>3 DEF Release
<1>8. CASE Allocates
  BY <1>0, <1>8 DEF Allocates, acc_malloc_, With, AllMapped, Mapped
<1>9. CASE Frees
  BY <1>0, <1>9 DEF Frees, MayFree, Release, AllMapped, Mapped
<1>10. CASE Opens
  BY <1>0, <1>10 DEF Opens, Opened, AllMapped, Mapped
<1>11. CASE Closes
  <2>1. Closed /\ MayPop /\ UNCHANGED held
    BY <1>11 DEF Closes
  <2>2. \A d \in Device : Top[d] \subseteq HostPtr /\ Top[d] \subseteq DOMAIN present[d]
    BY EnvFacts DEF Top, EnvType, ScopesOwnData
  <2>3. c \in TopBuffers <=> \E d \in Device : \E h \in Top[d] : present[d][h].ptr = c
    <3>1. ASSUME NEW d \in Device, NEW h \in Top[d]
          PROVE  <<d, h>> \in TopEntries
      BY <2>2 DEF TopEntries
    <3>2. ASSUME NEW d \in Device, NEW h \in Top[d], present[d][h].ptr = c
          PROVE  c \in TopBuffers
      <4> DEFINE e == <<d, h>>
      <4>1. e \in TopEntries /\ present[e[1]][e[2]].ptr = c
        BY <3>1, <3>2
      <4> QED BY <4>1 DEF TopBuffers
    <3> QED BY <3>2 DEF TopBuffers, TopEntries
  <2>4. (c \in AllMapped)' <=>
          \E d \in Device : \E h \in DOMAIN present[d] \ Top[d] : present[d][h].ptr = c
    BY <2>1, AllMappedNext DEF Closed
  <2>5. (c \in AllMapped)' <=> c \in AllMapped /\ c \notin TopBuffers
    BY <2>2, <2>3, <2>4, AllMappedIs, EntriesApart
  <2>6. c \in TopBuffers => c \notin held
    BY <2>1, <2>2, <2>3 DEF MayPop
  <2>7. c \in DOMAIN buffers' <=> c \in DOMAIN buffers /\ c \notin TopBuffers
    BY <2>1 DEF Closed, Release
  <2> QED BY <1>0, <2>1, <2>5, <2>6, <2>7
<1>12. CASE Retires
  BY <1>0, <1>12 DEF Retires, AllMapped, Mapped
<1> QED BY <1>1, <1>4, <1>5, <1>6, <1>7, <1>8, <1>9, <1>10, <1>11, <1>12 DEF Step

------------------------------------------------------------------------------
\* The invariants of scoped programs are inductive.
THEOREM ScopedInvariant == ASSUME Scoped PROVE Spec => []ScopedInv
<1>1. Init => ScopedInv
  <2> SUFFICES ASSUME Init PROVE ScopedInv
    OBVIOUS
  <2>1. AnyInv
    BY DataEnvAssumption, InitAny
  <2>2. ScopesOwnData
    BY DEF Init, NoEntries, ScopesOwnData
  <2>3. NothingLeaks
    BY DEF Init, NothingLeaks, AllMapped, Mapped
  <2> QED BY <2>1, <2>2, <2>3 DEF ScopedInv
<1>2. ScopedInv /\ [Next]_vars => ScopedInv'
  <2> SUFFICES ASSUME ScopedInv, [Next]_vars PROVE ScopedInv'
    OBVIOUS
  <2>1. AnyInv' /\ Step /\ DataOK
    BY DataEnvAssumption, NextAny, NextIsStep, TypeParts DEF ScopedInv, AnyInv
  <2> QED BY <2>1, ScopesStep, LeaksStep DEF ScopedInv, AnyInv
<1> QED BY <1>1, <1>2, PTL DEF Spec

\* In a scoped program every entry of every environment is present, on a live
\* buffer of its device, and belongs to that environment alone.
THEOREM EnvironmentsOwnData == ASSUME Scoped PROVE Spec => []ScopesOwnData
<1>1. ScopedInv => ScopesOwnData
  BY DEF ScopedInv
<1> QED BY <1>1, ScopedInvariant, PTL

\* In a scoped program the live buffers are those mapped and those held.
THEOREM NoBufferLeaks == ASSUME Scoped PROVE Spec => []NothingLeaks
<1>1. ScopedInv => NothingLeaks
  BY DEF ScopedInv
<1> QED BY <1>1, ScopedInvariant, PTL

\* Each release of a closing environment finds its buffer, and finds it once.
LEMMA ScopesClear == ASSUME ScopedInv PROVE CanClear
<1>1. \A e \in TopEntries :
        /\ e = <<e[1], e[2]>> /\ e[1] \in Device
        /\ e[2] \in DOMAIN present[e[1]]
        /\ Usable(e[1], present[e[1]][e[2]].ptr)
  BY EnvFacts, TypeParts DEF ScopedInv, AnyInv, ScopesOwnData, TopEntries, Top
<1>2. TopBuffers \subseteq DOMAIN buffers
  BY <1>1 DEF TopBuffers, Usable
<1>3. ASSUME NEW e \in TopEntries, NEW f \in TopEntries,
             present[e[1]][e[2]].ptr = present[f[1]][f[2]].ptr
      PROVE  e = f
  <2>1. e[1] = f[1] /\ e[2] = f[2]
    BY <1>1, <1>3, EntriesApart DEF ScopedInv, AnyInv
  <2> QED BY <1>1, <2>1
<1> QED BY <1>1, <1>2, <1>3 DEF CanClear

\* Closing an environment never stops a scoped program.
THEOREM ClosingSucceeds == ASSUME Scoped PROVE Spec => PopSucceeds
<1> DEFINE A == acc_pop_data_environment => status' = "running"
<1>1. ScopedInv /\ [Next]_vars => [A]_vars
  <2> SUFFICES ASSUME ScopedInv, acc_pop_data_environment PROVE status' = "running"
    OBVIOUS
  <2>1. devices_data[curr] = "ready" /\ status = "running"
    BY DEF acc_pop_data_environment, MayPop, OnCurrent, Idle
  <2> QED BY <2>1, ScopesClear DEF acc_pop_data_environment, BadDevice
<1> QED BY <1>1, ScopedInvariant, PTL DEF Spec, PopSucceeds

------------------------------------------------------------------------------
\* The environments implement nested scopes.

\* The share of environment i in the table of device d.
Share(i, d) == [h \in envs[i][d] |-> present[d][h]]

LEMMA ScopesAre ==
  ASSUME DataOK
  PROVE  /\ ScopesOf = [i \in 1 .. Len(envs) |-> [d \in Device |-> Share(i, d)]]
         /\ Len(ScopesOf) = Len(envs)
<1> DEFINE L == Len(envs)
           X == {[d \in Device |-> Share(i, d)] : i \in 1 .. L}
<1>1. L \in Nat /\ DOMAIN envs = 1 .. L
  BY EnvFacts
<1>2. ScopesOf = [i \in 1 .. L |-> [d \in Device |-> Share(i, d)]]
  BY <1>1 DEF ScopesOf, Share
<1>3. ScopesOf \in [1 .. L -> X]
  BY <1>2
<1> HIDE DEF L, X
<1>4. ScopesOf \in Seq(X)
  BY <1>1, <1>3
<1>5. Len(ScopesOf) = L
  BY <1>1, <1>3, <1>4, LenProperties
<1> QED BY <1>2, <1>5 DEF L

\* A step that changes the share of one device in the innermost environment.
LEMMA ScopesExcept ==
  ASSUME DataOK, DataOK', NEW L \in Nat, L = Len(envs), L = Len(envs'),
         NEW d \in Device, NEW m, Share(L, d)' = m,
         \A i \in 1 .. L : \A x \in Device :
           i # L \/ x # d => Share(i, x)' = Share(i, x)
  PROVE  ScopesOf' = [ScopesOf EXCEPT ![Len(ScopesOf)][d] = m]
<1>1. L \in 1 .. L
  BY EnvFacts
<1>2. ScopesOf = [i \in 1 .. L |-> [x \in Device |-> Share(i, x)]] /\ Len(ScopesOf) = L
  BY ScopesAre
<1>3. ScopesOf' = [i \in 1 .. L |-> [x \in Device |-> Share(i, x)']]
  <2>1. DOMAIN envs' = 1 .. L
    BY DEF DataOK
  <2> QED BY <2>1 DEF ScopesOf, Share
<1>4. [ScopesOf EXCEPT ![L][d] = m] =
        [i \in 1 .. L |-> [x \in Device |-> IF i = L /\ x = d THEN m ELSE Share(i, x)]]
  BY <1>1, <1>2
<1>5. \A i \in 1 .. L : \A x \in Device :
        Share(i, x)' = IF i = L /\ x = d THEN m ELSE Share(i, x)
  OBVIOUS
<1> QED BY <1>2, <1>3, <1>4, <1>5

\* The shares that a step leaves alone.
LEMMA SharesKept ==
  ASSUME NEW i, NEW x \in Device, envs'[i][x] = envs[i][x],
         \A y \in envs[i][x] : present'[x][y] = present[x][y]
  PROVE  Share(i, x)' = Share(i, x)
BY DEF Share

LEMMA GainedEnters ==
  ASSUME DataOK, DataOK', ScopesOwnData, NEW d \in Device, NEW h \in HostPtr,
         NEW b \in Buffer, NEW n \in Bytes, Gained(d, h, b, n)
  PROVE  Store!Enter(d, h, [ptr |-> b, n |-> n])
<1> DEFINE e == [ptr |-> b, n |-> n]
<1>1. PICK L \in Nat : L = Len(envs)
  BY EnvFacts
<1>2. /\ L = Len(envs') /\ L \in 1 .. L
      /\ DOMAIN envs = 1 .. L /\ Top = envs[L]
  BY <1>1, EnvFacts DEF Gained, Top
<1>3. \A i \in 1 .. L : \A x \in Device : envs[i][x] \subseteq DOMAIN present[x]
  BY <1>2 DEF ScopesOwnData
<1>4. /\ ScopesOf = [i \in 1 .. L |-> [x \in Device |-> Share(i, x)]]
      /\ Len(ScopesOf) = L
  BY <1>1, ScopesAre
<1>5. ASSUME NEW i \in 1 .. L, NEW x \in Device
      PROVE  /\ ScopesOf[i][x] = Share(i, x)
             /\ DOMAIN Share(i, x) = envs[i][x]
             /\ \A y \in envs[i][x] : Share(i, x)[y] = present[x][y]
  BY <1>4 DEF Share
<1>6. ~Store!IsVisible(d, h)
  <2>1. ASSUME NEW i \in 1 .. L
        PROVE  h \notin DOMAIN ScopesOf[i][d]
    <3>1. DOMAIN ScopesOf[i][d] = envs[i][d]
      BY <1>5
    <3>2. h \notin envs[i][d]
      BY <1>3 DEF Gained
    <3> QED BY <3>1, <3>2
  <2>2. DOMAIN ScopesOf = 1 .. L
    BY <1>4
  <2> QED BY <2>1, <2>2 DEF Store!IsVisible
<1>7. ~Store!InUse(d, e.ptr)
  BY <1>3, <1>4, <1>5 DEF Store!InUse, Gained, Mapped
<1>8. Share(L, d)' = Store!With(Share(L, d), h, e)
  BY <1>1, <1>2, <1>3, <1>5 DEF Share, Store!With, Gained
<1>9. ASSUME NEW i \in 1 .. L, NEW x \in Device, i # L \/ x # d
      PROVE  Share(i, x)' = Share(i, x)
  <2>1. i # L => i \in 1 .. L - 1
    BY <1>2
  <2>2. envs'[i][x] = envs[i][x]
    BY <1>1, <1>2, <1>9, <2>1 DEF Gained
  <2>3. \A y \in envs[i][x] : present'[x][y] = present[x][y]
    BY <1>3 DEF Gained
  <2> QED BY <2>2, <2>3, SharesKept
<1> HIDE DEF e
<1>10. ScopesOf' = [ScopesOf EXCEPT ![Len(ScopesOf)][d] = Store!With(Share(L, d), h, e)]
  BY <1>1, <1>2, <1>8, <1>9, ScopesExcept
<1>11. ScopesOf' = [ScopesOf EXCEPT ![Len(ScopesOf)][d] = Store!With(@, h, e)]
  BY <1>2, <1>4, <1>5, <1>10
<1> QED BY <1>6, <1>7, <1>11 DEF Store!Enter, e

LEMMA LostLeaves ==
  ASSUME DataOK, DataOK', ScopesOwnData, NEW d \in Device, NEW h \in HostPtr,
         Lost(d, h), h \in Top[d]
  PROVE  Store!Leave(d, h)
<1>1. PICK L \in Nat : L = Len(envs)
  BY EnvFacts
<1>2. /\ L = Len(envs') /\ L \in 1 .. L
      /\ DOMAIN envs = 1 .. L /\ Top = envs[L]
  BY <1>1, EnvFacts DEF Lost, Top
<1>3. \A i \in 1 .. L : \A x \in Device : envs[i][x] \subseteq DOMAIN present[x]
  BY <1>2 DEF ScopesOwnData
<1>4. /\ ScopesOf = [i \in 1 .. L |-> [x \in Device |-> Share(i, x)]]
      /\ Len(ScopesOf) = L
  BY <1>1, ScopesAre
<1>5. ASSUME NEW i \in 1 .. L, NEW x \in Device
      PROVE  /\ ScopesOf[i][x] = Share(i, x)
             /\ DOMAIN Share(i, x) = envs[i][x]
             /\ \A y \in envs[i][x] : Share(i, x)[y] = present[x][y]
  BY <1>4 DEF Share
<1>6. h \in DOMAIN Store!Top[d]
  BY <1>2, <1>4, <1>5 DEF Store!Top
<1>7. Share(L, d)' = Store!Without(Share(L, d), h)
  BY <1>1, <1>2, <1>3, <1>5 DEF Share, Store!Without, Lost
<1>8. ASSUME NEW i \in 1 .. L, NEW x \in Device, i # L \/ x # d
      PROVE  Share(i, x)' = Share(i, x)
  <2>1. i # L => i \in 1 .. L - 1
    BY <1>2
  <2>2. envs'[i][x] = envs[i][x]
    BY <1>1, <1>2, <1>8, <2>1 DEF Lost
  <2>3. x = d => h \notin envs[i][x]
    BY <1>2, <1>8 DEF ScopesOwnData
  <2>4. \A y \in envs[i][x] : present'[x][y] = present[x][y]
    BY <1>3, <2>3 DEF Lost
  <2> QED BY <2>2, <2>4, SharesKept
<1>9. ScopesOf' = [ScopesOf EXCEPT ![Len(ScopesOf)][d] = Store!Without(Share(L, d), h)]
  BY <1>1, <1>2, <1>7, <1>8, ScopesExcept
<1>10. ScopesOf' = [ScopesOf EXCEPT ![Len(ScopesOf)][d] = Store!Without(@, h)]
  BY <1>2, <1>4, <1>5, <1>9
<1> QED BY <1>6, <1>10 DEF Store!Leave

LEMMA OpenedOpens ==
  ASSUME DataOK, DataOK', Opened
  PROVE  Store!Open
<1>1. PICK L \in Nat : L = Len(envs)
  BY EnvFacts
<1>2. /\ Len(envs') = L + 1
      /\ DOMAIN envs' = 1 .. L + 1
      /\ \A i \in 1 .. L : envs'[i] = envs[i]
      /\ \A d \in Device : envs'[L + 1][d] = {}
      /\ UNCHANGED present
  BY <1>1 DEF Opened, DataOK
<1>3. ScopesOf = [i \in 1 .. L |-> [x \in Device |-> Share(i, x)]] /\ Len(ScopesOf) = L
  BY <1>1, ScopesAre
<1>4. ScopesOf' = [i \in 1 .. L + 1 |-> [x \in Device |-> Share(i, x)']]
  BY <1>2 DEF ScopesOf, Share
<1>5. \A i \in 1 .. L : \A x \in Device : Share(i, x)' = Share(i, x)
  BY <1>2 DEF Share
<1>6. [x \in Device |-> Share(L + 1, x)'] = Store!NoData
  BY <1>2 DEF Share, Store!NoData
<1> DEFINE X == {[x \in Device |-> Share(i, x)] : i \in 1 .. L} \cup {Store!NoData}
<1>7. ScopesOf \in [1 .. L -> X]
  BY <1>3
<1>8. Store!NoData \in X
  OBVIOUS
<1> HIDE DEF X
<1>9. ScopesOf \in Seq(X)
  BY <1>7
<1>10. Append(ScopesOf, Store!NoData) =
         [i \in 1 .. L + 1 |-> IF i = L + 1 THEN Store!NoData ELSE ScopesOf[i]]
  BY <1>3, <1>8, <1>9
<1>11. \A i \in 1 .. L + 1 :
         [x \in Device |-> Share(i, x)'] = IF i = L + 1 THEN Store!NoData ELSE ScopesOf[i]
  <2> SUFFICES ASSUME NEW i \in 1 .. L + 1, i # L + 1
               PROVE  [x \in Device |-> Share(i, x)'] = ScopesOf[i]
    BY <1>6
  <2>1. i \in 1 .. L
    OBVIOUS
  <2> QED BY <1>3, <1>5, <2>1
<1>12. ScopesOf' = Append(ScopesOf, Store!NoData)
  BY <1>4, <1>10, <1>11
<1> QED BY <1>12 DEF Store!Open

LEMMA ClosedCloses ==
  ASSUME DataOK, DataOK', ScopesOwnData, Closed
  PROVE  Store!Close
<1>1. PICK L \in Nat : L = Len(envs)
  BY EnvFacts
<1>2. L > 0 /\ DOMAIN envs = 1 .. L /\ Top = envs[L]
  BY <1>1, EnvFacts DEF Top
<1>3. ScopesOf = [i \in 1 .. L |-> [x \in Device |-> Share(i, x)]] /\ Len(ScopesOf) = L
  BY <1>1, ScopesAre
<1>4. CASE L = 1
  <2>1. DOMAIN envs' = 1 .. 1 /\ \A d \in Device : envs'[1][d] = {}
    BY <1>1, <1>4 DEF Closed
  <2>2. [x \in Device |-> Share(1, x)'] = Store!NoData
    BY <2>1 DEF Share, Store!NoData
  <2>3. ScopesOf' = [i \in 1 .. 1 |-> [x \in Device |-> Share(i, x)']]
    BY <2>1 DEF ScopesOf, Share
  <2>4. ScopesOf' = [i \in 1 .. 1 |-> Store!NoData]
    BY <2>2, <2>3
  <2>5. ScopesOf' = <<Store!NoData>>
    BY <2>4
  <2> QED BY <1>3, <1>4, <2>5 DEF Store!Close
<1>5. CASE L # 1
  <2>1. /\ envs' \in Seq(EnvType)
        /\ Len(envs') = L - 1
        /\ \A i \in 1 .. L - 1 : envs'[i] = envs[i]
    BY <1>1, <1>5 DEF Closed
  <2>2. DOMAIN envs' = 1 .. L - 1
    BY <2>1
  <2>3. ASSUME NEW i \in 1 .. L - 1, NEW x \in Device
        PROVE  Share(i, x)' = Share(i, x)
    <3>1. i \in 1 .. L /\ L \in 1 .. L /\ i # L
      BY <1>2
    <3>2. \A y \in envs[i][x] : y \in DOMAIN present[x] /\ y \notin Top[x]
      BY <1>2, <3>1 DEF ScopesOwnData
    <3>3. \A y \in envs[i][x] : present'[x][y] = present[x][y]
      BY <3>2 DEF Closed
    <3>4. envs'[i][x] = envs[i][x]
      BY <2>1
    <3> QED BY <3>3, <3>4, SharesKept
  <2>4. ScopesOf' = [i \in 1 .. L - 1 |-> [x \in Device |-> Share(i, x)']]
    BY <2>2 DEF ScopesOf, Share
  <2>5. ScopesOf' = [i \in 1 .. L - 1 |-> [x \in Device |-> Share(i, x)]]
    BY <2>3, <2>4
  <2>6. SubSeq(ScopesOf, 1, L - 1) = [i \in 1 .. L - 1 |-> ScopesOf[i]]
    BY <1>2, <1>3
  <2>7. \A i \in 1 .. L - 1 : ScopesOf[i] = [x \in Device |-> Share(i, x)]
    BY <1>2, <1>3
  <2>8. ScopesOf' = SubSeq(ScopesOf, 1, L - 1)
    BY <2>5, <2>6, <2>7
  <2> QED BY <1>2, <1>3, <1>5, <2>8 DEF Store!Close
<1> QED BY <1>4, <1>5

LEMMA NothingLost ==
  ASSUME DataOK, DataOK', ScopesOwnData, NEW d \in Device, NEW h \in HostPtr,
         Lost(d, h), h \notin DOMAIN present[d]
  PROVE  UNCHANGED ScopesOf
<1>1. PICK L \in Nat : L = Len(envs)
  BY EnvFacts
<1>2. /\ L = Len(envs') /\ L \in 1 .. L
      /\ DOMAIN envs = 1 .. L /\ DOMAIN envs' = 1 .. L /\ Top = envs[L]
  BY <1>1, EnvFacts DEF Lost, Top
<1>3. ASSUME NEW i \in 1 .. L, NEW x \in Device
      PROVE  Share(i, x)' = Share(i, x)
  <2>1. i # L => i \in 1 .. L - 1
    BY <1>2
  <2>2. h \notin Top[d]
    BY <1>2 DEF ScopesOwnData
  <2>3. envs'[i][x] = envs[i][x]
    BY <1>1, <1>2, <2>1, <2>2 DEF Lost
  <2>4. \A y \in envs[i][x] : y \in DOMAIN present[x]
    BY <1>2 DEF ScopesOwnData
  <2>5. \A y \in envs[i][x] : present'[x][y] = present[x][y]
    BY <2>4 DEF Lost
  <2> QED BY <2>3, <2>5, SharesKept
<1>4. ScopesOf = [i \in 1 .. L |-> [x \in Device |-> Share(i, x)]]
  BY <1>2 DEF ScopesOf, Share
<1>5. ScopesOf' = [i \in 1 .. L |-> [x \in Device |-> Share(i, x)']]
  BY <1>2 DEF ScopesOf, Share
<1> QED BY <1>3, <1>4, <1>5

LEMMA StepOfStore ==
  ASSUME Scoped, DataOK, DataOK', ScopesOwnData, Step
  PROVE  [Store!Next]_ScopesOf
<1>1. CASE UNCHANGED <<envs, present>>
  BY <1>1 DEF ScopesOf
<1>2. ASSUME NEW d \in Device, NEW h \in HostPtr, NEW b \in Buffer, NEW n \in Bytes,
             Gained(d, h, b, n)
      PROVE  Store!Next
  <2>1. [ptr |-> b, n |-> n] \in Store!Entry
    BY DEF Store!Entry
  <2>2. Store!Enter(d, h, [ptr |-> b, n |-> n])
    BY <1>2, GainedEnters
  <2> QED BY <2>1, <2>2 DEF Store!Next
<1>3. ASSUME NEW d \in Device, NEW h \in HostPtr, Lost(d, h), h \in Top[d]
      PROVE  Store!Next
  BY <1>3, LostLeaves DEF Store!Next
<1>4. CASE UserUnmaps
  <2>1. PICK d \in Device, h \in HostPtr : MayUnmap(d, h) /\ Lost(d, h)
    BY <1>4 DEF UserUnmaps
  <2>2. CASE h \in DOMAIN present[d]
    BY <1>3, <2>1, <2>2 DEF MayUnmap
  <2>3. CASE h \notin DOMAIN present[d]
    BY <2>1, <2>3, NothingLost
  <2> QED BY <2>2, <2>3
<1>5. CASE Deletes
  <2>1. PICK d \in Device, h \in HostPtr : h \in Top[d] /\ Lost(d, h)
    BY <1>5 DEF Deletes, MayDelete
  <2> QED BY <1>3, <2>1
<1>6. CASE Opens
  BY <1>6, OpenedOpens DEF Opens, Store!Next
<1>7. CASE Closes
  BY <1>7, ClosedCloses DEF Closes, Store!Next
<1> QED BY <1>1, <1>2, <1>4, <1>5, <1>6, <1>7
      DEF Step, Still, data, Fills, Filled, UserMaps, Allocates, Frees, Retires

\* In scoped programs the shared present tables, with the sets of pointers
\* beside them, implement nested scopes that own their data.
THEOREM EnvironmentsAreScopes == ASSUME Scoped PROVE Spec => ImplementsScopedStore
<1>1. Init => Store!Init
  <2> SUFFICES ASSUME Init PROVE Store!Init
    OBVIOUS
  <2>1. DataOK /\ Len(envs) = 1
    BY DataEnvAssumption, InitTypes, TypeParts DEF Init
  <2>2. ScopesOf = [i \in 1 .. 1 |-> [d \in Device |-> Share(i, d)]]
    BY <2>1, ScopesAre
  <2>3. [d \in Device |-> Share(1, d)] = Store!NoData
    BY DEF Init, NoEntries, Share, Store!NoData
  <2>4. ScopesOf = [i \in 1 .. 1 |-> Store!NoData]
    BY <2>2, <2>3
  <2>5. ScopesOf = <<Store!NoData>>
    BY <2>4
  <2> QED BY <2>5 DEF Store!Init
<1>2. ScopedInv /\ ScopedInv' /\ [Next]_vars => [Store!Next]_ScopesOf
  <2> SUFFICES ASSUME ScopedInv, ScopedInv', [Next]_vars PROVE [Store!Next]_ScopesOf
    OBVIOUS
  <2>1. DataOK /\ Step
    BY NextIsStep, TypeParts DEF ScopedInv, AnyInv
  <2>2. DataOK'
    BY <2>1, DataStep
  <2> QED BY <2>1, <2>2, StepOfStore DEF ScopedInv
<1> QED BY <1>1, <1>2, ScopedInvariant, PTL DEF Spec, ImplementsScopedStore, Store!Spec
------------------------------------------------------------------------------
\* Execution of regions.

Devs(s) == {s[i].dev : i \in DOMAIN s}

\* The device has what acc_region_init leaves behind.
Built(d) == devices_data[d] = "ready" /\ exec.region \in programs[d]

\* The phases of acc_region_execute: the devices passed in "init" are built,
\* all are from then on; only devices of the region have kernels, and in "stop"
\* only those that are still to be waited for.
PhaseInv ==
  status = "running" =>
    /\ exec.phase \in {"none", "init", "start"} => running = {}
    /\ exec.phase \in Phases => Devs(exec.todo) \subseteq Devs(exec.region)
    /\ exec.phase = "init" =>
         \A d \in Devs(exec.region) \ Devs(exec.todo) : Built(d)
    /\ exec.phase \in {"start", "launch"} => \A d \in Devs(exec.region) : Built(d)
    /\ exec.phase = "launch" => \A k \in running : k.dev \in Devs(exec.region)
    /\ exec.phase = "stop" => \A k \in running : k.dev \in Devs(exec.todo)

ExecInv == TypeOK /\ RegionTypeOK /\ PhaseInv /\ KernelsUseLiveBuffers

------------------------------------------------------------------------------
\* What is under way, and how it advances.

LEMMA ExecCases ==
  ASSUME RegionAssumption, RegionTypeOK
  PROVE  \/ /\ exec = NoExec /\ exec.phase = "none"
         \/ /\ exec \in [region : Layouts, phase : Phases, todo : Seq(Transfer)]
            /\ exec.todo # <<>>
            /\ exec.phase \in Phases /\ exec.phase # "none"
BY DEF RegionTypeOK, NoExec, Phases

LEMMA HeadTail ==
  ASSUME NEW s \in Seq(Transfer), s # <<>>
  PROVE  /\ Head(s) \in Transfer
         /\ Head(s).dev \in Device
         /\ Len(s) > 1 => /\ Tail(s) \in Seq(Transfer) /\ Tail(s) # <<>>
                          /\ Devs(s) = {Head(s).dev} \cup Devs(Tail(s))
         /\ ~(Len(s) > 1) => Devs(s) = {Head(s).dev}
<1>1. PICK n \in Nat \ {0} : Len(s) = n
  BY EmptySeq
<1>2. /\ DOMAIN s = 1 .. n
      /\ \A i \in 1 .. n : s[i] \in Transfer
      /\ Head(s) = s[1]
  BY <1>1
<1>3. \A t \in Transfer : t.dev \in Device
  BY DEF Transfer
<1>4. ASSUME Len(s) > 1
      PROVE  /\ Tail(s) \in Seq(Transfer) /\ Tail(s) # <<>>
             /\ Devs(s) = {Head(s).dev} \cup Devs(Tail(s))
  <2>1. /\ Tail(s) \in Seq(Transfer)
        /\ Len(Tail(s)) = n - 1
        /\ DOMAIN Tail(s) = 1 .. n - 1
        /\ \A i \in 1 .. n - 1 : Tail(s)[i] = s[i + 1]
    BY <1>1, <1>4, HeadTailProperties
  <2>2. Tail(s) # <<>>
    <3>1. n - 1 # 0
      BY <1>1, <1>4
    <3>2. Len(Tail(s)) # 0
      BY <2>1, <3>1
    <3> QED BY <2>1, <3>2, EmptySeq
  <2>3. \A i \in 2 .. n : i - 1 \in 1 .. n - 1 /\ s[i] = Tail(s)[i - 1]
    BY <2>1
  <2>4. Devs(s) \subseteq {Head(s).dev} \cup Devs(Tail(s))
    <3> SUFFICES ASSUME NEW i \in 1 .. n, i # 1 PROVE s[i].dev \in Devs(Tail(s))
      BY <1>2 DEF Devs
    <3>1. i \in 2 .. n
      OBVIOUS
    <3> QED BY <2>1, <2>3, <3>1 DEF Devs
  <2>5. {Head(s).dev} \cup Devs(Tail(s)) \subseteq Devs(s)
    BY <1>2, <2>1 DEF Devs
  <2> QED BY <2>1, <2>2, <2>4, <2>5
<1>5. ASSUME ~(Len(s) > 1) PROVE Devs(s) = {Head(s).dev}
  BY <1>1, <1>2, <1>5 DEF Devs
<1> QED BY <1>2, <1>3, <1>4, <1>5

\* The next device of the phase, the end of the call, or the next phase.
LEMMA Advances ==
  ASSUME RegionAssumption, DataEnvAssumption, RegionTypeOK, ~Outside,
         NEW next \in Phases \cup {"none"}, Advance(next)
  PROVE  /\ Target.dev \in Devs(exec.todo)
         /\ Target.dev \in Device
         /\ \/ /\ exec' \in [region : Layouts, phase : Phases, todo : Seq(Transfer)]
               /\ exec'.todo # <<>>
               /\ exec'.region = exec.region /\ exec'.phase = exec.phase
               /\ Devs(exec.todo) = {Target.dev} \cup Devs(exec'.todo)
            \/ /\ next = "none" /\ exec' = NoExec
               /\ Devs(exec.todo) = {Target.dev}
            \/ /\ next # "none"
               /\ exec' \in [region : Layouts, phase : Phases, todo : Seq(Transfer)]
               /\ exec'.todo # <<>>
               /\ exec'.region = exec.region /\ exec'.phase = next
               /\ exec'.todo = exec.region
               /\ Devs(exec.todo) = {Target.dev}
<1>1. /\ exec \in [region : Layouts, phase : Phases, todo : Seq(Transfer)]
      /\ exec.todo # <<>>
  BY ExecCases DEF Outside
<1>2. /\ Target.dev \in Device
      /\ Len(exec.todo) > 1 => /\ Tail(exec.todo) \in Seq(Transfer) /\ Tail(exec.todo) # <<>>
                               /\ Devs(exec.todo) = {Target.dev} \cup Devs(Tail(exec.todo))
      /\ ~(Len(exec.todo) > 1) => Devs(exec.todo) = {Target.dev}
  BY <1>1, HeadTail DEF Target
<1>3. exec.region \in Seq(Transfer) /\ exec.region # <<>>
  BY <1>1 DEF RegionAssumption, DataEnvAssumption
<1>4. CASE Len(exec.todo) > 1
  <2>1. exec' = [exec EXCEPT !.todo = Tail(exec.todo)]
    BY <1>4 DEF Advance
  <2> QED BY <1>1, <1>2, <1>4, <2>1
<1>5. CASE ~(Len(exec.todo) > 1) /\ next = "none"
  BY <1>2, <1>5 DEF Advance, NextPhase
<1>6. CASE ~(Len(exec.todo) > 1) /\ next # "none"
  <2>1. exec' = [exec EXCEPT !.phase = next, !.todo = exec.region]
    BY <1>6 DEF Advance, NextPhase
  <2> QED BY <1>1, <1>2, <1>3, <1>6, <2>1
<1> QED BY <1>4, <1>5, <1>6

------------------------------------------------------------------------------
\* The steps and the device data.

\* The calls of DataEnv run before or after the execution of a region.
LEMMA CallsRunBetween ==
  ASSUME DataCalls
  PROVE  Next /\ status = "running" /\ Outside /\ UNCHANGED <<running, exec, ran>>
<1>1. Next /\ Outside /\ UNCHANGED <<running, exec, ran>>
  BY DEF DataCalls
<1>2. status = "running"
  BY <1>1 DEF Next, Idle, OnCurrent, acc_set_device_num, acc_init_, acc_shutdown_,
    acc_malloc, acc_free, acc_memcpy, acc_map_data, acc_unmap_data, acc_delete,
    acc_data_call, acc_push_data_environment, acc_pop_data_environment,
    acc_regions_, NextDevice
<1> QED BY <1>1, <1>2

\* The host reads the device data, and may stop the program.
LEMMA HostReads ==
  ASSUME Host
  PROVE  /\ status = "running"
         /\ exec.phase \in Phases
         /\ UNCHANGED <<devices_data, curr, data, held, call, ran>>
         /\ status' \in {"running", "abort", "exit", "crash"}
<1>1. CASE acc_region_init
  BY <1>1 DEF acc_region_init, InPhase, OnHost, Stay, CheckedDevice, Stop, Phases
<1>2. CASE acc_region_start \/ acc_region_stop
  BY <1>2 DEF acc_region_start, acc_region_stop, InPhase, vars, data, Phases
<1>3. CASE acc_enqueue_kernel
  BY <1>3 DEF acc_enqueue_kernel, InPhase, OnHost, Stay, BadHandle, Stop, Phases
<1> QED BY <1>1, <1>2, <1>3 DEF Host

LEMMA DataTypes ==
  ASSUME DataEnvAssumption, TypeOK, [RNext]_rvars
  PROVE  TypeOK'
<1>1. CASE DataCalls
  <2>1. [Next]_vars
    BY <1>1 DEF DataCalls
  <2> QED BY <2>1, TypeParts, NextIsStep, DataStep, ControlStep DEF TypeOK, DataOK, ControlOK, EnvType
<1>2. CASE Host
  BY <1>2, HostReads DEF TypeOK, data
<1>3. CASE UNCHANGED vars
  BY <1>3 DEF TypeOK, vars
<1> QED BY <1>1, <1>2, <1>3 DEF RNext, acc_region_execute, Complete, rvars

\* A call either carries on, or stops the program with all else as it was.
LEMMA HostStops ==
  ASSUME Host, status' # "running"
  PROVE  UNCHANGED <<programs, running, exec>>
<1>1. CASE acc_region_init
  BY <1>1 DEF acc_region_init, Stay, InPhase
<1>2. CASE acc_region_start \/ acc_region_stop
  BY <1>2 DEF acc_region_start, acc_region_stop, InPhase, vars
<1>3. CASE acc_enqueue_kernel
  BY <1>3 DEF acc_enqueue_kernel, Stay, InPhase
<1> QED BY <1>1, <1>2, <1>3 DEF Host

\* What the host does when it carries on.
LEMMA HostGoesOn ==
  ASSUME TypeOK, Host, status' = "running"
  PROVE  \/ /\ exec.phase = "init" /\ Advance("start")
            /\ devices_data[Target.dev] = "ready"
            /\ programs' = [programs EXCEPT ![Target.dev] = @ \cup {exec.region}]
            /\ UNCHANGED running
         \/ /\ exec.phase = "start" /\ Advance("launch")
            /\ UNCHANGED <<programs, running>>
         \/ /\ exec.phase = "launch" /\ Advance("stop")
            /\ \E b \in Buffer :
                 /\ Usable(Target.dev, b)
                 /\ running' = running \cup {[dev |-> Target.dev, buf |-> b]}
            /\ UNCHANGED programs
         \/ /\ exec.phase = "stop" /\ Advance("none")
            /\ Finished(Target.dev)
            /\ UNCHANGED <<programs, running>>
<1>1. CASE acc_region_init
  BY <1>1 DEF acc_region_init, InPhase, CheckedDevice, Stop
<1>2. CASE acc_region_start
  BY <1>2 DEF acc_region_start, InPhase
<1>3. CASE acc_enqueue_kernel
  <2>1. PICK b \in Argument(Target) :
          /\ Accepted(Target.dev, b)
          /\ running' = running \cup {[dev |-> Target.dev, buf |-> b]}
          /\ Advance("stop")
          /\ UNCHANGED programs
    BY <1>3 DEF acc_enqueue_kernel, BadHandle, Stop
  <2>2. Usable(Target.dev, b)
    BY <2>1 DEF Accepted
  <2>3. b \in Buffer
    BY <2>2 DEF Usable, TypeOK
  <2> QED BY <1>3, <2>1, <2>2, <2>3 DEF acc_enqueue_kernel, InPhase
<1>4. CASE acc_region_stop
  BY <1>4 DEF acc_region_stop, InPhase
<1> QED BY <1>1, <1>2, <1>3, <1>4 DEF Host

------------------------------------------------------------------------------
\* The invariant.

LEMMA RegionTypes ==
  ASSUME RegionAssumption, DataEnvAssumption, TypeOK, RegionTypeOK, [RNext]_rvars
  PROVE  RegionTypeOK'
<1>1. CASE DataCalls
  BY <1>1 DEF DataCalls, ProgramsFollow, RegionTypeOK
<1>2. ASSUME NEW r \in Layouts, acc_region_execute(r) PROVE RegionTypeOK'
  BY <1>2 DEF acc_region_execute, RegionTypeOK, RegionAssumption, DataEnvAssumption, Phases
<1>3. CASE Host /\ status' # "running"
  BY <1>3, HostStops, HostReads DEF RegionTypeOK
<1>4. CASE Host /\ status' = "running"
  <2>1. ~Outside
    BY <1>4, HostReads DEF Outside, Phases
  <2>2. ASSUME NEW next \in Phases \cup {"none"}, Advance(next)
        PROVE  /\ Target.dev \in Device
               /\ \/ exec' = NoExec
                  \/ /\ exec' \in [region : Layouts, phase : Phases, todo : Seq(Transfer)]
                     /\ exec'.todo # <<>>
    BY <2>1, <2>2, Advances
  <2>3. /\ Target.dev \in Device
        /\ \/ exec' = NoExec
           \/ /\ exec' \in [region : Layouts, phase : Phases, todo : Seq(Transfer)]
              /\ exec'.todo # <<>>
    BY <1>4, <2>2, HostGoesOn DEF Phases
  <2>4. exec.region \in Layouts
    BY <2>1, ExecCases DEF Outside
  <2>5. programs' \in [Device -> SUBSET Layouts]
    BY <1>4, <2>3, <2>4, HostGoesOn DEF RegionTypeOK
  <2>6. running' \subseteq [dev : Device, buf : Buffer]
    BY <1>4, <2>3, HostGoesOn DEF RegionTypeOK
  <2>7. ran' = ran
    BY <1>4, HostReads
  <2> QED BY <2>3, <2>5, <2>6, <2>7 DEF RegionTypeOK
<1>5. ASSUME NEW k \in running, Complete(k) PROVE RegionTypeOK'
  BY <1>5 DEF Complete, RegionTypeOK
<1>6. CASE UNCHANGED rvars
  BY <1>6 DEF rvars, RegionTypeOK
<1> QED BY <1>1, <1>2, <1>3, <1>4, <1>5, <1>6 DEF RNext

LEMMA Phased ==
  ASSUME RegionAssumption, DataEnvAssumption, ExecInv, [RNext]_rvars
  PROVE  PhaseInv'
<1> USE DEF ExecInv
<1> SUFFICES ASSUME status' = "running" PROVE PhaseInv'
  BY DEF PhaseInv
<1>1. CASE DataCalls
  <2>1. exec' = exec /\ exec.phase = "none" /\ running' = {}
    BY <1>1, CallsRunBetween DEF Outside, PhaseInv
  <2> QED BY <2>1 DEF PhaseInv, Phases
<1>2. ASSUME NEW r \in Layouts, acc_region_execute(r) PROVE PhaseInv'
  <2>1. /\ exec'.region = r /\ exec'.phase = "init" /\ exec'.todo = r
        /\ running' = {}
    BY <1>2 DEF acc_region_execute, Outside, PhaseInv, Idle
  <2> QED BY <2>1 DEF PhaseInv, Phases
<1>3. CASE Host
  <2>1. /\ status = "running" /\ ~Outside /\ exec.phase \in Phases
        /\ devices_data' = devices_data
    BY <1>3, HostReads DEF Outside, Phases
  <2>2. /\ Devs(exec.todo) \subseteq Devs(exec.region)
        /\ exec \in [region : Layouts, phase : Phases, todo : Seq(Transfer)]
    BY <2>1, ExecCases DEF PhaseInv, Outside
  <2>3. CASE exec.phase = "init"
    <3>1. /\ Advance("start")
          /\ devices_data[Target.dev] = "ready"
          /\ programs' = [programs EXCEPT ![Target.dev] = @ \cup {exec.region}]
          /\ running' = {}
      BY <1>3, <2>1, <2>3, HostGoesOn DEF PhaseInv
    <3>2. /\ Target.dev \in Device
          /\ exec'.region = exec.region
          /\ \/ /\ exec'.phase = "init"
                /\ Devs(exec.todo) = {Target.dev} \cup Devs(exec'.todo)
             \/ /\ exec'.phase = "start" /\ exec'.todo = exec.region
                /\ Devs(exec.todo) = {Target.dev}
      BY <2>1, <2>3, <3>1, Advances DEF Phases
    <3>3. \A d \in Devs(exec.region) : d \notin Devs(exec.todo) \/ d = Target.dev => Built(d)'
      BY <2>1, <2>3, <3>1, <3>2 DEF PhaseInv, Built, RegionTypeOK
    <3>4. CASE exec'.phase = "init"
      BY <2>2, <3>1, <3>2, <3>3, <3>4 DEF PhaseInv
    <3>5. CASE exec'.phase = "start"
      BY <2>2, <3>1, <3>2, <3>3, <3>5 DEF PhaseInv
    <3> QED BY <3>2, <3>4, <3>5
  <2>4. CASE exec.phase = "start"
    <3>1. Advance("launch") /\ programs' = programs /\ running' = {}
      BY <1>3, <2>1, <2>4, HostGoesOn DEF PhaseInv
    <3>2. /\ exec'.region = exec.region
          /\ \/ /\ exec'.phase = "start"
                /\ Devs(exec.todo) = {Target.dev} \cup Devs(exec'.todo)
             \/ /\ exec'.phase = "launch" /\ exec'.todo = exec.region
      BY <2>1, <2>4, <3>1, Advances DEF Phases
    <3>3. \A d \in Devs(exec.region) : Built(d)'
      BY <2>1, <2>4, <3>1, <3>2 DEF PhaseInv, Built
    <3> QED BY <2>2, <3>1, <3>2, <3>3 DEF PhaseInv
  <2>5. CASE exec.phase = "launch"
    <3>1. /\ Advance("stop")
          /\ \E b : running' = running \cup {[dev |-> Target.dev, buf |-> b]}
          /\ programs' = programs
      BY <1>3, <2>1, <2>5, HostGoesOn
    <3>2. /\ exec'.region = exec.region
          /\ Target.dev \in Devs(exec.todo)
          /\ \/ /\ exec'.phase = "launch"
                /\ Devs(exec.todo) = {Target.dev} \cup Devs(exec'.todo)
             \/ /\ exec'.phase = "stop" /\ exec'.todo = exec.region
      BY <2>1, <2>5, <3>1, Advances DEF Phases
    <3>3. \A d \in Devs(exec.region) : Built(d)'
      BY <2>1, <2>5, <3>1, <3>2 DEF PhaseInv, Built
    <3>4. \A k \in running' : k.dev \in Devs(exec.region)
      BY <2>1, <2>2, <2>5, <3>1, <3>2 DEF PhaseInv
    <3> QED BY <2>2, <3>2, <3>3, <3>4 DEF PhaseInv
  <2>6. CASE exec.phase = "stop"
    <3>1. Advance("none") /\ Finished(Target.dev) /\ running' = running
      BY <1>3, <2>1, <2>6, HostGoesOn
    <3>2. \/ /\ exec'.region = exec.region /\ exec'.phase = "stop"
             /\ Devs(exec.todo) = {Target.dev} \cup Devs(exec'.todo)
          \/ /\ exec' = NoExec
             /\ Devs(exec.todo) = {Target.dev}
      BY <2>1, <2>6, <3>1, Advances DEF Phases
    <3>3. \A k \in running' : k.dev \in Devs(exec.todo) /\ k.dev # Target.dev
      BY <2>1, <2>6, <3>1 DEF PhaseInv, Finished
    <3>4. CASE exec'.phase = "stop"
      BY <2>2, <3>2, <3>3, <3>4 DEF PhaseInv, NoExec
    <3>5. CASE exec' = NoExec /\ Devs(exec.todo) = {Target.dev}
      <4>1. running' = {}
        BY <3>3, <3>5
      <4> QED BY <3>5, <4>1 DEF PhaseInv, NoExec, Phases
    <3> QED BY <3>2, <3>4, <3>5
  <2> QED BY <2>1, <2>3, <2>4, <2>5, <2>6 DEF Phases
<1>4. ASSUME NEW k \in running, Complete(k) PROVE PhaseInv'
  BY <1>4 DEF Complete, vars, PhaseInv, Built
<1>5. CASE UNCHANGED rvars
  BY <1>5 DEF rvars, vars, PhaseInv, Built
<1> QED BY <1>1, <1>2, <1>3, <1>4, <1>5 DEF RNext

LEMMA LiveBuffers ==
  ASSUME ExecInv, [RNext]_rvars
  PROVE  KernelsUseLiveBuffers'
<1> USE DEF ExecInv
<1> SUFFICES ASSUME status' = "running", NEW k \in running'
             PROVE  Usable(k.dev, k.buf)'
  BY DEF KernelsUseLiveBuffers
<1>1. CASE DataCalls
  BY <1>1, CallsRunBetween DEF Outside, PhaseInv
<1>2. ASSUME NEW r \in Layouts, acc_region_execute(r) PROVE Usable(k.dev, k.buf)'
  BY <1>2 DEF acc_region_execute, Idle, vars, KernelsUseLiveBuffers, Usable
<1>3. CASE Host
  <2>1. status = "running" /\ buffers' = buffers
    BY <1>3, HostReads DEF data
  <2>2. k \in running \/ Usable(k.dev, k.buf)
    BY <1>3, HostGoesOn
  <2> QED BY <2>1, <2>2 DEF KernelsUseLiveBuffers, Usable
<1>4. ASSUME NEW m \in running, Complete(m) PROVE Usable(k.dev, k.buf)'
  BY <1>4 DEF Complete, vars, KernelsUseLiveBuffers, Usable
<1>5. CASE UNCHANGED rvars
  BY <1>5 DEF rvars, vars, KernelsUseLiveBuffers, Usable
<1> QED BY <1>1, <1>2, <1>3, <1>4, <1>5 DEF RNext

\* The types, the contents of the phases and the life of the buffers are
\* inductive together.
THEOREM ExecInvariant == RSpec => []ExecInv
<1>1. RInit => ExecInv
  <2> SUFFICES ASSUME RInit PROVE ExecInv
    OBVIOUS
  <2>1. TypeOK
    BY DataEnvAssumption, InitTypes DEF RInit
  <2> QED BY <2>1 DEF RInit, ExecInv, RegionTypeOK, PhaseInv, KernelsUseLiveBuffers, NoExec, Phases
<1>2. ExecInv /\ [RNext]_rvars => ExecInv'
  BY RegionAssumption, DataEnvAssumption, DataTypes, RegionTypes, Phased, LiveBuffers DEF ExecInv
<1> QED BY <1>1, <1>2, PTL DEF RSpec

\* The state of the execution is well formed: the loops of acc_region_execute
\* over the devices of a region stay within it.
THEOREM RegionTypeCorrect == RSpec => []RegionTypeOK
<1>1. ExecInv => RegionTypeOK
  BY DEF ExecInv
<1> QED BY <1>1, ExecInvariant, PTL

\* No kernel is on a queue when acc_region_execute has returned, for any number
\* of devices and however long the kernels take.
THEOREM NoKernelOutlivesCall == RSpec => []QuietBetweenCalls
<1>1. ExecInv => QuietBetweenCalls
  BY DEF ExecInv, PhaseInv, QuietBetweenCalls, Outside
<1> QED BY <1>1, ExecInvariant, PTL

\* The buffer a kernel works on stays alive, in the context of its device, until
\* the kernel has ended.
THEOREM BuffersOutliveKernels == RSpec => []KernelsUseLiveBuffers
<1>1. ExecInv => KernelsUseLiveBuffers
  BY DEF ExecInv
<1> QED BY <1>1, ExecInvariant, PTL

------------------------------------------------------------------------------
\* Regions that name each device once: the launches meet idle queues.

Distinct(s) == \A i, j \in DOMAIN s : s[i].dev = s[j].dev => i = j

LaunchInv ==
  (exec.phase = "launch" /\ status = "running") =>
    /\ Distinct(exec.todo)
    /\ \A k \in running : k.dev \notin Devs(exec.todo)

LEMMA TailDistinct ==
  ASSUME NEW s \in Seq(Transfer), Len(s) > 1, Distinct(s)
  PROVE  Distinct(Tail(s)) /\ Head(s).dev \notin Devs(Tail(s))
<1>1. PICK n \in Nat : Len(s) = n /\ n > 1
  OBVIOUS
<1>2. s # <<>>
  BY <1>1
<1>3. /\ DOMAIN s = 1 .. n /\ Head(s) = s[1]
      /\ DOMAIN Tail(s) = 1 .. n - 1
      /\ \A i \in 1 .. n - 1 : Tail(s)[i] = s[i + 1]
  BY <1>1, <1>2, HeadTailProperties
<1>4. ASSUME NEW i \in 1 .. n - 1, NEW j \in 1 .. n - 1, Tail(s)[i].dev = Tail(s)[j].dev
      PROVE  i = j
  <2>1. i + 1 \in 1 .. n /\ j + 1 \in 1 .. n /\ s[i + 1].dev = s[j + 1].dev
    BY <1>3, <1>4
  <2>2. i + 1 = j + 1
    BY <1>3, <2>1 DEF Distinct
  <2> QED BY <2>2
<1>5. ASSUME NEW i \in 1 .. n - 1 PROVE Tail(s)[i].dev # Head(s).dev
  <2>1. i + 1 \in 1 .. n /\ 1 \in 1 .. n /\ i + 1 # 1
    BY <1>1
  <2> QED BY <1>3, <2>1 DEF Distinct
<1> QED BY <1>3, <1>4, <1>5 DEF Distinct, Devs

LEMMA LaunchStep ==
  ASSUME RegionAssumption, DataEnvAssumption, \A r \in Layouts : Distinct(r),
         ExecInv, LaunchInv, [RNext]_rvars
  PROVE  LaunchInv'
<1> SUFFICES ASSUME status' = "running", exec'.phase = "launch" PROVE LaunchInv'
  BY DEF LaunchInv
<1>1. CASE DataCalls
  BY <1>1, CallsRunBetween DEF Outside
<1>2. ASSUME NEW r \in Layouts, acc_region_execute(r) PROVE LaunchInv'
  BY <1>2 DEF acc_region_execute
<1>3. CASE Host
  <2>1. /\ status = "running" /\ ~Outside /\ exec.phase \in Phases /\ RegionTypeOK
    BY <1>3, HostReads DEF Outside, Phases, ExecInv
  <2>2. /\ exec \in [region : Layouts, phase : Phases, todo : Seq(Transfer)]
        /\ exec.todo # <<>>
    BY <2>1, ExecCases DEF Outside
  <2>3. CASE exec.phase = "start"
    <3>1. Advance("launch") /\ running' = {}
      BY <1>3, <2>1, <2>3, HostGoesOn DEF ExecInv, PhaseInv
    <3>2. exec'.todo = exec.region
      BY <2>1, <2>3, <3>1, Advances DEF Phases
    <3> QED BY <2>2, <3>1, <3>2 DEF LaunchInv
  <2>4. CASE exec.phase = "launch"
    <3>1. /\ Advance("stop")
          /\ \E b : running' = running \cup {[dev |-> Target.dev, buf |-> b]}
      BY <1>3, <2>1, <2>4, HostGoesOn DEF ExecInv
    <3>2. /\ Len(exec.todo) > 1 /\ exec'.todo = Tail(exec.todo)
      BY <2>2, <2>4, <3>1 DEF Advance, NextPhase
    <3>3. /\ Distinct(exec.todo)
          /\ \A k \in running : k.dev \notin Devs(exec.todo)
      BY <2>1, <2>4 DEF LaunchInv
    <3>4. /\ Distinct(Tail(exec.todo))
          /\ Target.dev \notin Devs(Tail(exec.todo))
      BY <2>2, <3>2, <3>3, TailDistinct DEF Target
    <3>5. Devs(Tail(exec.todo)) \subseteq Devs(exec.todo)
      BY <2>2, <3>2, HeadTail
    <3> QED BY <3>1, <3>2, <3>3, <3>4, <3>5 DEF LaunchInv
  <2>5. CASE exec.phase \in {"init", "stop"}
    <3>1. Advance("start") \/ Advance("none")
      BY <1>3, <2>5, HostGoesOn DEF ExecInv
    <3>2. exec'.phase # "launch"
      BY <2>1, <2>5, <3>1, Advances DEF Phases, NoExec
    <3> QED BY <3>2
  <2> QED BY <2>1, <2>3, <2>4, <2>5 DEF Phases
<1>4. ASSUME NEW k \in running, Complete(k) PROVE LaunchInv'
  BY <1>4 DEF Complete, vars, LaunchInv
<1>5. CASE UNCHANGED rvars
  BY <1>5 DEF rvars, vars, LaunchInv
<1> QED BY <1>1, <1>2, <1>3, <1>4, <1>5 DEF RNext

\* Each launch finds the program of the region on every one of its devices, and
\* the queue of the device it launches on empty, if no region names a device
\* twice.
THEOREM LaunchesFindReady ==
  ASSUME \A r \in Layouts : Distinct(r)
  PROVE  RSpec => []ReadyToLaunch
<1>1. RInit => LaunchInv
  BY DEF RInit, NoExec, LaunchInv
<1>2. ExecInv /\ LaunchInv /\ [RNext]_rvars => LaunchInv'
  BY RegionAssumption, DataEnvAssumption, LaunchStep
<1>3. ExecInv /\ LaunchInv => ReadyToLaunch
  <2> SUFFICES ASSUME ExecInv, LaunchInv, exec.phase = "launch", status = "running"
               PROVE  /\ \A i \in DOMAIN exec.region : Built(exec.region[i].dev)
                      /\ \A i \in DOMAIN exec.todo : Finished(exec.todo[i].dev)
    BY DEF ReadyToLaunch, Built
  <2>1. \A i \in DOMAIN exec.region : Built(exec.region[i].dev)
    BY DEF ExecInv, PhaseInv, Devs
  <2>2. \A i \in DOMAIN exec.todo : Finished(exec.todo[i].dev)
    BY DEF LaunchInv, Devs, Finished
  <2> QED BY <2>1, <2>2
<1> QED BY <1>1, <1>2, <1>3, ExecInvariant, PTL DEF RSpec
------------------------------------------------------------------------------
\* What a region has run on when its execution returns.

\* The devices on which the kernel has ended or is under way.
Reached == ran \cup {k.dev : k \in running}

\* Before the launches nothing has run; during them the devices passed are
\* reached, and no others than the region's; after them all are.  A kernel that
\* ends moves its device from one half of Reached to the other.
ReachInv ==
  status = "running" =>
    /\ exec.phase \in {"init", "start"} => ran = {}
    /\ exec.phase = "launch" =>
         /\ Reached \subseteq Devs(exec.region)
         /\ Devs(exec.region) \ Devs(exec.todo) \subseteq Reached
    /\ exec.phase = "stop" => Reached = Devs(exec.region)

LEMMA CompletionKeeps ==
  ASSUME NEW k \in running, Complete(k)
  PROVE  Reached' = Reached /\ UNCHANGED <<exec, status>>
BY DEF Complete, Reached, vars

LEMMA DeviceAdded ==
  ASSUME NEW S, NEW T, NEW d, NEW k, k.dev = d, T = S \cup {k}
  PROVE  {j.dev : j \in T} = {j.dev : j \in S} \cup {d}
<1>1. ASSUME NEW x \in {j.dev : j \in T} PROVE x \in {j.dev : j \in S} \cup {d}
  BY Zenon
<1>2. {j.dev : j \in S} \subseteq {j.dev : j \in T}
  OBVIOUS
<1>3. d \in {j.dev : j \in T}
  <2>1. k \in T
    OBVIOUS
  <2> QED BY <2>1
<1> QED BY <1>1, <1>2, <1>3

LEMMA LaunchReaches ==
  ASSUME NEW d, \E b : running' = running \cup {[dev |-> d, buf |-> b]}, ran' = ran
  PROVE  Reached' = Reached \cup {d}
<1>1. PICK b : running' = running \cup {[dev |-> d, buf |-> b]}
  OBVIOUS
<1>2. [dev |-> d, buf |-> b].dev = d
  OBVIOUS
<1>3. {k.dev : k \in running'} = {k.dev : k \in running} \cup {d}
  <2> DEFINE k == [dev |-> d, buf |-> b]
  <2>1. k.dev = d /\ running' = running \cup {k}
    BY <1>1, <1>2
  <2> HIDE DEF k
  <2> QED BY <2>1, DeviceAdded
<1>4. Reached' = ran' \cup {k.dev : k \in running'}
  BY DEF Reached
<1> QED BY <1>3, <1>4 DEF Reached

LEMMA ReachStep ==
  ASSUME RegionAssumption, DataEnvAssumption, ExecInv, ReachInv, [RNext]_rvars
  PROVE  ReachInv'
<1> SUFFICES ASSUME status' = "running" PROVE ReachInv'
  BY DEF ReachInv
<1>1. CASE DataCalls
  BY <1>1, CallsRunBetween DEF Outside, ReachInv
<1>2. ASSUME NEW r \in Layouts, acc_region_execute(r) PROVE ReachInv'
  BY <1>2 DEF acc_region_execute, ReachInv
<1>3. CASE Host
  <2>1. /\ status = "running" /\ ~Outside /\ exec.phase \in Phases /\ RegionTypeOK
        /\ ran' = ran
    BY <1>3, HostReads DEF Outside, Phases, ExecInv
  <2>2. CASE exec.phase = "init"
    <3>1. Advance("start") /\ ran = {}
      BY <1>3, <2>1, <2>2, HostGoesOn DEF ExecInv, ReachInv
    <3>2. exec'.phase \in {"init", "start"}
      BY <2>1, <2>2, <3>1, Advances DEF Phases
    <3> QED BY <2>1, <3>1, <3>2 DEF ReachInv
  <2>3. CASE exec.phase = "start"
    <3>1. Advance("launch") /\ running' = {} /\ ran = {}
      BY <1>3, <2>1, <2>3, HostGoesOn DEF ExecInv, PhaseInv, ReachInv
    <3>2. \/ exec'.phase = "start"
          \/ exec'.phase = "launch" /\ exec'.todo = exec'.region
      BY <2>1, <2>3, <3>1, Advances DEF Phases
    <3>3. Reached' = {}
      BY <2>1, <3>1 DEF Reached
    <3> QED BY <2>1, <3>1, <3>2, <3>3 DEF ReachInv
  <2>4. CASE exec.phase = "launch"
    <3>1. /\ Advance("stop")
          /\ \E b : running' = running \cup {[dev |-> Target.dev, buf |-> b]}
      BY <1>3, <2>1, <2>4, HostGoesOn DEF ExecInv
    <3>2. Reached' = Reached \cup {Target.dev}
      BY <2>1, <3>1, LaunchReaches
    <3>3. /\ Target.dev \in Devs(exec.todo)
          /\ exec'.region = exec.region
          /\ \/ /\ exec'.phase = "launch"
                /\ Devs(exec.todo) = {Target.dev} \cup Devs(exec'.todo)
             \/ /\ exec'.phase = "stop"
                /\ Devs(exec.todo) = {Target.dev}
      BY <2>1, <2>4, <3>1, Advances DEF Phases
    <3>4. /\ Reached \subseteq Devs(exec.region)
          /\ Devs(exec.region) \ Devs(exec.todo) \subseteq Reached
          /\ Devs(exec.todo) \subseteq Devs(exec.region)
      BY <2>1, <2>4 DEF ExecInv, PhaseInv, ReachInv
    <3>5. Devs(exec.region)' = Devs(exec.region)
      BY <3>3 DEF Devs
    <3>6. /\ Reached' \subseteq Devs(exec.region)
          /\ Target.dev \in Reached'
          /\ Reached \subseteq Reached'
      BY <3>2, <3>3, <3>4
    <3>7. CASE exec'.phase = "launch"
      BY <3>3, <3>4, <3>5, <3>6, <3>7 DEF ReachInv
    <3>8. CASE exec'.phase = "stop"
      <4>1. Devs(exec.region) \ {Target.dev} \subseteq Reached
        BY <3>3, <3>4, <3>8
      <4>2. Reached' = Devs(exec.region)'
        BY <3>5, <3>6, <4>1
      <4> QED BY <3>8, <4>2 DEF ReachInv
    <3> QED BY <3>3, <3>7, <3>8
  <2>5. CASE exec.phase = "stop"
    <3>1. Advance("none") /\ running' = running
      BY <1>3, <2>1, <2>5, HostGoesOn DEF ExecInv
    <3>2. \/ exec'.region = exec.region /\ exec'.phase = "stop"
          \/ exec' = NoExec
      BY <2>1, <2>5, <3>1, Advances DEF Phases
    <3>3. Reached' = Reached /\ Reached = Devs(exec.region)
      BY <2>1, <2>5, <3>1 DEF Reached, ReachInv
    <3> QED BY <3>2, <3>3 DEF ReachInv, NoExec, Devs
  <2> QED BY <2>1, <2>2, <2>3, <2>4, <2>5 DEF Phases
<1>4. ASSUME NEW k \in running, Complete(k) PROVE ReachInv'
  <2>1. Reached' = Reached /\ exec' = exec /\ status = "running"
    BY <1>4, CompletionKeeps
  <2>2. exec.phase \notin {"init", "start"}
    BY <2>1 DEF ExecInv, PhaseInv
  <2> QED BY <2>1, <2>2 DEF ReachInv, Devs
<1>5. CASE UNCHANGED rvars
  <2>1. UNCHANGED <<exec, ran, running, status>>
    BY <1>5 DEF rvars, vars
  <2>2. Reached' = Reached
    BY <2>1 DEF Reached
  <2> QED BY <2>1, <2>2 DEF ReachInv, Devs
<1> QED BY <1>1, <1>2, <1>3, <1>4, <1>5 DEF RNext

\* The execution returns in the last wait of acc_region_stop.
LEMMA ReturnsWhenRun ==
  ASSUME RegionAssumption, DataEnvAssumption, ExecInv, ReachInv, Host, status' = "running",
         exec.phase = "stop", exec' = NoExec
  PROVE  ran = DevicesOf(exec.region)
<1>1. ~Outside /\ exec.phase \in Phases /\ RegionTypeOK /\ status = "running"
  BY HostReads DEF Outside, Phases, ExecInv
<1>2. Advance("none") /\ Finished(Target.dev)
  BY HostGoesOn DEF ExecInv
<1>3. Devs(exec.todo) = {Target.dev}
  BY <1>1, <1>2, Advances DEF Phases, NoExec
<1>4. running = {}
  BY <1>1, <1>2, <1>3 DEF ExecInv, PhaseInv, Finished
<1>5. Reached = Devs(exec.region)
  BY <1>1 DEF ReachInv
<1> QED BY <1>4, <1>5 DEF Reached, Devs, DevicesOf

\* The steps of the host keep the region or end it.
LEMMA HostKeepsRegion ==
  ASSUME RegionAssumption, DataEnvAssumption, ExecInv, Host, exec' # NoExec
  PROVE  exec'.region = exec.region
<1>1. ~Outside /\ exec.phase \in Phases /\ RegionTypeOK
  BY HostReads DEF Outside, Phases, ExecInv
<1>2. CASE status' # "running"
  BY <1>2, HostStops
<1>3. CASE status' = "running"
  <2>1. \E next \in Phases \cup {"none"} : Advance(next)
    BY <1>3, HostGoesOn DEF ExecInv, Phases
  <2> QED BY <1>1, <2>1, Advances
<1> QED BY <1>2, <1>3

LEMMA HostEnds ==
  ASSUME RegionAssumption, DataEnvAssumption, ExecInv, Host, exec' = NoExec
  PROVE  exec.phase = "stop" /\ status' = "running"
<1>1. ~Outside /\ exec.phase \in Phases /\ RegionTypeOK
  BY HostReads DEF Outside, Phases, ExecInv
<1>2. status' = "running"
  <2> SUFFICES ASSUME status' # "running" PROVE FALSE
    OBVIOUS
  <2>1. exec = NoExec
    BY HostStops
  <2> QED BY <1>1, <2>1 DEF Outside, NoExec
<1>3. PICK next \in Phases \cup {"none"} : Advance(next) /\ (next = "none" => exec.phase = "stop")
  BY <1>2, HostGoesOn DEF ExecInv, Phases
<1>4. exec'.phase = "none"
  BY DEF NoExec
<1>5. next = "none"
  BY <1>1, <1>3, <1>4, Advances DEF Phases
<1> QED BY <1>2, <1>3, <1>5

\* What a step is for the abstract specification.
LEMMA OffloadStep ==
  ASSUME RegionAssumption, DataEnvAssumption, ExecInv, ReachInv, [RNext]_rvars
  PROVE  [Offloaded!ONext]_<<exec.region, ran, <<devices_data, curr, data, held, call>>>>
<1> DEFINE memory == <<devices_data, curr, data, held, call>>
           On == [r \in Layouts |-> DevicesOf(r)]
<1>1. \/ exec = NoExec /\ exec.region = <<>>
      \/ ~Outside /\ exec.region \in Layouts /\ exec.region # <<>>
  BY RegionAssumption, ExecCases DEF ExecInv, NoExec, Outside
<1>2. exec.region # <<>> => On[exec.region] = DevicesOf(exec.region)
  BY <1>1
<1>3. CASE DataCalls
  <2>1. Offloaded!Change
    BY <1>1, <1>3, CallsRunBetween DEF Offloaded!Change, NoExec
  <2> QED BY <2>1 DEF Offloaded!ONext
<1>4. ASSUME NEW r \in Layouts, acc_region_execute(r) PROVE Offloaded!Begin(r)
  BY <1>1, <1>4 DEF acc_region_execute, Offloaded!Begin, Outside, vars, data
<1>5. CASE Host
  <2>1. UNCHANGED <<devices_data, curr, data, held, call, ran>> /\ ~Outside
    BY <1>5, HostReads DEF Outside, Phases
  <2>2. CASE exec' # NoExec
    BY <1>5, <2>1, <2>2, HostKeepsRegion
  <2>3. CASE exec' = NoExec
    <3>1. exec.phase = "stop" /\ status' = "running"
      BY <1>5, <2>3, HostEnds
    <3>2. ran = DevicesOf(exec.region)
      BY <1>5, <2>3, <3>1, ReturnsWhenRun
    <3>3. exec.region # <<>> /\ exec'.region = <<>>
      BY <1>1, <2>1, <2>3 DEF NoExec, Outside
    <3>4. Offloaded!End
      BY <1>2, <2>1, <3>2, <3>3 DEF Offloaded!End
    <3> QED BY <3>4 DEF Offloaded!ONext
  <2> QED BY <2>2, <2>3
<1>6. ASSUME NEW k \in running, Complete(k) PROVE Offloaded!Run
  <2>1. /\ status = "running" /\ exec' = exec /\ ran' = ran \cup {k.dev}
        /\ UNCHANGED <<devices_data, curr, data, held, call>>
    BY <1>6 DEF Complete, vars, data
  <2>2. exec.phase \in {"launch", "stop"} /\ ~Outside
    BY <1>1, <2>1 DEF ExecInv, PhaseInv, NoExec, Outside, RegionTypeOK, Phases
  <2>3. k.dev \in DevicesOf(exec.region)
    BY <2>1, <2>2 DEF ReachInv, Reached, Devs, DevicesOf
  <2>4. exec.region # <<>>
    BY <1>1, <2>2 DEF NoExec, Outside
  <2> QED BY <1>2, <2>1, <2>3, <2>4 DEF Offloaded!Run
<1>7. CASE UNCHANGED rvars
  BY <1>7 DEF rvars, vars, data
<1>8. CASE \E r \in Layouts : acc_region_execute(r)
  BY <1>4, <1>8 DEF Offloaded!ONext
<1>9. CASE \E k \in running : Complete(k)
  BY <1>6, <1>9 DEF Offloaded!ONext
<1> QED BY <1>3, <1>5, <1>7, <1>8, <1>9 DEF RNext

\* The loops of acc_region_execute over the devices, with kernels that end at any
\* time, implement an execution that begins, runs on every device of the region
\* and on no other, and ends, with nothing else under way: for any number of
\* devices, and regions that name a device more than once.
THEOREM RegionsAreOffloaded == RSpec => ImplementsOffload
<1>1. RInit => ReachInv
  BY DEF RInit, NoExec, ReachInv
<1>2. ExecInv /\ ReachInv /\ [RNext]_rvars => ReachInv'
  BY RegionAssumption, DataEnvAssumption, ReachStep
<1>3. RInit => Offloaded!OInit
  BY DEF RInit, NoExec, Offloaded!OInit
<1>4. ExecInv /\ ReachInv /\ [RNext]_rvars => [Offloaded!ONext]_Offloaded!ovars
  BY RegionAssumption, DataEnvAssumption, OffloadStep DEF Offloaded!ovars
<1> QED BY <1>1, <1>2, <1>3, <1>4, ExecInvariant, PTL DEF RSpec, ImplementsOffload, Offloaded!OSpec
==============================================================================
