----------------------------- MODULE TunerProofs -----------------------------
(***************************************************************************)
(* Proofs about module Tuner, for any number of processes and runs, any    *)
(* generation data of one device and anything the compiler writes.         *)
(*                                                                         *)
(* What the file says of a run is true only because of where the process   *)
(* that executes it has come to: Reached says what holds at each step of   *)
(* an execution, Calling that what is left of a call is one of the shapes  *)
(* that the calls make, and that the files are open for it.                *)
(***************************************************************************)
EXTENDS Tuner, ProfilingProofs, FiniteSetTheorems

Profiled(r) == \E i \in DOMAIN Stored : Stored[i].run = r /\ Stored[i].measured = TRUE

IsCompiled(db) == \E k \in 1 .. compiled : db = Compilation(k)

\* The file of versions is loaded: the copy is some compilation, and, unless the
\* compiler wrote since, what is in the file.
Loaded(p) ==
  /\ Versions \in DOMAIN disk /\ Versions \in DOMAIN conns[p]
  /\ conns[p][Versions].memory = TRUE
  /\ IsCompiled(conns[p][Versions].copy)
  /\ ~crossed => conns[p][Versions].copy = disk[Versions]

\* The shapes of what is left of a call.
Opens(p) ==
  \/ todo[p] = acc_init_once
  \/ todo[p] = <<Plain("save"), Plain("open")>> /\ Loaded(p)
  \/ todo[p] = <<Plain("open")>>

Adds(t) ==
  IsSeq(t) /\ \A j \in DOMAIN t :
    t[j].op = "run" /\ "executed" \in DOMAIN t[j].row /\ t[j].row.executed = 0

Counts(t) ==
  IsSeq(t) /\ \A j \in DOMAIN t :
    /\ Len(t) = 1
    /\ t[j].op = "count" \/ (t[j].op = "read" /\ t[j].row.count \in Nat)

Closes(t) ==
  t \in {<<>>, <<Plain("release")>>, <<Plain("close")>>, <<Plain("release"), Plain("close")>>}

\* From place i on there is the execution of run r, from its step o on.
Rest(t, i, o, r) ==
  \A k \in o .. 6 : i + k - o \in DOMAIN t /\ t[i + k - o] = ExecuteRun(r)[k]

Blocks(t) ==
  /\ IsSeq(t)
  /\ \A i \in DOMAIN t :
       /\ t[i].op \in {"transfer", "begin", "start", "launch", "stop", "release", "done"}
       /\ t[i].op = "begin" => Rest(t, i, 1, t[i].row.id)
       /\ t[i].op \in {"transfer", "done"} /\ i + 1 \in DOMAIN t =>
            t[i + 1].op \in {"transfer", "begin"}

\* What an execution of run r has achieved before its step o.
Reached(p, o, r) ==
  /\ o \in {2, 3} => run_id[p] = r
  /\ o = 4 => \E e \in events[p] : e.run = r /\ e.out = FALSE
  /\ o = 5 => \E e \in events[p] : e.run = r /\ e.done = TRUE /\ (e.out = TRUE => Profiled(r))
  /\ o = 6 => Profiled(r)

Targets(p) == {todo[p][i].row.id : i \in {j \in DOMAIN todo[p] : todo[p][j].op = "done"}}

Begun(p, o) == \E r \in Targets(p) : Rest(todo[p], 1, o, r) /\ Reached(p, o, r)
Within(p) == \E o \in 2 .. 6 : Begun(p, o)

Executes(p) ==
  /\ status[p] = "up"
  /\ Blocks(todo[p])
  /\ 1 \in DOMAIN todo[p] => todo[p][1].op \in {"transfer", "begin"} \/ Within(p)

Calling(p) ==
  /\ \/ Opens(p) \/ Ordered(todo[p]) \/ Adds(todo[p]) \/ Closes(todo[p]) \/ Executes(p)
     \/ Counts(todo[p]) /\ status[p] = "up"
  /\ status[p] = "up" \/ ~(Opens(p) \/ todo[p] = <<>>) => Connected(p)

IsEvent(e) ==
  /\ e = [id |-> e.id, run |-> e.run, device |-> e.device, on |-> e.on,
          done |-> e.done, out |-> e.out]
  /\ e.done \in BOOLEAN /\ e.out \in BOOLEAN

TFile ==
  /\ compiled \in Nat
  /\ compiled > 0 <=> Versions \in DOMAIN disk
  /\ VersionsKept
  /\ IsSeq(Stored) /\ IsSeq(Runs)
  /\ \A r \in DOMAIN Runs : "executed" \in DOMAIN Runs[r]

TInv ==
  /\ Functions_
  /\ TFile
  /\ \A p \in Process : Calling(p) /\ \A e \in events[p] : IsEvent(e)
  /\ \A r \in DOMAIN Runs : Runs[r].executed = 3 => Profiled(r)
  /\ StuckOnlyByCrash

------------------------------------------------------------------------------
\* The shapes.

LEMMA Single ==
  ASSUME NEW S, NEW x \in S
  PROVE  <<x>> \in Seq(S) /\ Len(<<x>>) = 1 /\ <<x>>[1] = x
OBVIOUS

LEMMA OneFourOne ==
  ASSUME NEW S, NEW one \in Seq(S), NEW four \in Seq(S), NEW last \in Seq(S),
         Len(one) = 1, Len(four) = 4, Len(last) = 1
  PROVE  \E e : /\ e = one \o four \o last /\ e \in Seq(S) /\ Len(e) = 6
               /\ e[1] = one[1] /\ e[2] = four[1] /\ e[3] = four[2] /\ e[4] = four[3]
               /\ e[5] = four[4] /\ e[6] = last[1]
<1> PICK five : five = one \o four
  BY Zenon
<1>1. /\ five \in Seq(S) /\ Len(five) = 5
      /\ \A k \in 1 .. 5 : five[k] = IF k <= 1 THEN one[k] ELSE four[k - 1]
  <2>1. /\ five \in Seq(S) /\ Len(five) = Len(one) + Len(four)
        /\ \A k \in 1 .. Len(one) + Len(four) :
             five[k] = IF k <= Len(one) THEN one[k] ELSE four[k - Len(one)]
    BY ConcatProperties, Zenon
  <2>2. Len(one) = 1 /\ Len(four) = 4
    OBVIOUS
  <2> QED BY ONLY <2>1, <2>2
<1> PICK all : all = five \o last
  BY Zenon
<1>2. /\ all \in Seq(S) /\ Len(all) = 6
      /\ \A k \in 1 .. 6 : all[k] = IF k <= 5 THEN five[k] ELSE last[k - 5]
  <2>1. /\ five \o last \in Seq(S) /\ Len(five \o last) = Len(five) + Len(last)
        /\ \A k \in 1 .. Len(five) + Len(last) :
             (five \o last)[k] = IF k <= Len(five) THEN five[k] ELSE last[k - Len(five)]
    BY <1>1, ConcatProperties
  <2> QED BY <1>1, <2>1
<1>3. five[1] = one[1] /\ five[2] = four[1] /\ five[3] = four[2] /\ five[4] = four[3] /\ five[5] = four[4]
  BY ONLY <1>1
<1>4. /\ all[1] = five[1] /\ all[2] = five[2] /\ all[3] = five[3]
      /\ all[4] = five[4] /\ all[5] = five[5] /\ all[6] = last[1]
  BY ONLY <1>2
<1>5. all = one \o four \o last
  OBVIOUS
<1> QED BY <1>2, <1>3, <1>4, <1>5, Zenon

LEMMA RunSteps ==
  ASSUME NEW r, NEW e, e = ExecuteRun(r)
  PROVE  /\ IsSeq(e) /\ Len(e) = 6 /\ DOMAIN e = 1 .. 6
         /\ e[1] = Mark("begin", r) /\ e[2] = Plain("start") /\ e[3] = Plain("launch")
         /\ e[4] = Plain("stop") /\ e[5] = Plain("release") /\ e[6] = Mark("done", r)
<1> PICK x, y, S : x = Mark("begin", r) /\ y = Mark("done", r)
                   /\ S = {x, y, Plain("start"), Plain("launch"), Plain("stop"), Plain("release")}
  BY Zenon
<1> PICK one, four, last : one = <<x>> /\ four = acc_tuner_exec_kernel /\ last = <<y>>
  BY Zenon
<1>1. one \in Seq(S) /\ Len(one) = 1 /\ one[1] = x /\ last \in Seq(S) /\ Len(last) = 1 /\ last[1] = y
  BY Single
<1>2. four \in Seq(S) /\ Len(four) = 4 /\ four[1] = Plain("start") /\ four[2] = Plain("launch")
      /\ four[3] = Plain("stop") /\ four[4] = Plain("release")
  BY DEF acc_tuner_exec_kernel
<1>3. e = one \o four \o last
  BY DEF ExecuteRun
<1>4. /\ e \in Seq(S) /\ Len(e) = 6
      /\ e[1] = one[1] /\ e[2] = four[1] /\ e[3] = four[2] /\ e[4] = four[3]
      /\ e[5] = four[4] /\ e[6] = last[1]
  <2>1. one \in Seq(S) /\ four \in Seq(S) /\ last \in Seq(S) /\ Len(one) = 1 /\ Len(four) = 4 /\ Len(last) = 1
    BY <1>1, <1>2
  <2>2. PICK all : /\ all = one \o four \o last /\ all \in Seq(S) /\ Len(all) = 6
               /\ all[1] = one[1] /\ all[2] = four[1] /\ all[3] = four[2] /\ all[4] = four[3]
               /\ all[5] = four[4] /\ all[6] = last[1]
    BY ONLY <2>1, OneFourOne, Zenon
  <2>3. all = e
    BY ONLY <1>3, <2>2
  <2> QED BY ONLY <2>2, <2>3, Zenon
<1>5. IsSeq(e) /\ DOMAIN e = 1 .. 6
  BY <1>4, SeqOfOwn
<1> QED BY <1>1, <1>2, <1>4, <1>5

\* The operations in the order of an execution.
LEMMA RunOps ==
  ASSUME NEW r
  PROVE  /\ ExecuteRun(r)[1].op = "begin" /\ ExecuteRun(r)[2].op = "start"
         /\ ExecuteRun(r)[3].op = "launch" /\ ExecuteRun(r)[4].op = "stop"
         /\ ExecuteRun(r)[5].op = "release" /\ ExecuteRun(r)[6].op = "done"
         /\ ExecuteRun(r)[1].row.id = r /\ ExecuteRun(r)[6].row.id = r
<1>1. \A op : Mark(op, r).op = op /\ Mark(op, r).row.id = r
  BY DEF Mark, Step
<1> QED BY <1>1, RunSteps, Ops

\* What is left of an execution after one of its steps.
LEMMA RestOn ==
  ASSUME NEW t, IsSeq(t), NEW o \in 1 .. 6, NEW r, Rest(t, 1, o, r)
  PROVE  /\ t # <<>> /\ Head(t) = t[1] /\ 1 \in DOMAIN t /\ t[1] = ExecuteRun(r)[o]
         /\ o # 6 => Rest(Tail(t), 1, o + 1, r)
<1>1. 1 \in DOMAIN t /\ t[1] = ExecuteRun(r)[o]
  <2>1. o \in o .. 6 /\ 1 + o - o = 1
    OBVIOUS
  <2> QED BY <2>1 DEF Rest
<1>2. t # <<>>
  BY <1>1, EmptyIsSeq
<1> PICK s, n : s = Tail(t) /\ n = Len(t)
  BY Zenon
<1>3. /\ n \in Nat /\ DOMAIN t = 1 .. n /\ DOMAIN s = 1 .. n - 1 /\ Head(t) = t[1]
      /\ \A j \in DOMAIN s : s[j] = t[j + 1]
  BY <1>2, TailFacts
<1>4. ASSUME NEW k \in o + 1 .. 6
      PROVE  1 + k - (o + 1) \in DOMAIN s /\ s[1 + k - (o + 1)] = ExecuteRun(r)[k]
  <2> PICK i, j : i = 1 + k - o /\ j = 1 + k - (o + 1)
    BY Zenon
  <2>1. k \in o .. 6 /\ j + 1 = i /\ j \in Int /\ j >= 1
    OBVIOUS
  <2>2. i \in DOMAIN t /\ t[i] = ExecuteRun(r)[k]
    BY <2>1 DEF Rest
  <2>3. j \in DOMAIN s
    BY ONLY <1>3, <2>1, <2>2
  <2> QED BY <1>3, <2>1, <2>2, <2>3
<1> QED BY <1>1, <1>2, <1>3, <1>4 DEF Rest

LEMMA One ==
  ASSUME NEW a, NEW s, s = <<a>>
  PROVE  IsSeq(s) /\ s # <<>> /\ Len(s) = 1 /\ DOMAIN s = {1} /\ s[1] = a
<1>1. s \in Seq({a}) /\ Len(s) = 1 /\ s[1] = a /\ s # <<>> /\ DOMAIN s = {1}
  OBVIOUS
<1> QED BY <1>1, SeqOfOwn

LEMMA Two ==
  ASSUME NEW a, NEW b, NEW s, s = <<a, b>>
  PROVE  /\ IsSeq(s) /\ s # <<>> /\ Len(s) = 2 /\ DOMAIN s = {1, 2} /\ s[1] = a /\ s[2] = b
         /\ Tail(s) = <<b>>
<1>1. s \in Seq({a, b})
  OBVIOUS
<1>2. s # <<>> /\ Len(s) = 2 /\ s[1] = a /\ s[2] = b /\ DOMAIN s = {1, 2} /\ Tail(s) = <<b>>
  OBVIOUS
<1> QED BY <1>1, <1>2, SeqOfOwn

LEMMA Three ==
  ASSUME NEW a, NEW b, NEW c, NEW s, s = <<a, b, c>>
  PROVE  /\ IsSeq(s) /\ s # <<>> /\ Len(s) = 3 /\ DOMAIN s = {1, 2, 3}
         /\ s[1] = a /\ s[2] = b /\ s[3] = c
         /\ Tail(s) = <<b, c>>
<1>1. s \in Seq({a, b, c})
  OBVIOUS
<1>2. s # <<>> /\ Len(s) = 3 /\ s[1] = a /\ s[2] = b /\ s[3] = c /\ DOMAIN s = {1, 2, 3}
  OBVIOUS
<1>3. Tail(s) = <<b, c>>
  OBVIOUS
<1> QED BY <1>1, <1>2, <1>3, SeqOfOwn

LEMMA TwoAndOne ==
  ASSUME NEW a, NEW b, NEW c
  PROVE  <<a, b>> \o <<c>> = <<a, b, c>>
<1> PICK S : S = {a, b, c}
  BY Zenon
<1> PICK two, one, three : two = <<a, b>> /\ one = <<c>> /\ three = <<a, b, c>>
  BY Zenon
<1>1. two \in Seq(S) /\ Len(two) = 2 /\ two[1] = a /\ two[2] = b
  OBVIOUS
<1>2. one \in Seq(S) /\ Len(one) = 1 /\ one[1] = c
  OBVIOUS
<1>3. three \in Seq(S) /\ Len(three) = 3 /\ three[1] = a /\ three[2] = b /\ three[3] = c
  OBVIOUS
<1> PICK all : all = two \o one
  BY Zenon
<1>4. /\ all \in Seq(S) /\ Len(all) = Len(two) + Len(one)
      /\ \A k \in 1 .. Len(two) + Len(one) :
           all[k] = IF k <= Len(two) THEN two[k] ELSE one[k - Len(two)]
  BY ONLY <1>1, <1>2, ConcatProperties, all = two \o one
<1>5. Len(all) = 3 /\ all[1] = a /\ all[2] = b /\ all[3] = c
  BY ONLY <1>1, <1>2, <1>4
<1>6. \A k \in 1 .. 3 : all[k] = three[k]
  <2>1. \A k \in 1 .. 3 : k \in {1, 2, 3}
    OBVIOUS
  <2> QED BY ONLY <1>3, <1>5, <2>1
<1>7. all = three
  BY ONLY <1>3, <1>4, <1>5, <1>6, SeqEqual
<1> QED BY <1>7, Zenon

LEMMA InitOnce == acc_init_once = <<Plain("load"), Plain("save"), Plain("open")>>
BY TwoAndOne DEF acc_init_once, acc_load_ocl_sources

LEMMA OpensOps ==
  ASSUME NEW p, Opens(p)
  PROVE  /\ IsSeq(todo[p]) /\ todo[p] # <<>>
         /\ \A j \in DOMAIN todo[p] : todo[p][j].op \in {"load", "save", "open"}
<1> PICK t : t = todo[p]
  BY Zenon
<1>1. CASE todo[p] = acc_init_once
  <2>1. t = <<Plain("load"), Plain("save"), Plain("open")>>
    BY <1>1, InitOnce, Zenon
  <2> QED BY <2>1, Three, Ops
<1>2. CASE todo[p] = <<Plain("save"), Plain("open")>>
  <2>1. t = <<Plain("save"), Plain("open")>>
    BY <1>2, Zenon
  <2> QED BY <2>1, Two, Ops
<1>3. CASE todo[p] = <<Plain("open")>>
  <2>1. t = <<Plain("open")>>
    BY <1>3, Zenon
  <2> QED BY <2>1, One, Ops
<1> QED BY <1>1, <1>2, <1>3 DEF Opens

LEMMA ClosesOps ==
  ASSUME NEW t, Closes(t)
  PROVE  IsSeq(t) /\ \A j \in DOMAIN t : t[j].op \in {"release", "close"}
<1>1. CASE t = <<>>
  BY <1>1, EmptyIsSeq
<1>2. CASE t = <<Plain("release")>>
  BY ONLY <1>2, One, Ops
<1>3. CASE t = <<Plain("close")>>
  BY ONLY <1>3, One, Ops
<1>4. CASE t = <<Plain("release"), Plain("close")>>
  BY ONLY <1>4, Two, Ops
<1> QED BY <1>1, <1>2, <1>3, <1>4 DEF Closes

\* The operations in each of the shapes.
LEMMA ShapeOps ==
  ASSUME NEW p, Calling(p)
  PROVE  /\ IsSeq(todo[p])
         /\ \A j \in DOMAIN todo[p] :
              \/ Opens(p) /\ todo[p][j].op \in {"load", "save", "open"}
              \/ Ordered(todo[p]) /\ todo[p][j].op \in {"need", "create", "insert", "flag"}
              \/ Adds(todo[p]) /\ todo[p][j].op = "run"
              \/ Counts(todo[p]) /\ status[p] = "up" /\ todo[p][j].op \in {"count", "read"}
              \/ Closes(todo[p]) /\ todo[p][j].op \in {"release", "close"}
              \/ /\ Executes(p)
                 /\ todo[p][j].op \in {"transfer", "begin", "start", "launch", "stop", "release", "done"}
<1>1. CASE Opens(p)
  BY <1>1, OpensOps
<1>2. CASE Ordered(todo[p])
  BY <1>2 DEF Ordered
<1>3. CASE Adds(todo[p])
  BY <1>3 DEF Adds
<1>4. CASE Counts(todo[p]) /\ status[p] = "up"
  BY <1>4 DEF Counts
<1>5. CASE Closes(todo[p])
  BY <1>5, ClosesOps
<1>6. CASE Executes(p)
  BY <1>6 DEF Executes, Blocks
<1> QED BY <1>1, <1>2, <1>3, <1>4, <1>5, <1>6 DEF Calling

\* The head of what is left.
LEMMA HeadStep ==
  ASSUME NEW p, Calling(p), NEW op, At(p, op)
  PROVE  /\ IsSeq(todo[p]) /\ todo[p] # <<>> /\ 1 \in DOMAIN todo[p]
         /\ Now(p) = todo[p][1] /\ todo[p][1].op = op
<1>1. IsSeq(todo[p]) /\ todo[p] # <<>> /\ Head(todo[p]).op = op
  BY ShapeOps DEF At
<1>2. Len(todo[p]) \in Nat /\ Len(todo[p]) >= 1 /\ DOMAIN todo[p] = 1 .. Len(todo[p])
      /\ Head(todo[p]) = todo[p][1]
  BY <1>1, TailFacts
<1> QED BY <1>1, <1>2 DEF Now

\* The shape that a step is in.
LEMMA ShapeOf ==
  ASSUME NEW p, Calling(p), NEW op, At(p, op)
  PROVE  /\ op \in {"load", "save", "open"} => Opens(p)
         /\ op \notin {"load", "save", "open"} => Connected(p)
         /\ op \in {"need", "create", "insert", "flag"} => Ordered(todo[p])
         /\ op = "run" => Adds(todo[p])
         /\ op \in {"count", "read"} => Counts(todo[p]) /\ status[p] = "up"
         /\ op = "close" => Closes(todo[p])
         /\ op = "release" => Closes(todo[p]) \/ Executes(p)
         /\ op \in {"transfer", "begin", "start", "launch", "stop", "done"} => Executes(p)
<1>1. 1 \in DOMAIN todo[p] /\ todo[p] # <<>> /\ todo[p][1].op = op
  BY HeadStep
<1>2. \/ Opens(p) /\ op \in {"load", "save", "open"}
      \/ Ordered(todo[p]) /\ op \in {"need", "create", "insert", "flag"}
      \/ Adds(todo[p]) /\ op = "run"
      \/ Counts(todo[p]) /\ status[p] = "up" /\ op \in {"count", "read"}
      \/ Closes(todo[p]) /\ op \in {"release", "close"}
      \/ Executes(p) /\ op \in {"transfer", "begin", "start", "launch", "stop", "release", "done"}
  BY <1>1, ShapeOps
<1>3. Opens(p) => op \in {"load", "save", "open"}
  BY <1>1, OpensOps
<1>4. op \notin {"load", "save", "open"} => Connected(p)
  BY <1>1, <1>3 DEF Calling
<1> QED BY <1>2, <1>4

\* Only executions end with the mark.
LEMMA Executing1 ==
  ASSUME NEW p, Calling(p), NEW r
  PROVE  /\ Executing(p, r) => Executes(p) /\ r \in Targets(p)
         /\ r \in Targets(p) => Executes(p)
<1>1. ASSUME NEW j \in DOMAIN todo[p], todo[p][j].op = "done"
      PROVE  Executes(p)
  BY <1>1, ShapeOps
<1>2. Mark("done", r).op = "done" /\ Mark("done", r).row.id = r
  BY DEF Mark, Step
<1> QED BY <1>1, <1>2 DEF Executing, Targets

------------------------------------------------------------------------------
\* What a step of process p does, and that the invariant stays.

Idle(q) ==
  /\ conns'[q] = conns[q] /\ status'[q] = status[q] /\ run_id'[q] = run_id[q]
  /\ events'[q] = events[q] /\ todo'[q] = todo[q]

Alone(p) ==
  /\ Functions_'
  /\ \A q \in Process \ {p} : Idle(q)
  /\ compiled' = compiled /\ crossed' = crossed /\ cut \subseteq cut'

DiskGrows ==
  /\ DOMAIN disk \subseteq DOMAIN disk'
  /\ Versions \in DOMAIN disk' => Versions \in DOMAIN disk
  /\ Versions \in DOMAIN disk =>
       disk'[Versions] = disk[Versions] \/ (crossed /\ IsCompiled(disk'[Versions]))

StoredGrows ==
  /\ IsSeq(Stored)'
  /\ \A i \in DOMAIN Stored : i \in DOMAIN Stored' /\ Stored'[i] = Stored[i]

\* What happens to the executions under way.
Carries(p, r) == Executing(p, r) => Executing(p, r)' \/ r \in cut'

RunsFollow(p) ==
  /\ IsSeq(Runs)'
  /\ \A r \in DOMAIN Runs' :
       /\ "executed" \in DOMAIN Runs'[r]
       /\ Runs'[r].executed = 3 => Profiled(r)' \/ (r \in DOMAIN Runs /\ Runs[r].executed = 3)
       /\ Runs'[r].executed = 2 =>
            Executing(p, r)' \/ (r \in DOMAIN Runs /\ Runs[r].executed = 2 /\ Carries(p, r))

IsTStep(p) ==
  /\ Alone(p) /\ DiskGrows /\ StoredGrows /\ RunsFollow(p)
  /\ Calling(p)' /\ \A e \in events'[p] : IsEvent(e)

LEMMA ProfiledStays ==
  ASSUME StoredGrows, NEW r, Profiled(r)
  PROVE  Profiled(r)'
BY DEF StoredGrows, Profiled

\* The files stay open.
LEMMA SameFiles ==
  ASSUME NEW q, DiskGrows, crossed' = crossed, compiled' = compiled,
         todo'[q] = todo[q], conns'[q] = conns[q]
  PROVE  (Opens(q) => Opens(q)') /\ (Connected(q) => Connected(q)')
<1>1. Loaded(q) => Loaded(q)'
  BY DEF Loaded, DiskGrows, IsCompiled, Compilation
<1>2. Opens(q) => Opens(q)'
  BY <1>1 DEF Opens
<1>3. Connected(q) => Connected(q)'
  BY DEF Connected, DiskGrows
<1> QED BY <1>2, <1>3

\* A call that does not go on stays what it is, if what it has achieved stays.
LEMMA SameCall ==
  ASSUME NEW q, Calling(q), todo'[q] = todo[q], status'[q] = status[q],
         Opens(q) => Opens(q)', Connected(q) => Connected(q)',
         \A o, r : Rest(todo[q], 1, o, r) /\ Reached(q, o, r) => Reached(q, o, r)'
  PROVE  Calling(q)'
<1>1. Ordered(todo[q]) => Ordered(todo[q])'
  BY DEF Ordered, IsSeq, DeviceStep, DeviceRow
<1>2. (Adds(todo[q]) => Adds(todo[q])') /\ (Counts(todo[q]) => Counts(todo[q])')
      /\ (Closes(todo[q]) => Closes(todo[q])')
  BY DEF Adds, Counts, Closes, IsSeq
<1>3. Targets(q)' = Targets(q)
  BY DEF Targets
<1>4. Executes(q) => Executes(q)'
  <2>1. Within(q) => Within(q)'
    BY <1>3 DEF Within, Begun, Rest
  <2> QED BY <2>1 DEF Executes, Blocks, IsSeq, Rest
<1> QED BY <1>1, <1>2, <1>4 DEF Calling

LEMMA OthersGoOn ==
  ASSUME NEW p, NEW q \in Process \ {p}, Alone(p), DiskGrows, StoredGrows, Calling(q)
  PROVE  Calling(q)'
<1>1. /\ todo'[q] = todo[q] /\ status'[q] = status[q] /\ conns'[q] = conns[q]
      /\ run_id'[q] = run_id[q] /\ events'[q] = events[q]
      /\ crossed' = crossed /\ compiled' = compiled
  BY DEF Alone, Idle
<1>2. \A o, r : Reached(q, o, r) => Reached(q, o, r)'
  BY <1>1, ProfiledStays DEF Reached
<1>3. (Opens(q) => Opens(q)') /\ (Connected(q) => Connected(q)')
  BY <1>1, SameFiles
<1> QED BY <1>1, <1>2, <1>3, SameCall

LEMMA StepKeepsTInv ==
  ASSUME TInv, NEW p \in Process, IsTStep(p)
  PROVE  TInv'
<1>1. Functions_'
  BY DEF IsTStep, Alone
<1>2. TFile'
  <2>1. compiled' \in Nat /\ (compiled' > 0 <=> Versions \in DOMAIN disk')
    BY DEF IsTStep, Alone, DiskGrows, TInv, TFile
  <2>2. VersionsKept'
    BY DEF IsTStep, Alone, DiskGrows, TInv, TFile, VersionsKept, IsCompiled, Compilation
  <2> QED BY <2>1, <2>2 DEF IsTStep, TFile, StoredGrows, RunsFollow
<1>3. ASSUME NEW q \in Process
      PROVE  Calling(q)' /\ \A e \in events'[q] : IsEvent(e)
  <2>1. CASE q = p
    BY <2>1 DEF IsTStep
  <2>2. CASE q # p
    <3>1. events'[q] = events[q]
      BY <2>2 DEF IsTStep, Alone, Idle
    <3> QED BY <2>2, <3>1, OthersGoOn DEF IsTStep, TInv
  <2> QED BY <2>1, <2>2
<1>4. ASSUME NEW r \in DOMAIN Runs', Runs'[r].executed = 3
      PROVE  Profiled(r)'
  BY <1>4, ProfiledStays DEF IsTStep, RunsFollow, TInv
<1>5. ASSUME NEW r \in DOMAIN Runs', Runs'[r].executed = 2
      PROVE  r \in cut' \/ \E q \in Process : Executing(q, r)'
  <2>1. CASE Executing(p, r)'
    BY <2>1
  <2>2. CASE r \in DOMAIN Runs /\ Runs[r].executed = 2 /\ Carries(p, r)
    <3>1. r \in cut \/ \E q \in Process : Executing(q, r)
      BY <2>2 DEF TInv, StuckOnlyByCrash
    <3>2. CASE r \in cut
      BY <3>2 DEF IsTStep, Alone
    <3>3. CASE Executing(p, r)
      BY <2>2, <3>3 DEF Carries
    <3>4. ASSUME NEW q \in Process \ {p}, Executing(q, r)
          PROVE  Executing(q, r)'
      <4>1. todo'[q] = todo[q]
        BY DEF IsTStep, Alone, Idle
      <4> QED BY <3>4, <4>1 DEF Executing
    <3> QED BY <3>1, <3>2, <3>3, <3>4
  <2> QED BY <1>5, <2>1, <2>2 DEF IsTStep, RunsFollow
<1>6. StuckOnlyByCrash'
  BY <1>5 DEF StuckOnlyByCrash
<1> QED BY <1>1, <1>2, <1>3, <1>4, <1>6 DEF TInv, IsEvent

------------------------------------------------------------------------------
\* What steps have in common.

\* Nothing but a history records them.
Acts(p) == cut' = cut \cup CutBy(p) /\ UNCHANGED <<compiled, crossed>>

LEMMA SameContent ==
  ASSUME Content(Profile)' = Content(Profile)
  PROVE  Runs' = Runs /\ Stored' = Stored /\ \A t : Rows(t)' = Rows(t)
BY DEF Runs, Stored, Rows

LEMMA SameRowsFollow ==
  ASSUME TInv, NEW p, Runs' = Runs, Stored' = Stored, \A r : Carries(p, r)
  PROVE  StoredGrows /\ RunsFollow(p)
BY DEF TInv, TFile, StoredGrows, RunsFollow, IsSeq

LEMMA SameDisk ==
  ASSUME UNCHANGED disk
  PROVE  Runs' = Runs /\ Stored' = Stored /\ DiskGrows
<1>1. Content(Profile)' = Content(Profile)
  BY DEF Content
<1> QED BY <1>1, SameContent DEF DiskGrows

\* A call that is not an execution ends no execution.
LEMMA NoneExecuting ==
  ASSUME NEW p, Calling(p), NEW op, At(p, op),
         op \notin {"transfer", "begin", "start", "launch", "stop", "release", "done"}
  PROVE  \A r : ~Executing(p, r) /\ Carries(p, r)
<1>1. 1 \in DOMAIN todo[p] /\ todo[p][1].op = op
  BY HeadStep
<1>2. ~Executes(p)
  BY <1>1 DEF Executes, Blocks
<1> QED BY <1>2, Executing1 DEF Carries

LEMMA FreeExecutes ==
  ASSUME NEW p, todo[p] = <<>>
  PROVE  \A r : ~Executing(p, r) /\ Carries(p, r)
BY EmptyIsSeq DEF Executing, Carries

\* A step within a call leaves the marks that are behind it.
LEMMA MarksStay ==
  ASSUME Functions_, NEW p \in Process, Calling(p), NEW op, At(p, op), GoOn(p),
         NEW r, Executing(p, r), op = "done" => Now(p).row.id # r
  PROVE  Executing(p, r)'
<1> PICK t, s : t = todo[p] /\ s = Tail(t)
  BY Zenon
<1>1. IsSeq(t) /\ t # <<>> /\ Now(p) = t[1] /\ t[1].op = op
  BY HeadStep
<1>2. todo'[p] = s
  BY DEF GoOn, Functions_
<1>3. PICK i \in DOMAIN t : t[i] = Mark("done", r)
  BY DEF Executing
<1>4. i # 1
  <2>1. Mark("done", r).op = "done" /\ Mark("done", r).row.id = r
    BY DEF Mark, Step
  <2> QED BY <1>1, <1>3, <2>1
<1>5. /\ Len(t) \in Nat /\ DOMAIN t = 1 .. Len(t) /\ DOMAIN s = 1 .. Len(t) - 1
      /\ \A j \in DOMAIN s : s[j] = t[j + 1]
  BY <1>1, TailFacts
<1> PICK j : j = i - 1
  BY Zenon
<1>6. j \in DOMAIN s /\ j + 1 = i
  BY ONLY <1>3, <1>4, <1>5, j = i - 1
<1>7. s[j] = Mark("done", r)
  BY <1>3, <1>5, <1>6
<1> QED BY <1>2, <1>6, <1>7 DEF Executing

LEMMA GoOnCarries ==
  ASSUME Functions_, NEW p \in Process, Calling(p), NEW op, At(p, op), op # "done", GoOn(p)
  PROVE  \A r : Carries(p, r)
BY MarksStay DEF Carries

\* What ends with the process is recorded.
LEMMA CutCarries ==
  ASSUME NEW p, Acts(p), status'[p] # status[p]
  PROVE  \A r : Carries(p, r)
<1>1. CutBy(p) = Targets(p)
  BY DEF CutBy, Targets
<1>2. \A r : Mark("done", r).op = "done" /\ Mark("done", r).row.id = r
  BY DEF Mark, Step
<1>3. \A r : Executing(p, r) => r \in Targets(p)
  BY <1>2 DEF Executing, Targets
<1> QED BY <1>1, <1>3 DEF Acts, Carries

LEMMA GoneTStep ==
  ASSUME TInv, NEW p \in Process, Acts(p), Ends(p), Dropped(p), UNCHANGED <<disk, session>>,
         \A r : Carries(p, r)
  PROVE  IsTStep(p)
<1>1. /\ conns' = [conns EXCEPT ![p] = <<>>] /\ status' = [status EXCEPT ![p] = "down"]
      /\ run_id' = [run_id EXCEPT ![p] = NoRun] /\ events' = [events EXCEPT ![p] = {}]
      /\ made' = [made EXCEPT ![p] = 0] /\ region' = [region EXCEPT ![p] = FALSE]
      /\ todo' = [todo EXCEPT ![p] = <<>>] /\ session' = session /\ disk' = disk
  BY DEF Ends, Dropped
<1>2. Functions_'
  BY <1>1 DEF TInv, Functions_
<1>3. \A q \in Process \ {p} : Idle(q)
  BY <1>1 DEF TInv, Functions_, Idle
<1>4. Alone(p)
  BY <1>2, <1>3 DEF Alone, Acts
<1>5. DiskGrows /\ StoredGrows /\ RunsFollow(p)
  BY SameDisk, SameRowsFollow
<1>6. todo'[p] = <<>> /\ status'[p] = "down" /\ events'[p] = {}
  BY <1>1 DEF TInv, Functions_
<1>7. Calling(p)'
  BY <1>6 DEF Calling, Closes
<1> QED BY <1>4, <1>5, <1>6, <1>7 DEF IsTStep

LEMMA DiesTStep ==
  ASSUME TInv, NEW p \in Process, Acts(p), Dies(p) \/ Returned(p)
  PROVE  IsTStep(p)
<1>1. status[p] # "down" /\ Ends(p) /\ Dropped(p) /\ UNCHANGED <<disk, session>>
  BY DEF Dies, Returned
<1>2. status'[p] # status[p]
  BY <1>1 DEF Ends, TInv, Functions_
<1> QED BY <1>1, <1>2, CutCarries, GoneTStep

\* An assertion fails.
LEMMA AbortTStep ==
  ASSUME TInv, NEW p \in Process, Acts(p), NEW op, At(p, op), Aborts(p), session' = session,
         op \notin {"transfer", "begin", "start", "launch", "stop", "release", "done"}
  PROVE  IsTStep(p)
<1>1. Ends(p) /\ Dropped(p) /\ UNCHANGED <<disk, session>>
  BY DEF Aborts
<1>2. \A r : Carries(p, r)
  BY NoneExecuting DEF TInv
<1> QED BY <1>1, <1>2, GoneTStep

LEMMA QuietTStep ==
  ASSUME TInv, NEW p \in Process, Alone(p), Runs' = Runs, Stored' = Stored, DiskGrows,
         \A r : Carries(p, r), Calling(p)', \A e \in events'[p] : IsEvent(e)
  PROVE  IsTStep(p)
BY SameRowsFollow DEF IsTStep

------------------------------------------------------------------------------
\* Calls of the program.

LEMMA FilesDiffer == Versions # Profile
BY DEF Versions, Profile

\* The connections c of a process when it has opened file f.
IsOpened(p, f, memory, c) ==
  /\ DOMAIN c = DOMAIN conns[p] \cup {f}
  /\ \A g \in DOMAIN conns[p] : c[g] = conns[p][g]
  /\ c[f] = [memory |-> memory, copy |-> IF memory THEN Content(f) ELSE NoTables]

LEMMA OpenFacts ==
  ASSUME Functions_, NEW p \in Process, NEW f, NEW missing, NEW memory \in BOOLEAN,
         acc_sqlite_open(p, f, missing, memory), f = Versions => missing
  PROVE  /\ DOMAIN disk' = DOMAIN disk \cup {f}
         /\ \A g : Content(g)' = Content(g)
         /\ DiskGrows
         /\ \E c : IsOpened(p, f, memory, c) /\ conns' = [conns EXCEPT ![p] = c]
         /\ f \notin DOMAIN conns[p] /\ (missing => f \in DOMAIN disk)
<1>1. /\ disk' = With(disk, f, Content(f))
      /\ f \notin DOMAIN conns[p] /\ (missing => f \in DOMAIN disk)
      /\ conns' = [conns EXCEPT ![p] =
           With(@, f, [memory |-> memory, copy |-> IF memory THEN Content(f) ELSE NoTables])]
  <2>1. CASE memory
    BY <2>1 DEF acc_sqlite_open, LoadOrSave
  <2>2. CASE ~memory
    BY <2>2 DEF acc_sqlite_open, LoadOrSave
  <2> QED BY <2>1, <2>2
<1>2. /\ DOMAIN disk' = DOMAIN disk \cup {f}
      /\ \A g \in DOMAIN disk : disk'[g] = disk[g]
      /\ disk'[f] = Content(f)
  BY <1>1 DEF With, Content
<1>3. \A g : Content(g)' = Content(g)
  BY <1>2 DEF Content
<1>4. DiskGrows
  <2>1. f = Versions => f \in DOMAIN disk
    BY <1>1
  <2> QED BY <1>2, <2>1 DEF DiskGrows
<1> PICK c : c = With(conns[p], f, [memory |-> memory, copy |-> IF memory THEN Content(f) ELSE NoTables])
  BY Zenon
<1>5. conns' = [conns EXCEPT ![p] = c]
  BY <1>1
<1>6. IsOpened(p, f, memory, c)
  BY <1>1 DEF With, IsOpened
<1> QED BY <1>1, <1>2, <1>3, <1>4, <1>5, <1>6

\* The program calls, and nothing else changes.
LEMMA CallTStep ==
  ASSUME TInv, NEW p \in Process, Acts(p), Free(p), NEW steps, Calls(p, steps), OnlyCalls,
         Ordered(steps) \/ Adds(steps) \/ Counts(steps) \/ Closes(steps)
  PROVE  IsTStep(p)
<1>1. /\ todo' = [todo EXCEPT ![p] = steps] /\ todo[p] = <<>> /\ status[p] = "up"
      /\ UNCHANGED <<disk, conns, status, session, run_id, events, made, region>>
  BY DEF Free, Calls, OnlyCalls
<1>2. Alone(p)
  BY <1>1 DEF TInv, Functions_, Alone, Idle, Acts
<1>3. Runs' = Runs /\ Stored' = Stored /\ DiskGrows
  BY <1>1, SameDisk
<1>4. \A r : Carries(p, r)
  BY <1>1, FreeExecutes
<1>5. todo'[p] = steps
  BY <1>1 DEF TInv, Functions_
<1>6. Connected(p)'
  BY <1>1 DEF Connected, TInv, Calling
<1>7. Calling(p)'
  BY <1>1, <1>5, <1>6 DEF Calling
<1> QED BY <1>1, <1>2, <1>3, <1>4, <1>7, QuietTStep DEF TInv

LEMMA ExperimentTStep ==
  ASSUME TInv, NEW p \in Process, Acts(p), acc_tuning_create_experiment(p)
  PROVE  IsTStep(p)
<1> PICK t : t = Creates("Runs")
  BY Zenon
<1>1. t = <<Step("need", "Runs", Nothing), Step("create", "Runs", Nothing)>>
  BY DEF Creates
<1>2. IsSeq(t) /\ DOMAIN t = {1, 2} /\ t[1].op = "need" /\ t[2].op = "create"
  BY <1>1, Two, Ops
<1>3. Ordered(t)
  BY <1>2 DEF Ordered
<1> QED BY <1>3, CallTStep DEF acc_tuning_create_experiment, acc_profiling_set_experiment

LEMMA ReleaseTStep ==
  ASSUME TInv, NEW p \in Process, Acts(p), acc_profiling_release_all_events(p)
  PROVE  IsTStep(p)
<1>1. Closes(Release)
  BY DEF Closes, Release
<1> QED BY <1>1, CallTStep DEF acc_profiling_release_all_events

LEMMA GenerateTStep ==
  ASSUME TInv, NEW p \in Process, Acts(p), Generate(p)
  PROVE  IsTStep(p)
<1>1. PICK runs, most : /\ Len(runs) \in 0 .. most
                        /\ Calls(p, [k \in 1 .. Len(runs) |-> acc_tuning_add_run(p, runs[k])])
                        /\ Free(p) /\ OnlyCalls
  BY DEF Generate, Tuning
<1> PICK n : n = Len(runs)
  BY Zenon
<1> PICK t : t = [k \in 1 .. n |-> acc_tuning_add_run(p, runs[k])]
  BY Zenon
<1>2. n \in Nat
  BY <1>1
<1>3. ASSUME NEW k \in 1 .. n
      PROVE  t[k].op = "run" /\ "executed" \in DOMAIN t[k].row /\ t[k].row.executed = 0
  <2>1. t[k] = acc_tuning_add_run(p, runs[k])
    OBVIOUS
  <2> QED BY <2>1, Ops DEF acc_tuning_add_run
<1>4. IsSeq(t) /\ DOMAIN t = 1 .. n
  <2>1. t \in Seq({t[k] : k \in 1 .. n})
    BY <1>2
  <2> QED BY <2>1, SeqOfOwn
<1>5. Adds(t)
  BY <1>3, <1>4 DEF Adds
<1> QED BY <1>1, <1>5, CallTStep

LEMMA ExecuteTStep ==
  ASSUME TInv, NEW p \in Process, Acts(p), NEW v, acc_tuning_execute(p, v)
  PROVE  IsTStep(p)
<1> PICK t : t = <<Step("count", "Runs", [version |-> v])>>
  BY Zenon
<1>1. IsSeq(t) /\ DOMAIN t = {1} /\ Len(t) = 1 /\ t[1].op = "count"
  BY One, Ops
<1>2. Counts(t)
  BY <1>1 DEF Counts
<1> QED BY <1>2, CallTStep DEF acc_tuning_execute, Tuning

LEMMA StartTStep ==
  ASSUME TInv, NEW p \in Process, Acts(p), StartTuner(p)
  PROVE  IsTStep(p)
<1>1. /\ status[p] = "down" /\ status' = [status EXCEPT ![p] = "init"]
      /\ session' = [session EXCEPT ![p] = @ + 1] /\ todo' = [todo EXCEPT ![p] = acc_init_once]
      /\ UNCHANGED <<disk, conns, run_id, events, made, region>>
  BY DEF StartTuner, Starts
<1>2. Alone(p) /\ status'[p] = "init" /\ todo'[p] = acc_init_once
  BY <1>1 DEF TInv, Functions_, Alone, Idle, Acts
<1>3. \A r : Carries(p, r)
  BY <1>1, <1>2, CutCarries
<1>4. Calling(p)'
  BY <1>2 DEF Calling, Opens
<1> QED BY <1>1, <1>2, <1>3, <1>4, SameDisk, QuietTStep DEF TInv

LEMMA InitTStep ==
  ASSUME TInv, NEW p \in Process, Acts(p), acc_tuning_init(p)
  PROVE  IsTStep(p)
<1>1. /\ todo[p] = <<>> /\ status[p] = "up" /\ acc_sqlite_open(p, Versions, TRUE, TRUE)
      /\ UNCHANGED <<status, session, run_id, events, made, region, todo>>
  BY DEF acc_tuning_init, Free
<1>2. PICK c : IsOpened(p, Versions, TRUE, c) /\ conns' = [conns EXCEPT ![p] = c]
  BY <1>1, OpenFacts DEF TInv
<1>3. (\A g : Content(g)' = Content(g)) /\ DiskGrows
  BY <1>1, OpenFacts DEF TInv
<1>4. Alone(p) /\ conns'[p] = c
  BY <1>1, <1>2 DEF TInv, Functions_, Alone, Idle, Acts
<1>5. Connected(p)'
  <2>1. Connected(p)
    BY <1>1 DEF TInv, Calling
  <2> QED BY <1>2, <1>3, <1>4, <2>1 DEF Connected, DiskGrows, IsOpened
<1>6. Calling(p)'
  BY <1>1, <1>5 DEF Calling, Closes
<1>7. Runs' = Runs /\ Stored' = Stored
  BY <1>3, SameContent
<1> QED BY <1>1, <1>3, <1>4, <1>6, <1>7, FreeExecutes, QuietTStep DEF TInv

LEMMA ExitTStep ==
  ASSUME TInv, NEW p \in Process, Acts(p), acc_exit(p) \/ ExitsWithin(p)
  PROVE  IsTStep(p)
<1>1. /\ status' = [status EXCEPT ![p] = "exit"] /\ todo' = [todo EXCEPT ![p] = acc_profiling_exit]
      /\ UNCHANGED <<disk, conns, session, run_id, events, made, region>>
  BY DEF acc_exit, ExitsWithin, Exits, Calls
<1>2. status[p] = "up"
  <2>1. ASSUME ExitsWithin(p)
        PROVE  Executes(p)
    BY <2>1, ShapeOf DEF ExitsWithin, TInv
  <2> QED BY <2>1 DEF acc_exit, Free, Executes
<1>3. Alone(p) /\ status'[p] = "exit" /\ todo'[p] = acc_profiling_exit
  BY <1>1 DEF TInv, Functions_, Alone, Idle, Acts
<1>4. \A r : Carries(p, r)
  BY <1>2, <1>3, CutCarries
<1>5. Connected(p)'
  BY <1>1, <1>2 DEF Connected, TInv, Calling
<1>6. Calling(p)'
  BY <1>3, <1>5 DEF Calling, Closes, acc_profiling_exit
<1> QED BY <1>1, <1>3, <1>4, <1>6, SameDisk, QuietTStep DEF TInv

------------------------------------------------------------------------------
\* The initialisation.

LEMMA OpenedConnected ==
  ASSUME Functions_, NEW p \in Process, NEW f, NEW memory, NEW c, IsOpened(p, f, memory, c),
         conns' = [conns EXCEPT ![p] = c], DiskGrows, Connected(p)
  PROVE  Connected(p)'
BY DEF Functions_, IsOpened, Connected, DiskGrows

LEMMA OpensAt ==
  ASSUME NEW p, Calling(p), NEW op \in {"load", "save", "open"}, At(p, op)
  PROVE  /\ op = "load" => todo[p] = acc_init_once
         /\ op = "save" => todo[p] = <<Plain("save"), Plain("open")>> /\ Loaded(p)
         /\ op = "open" => todo[p] = <<Plain("open")>>
<1>1. Opens(p) /\ todo[p][1].op = op
  BY ShapeOf, HeadStep
<1> PICK t : t = todo[p]
  BY Zenon
<1>2. CASE todo[p] = acc_init_once
  <2>1. t = <<Plain("load"), Plain("save"), Plain("open")>>
    BY <1>2, InitOnce, Zenon
  <2>2. t[1].op = "load"
    BY <2>1, Three, Ops
  <2> QED BY <1>1, <1>2, <2>2
<1>3. CASE todo[p] = <<Plain("save"), Plain("open")>> /\ Loaded(p)
  <2>1. t = <<Plain("save"), Plain("open")>>
    BY <1>3, Zenon
  <2>2. t[1].op = "save"
    BY <2>1, Two, Ops
  <2> QED BY <1>1, <1>3, <2>2
<1>4. CASE todo[p] = <<Plain("open")>>
  <2>1. t = <<Plain("open")>>
    BY <1>4, Zenon
  <2>2. t[1].op = "open"
    BY <2>1, One, Ops
  <2> QED BY <1>1, <1>4, <2>2
<1> QED BY <1>1, <1>2, <1>3, <1>4 DEF Opens

LEMMA LoadTStep ==
  ASSUME TInv, NEW p \in Process, Acts(p), LoadVersions(p)
  PROVE  IsTStep(p)
<1>1. At(p, "load") /\ session' = session /\ Calling(p)
  BY DEF LoadVersions, TInv
<1>2. CASE Aborts(p)
  BY <1>1, <1>2, AbortTStep
<1>3. CASE /\ acc_sqlite_open(p, Versions, TRUE, TRUE)
           /\ GoOn(p)
           /\ UNCHANGED <<status, run_id, events, made, region>>
  <2>1. PICK c : IsOpened(p, Versions, TRUE, c) /\ conns' = [conns EXCEPT ![p] = c]
    BY <1>3, OpenFacts DEF TInv
  <2>2. (\A g : Content(g)' = Content(g)) /\ DiskGrows /\ Versions \in DOMAIN disk
    BY <1>3, OpenFacts DEF TInv
  <2>3. Alone(p) /\ conns'[p] = c /\ todo'[p] = Tail(todo[p])
    BY <1>1, <1>3, <2>1 DEF TInv, Functions_, Alone, Idle, Acts, GoOn
  <2>4. todo'[p] = <<Plain("save"), Plain("open")>>
    <3>1. todo[p] = <<Plain("load"), Plain("save"), Plain("open")>>
      BY <1>1, OpensAt, InitOnce
    <3> QED BY <2>3, <3>1, Three
  <2>5. Loaded(p)'
    <3>1. c[Versions].memory = TRUE /\ c[Versions].copy = Content(Versions) /\ Versions \in DOMAIN c
      BY <2>1 DEF IsOpened
    <3>2. Versions \in DOMAIN disk' /\ Content(Versions) = disk[Versions]
      BY <2>2 DEF DiskGrows, Content
    <3>3. crossed' = crossed /\ compiled' = compiled
      BY DEF Acts
    <3>4. IsCompiled(disk[Versions])
      BY <2>2 DEF TInv, TFile, VersionsKept, IsCompiled
    <3>5. IsCompiled(c[Versions].copy)'
      BY <3>1, <3>2, <3>3, <3>4 DEF IsCompiled, Compilation
    <3> QED BY <2>2, <2>3, <3>1, <3>2, <3>3, <3>5 DEF Loaded, DiskGrows
  <2>6. Connected(p) => Connected(p)'
    BY <2>1, <2>2, OpenedConnected DEF TInv
  <2>7. Calling(p)'
    BY <1>1, <1>3, <2>4, <2>5, <2>6 DEF Calling, Opens
  <2>8. \A r : Carries(p, r)
    BY <1>1, NoneExecuting
  <2>9. Runs' = Runs /\ Stored' = Stored
    BY <2>2, SameContent
  <2> QED BY <1>3, <2>2, <2>3, <2>7, <2>8, <2>9, QuietTStep DEF TInv
<1> QED BY <1>2, <1>3 DEF LoadVersions

LEMMA SaveTStep ==
  ASSUME TInv, NEW p \in Process, Acts(p), SaveVersions(p)
  PROVE  IsTStep(p)
<1>1. /\ At(p, "save") /\ acc_sqlite_close(p, Versions) /\ GoOn(p)
      /\ UNCHANGED <<status, session, run_id, events, made, region>>
      /\ Calling(p) /\ Functions_
  BY DEF SaveVersions, TInv
<1>2. todo[p] = <<Plain("save"), Plain("open")>> /\ Loaded(p)
  BY <1>1, OpensAt
<1>3. /\ disk' = disk \/ disk' = With(disk, Versions, conns[p][Versions].copy)
      /\ conns' = [conns EXCEPT ![p] = Without(@, Versions)]
  BY <1>1 DEF acc_sqlite_close, LoadOrSave
<1>4. DiskGrows /\ Content(Profile)' = Content(Profile)
  <2>1. CASE disk' = disk
    BY <2>1 DEF DiskGrows, Content
  <2>2. CASE disk' = With(disk, Versions, conns[p][Versions].copy)
    <3>1. /\ DOMAIN disk' = DOMAIN disk \cup {Versions}
          /\ disk'[Versions] = conns[p][Versions].copy
          /\ \A f \in DOMAIN disk : f # Versions => disk'[f] = disk[f]
      BY <2>2 DEF With
    <3> QED BY <1>2, <3>1, FilesDiffer DEF DiskGrows, Content, Loaded
  <2> QED BY <1>3, <2>1, <2>2
<1>5. Alone(p) /\ conns'[p] = Without(conns[p], Versions) /\ todo'[p] = Tail(todo[p])
  BY <1>1, <1>3 DEF TInv, Functions_, Alone, Idle, Acts, GoOn
<1>6. todo'[p] = <<Plain("open")>>
  BY <1>2, <1>5, Two
<1>7. Connected(p) => Connected(p)'
  <2>1. \A c : Profile \in DOMAIN c =>
          Profile \in DOMAIN Without(c, Versions) /\ Without(c, Versions)[Profile] = c[Profile]
    BY FilesDiffer DEF Without
  <2> QED BY <1>4, <1>5, <2>1 DEF Connected, DiskGrows
<1>8. Calling(p)'
  BY <1>1, <1>6, <1>7 DEF Calling, Opens
<1>9. \A r : Carries(p, r)
  BY <1>1, NoneExecuting
<1> QED BY <1>1, <1>4, <1>5, <1>8, <1>9, SameContent, QuietTStep DEF TInv

LEMMA OpenTStep ==
  ASSUME TInv, ProfilingAssumption, NEW p \in Process, Acts(p), OpenProfile(p)
  PROVE  IsTStep(p)
<1>1. /\ At(p, "open") /\ acc_sqlite_open(p, Profile, FALSE, FALSE)
      /\ todo' = [todo EXCEPT ![p] = acc_profiling_init]
      /\ UNCHANGED <<status, session, run_id, events, made, region>>
      /\ Calling(p) /\ Functions_
  BY DEF OpenProfile, TInv
<1>2. PICK c : IsOpened(p, Profile, FALSE, c) /\ conns' = [conns EXCEPT ![p] = c]
  BY <1>1, OpenFacts, FilesDiffer
<1>3. (\A g : Content(g)' = Content(g)) /\ DiskGrows /\ Profile \in DOMAIN disk'
  <2>1. DOMAIN disk' = DOMAIN disk \cup {Profile}
    BY <1>1, OpenFacts, FilesDiffer
  <2>2. DiskGrows
    BY <1>1, OpenFacts, FilesDiffer
  <2>3. \A g : Content(g)' = Content(g)
    BY <1>1, OpenFacts, FilesDiffer
  <2> QED BY <2>1, <2>2, <2>3
<1>4. Alone(p) /\ conns'[p] = c /\ todo'[p] = acc_profiling_init
  BY <1>1, <1>2 DEF TInv, Functions_, Alone, Idle, Acts
<1>5. Connected(p)'
  BY <1>2, <1>3, <1>4 DEF Connected, IsOpened
<1>6. Ordered(acc_profiling_init)
  BY InitSteps
<1>7. Calling(p)'
  <2>1. Ordered(todo[p])'
    BY <1>4, <1>6 DEF Ordered, IsSeq, DeviceStep, DeviceRow
  <2> QED BY <1>5, <2>1 DEF Calling
<1>8. \A r : Carries(p, r)
  BY <1>1, NoneExecuting
<1>9. Runs' = Runs /\ Stored' = Stored
  BY <1>3, SameContent
<1> QED BY <1>1, <1>3, <1>4, <1>7, <1>8, <1>9, QuietTStep DEF TInv

\* A statement on the profile does not touch the versions.
LEMMA WrittenGrows ==
  ASSUME NEW p, Connected(p), NEW db, Written(p, Profile, db)
  PROVE  DiskGrows
BY FilesDiffer DEF Connected, Written, DiskGrows

LEMMA OnConnected ==
  ASSUME NEW p, Connected(p), DiskGrows, conns'[p] = conns[p]
  PROVE  Connected(p)'
BY DEF Connected, DiskGrows

LEMMA OrderedStays ==
  ASSUME NEW p, Ordered(todo'[p])
  PROVE  Ordered(todo[p])'
BY DEF Ordered, IsSeq, DeviceStep, DeviceRow

LEMMA NeedTStep ==
  ASSUME TInv, NEW p \in Process, Acts(p), NeedTable(p)
  PROVE  IsTStep(p)
<1>1. /\ At(p, "need") /\ Calling(p)
      /\ \/ todo' = [todo EXCEPT ![p] = Tail(@)]
         \/ todo' = [todo EXCEPT ![p] = Tail(Tail(@))]
      /\ UNCHANGED <<disk, conns, status, session, run_id, events, made, region>>
  BY DEF NeedTable, TInv
<1>2. Ordered(todo[p]) /\ Connected(p) /\ todo[p] # <<>> /\ 1 \in DOMAIN todo[p] /\ todo[p][1].op = "need"
  BY <1>1, ShapeOf, HeadStep
<1>3. Alone(p) /\ conns'[p] = conns[p] /\ (todo'[p] = Tail(todo[p]) \/ todo'[p] = Tail(Tail(todo[p])))
  BY <1>1 DEF TInv, Functions_, Alone, Idle, Acts
<1>4. Ordered(Tail(todo[p])) /\ Ordered(Tail(Tail(todo[p])))
  <2> PICK t, s : t = todo[p] /\ s = Tail(t)
    BY Zenon
  <2>1. Ordered(s)
    BY <1>2, TailOrdered
  <2>2. 2 \in DOMAIN t
    BY <1>2 DEF Ordered
  <2>3. DOMAIN t = 1 .. Len(t) /\ Len(t) \in Nat /\ DOMAIN s = 1 .. Len(t) - 1
    BY <1>2, TailFacts DEF Ordered
  <2>4. 1 \in DOMAIN s
    BY ONLY <2>2, <2>3
  <2>5. s # <<>>
    BY <2>4, EmptyIsSeq
  <2> QED BY <2>1, <2>5, TailOrdered
<1>5. Calling(p)'
  BY <1>2, <1>3, <1>4, <1>1, SameDisk, OnConnected, OrderedStays DEF Calling
<1> QED BY <1>1, <1>3, <1>5, NoneExecuting, SameDisk, QuietTStep DEF TInv

\* A statement of the initialisation, which leaves runs and events alone.
LEMMA StatementTStep ==
  ASSUME TInv, NEW p \in Process, Acts(p), NEW op \in {"create", "insert"}, At(p, op), GoOn(p),
         NEW db, Written(p, Profile, db), Runs' = Runs, Stored' = Stored, conns' = conns,
         UNCHANGED <<status, session, run_id, events, made, region>>
  PROVE  IsTStep(p)
<1>1. Calling(p)
  BY DEF TInv
<1>2. Ordered(todo[p]) /\ Connected(p) /\ todo[p] # <<>>
  BY <1>1, ShapeOf, HeadStep
<1>3. DiskGrows
  BY <1>2, WrittenGrows
<1>4. Alone(p) /\ conns'[p] = conns[p] /\ todo'[p] = Tail(todo[p])
  BY DEF TInv, Functions_, Alone, Idle, Acts, GoOn
<1>5. Calling(p)'
  BY <1>2, <1>3, <1>4, OnConnected, TailOrdered, OrderedStays DEF Calling
<1> QED BY <1>1, <1>3, <1>4, <1>5, NoneExecuting, QuietTStep DEF TInv

LEMMA CreateTStep ==
  ASSUME TInv, NEW p \in Process, Acts(p), acc_sqlite_create_table(p)
  PROVE  IsTStep(p)
<1>1. At(p, "create") /\ session' = session /\ Calling(p) /\ Functions_
  BY DEF acc_sqlite_create_table, TInv
<1>2. CASE Aborts(p)
  BY <1>1, <1>2, AbortTStep
<1>3. CASE /\ CreateTable(p, Profile, Now(p).table)
           /\ GoOn(p)
           /\ UNCHANGED <<status, run_id, events, made, region>>
  <2>1. Connected(p)
    BY <1>1, ShapeOf
  <2>2. conns' = conns /\ Runs' = Runs /\ Stored' = Stored
    BY <1>1, <1>3, <2>1, CreateFacts DEF Runs, Stored, Rows
  <2>3. PICK db : Written(p, Profile, db)
    BY <1>3 DEF CreateTable
  <2> QED BY <1>1, <1>3, <2>2, <2>3, StatementTStep
<1> QED BY <1>2, <1>3 DEF acc_sqlite_create_table

LEMMA InsertTStep ==
  ASSUME TInv, NEW p \in Process, Acts(p), InsertRow(p)
  PROVE  IsTStep(p)
<1>1. /\ At(p, "insert") /\ Calling(p) /\ Functions_ /\ GoOn(p)
      /\ Now(p).table # "Runs" /\ Now(p).table # "Events"
      /\ Insert(p, Profile, Now(p).table, Now(p).row)
      /\ UNCHANGED <<status, session, run_id, events, made, region>>
  BY DEF InsertRow, TInv
<1>2. Connected(p)
  BY <1>1, ShapeOf
<1>3. conns' = conns /\ Runs' = Runs /\ Stored' = Stored
  BY <1>1, <1>2, InsertFacts DEF Runs, Stored, Rows
<1>4. PICK db : Written(p, Profile, db)
  BY <1>1 DEF Insert
<1> QED BY <1>1, <1>3, <1>4, StatementTStep

LEMMA FlagTStep ==
  ASSUME TInv, NEW p \in Process, Acts(p), SetFlag(p)
  PROVE  IsTStep(p)
<1>1. /\ At(p, "flag") /\ Calling(p)
      /\ status' = [status EXCEPT ![p] = "up"] /\ todo' = [todo EXCEPT ![p] = <<>>]
      /\ UNCHANGED <<disk, conns, session, run_id, events, made, region>>
  BY DEF SetFlag, TInv
<1>2. Connected(p)
  BY <1>1, ShapeOf
<1>3. Alone(p) /\ conns'[p] = conns[p] /\ todo'[p] = <<>>
  BY <1>1 DEF TInv, Functions_, Alone, Idle, Acts
<1>4. DiskGrows /\ Runs' = Runs /\ Stored' = Stored
  BY <1>1, SameDisk
<1>5. Calling(p)'
  BY <1>2, <1>3, <1>4, OnConnected DEF Calling, Closes
<1> QED BY <1>1, <1>3, <1>4, <1>5, NoneExecuting, QuietTStep DEF TInv

LEMMA CloseTStep ==
  ASSUME TInv, NEW p \in Process, Acts(p), CloseProfile(p)
  PROVE  IsTStep(p)
<1>1. /\ At(p, "close") /\ Calling(p) /\ status[p] = "exit" /\ acc_sqlite_close(p, Profile) /\ GoOn(p)
      /\ UNCHANGED <<status, session, run_id, events, made, region>>
  BY DEF CloseProfile, TInv
<1>2. Connected(p) /\ Closes(todo[p]) /\ todo[p] # <<>> /\ todo[p][1].op = "close"
  BY <1>1, ShapeOf, HeadStep
<1>3. disk' = disk /\ conns' = [conns EXCEPT ![p] = Without(@, Profile)]
  BY <1>1, <1>2 DEF acc_sqlite_close, Connected
<1>4. todo[p] = <<Plain("close")>>
  <2> PICK t : t = todo[p]
    BY Zenon
  <2>1. t = <<Plain("release")>> => t[1].op = "release"
    BY One, Ops
  <2>2. t = <<Plain("release"), Plain("close")>> => t[1].op = "release"
    BY Two, Ops
  <2> QED BY <1>2, <2>1, <2>2 DEF Closes
<1>5. Alone(p) /\ todo'[p] = Tail(todo[p]) /\ status'[p] = "exit"
  BY <1>1, <1>3 DEF TInv, Functions_, Alone, Idle, Acts, GoOn
<1>6. todo'[p] = <<>>
  BY <1>4, <1>5, Shapes
<1>7. Calling(p)'
  BY <1>5, <1>6 DEF Calling, Closes
<1> QED BY <1>1, <1>3, <1>5, <1>7, NoneExecuting, SameDisk, QuietTStep DEF TInv

------------------------------------------------------------------------------
\* Calls that insert and that read runs.

\* The numbers of rows are a sequence, however many rows there are.
LEMMA SelectFacts ==
  ASSUME NEW db, NEW table, NEW conds, IsSeq(RowsOf(db, table))
  PROVE  acc_sqlite_select(db, table, conds) \in Seq(Nat)
<1> PICK rows, n : rows = RowsOf(db, table) /\ n = Len(rows)
  BY Zenon
<1>1. n \in Nat
  BY DEF IsSeq
<1> DEFINE Sat(r) == \A field \in DOMAIN conds : rows[r][field] = conds[field]
           Is(u) == u = [r \in 0 .. n |->
                           IF r = 0 THEN <<>> ELSE IF Sat(r) THEN Append(u[r - 1], r) ELSE u[r - 1]]
<1>2. acc_sqlite_select(db, table, conds) = (CHOOSE u : Is(u))[n]
  BY DEF acc_sqlite_select
<1> HIDE DEF Sat
<1> PICK good : good = {r \in 1 .. n : Sat(r)}
  BY Zenon
<1> PICK step : step = [pair \in (1 .. n) \X Seq(Nat) |->
                          IF pair[1] \in good THEN Append(pair[2], pair[1]) ELSE pair[2]]
  BY Zenon
<1>3. /\ step \in [(1 .. n) \X Seq(Nat) -> Seq(Nat)]
      /\ \A r \in 1 .. n : \A s \in Seq(Nat) : step[<<r, s>>] = IF r \in good THEN Append(s, r) ELSE s
  <2>1. \A r \in 1 .. n : \A s \in Seq(Nat) : Append(s, r) \in Seq(Nat)
    OBVIOUS
  <2> QED BY <2>1
<1>4. <<>> \in Seq(Nat)
  OBVIOUS
<1>5. PICK f : IsIterated(f, n, Seq(Nat), <<>>, step)
  BY <1>1, <1>3, <1>4, Iterated
<1>6. Is(f)
  <2>1. ASSUME NEW r \in 1 .. n
        PROVE  f[r] = IF Sat(r) THEN Append(f[r - 1], r) ELSE f[r - 1]
    <3>1. r - 1 \in 0 .. n
      OBVIOUS
    <3>2. f[r - 1] \in Seq(Nat) /\ f[r] = step[<<r, f[r - 1]>>]
      BY <1>5, <3>1 DEF IsIterated
    <3>3. r \in good <=> Sat(r)
      OBVIOUS
    <3> QED BY <1>3, <3>2, <3>3
  <2>2. f = [r \in 0 .. n |-> f[r]] /\ f[0] = <<>>
    BY <1>5 DEF IsIterated
  <2>3. \A r \in 0 .. n : r = 0 \/ r \in 1 .. n
    OBVIOUS
  <2> QED BY <2>1, <2>2, <2>3
<1> PICK u : u = CHOOSE x : Is(x)
  BY Zenon
<1>7. Is(u)
  BY <1>6
<1>8. /\ u[0] = <<>>
      /\ \A r \in 1 .. n : u[r] = IF Sat(r) THEN Append(u[r - 1], r) ELSE u[r - 1]
  <2>1. \A r \in 1 .. n : r \in 0 .. n /\ r # 0
    OBVIOUS
  <2>2. 0 \in 0 .. n
    BY ONLY <1>1
  <2>3. \A r \in 0 .. n : u[r] = IF r = 0 THEN <<>> ELSE IF Sat(r) THEN Append(u[r - 1], r) ELSE u[r - 1]
    BY ONLY <1>7
  <2> QED BY ONLY <2>1, <2>2, <2>3
<1> HIDE DEF Is
<1> DEFINE Good == {r \in 0 .. n : u[r] \in Seq(Nat)}
<1>9. 0 \in Good
  <2>1. 0 \in 0 .. n
    BY ONLY <1>1
  <2>2. u[0] \in Seq(Nat)
    <3>1. u[0] = <<>>
      BY <1>8, Zenon
    <3> QED BY ONLY <1>4, <3>1, Zenon
  <2> QED BY <2>1, <2>2, Zenon
<1>10. ASSUME NEW r \in 0 .. n - 1, r \in Good
       PROVE  r + 1 \in Good
  <2> PICK k : k = r + 1
    BY Zenon
  <2>1. k \in 1 .. n /\ k - 1 = r /\ k \in Nat /\ k \in 0 .. n
    BY <1>1
  <2>2. u[r] \in Seq(Nat)
    BY <1>10
  <2>3. Append(u[r], k) \in Seq(Nat)
    BY <2>1, <2>2
  <2>4. u[k] = Append(u[r], k) \/ u[k] = u[r]
    BY <1>8, <2>1
  <2>5. u[k] \in Seq(Nat)
    BY <2>2, <2>3, <2>4
  <2> QED BY <2>1, <2>5
<1> HIDE DEF Good
<1>11. \A r \in 0 .. n : r \in Good
  BY <1>1, <1>9, <1>10, SetInduction
<1>12. n \in Good
  BY <1>1, <1>11
<1> QED BY <1>2, <1>12 DEF Good

LEMMA AddsOn ==
  ASSUME NEW t, Adds(t), t # <<>>
  PROVE  Adds(Tail(t))
<1> PICK s : s = Tail(t)
  BY Zenon
<1>1. IsSeq(s) /\ \A j \in DOMAIN s : j + 1 \in DOMAIN t /\ s[j] = t[j + 1]
  BY TailFacts DEF Adds
<1> QED BY <1>1 DEF Adds

LEMMA NewRunTStep ==
  ASSUME TInv, NEW p \in Process, Acts(p), NewRun(p)
  PROVE  IsTStep(p)
<1>1. At(p, "run") /\ session' = session /\ Calling(p) /\ Functions_
  BY DEF NewRun, TInv
<1>2. CASE Aborts(p)
  BY <1>1, <1>2, AbortTStep
<1>3. CASE /\ Insert(p, Profile, "Runs", Now(p).row)
           /\ run_id' = [run_id EXCEPT ![p] = LastRowid(p)]
           /\ GoOn(p)
           /\ UNCHANGED <<status, events, made, region>>
  <2>1. Connected(p) /\ Adds(todo[p]) /\ todo[p] # <<>> /\ Now(p) = todo[p][1] /\ 1 \in DOMAIN todo[p]
    BY <1>1, ShapeOf, HeadStep
  <2>2. conns' = conns /\ Runs' = Append(Runs, Now(p).row) /\ Stored' = Stored
    BY <1>1, <1>3, <2>1, InsertFacts DEF Runs, Stored, Rows
  <2>3. DiskGrows
    BY <1>3, <2>1, WrittenGrows DEF Insert
  <2>4. Alone(p) /\ conns'[p] = conns[p] /\ todo'[p] = Tail(todo[p])
    BY <1>1, <1>3, <2>2 DEF TInv, Functions_, Alone, Idle, Acts, GoOn
  <2>5. Calling(p)'
    <3>1. Adds(todo'[p])
      BY <2>1, <2>4, AddsOn
    <3>2. Adds(todo[p])'
      BY <3>1 DEF Adds, IsSeq
    <3> QED BY <2>1, <2>3, <2>4, <3>2, OnConnected DEF Calling
  <2>6. StoredGrows
    BY <2>2 DEF TInv, TFile, StoredGrows, IsSeq
  <2>7. RunsFollow(p)
    <3> PICK row : row = Now(p).row
      BY Zenon
    <3>1. "executed" \in DOMAIN row /\ row.executed = 0
      BY <2>1 DEF Adds
    <3>2. /\ IsSeq(Append(Runs, row)) /\ Len(Runs) \in Nat
          /\ DOMAIN Runs = 1 .. Len(Runs) /\ DOMAIN Append(Runs, row) = 1 .. Len(Runs) + 1
          /\ \A r \in DOMAIN Runs : Append(Runs, row)[r] = Runs[r]
          /\ Append(Runs, row)[Len(Runs) + 1] = row
      BY AppendFacts DEF TInv, TFile
    <3>3. \A r : Carries(p, r)
      BY <1>1, NoneExecuting
    <3>4. ASSUME NEW r \in DOMAIN Runs'
          PROVE  Runs'[r] = row \/ (r \in DOMAIN Runs /\ Runs'[r] = Runs[r])
      <4>1. r \in 1 .. Len(Runs) + 1
        BY <2>2, <3>2
      <4>2. r \in 1 .. Len(Runs) \/ r = Len(Runs) + 1
        BY ONLY <3>2, <4>1
      <4> QED BY <2>2, <3>2, <4>2
    <3>5. IsSeq(Runs)'
      BY <2>2, <3>2 DEF IsSeq
    <3> QED BY <3>1, <3>3, <3>4, <3>5 DEF RunsFollow, TInv, TFile
  <2> QED BY <1>3, <2>3, <2>4, <2>5, <2>6, <2>7 DEF IsTStep, TInv
<1> QED BY <1>2, <1>3 DEF NewRun

LEMMA CountTStep ==
  ASSUME TInv, NEW p \in Process, Acts(p), CountRuns(p)
  PROVE  IsTStep(p)
<1>1. At(p, "count") /\ session' = session /\ Calling(p) /\ Functions_
  BY DEF CountRuns, TInv
<1>2. CASE Aborts(p)
  BY <1>1, <1>2, AbortTStep
<1>3. ASSUME NEW v,
             todo' = [todo EXCEPT ![p] =
               <<Step("read", "Runs", [version |-> v, count |-> Len(Candidates(v))])>>],
             UNCHANGED <<disk, conns, status, run_id, events, made, region>>
      PROVE  IsTStep(p)
  <2>1. Connected(p) /\ status[p] = "up"
    BY <1>1, ShapeOf
  <2> PICK n : n = Len(Candidates(v))
    BY Zenon
  <2>2. n \in Nat
    <3>1. Candidates(v) \in Seq(Nat)
      BY SelectFacts DEF Candidates, TInv, TFile, Runs
    <3> QED BY <3>1
  <2> PICK row : row = [version |-> v, count |-> n]
    BY Zenon
  <2> PICK t : t = <<Step("read", "Runs", row)>>
    BY Zenon
  <2>3. Counts(t)
    <3>1. IsSeq(t) /\ Len(t) = 1 /\ DOMAIN t = {1} /\ t[1].op = "read" /\ t[1].row = row
      BY One, Ops
    <3> QED BY <2>2, <3>1 DEF Counts
  <2>4. Alone(p) /\ conns'[p] = conns[p] /\ todo'[p] = t /\ status'[p] = "up"
    BY <1>1, <1>3, <2>1 DEF TInv, Functions_, Alone, Idle, Acts
  <2>5. Calling(p)'
    <3>1. Counts(todo[p])'
      BY <2>3, <2>4 DEF Counts, IsSeq
    <3> QED BY <1>3, <2>1, <2>4, <3>1, SameDisk, OnConnected DEF Calling
  <2> QED BY <1>1, <1>3, <2>4, <2>5, NoneExecuting, SameDisk, QuietTStep DEF TInv
<1> QED BY <1>2, <1>3 DEF CountRuns

------------------------------------------------------------------------------
\* The steps of executions, one behind the other.

LEMMA RestOfTail ==
  ASSUME NEW t, IsSeq(t), t # <<>>, NEW i \in Nat, i >= 1, NEW o \in 1 .. 6, NEW r, Rest(t, i + 1, o, r)
  PROVE  Rest(Tail(t), i, o, r)
<1> PICK s, n : s = Tail(t) /\ n = Len(t)
  BY Zenon
<1>1. /\ n \in Nat /\ DOMAIN t = 1 .. n /\ DOMAIN s = 1 .. n - 1
      /\ \A j \in DOMAIN s : s[j] = t[j + 1]
  BY TailFacts
<1>2. ASSUME NEW k \in o .. 6
      PROVE  i + k - o \in DOMAIN s /\ s[i + k - o] = ExecuteRun(r)[k]
  <2> PICK j : j = i + k - o
    BY Zenon
  <2>1. j \in Int /\ j >= 1 /\ (i + 1) + k - o = j + 1
    OBVIOUS
  <2>2. j + 1 \in DOMAIN t /\ t[j + 1] = ExecuteRun(r)[k]
    BY <2>1 DEF Rest
  <2>3. j \in DOMAIN s
    BY ONLY <1>1, <2>1, <2>2
  <2> QED BY <1>1, <2>2, <2>3
<1> QED BY <1>2 DEF Rest

LEMMA BlocksTail ==
  ASSUME NEW t, Blocks(t), t # <<>>
  PROVE  /\ Blocks(Tail(t))
         /\ t[1].op \in {"transfer", "done"} /\ 1 \in DOMAIN Tail(t) =>
              Tail(t)[1].op \in {"transfer", "begin"}
<1> PICK s, n : s = Tail(t) /\ n = Len(t)
  BY Zenon
<1>1. /\ n \in Nat /\ n >= 1 /\ DOMAIN t = 1 .. n /\ DOMAIN s = 1 .. n - 1 /\ IsSeq(s) /\ IsSeq(t)
      /\ \A j \in DOMAIN s : j + 1 \in DOMAIN t /\ s[j] = t[j + 1]
  BY TailFacts DEF Blocks
<1>2. ASSUME NEW i \in DOMAIN s
      PROVE  /\ s[i].op \in {"transfer", "begin", "start", "launch", "stop", "release", "done"}
             /\ s[i].op = "begin" => Rest(s, i, 1, s[i].row.id)
             /\ s[i].op \in {"transfer", "done"} /\ i + 1 \in DOMAIN s =>
                  s[i + 1].op \in {"transfer", "begin"}
  <2>1. i \in Nat /\ i >= 1 /\ 1 \in 1 .. 6 /\ i + 1 \in DOMAIN t /\ s[i] = t[i + 1]
    BY <1>1
  <2>2. t[i + 1].op = "begin" => Rest(t, i + 1, 1, t[i + 1].row.id)
    BY <2>1 DEF Blocks
  <2>3. s[i].op = "begin" => Rest(s, i, 1, s[i].row.id)
    BY <1>1, <2>1, <2>2, RestOfTail
  <2>4. i + 1 \in DOMAIN s => (i + 1) + 1 \in DOMAIN t /\ s[i + 1] = t[(i + 1) + 1]
    BY <1>1
  <2> QED BY <2>1, <2>3, <2>4 DEF Blocks
<1>3. Blocks(s)
  BY <1>1, <1>2 DEF Blocks
<1>4. 1 \in DOMAIN t /\ (1 \in DOMAIN s => 1 + 1 \in DOMAIN t /\ s[1] = t[1 + 1])
  BY <1>1
<1>5. t[1].op \in {"transfer", "done"} /\ 1 \in DOMAIN s => s[1].op \in {"transfer", "begin"}
  BY <1>4 DEF Blocks
<1> QED BY <1>3, <1>5

\* Sequences of whole executions and of transfers.
Whole(t) ==
  /\ Blocks(t)
  /\ 1 \in DOMAIN t => t[1].op \in {"transfer", "begin"}
  /\ Len(t) \in DOMAIN t => t[Len(t)].op \in {"transfer", "done"}

\* All of the steps of t are in u, n places further on.
Shifted(t, u, n) == \A j \in DOMAIN t : j + n \in DOMAIN u /\ u[j + n] = t[j]

LEMMA RestShifted ==
  ASSUME NEW t, NEW u, NEW n \in Nat, Shifted(t, u, n),
         NEW i \in Nat, NEW r, Rest(t, i, 1, r)
  PROVE  Rest(u, i + n, 1, r)
<1>1. ASSUME NEW k \in 1 .. 6
      PROVE  (i + n) + k - 1 \in DOMAIN u /\ u[(i + n) + k - 1] = ExecuteRun(r)[k]
  <2> PICK j : j = i + k - 1
    BY Zenon
  <2>1. j \in DOMAIN t /\ t[j] = ExecuteRun(r)[k]
    BY DEF Rest
  <2>2. j + n \in DOMAIN u /\ u[j + n] = t[j]
    BY <2>1 DEF Shifted
  <2>3. (i + n) + k - 1 = j + n
    OBVIOUS
  <2> QED BY <2>1, <2>2, <2>3
<1> QED BY <1>1 DEF Rest

LEMMA WholeJoin ==
  ASSUME NEW s, NEW t, Whole(s), Whole(t)
  PROVE  Whole(s \o t)
<1> PICK u, n, m, S : u = s \o t /\ n = Len(s) /\ m = Len(t) /\ S = ToSet(s) \cup ToSet(t)
  BY Zenon
<1>1. IsSeq(s) /\ IsSeq(t)
  BY DEF Whole, Blocks
<1>2. s \in Seq(S) /\ t \in Seq(S) /\ n \in Nat /\ m \in Nat /\ DOMAIN s = 1 .. n /\ DOMAIN t = 1 .. m
  BY <1>1 DEF IsSeq
<1>3. /\ u \in Seq(S) /\ Len(u) = n + m
      /\ \A k \in 1 .. n + m : u[k] = IF k <= n THEN s[k] ELSE t[k - n]
  BY <1>2, ConcatProperties
<1>4. DOMAIN u = 1 .. n + m /\ IsSeq(u)
  <2>1. u \in Seq(S) /\ Len(u) = n + m
    BY <1>3, Zenon
  <2>2. IsSeq(u)
    BY ONLY <2>1, SeqOfOwn
  <2> QED BY ONLY <1>2, <2>1, <2>2
<1>5. Shifted(s, u, 0)
  <2>1. \A j \in 1 .. n : j + 0 \in 1 .. n + m /\ u[j + 0] = s[j]
    BY ONLY <1>2, <1>3
  <2> QED BY <1>2, <1>4, <2>1 DEF Shifted
<1>6. Shifted(t, u, n)
  <2>1. \A j \in 1 .. m : j + n \in 1 .. n + m /\ u[j + n] = t[j]
    BY ONLY <1>2, <1>3
  <2> QED BY <1>2, <1>4, <2>1 DEF Shifted
<1>7. ASSUME NEW i \in DOMAIN u
      PROVE  /\ u[i].op \in {"transfer", "begin", "start", "launch", "stop", "release", "done"}
             /\ u[i].op = "begin" => Rest(u, i, 1, u[i].row.id)
             /\ u[i].op \in {"transfer", "done"} /\ i + 1 \in DOMAIN u =>
                  u[i + 1].op \in {"transfer", "begin"}
  <2>1. CASE i \in DOMAIN s
    <3>1. i \in Nat /\ 0 \in Nat /\ i + 0 = i
      BY <1>2, <2>1
    <3>2. u[i] = s[i]
      BY <1>5, <2>1, <3>1 DEF Shifted
    <3>3. u[i].op = "begin" => Rest(u, i, 1, u[i].row.id)
      BY <1>5, <2>1, <3>1, <3>2, RestShifted DEF Whole, Blocks
    <3>4. ASSUME i + 1 \in DOMAIN u, u[i].op \in {"transfer", "done"}
          PROVE  u[i + 1].op \in {"transfer", "begin"}
      <4>1. CASE i + 1 \in DOMAIN s
        <5>1. (i + 1) + 0 = i + 1
          BY <3>1
        <5>2. u[i + 1] = s[i + 1]
          BY <1>5, <4>1, <5>1 DEF Shifted
        <5> QED BY <2>1, <3>2, <3>4, <4>1, <5>2 DEF Whole, Blocks
      <4>2. CASE i + 1 \notin DOMAIN s
        <5>1. 1 \in DOMAIN t /\ 1 + n = i + 1
          BY ONLY <1>2, <1>4, <2>1, <3>4, <4>2
        <5>2. u[i + 1] = t[1]
          BY <1>6, <5>1 DEF Shifted
        <5> QED BY <5>1, <5>2 DEF Whole
      <4> QED BY <4>1, <4>2
    <3> QED BY <2>1, <3>2, <3>3, <3>4 DEF Whole, Blocks
  <2>2. CASE i \notin DOMAIN s
    <3> PICK j : j = i - n
      BY Zenon
    <3>1. j \in Nat /\ j + n = i /\ j \in DOMAIN t /\ (i + 1 \in DOMAIN u => j + 1 \in DOMAIN t)
          /\ (j + 1) + n = i + 1
      BY ONLY <1>2, <1>4, <2>2, j = i - n, i \in DOMAIN u
    <3>2. u[i] = t[j]
      BY <1>6, <3>1 DEF Shifted
    <3>3. u[i].op = "begin" => Rest(u, i, 1, u[i].row.id)
      <4>1. t[j].op = "begin" => Rest(t, j, 1, t[j].row.id)
        BY <3>1 DEF Whole, Blocks
      <4>2. t[j].op = "begin" => Rest(u, j + n, 1, t[j].row.id)
        BY <1>2, <1>6, <3>1, <4>1, RestShifted
      <4> QED BY <3>1, <3>2, <4>2
    <3>4. i + 1 \in DOMAIN u => u[i + 1] = t[j + 1]
      BY <1>6, <3>1 DEF Shifted
    <3> QED BY <3>1, <3>2, <3>3, <3>4 DEF Whole, Blocks
  <2> QED BY <2>1, <2>2
<1>8. Blocks(u)
  BY <1>4, <1>7 DEF Blocks
<1>9. 1 \in DOMAIN u => u[1].op \in {"transfer", "begin"}
  <2>1. CASE n = 0
    <3>1. 1 \in DOMAIN u => 1 \in DOMAIN t /\ 1 + n = 1
      BY ONLY <1>2, <1>4, <2>1
    <3> QED BY <1>6, <3>1 DEF Shifted, Whole
  <2>2. CASE n # 0
    <3>1. 1 \in DOMAIN s /\ 1 + 0 = 1
      BY ONLY <1>2, <2>2
    <3> QED BY <1>5, <3>1 DEF Shifted, Whole
  <2> QED BY <2>1, <2>2
<1>10. Len(u) \in DOMAIN u => u[Len(u)].op \in {"transfer", "done"}
  <2>1. CASE m = 0
    <3>1. Len(u) = n /\ n + 0 = n /\ (Len(u) \in DOMAIN u => n \in DOMAIN s)
      BY ONLY <1>2, <1>3, <1>4, <2>1
    <3> QED BY <1>5, <3>1 DEF Shifted, Whole
  <2>2. CASE m # 0
    <3>1. Len(u) = m + n /\ m \in DOMAIN t
      BY ONLY <1>2, <1>3, <2>2
    <3> QED BY <1>6, <3>1 DEF Shifted, Whole
  <2> QED BY <2>1, <2>2
<1> QED BY <1>8, <1>9, <1>10 DEF Whole

LEMMA WholeEmpty == Whole(<<>>)
BY EmptyIsSeq DEF Whole, Blocks

LEMMA WholeRun ==
  ASSUME NEW r
  PROVE  Whole(ExecuteRun(r))
<1> PICK e : e = ExecuteRun(r)
  BY Zenon
<1>1. /\ IsSeq(e) /\ Len(e) = 6 /\ DOMAIN e = 1 .. 6
      /\ e[1].op = "begin" /\ e[2].op = "start" /\ e[3].op = "launch" /\ e[4].op = "stop"
      /\ e[5].op = "release" /\ e[6].op = "done" /\ e[1].row.id = r
  BY RunSteps, RunOps
<1>2. Rest(e, 1, 1, r)
  <2>1. \A k \in 1 .. 6 : 1 + k - 1 = k
    OBVIOUS
  <2> QED BY <1>1, <2>1 DEF Rest
<1>3. \A i \in 1 .. 6 : i = 1 \/ i = 2 \/ i = 3 \/ i = 4 \/ i = 5 \/ (i = 6 /\ i + 1 \notin 1 .. 6)
  OBVIOUS
<1>4. ASSUME NEW i \in DOMAIN e
      PROVE  /\ e[i].op \in {"transfer", "begin", "start", "launch", "stop", "release", "done"}
             /\ e[i].op = "begin" => Rest(e, i, 1, e[i].row.id)
             /\ e[i].op \in {"transfer", "done"} /\ i + 1 \in DOMAIN e =>
                  e[i + 1].op \in {"transfer", "begin"}
  BY <1>1, <1>2, <1>3
<1> QED BY <1>1, <1>4 DEF Whole, Blocks

LEMMA WholeTransfers ==
  ASSUME TunerAssumption, NEW p \in Process
  PROVE  Whole(Transfers(p))
<1> PICK t, n : t = Transfers(p) /\ n = NumData[p]
  BY Zenon
<1>1. n \in Nat
  BY DEF TunerAssumption
<1>2. t = [i \in 1 .. n |-> Plain("transfer")]
  BY DEF Transfers
<1>3. t \in Seq({Plain("transfer")}) /\ DOMAIN t = 1 .. n
  BY <1>1, <1>2
<1>4. IsSeq(t) /\ \A i \in DOMAIN t : t[i].op = "transfer"
  BY <1>2, <1>3, SeqOfOwn, Ops
<1> QED BY <1>4 DEF Whole, Blocks

LEMMA WholeFlat ==
  ASSUME NEW n \in Nat, NEW ss, DOMAIN ss = 1 .. n, ss = [i \in 1 .. n |-> ss[i]],
         \A i \in 1 .. n : Whole(ss[i])
  PROVE  Whole(FlattenSeq(ss))
<1> PICK S : S = UNION {ToSet(ss[i]) : i \in 1 .. n}
  BY Zenon
<1>1. ss \in [1 .. n -> Seq(S)]
  <2>1. ASSUME NEW i \in 1 .. n
        PROVE  ss[i] \in Seq(S)
    <3>1. ss[i] \in Seq(ToSet(ss[i])) /\ ToSet(ss[i]) \subseteq S
      BY DEF Whole, Blocks, IsSeq
    <3> QED BY <3>1
  <2> QED BY <2>1
<1>2. Len(ss) = n
  BY <1>1
<1>3. CASE n = 0
  <2>1. ss = <<>>
    BY <1>1, <1>3
  <2>2. FlattenSeq(ss) = <<>>
    BY <2>1 DEF FlattenSeq
  <2> QED BY <2>2, WholeEmpty
<1>4. CASE n # 0
  <2>1. PICK f : f = CHOOSE x : Flattened(x, n, ss)
    BY Zenon
  <2>2. Flattened(f, n, ss)
    BY <1>1, <2>1, FlattenedExists
  <2>3. FlattenSeq(ss) = f[n]
    BY <1>2, <1>4, <2>1 DEF FlattenSeq, Flattened
  <2>4. \A i \in 1 .. n : f[i] = IF i = 1 THEN ss[i] ELSE f[i - 1] \o ss[i]
    BY <2>2 DEF Flattened
  <2> DEFINE Good == {i \in 0 .. n : i # 0 => Whole(f[i])}
  <2>5. 0 \in Good
    OBVIOUS
  <2>6. ASSUME NEW i \in 0 .. n - 1, i \in Good
        PROVE  i + 1 \in Good
    <3>1. i + 1 \in 1 .. n /\ i + 1 \in 0 .. n /\ (i + 1) - 1 = i /\ (i # 0 => i + 1 # 1)
      OBVIOUS
    <3>2. CASE i = 0
      <4>1. f[i + 1] = ss[i + 1]
        BY <2>4, <3>1, <3>2
      <4> QED BY <3>1, <4>1
    <3>3. CASE i # 0
      <4>1. Whole(f[i]) /\ Whole(ss[i + 1])
        BY <2>6, <3>1, <3>3
      <4>2. f[i + 1] = f[i] \o ss[i + 1]
        BY <2>4, <3>1, <3>3
      <4>3. Whole(f[i] \o ss[i + 1])
        BY <4>1, WholeJoin
      <4> QED BY <3>1, <4>2, <4>3
    <3> QED BY <3>2, <3>3
  <2> HIDE DEF Good
  <2>7. n \in Good
    <3>1. \A i \in 0 .. n : i \in Good
      BY <2>5, <2>6, SetInduction
    <3> QED BY <3>1
  <2> QED BY <1>4, <2>3, <2>7 DEF Good
<1> QED BY <1>3, <1>4

LEMMA BlocksStay ==
  ASSUME NEW p, Blocks(todo'[p])
  PROVE  Blocks(todo[p])'
BY DEF Blocks, IsSeq, Rest

\* What is left of a call once the runs to execute are read.
LEMMA ReadTStep ==
  ASSUME TInv, TunerAssumption, NEW p \in Process, Acts(p), ReadRuns(p)
  PROVE  IsTStep(p)
<1>1. /\ At(p, "read") /\ Calling(p) /\ Functions_
      /\ UNCHANGED <<disk, conns, status, session, run_id, events, made, region>>
  BY DEF ReadRuns, TInv
<1> PICK n : n = Now(p).row.count
  BY Zenon
<1>2. PICK ss : /\ ss = [i \in 1 .. n |-> ss[i]]
                /\ \A i \in 1 .. n : \E r : ss[i] = ExecuteRun(r)
                /\ todo' = [todo EXCEPT ![p] = Transfers(p) \o FlattenSeq(ss) \o Transfers(p)]
  <2>1. PICK ids : todo' = [todo EXCEPT ![p] =
          Transfers(p) \o FlattenSeq([i \in 1 .. n |-> ExecuteRun(ids[i])]) \o Transfers(p)]
    <3> PICK found : found = Candidates(Now(p).row.version)
      BY Zenon
    <3>1. PICK garbage \in [Len(found) + 1 .. n -> 0 .. MaxRuns] :
            todo' = [todo EXCEPT ![p] =
              Transfers(p) \o FlattenSeq([i \in 1 .. n |->
                ExecuteRun(IF i <= Len(found) THEN RunIdRead(1, found[i], <<>>) ELSE garbage[i])])
              \o Transfers(p)]
      BY Zenon DEF ReadRuns
    <3> PICK ids : ids = [i \in 1 .. n |->
                            IF i <= Len(found) THEN RunIdRead(1, found[i], <<>>) ELSE garbage[i]]
      BY Zenon
    <3>2. [i \in 1 .. n |-> ExecuteRun(ids[i])] = [i \in 1 .. n |->
             ExecuteRun(IF i <= Len(found) THEN RunIdRead(1, found[i], <<>>) ELSE garbage[i])]
      BY DEF ExecuteRun
    <3> QED BY <3>1, <3>2, Zenon
  <2> PICK ss : ss = [i \in 1 .. n |-> ExecuteRun(ids[i])]
    BY Zenon
  <2>2. ss = [i \in 1 .. n |-> ss[i]] /\ \A i \in 1 .. n : ss[i] = ExecuteRun(ids[i])
    OBVIOUS
  <2> QED BY <2>1, <2>2, Zenon
<1>3. n \in Nat /\ status[p] = "up" /\ Connected(p)
  BY <1>1, ShapeOf, HeadStep, Ops DEF Counts
<1>4. Whole(FlattenSeq(ss))
  <2>1. DOMAIN ss = 1 .. n
    BY <1>2
  <2>2. \A i \in 1 .. n : Whole(ss[i])
    BY <1>2, WholeRun
  <2> QED BY <1>2, <1>3, <2>1, <2>2, WholeFlat
<1> PICK t : t = Transfers(p) \o FlattenSeq(ss) \o Transfers(p)
  BY Zenon
<1>5. Whole(t)
  <2>1. Whole(Transfers(p) \o FlattenSeq(ss))
    BY <1>4, WholeTransfers, WholeJoin
  <2> QED BY <2>1, WholeTransfers, WholeJoin
<1>6. Alone(p) /\ conns'[p] = conns[p] /\ todo'[p] = t /\ status'[p] = "up"
  BY <1>1, <1>2, <1>3 DEF TInv, Functions_, Alone, Idle, Acts
<1>7. Executes(p)'
  <2>1. Blocks(todo[p])'
    BY <1>5, <1>6, BlocksStay DEF Whole
  <2> QED BY <1>5, <1>6, <2>1 DEF Executes, Whole
<1>8. DiskGrows /\ Runs' = Runs /\ Stored' = Stored
  BY <1>1, SameDisk
<1>9. Calling(p)'
  BY <1>3, <1>6, <1>7, <1>8, OnConnected DEF Calling
<1> QED BY <1>1, <1>6, <1>8, <1>9, NoneExecuting, QuietTStep DEF TInv

------------------------------------------------------------------------------
\* The steps of an execution.

\* The execution that a step belongs to, and what it has achieved.
LEMMA InRun ==
  ASSUME NEW p, Calling(p), Executes(p)
  PROVE  /\ At(p, "start") => Begun(p, 2)
         /\ At(p, "launch") => Begun(p, 3)
         /\ At(p, "stop") => Begun(p, 4)
         /\ At(p, "release") => Begun(p, 5)
         /\ At(p, "done") => Begun(p, 6)
<1>1. ASSUME NEW op \in {"start", "launch", "stop", "release", "done"}, At(p, op)
      PROVE  \/ op = "start" /\ Begun(p, 2)
             \/ op = "launch" /\ Begun(p, 3)
             \/ op = "stop" /\ Begun(p, 4)
             \/ op = "release" /\ Begun(p, 5)
             \/ op = "done" /\ Begun(p, 6)
  <2>1. IsSeq(todo[p]) /\ 1 \in DOMAIN todo[p] /\ todo[p][1].op = op
    BY <1>1, HeadStep
  <2>2. Within(p)
    BY <2>1 DEF Executes
  <2>3. PICK k \in 2 .. 6 : Begun(p, k)
    BY <2>2 DEF Within
  <2>4. PICK r \in Targets(p) : Rest(todo[p], 1, k, r) /\ Reached(p, k, r)
    BY <2>3 DEF Begun
  <2>5. ExecuteRun(r)[k].op = op
    <3>1. k \in 1 .. 6
      BY <2>3
    <3> QED BY <2>1, <2>4, <3>1, RestOn
  <2>6. k = 2 \/ k = 3 \/ k = 4 \/ k = 5 \/ k = 6
    BY <2>3
  <2> QED BY <2>3, <2>5, <2>6, RunOps
<1>2. At(p, "start") => Begun(p, 2)
  BY <1>1
<1>3. At(p, "launch") => Begun(p, 3)
  BY <1>1
<1>4. At(p, "stop") => Begun(p, 4)
  BY <1>1
<1>5. At(p, "release") => Begun(p, 5)
  BY <1>1
<1>6. At(p, "done") => Begun(p, 6)
  BY <1>1
<1> QED BY <1>2, <1>3, <1>4, <1>5, <1>6

\* Within an execution the call goes on to its next step.
LEMMA OnInRun ==
  ASSUME Functions_, NEW p \in Process, Executes(p), NEW r, NEW o \in 1 .. 5,
         Rest(todo[p], 1, o, r), GoOn(p), status'[p] = "up", Reached(p, o + 1, r)'
  PROVE  Executes(p)' /\ Executing(p, r)'
<1> PICK t, s, k : t = todo[p] /\ s = Tail(t) /\ k = o + 1
  BY Zenon
<1>1. IsSeq(t) /\ Blocks(t) /\ Rest(t, 1, o, r) /\ o \in 1 .. 6 /\ o # 6 /\ k \in 2 .. 6
  BY DEF Executes, Blocks
<1>2. t # <<>> /\ Rest(s, 1, k, r)
  BY <1>1, RestOn
<1>3. todo'[p] = s
  BY DEF GoOn, Functions_
<1>4. Blocks(s)
  BY <1>1, <1>2, BlocksTail
<1> PICK i : i = 1 + 6 - k
  BY Zenon
<1>5. i \in DOMAIN s /\ s[i] = Mark("done", r)
  <2>1. 6 \in k .. 6
    BY <1>1
  <2>2. i \in DOMAIN s /\ s[i] = ExecuteRun(r)[6]
    BY <1>2, <2>1 DEF Rest
  <2> QED BY <2>2, RunSteps
<1>6. Executing(p, r)'
  BY <1>3, <1>5 DEF Executing
<1>7. r \in Targets(p)'
  <2>1. s[i].op = "done" /\ s[i].row.id = r
    BY <1>5, Ops DEF Mark
  <2> QED BY <1>3, <1>5, <2>1 DEF Targets
<1>8. Rest(todo[p], 1, k, r)'
  BY <1>2, <1>3 DEF Rest
<1>9. Within(p)'
  BY <1>1, <1>7, <1>8 DEF Within, Begun
<1> QED BY <1>3, <1>4, <1>6, <1>9, BlocksStay DEF Executes

\* Behind an execution, or a transfer, the next one begins.
LEMMA OnBetween ==
  ASSUME Functions_, NEW p \in Process, Calling(p), Executes(p), NEW op \in {"transfer", "done"},
         At(p, op), GoOn(p), status'[p] = "up"
  PROVE  Executes(p)'
<1> PICK t, s : t = todo[p] /\ s = Tail(t)
  BY Zenon
<1>1. t # <<>> /\ t[1].op = op /\ Blocks(t)
  BY HeadStep DEF Executes
<1>2. Blocks(s) /\ (1 \in DOMAIN s => s[1].op \in {"transfer", "begin"})
  BY <1>1, BlocksTail
<1>3. todo'[p] = s
  BY DEF GoOn, Functions_
<1> QED BY <1>2, <1>3, BlocksStay DEF Executes

\* A step of an execution that writes neither runs nor events to the file.
LEMMA ExecutionTStep ==
  ASSUME TInv, NEW p \in Process, Acts(p), NEW op, At(p, op), op # "done", GoOn(p), Executes(p)',
         UNCHANGED <<disk, conns, status, session>>,
         op \in {"start", "launch", "stop", "transfer"},
         \E v : run_id' = [run_id EXCEPT ![p] = v],
         \E v : events' = [events EXCEPT ![p] = v],
         \E v : made' = [made EXCEPT ![p] = v],
         \E v : region' = [region EXCEPT ![p] = v],
         \A e \in events'[p] : IsEvent(e)
  PROVE  IsTStep(p)
<1>1. Alone(p)
  BY DEF TInv, Functions_, Alone, Idle, Acts, GoOn
<1>2. DiskGrows /\ Runs' = Runs /\ Stored' = Stored
  BY SameDisk
<1>3. \A r : Carries(p, r)
  BY GoOnCarries DEF TInv
<1>4. Connected(p)'
  BY <1>2, ShapeOf, OnConnected DEF TInv
<1>5. Calling(p)'
  BY <1>4 DEF Calling
<1> QED BY <1>1, <1>2, <1>3, <1>5, QuietTStep

LEMMA StartRegionTStep ==
  ASSUME TInv, NEW p \in Process, Acts(p), StartRegion(p)
  PROVE  IsTStep(p)
<1>1. /\ At(p, "start") /\ GoOn(p) /\ Calling(p) /\ Functions_
      /\ region' = [region EXCEPT ![p] = TRUE]
      /\ UNCHANGED <<disk, conns, status, session, run_id, events, made>>
  BY DEF StartRegion, TInv
<1>2. Executes(p)
  BY <1>1, ShapeOf
<1>3. PICK r \in Targets(p) : Rest(todo[p], 1, 2, r) /\ Reached(p, 2, r)
  <2>1. Begun(p, 2)
    BY <1>1, <1>2, InRun
  <2> QED BY <2>1 DEF Begun
<1>4. Reached(p, 2 + 1, r)'
  BY <1>1, <1>3 DEF Reached
<1>5. Executes(p)'
  <2>1. status'[p] = "up" /\ 2 \in 1 .. 5
    BY <1>1, <1>2 DEF Executes
  <2> QED BY <1>1, <1>2, <1>3, <1>4, <2>1, OnInRun
<1>6. /\ run_id' = [run_id EXCEPT ![p] = run_id[p]] /\ events' = [events EXCEPT ![p] = events[p]]
      /\ made' = [made EXCEPT ![p] = made[p]]
  BY <1>1 DEF Functions_
<1>7. \A e \in events'[p] : IsEvent(e)
  BY <1>1 DEF TInv
<1> QED BY <1>1, <1>5, <1>6, <1>7, ExecutionTStep

\* An event that is registered is one of its run.
LEMMA RegisteredFacts ==
  ASSUME Functions_, NEW p \in Process, NEW done \in BOOLEAN, Register(p, 1, done)
  PROVE  \E e : /\ events' = [events EXCEPT ![p] = events[p] \cup {e}]
                /\ events'[p] = events[p] \cup {e}
                /\ IsEvent(e) /\ e.run = run_id[p] /\ e.out = FALSE
<1> PICK e : e = Registered(p, 1, done)
  BY Zenon
<1>1. events' = [events EXCEPT ![p] = @ \cup {e}]
  BY DEF Register
<1>2. IsEvent(e) /\ e.run = run_id[p] /\ e.out = FALSE
  BY DEF Registered, RunOf, IsEvent
<1> QED BY <1>1, <1>2 DEF Functions_

LEMMA LaunchTStep ==
  ASSUME TInv, NEW p \in Process, Acts(p), Launch(p)
  PROVE  IsTStep(p)
<1>1. /\ At(p, "launch") /\ GoOn(p) /\ Calling(p) /\ Functions_ /\ Register(p, 1, FALSE)
      /\ UNCHANGED <<disk, conns, status, session, run_id, region>>
  BY DEF Launch, TInv
<1>2. Executes(p)
  BY <1>1, ShapeOf
<1>3. PICK r \in Targets(p) : Rest(todo[p], 1, 3, r) /\ Reached(p, 3, r)
  <2>1. Begun(p, 3)
    BY <1>1, <1>2, InRun
  <2> QED BY <2>1 DEF Begun
<1>4. PICK e : /\ events' = [events EXCEPT ![p] = events[p] \cup {e}]
               /\ events'[p] = events[p] \cup {e}
               /\ IsEvent(e) /\ e.run = run_id[p] /\ e.out = FALSE
  BY <1>1, RegisteredFacts
<1>5. Reached(p, 3 + 1, r)'
  BY <1>3, <1>4 DEF Reached
<1>6. Executes(p)'
  <2>1. status'[p] = "up" /\ 3 \in 1 .. 5
    BY <1>1, <1>2 DEF Executes
  <2> QED BY <1>1, <1>2, <1>3, <1>5, <2>1, OnInRun
<1>7. /\ run_id' = [run_id EXCEPT ![p] = run_id[p]] /\ region' = [region EXCEPT ![p] = region[p]]
      /\ \E v : made' = [made EXCEPT ![p] = v]
  BY <1>1 DEF Functions_, Register
<1>8. \A x \in events'[p] : IsEvent(x)
  BY <1>4 DEF TInv
<1>9. \E v : events' = [events EXCEPT ![p] = v]
  BY <1>4
<1> QED BY <1>1, <1>6, <1>7, <1>8, <1>9, ExecutionTStep

\* The region ends when the kernels have: the event of the run has its times.
LEMMA StopRegionTStep ==
  ASSUME TInv, NEW p \in Process, Acts(p), StopRegion(p)
  PROVE  IsTStep(p)
<1>1. /\ At(p, "stop") /\ GoOn(p) /\ Calling(p) /\ Functions_ /\ Finished(p)
      /\ region' = [region EXCEPT ![p] = FALSE]
      /\ UNCHANGED <<disk, conns, status, session, run_id, events, made>>
  BY DEF StopRegion, TInv
<1>2. Executes(p)
  BY <1>1, ShapeOf
<1>3. PICK r \in Targets(p) : Rest(todo[p], 1, 4, r) /\ Reached(p, 4, r)
  <2>1. Begun(p, 4)
    BY <1>1, <1>2, InRun
  <2> QED BY <2>1 DEF Begun
<1>4. Reached(p, 4 + 1, r)'
  <2>1. PICK e \in events[p] : e.run = r /\ e.out = FALSE
    BY <1>3 DEF Reached
  <2>2. e.done = TRUE
    BY <1>1 DEF Finished, TInv, IsEvent
  <2> QED BY <1>1, <2>1, <2>2 DEF Reached
<1>5. Executes(p)'
  <2>1. status'[p] = "up" /\ 4 \in 1 .. 5
    BY <1>1, <1>2 DEF Executes
  <2> QED BY <1>1, <1>2, <1>3, <1>4, <2>1, OnInRun
<1>6. /\ run_id' = [run_id EXCEPT ![p] = run_id[p]] /\ events' = [events EXCEPT ![p] = events[p]]
      /\ made' = [made EXCEPT ![p] = made[p]]
  BY <1>1 DEF Functions_
<1>7. \A e \in events'[p] : IsEvent(e)
  BY <1>1 DEF TInv
<1> QED BY <1>1, <1>5, <1>6, <1>7, ExecutionTStep

LEMMA TransferTStep ==
  ASSUME TInv, NEW p \in Process, Acts(p), Transfer(p)
  PROVE  IsTStep(p)
<1>1. /\ At(p, "transfer") /\ GoOn(p) /\ Calling(p) /\ Functions_
      /\ Register(p, 1, TRUE) \/ UNCHANGED <<events, made>>
      /\ UNCHANGED <<disk, conns, status, session, run_id, region>>
  BY DEF Transfer, TInv
<1>2. Executes(p)
  BY <1>1, ShapeOf
<1>3. Executes(p)'
  <2>1. status'[p] = "up"
    BY <1>1, <1>2 DEF Executes
  <2> QED BY <1>1, <1>2, <2>1, OnBetween
<1>4. /\ \E v : events' = [events EXCEPT ![p] = v]
      /\ \E v : made' = [made EXCEPT ![p] = v]
      /\ \A e \in events'[p] : IsEvent(e)
  <2>1. CASE Register(p, 1, TRUE)
    <3>1. PICK e : /\ events' = [events EXCEPT ![p] = events[p] \cup {e}]
                   /\ events'[p] = events[p] \cup {e}
                   /\ IsEvent(e) /\ e.run = run_id[p] /\ e.out = FALSE
      BY <1>1, <2>1, RegisteredFacts
    <3>2. \A x \in events'[p] : IsEvent(x)
      BY <3>1 DEF TInv
    <3>3. \E v : made' = [made EXCEPT ![p] = v]
      BY <2>1 DEF Register
    <3> QED BY <3>1, <3>2, <3>3
  <2>2. CASE UNCHANGED <<events, made>>
    <3>1. events' = [events EXCEPT ![p] = events[p]] /\ made' = [made EXCEPT ![p] = made[p]]
      BY <1>1, <2>2 DEF Functions_
    <3>2. \A e \in events'[p] : IsEvent(e)
      BY <2>2 DEF TInv
    <3> QED BY <3>1, <3>2
  <2> QED BY <1>1, <2>1, <2>2
<1>5. run_id' = [run_id EXCEPT ![p] = run_id[p]] /\ region' = [region EXCEPT ![p] = region[p]]
  BY <1>1 DEF Functions_
<1> QED BY <1>1, <1>3, <1>4, <1>5, ExecutionTStep

\* What the mark of a run changes.
IsMarked(runs, marked, r, x) ==
  /\ IsSeq(marked) /\ DOMAIN marked = DOMAIN runs
  /\ \A q \in DOMAIN runs : q # r => marked[q] = runs[q]
  /\ r \in DOMAIN runs => "executed" \in DOMAIN marked[r] /\ marked[r].executed = x

LEMMA ExecutedFacts ==
  ASSUME NEW db, NEW runs, runs = RowsOf(db, "Runs"), IsSeq(runs), NEW r \in DOMAIN runs,
         "executed" \in DOMAIN runs[r], NEW x, NEW new, new = Executed(db, r, x)
  PROVE  IsMarked(runs, RowsOf(new, "Runs"), r, x) /\ RowsOf(new, "Events") = RowsOf(db, "Events")
<1>1. "Runs" \in DOMAIN db
  BY EmptyIsSeq DEF RowsOf
<1>2. runs = db["Runs"]
  BY <1>1 DEF RowsOf
<1> PICK row, marked : row = [runs[r] EXCEPT !.executed = x] /\ marked = [runs EXCEPT ![r] = row]
  BY Zenon
<1>3. new = [db EXCEPT !["Runs"] = marked]
  BY <1>2 DEF Executed
<1>4. /\ DOMAIN new = DOMAIN db /\ new["Runs"] = marked
      /\ "Events" \in DOMAIN db => new["Events"] = db["Events"]
  BY <1>1, <1>3
<1>5. RowsOf(new, "Runs") = marked /\ RowsOf(new, "Events") = RowsOf(db, "Events")
  BY <1>1, <1>4 DEF RowsOf
<1>6. "executed" \in DOMAIN row /\ row.executed = x
  OBVIOUS
<1>7. /\ DOMAIN marked = DOMAIN runs /\ marked[r] = row
      /\ \A q \in DOMAIN runs : q # r => marked[q] = runs[q]
  OBVIOUS
<1>8. IsSeq(marked)
  <2> PICK S : S = ToSet(runs) \cup {row}
    BY Zenon
  <2>1. runs \in Seq(S)
    BY DEF IsSeq
  <2>2. marked \in Seq(S)
    BY <2>1
  <2> QED BY <2>2, SeqOfOwn
<1> QED BY <1>5, <1>6, <1>7, <1>8 DEF IsMarked

LEMMA UpdateFacts ==
  ASSUME TInv, NEW p \in Process, Connected(p), NEW r, NEW x, Update(p, r, x)
  PROVE  conns' = conns /\ DiskGrows /\ Stored' = Stored /\ IsMarked(Runs, Runs', r, x)
<1>1. CASE r \in DOMAIN Runs
  <2> PICK new : new = Executed(Content(Profile), r, x)
    BY Zenon
  <2>1. Written(p, Profile, new)
    BY <1>1, ViewIsContent DEF Update
  <2>2. conns' = conns /\ Content(Profile)' = new
    BY <2>1, WrittenFacts DEF TInv
  <2>3. DiskGrows
    BY <2>1, WrittenGrows
  <2>4. IsMarked(Runs, RowsOf(new, "Runs"), r, x) /\ RowsOf(new, "Events") = Stored
    BY <1>1, ExecutedFacts DEF Runs, Stored, TInv, TFile
  <2>5. Runs' = RowsOf(new, "Runs") /\ Stored' = RowsOf(new, "Events")
    BY <2>2 DEF Runs, Stored
  <2> QED BY <2>2, <2>3, <2>4, <2>5
<1>2. CASE r \notin DOMAIN Runs
  <2>1. UNCHANGED <<disk, conns>>
    BY <1>2 DEF Update
  <2>2. DiskGrows /\ Runs' = Runs /\ Stored' = Stored
    BY <2>1, SameDisk
  <2> QED BY <1>2, <2>1, <2>2 DEF IsMarked, TInv, TFile
<1> QED BY <1>1, <1>2

LEMMA BeginTStep ==
  ASSUME TInv, NEW p \in Process, Acts(p), BeginRun(p)
  PROVE  IsTStep(p)
<1> PICK r : r = Now(p).row.id
  BY Zenon
<1>1. /\ At(p, "begin") /\ GoOn(p) /\ Calling(p) /\ Functions_ /\ Update(p, r, 2)
      /\ run_id' = [run_id EXCEPT ![p] = r]
      /\ UNCHANGED <<status, session, events, made, region>>
  BY DEF BeginRun, TInv
<1>2. Executes(p) /\ Connected(p)
  BY <1>1, ShapeOf
<1>3. conns' = conns /\ DiskGrows /\ Stored' = Stored /\ IsMarked(Runs, Runs', r, 2)
  BY <1>1, <1>2, UpdateFacts
<1>4. Rest(todo[p], 1, 1, r)
  <2>1. 1 \in DOMAIN todo[p] /\ Now(p) = todo[p][1] /\ todo[p][1].op = "begin"
    BY <1>1, HeadStep
  <2> QED BY <1>2, <2>1 DEF Executes, Blocks
<1>5. Executes(p)' /\ Executing(p, r)'
  <2>1. status'[p] = "up" /\ 1 \in 1 .. 5
    BY <1>1, <1>2 DEF Executes
  <2>2. Reached(p, 1 + 1, r)'
    BY <1>1 DEF Reached, Functions_
  <2> QED BY <1>1, <1>2, <1>4, <2>1, <2>2, OnInRun
<1>6. Alone(p)
  BY <1>1, <1>3 DEF TInv, Functions_, Alone, Idle, Acts, GoOn
<1>7. Calling(p)'
  BY <1>2, <1>3, <1>5, OnConnected DEF Calling
<1>8. RunsFollow(p)
  <2>1. \A q : Carries(p, q)
    BY <1>1, GoOnCarries
  <2> QED BY <1>3, <1>5, <2>1 DEF RunsFollow, IsMarked, TInv, TFile, IsSeq
<1>9. StoredGrows
  BY <1>3 DEF TInv, TFile, StoredGrows, IsSeq
<1>10. \A e \in events'[p] : IsEvent(e)
  BY <1>1 DEF TInv
<1> QED BY <1>3, <1>6, <1>7, <1>8, <1>9, <1>10 DEF IsTStep

\* A run is marked as executed when its event is in the file.
LEMMA EndTStep ==
  ASSUME TInv, NEW p \in Process, Acts(p), EndRun(p)
  PROVE  IsTStep(p)
<1> PICK r : r = Now(p).row.id
  BY Zenon
<1>1. /\ At(p, "done") /\ GoOn(p) /\ Calling(p) /\ Functions_ /\ Update(p, r, 3)
      /\ UNCHANGED <<status, session, run_id, events, made, region>>
  BY DEF EndRun, TInv
<1>2. Executes(p) /\ Connected(p)
  BY <1>1, ShapeOf
<1>3. conns' = conns /\ DiskGrows /\ Stored' = Stored /\ IsMarked(Runs, Runs', r, 3)
  BY <1>1, <1>2, UpdateFacts
<1>4. Profiled(r)'
  <2>1. Begun(p, 6)
    BY <1>1, <1>2, InRun
  <2>2. PICK q \in Targets(p) : Rest(todo[p], 1, 6, q) /\ Reached(p, 6, q)
    BY <2>1 DEF Begun
  <2>3. Now(p) = todo[p][1] /\ IsSeq(todo[p])
    BY <1>1, HeadStep
  <2>4. todo[p][1] = ExecuteRun(q)[6]
    <3>1. 6 \in 1 .. 6
      OBVIOUS
    <3> QED BY <2>2, <2>3, <3>1, RestOn
  <2>5. q = r
    BY <2>3, <2>4, RunOps
  <2> QED BY <1>3, <2>2, <2>5 DEF Reached, Profiled
<1>5. Executes(p)'
  <2>1. status'[p] = "up"
    BY <1>1, <1>2 DEF Executes
  <2> QED BY <1>1, <1>2, <2>1, OnBetween
<1>6. Alone(p)
  BY <1>1, <1>3 DEF TInv, Functions_, Alone, Idle, Acts, GoOn
<1>7. Calling(p)'
  BY <1>2, <1>3, <1>5, OnConnected DEF Calling
<1>8. RunsFollow(p)
  <2>1. \A q : q # r => Carries(p, q)
    BY <1>1, MarksStay DEF Carries
  <2> QED BY <1>3, <1>4, <2>1 DEF RunsFollow, IsMarked, TInv, TFile, IsSeq
<1>9. StoredGrows
  BY <1>3 DEF TInv, TFile, StoredGrows, IsSeq
<1>10. \A e \in events'[p] : IsEvent(e)
  BY <1>1 DEF TInv
<1> QED BY <1>3, <1>6, <1>7, <1>8, <1>9, <1>10 DEF IsTStep

------------------------------------------------------------------------------
\* What changes events.

\* One of the events of a process changes from e to f, and nothing else.
Replaces(p, e, f) ==
  /\ e \in events[p] /\ f.run = e.run /\ IsEvent(f)
  /\ events' = [events EXCEPT ![p] = (events[p] \ {e}) \cup {f}]

LEMMA ReplacedTStep ==
  ASSUME TInv, NEW p \in Process, Acts(p), NEW e, NEW f, Replaces(p, e, f),
         DiskGrows, StoredGrows, Runs' = Runs,
         UNCHANGED <<conns, status, session, run_id, made, region, todo>>,
         \A o, r : Rest(todo[p], 1, o, r) /\ Reached(p, o, r) => Reached(p, o, r)'
  PROVE  IsTStep(p)
<1>1. Alone(p)
  BY DEF TInv, Functions_, Alone, Idle, Acts, Replaces
<1>2. \A x \in events'[p] : IsEvent(x)
  BY DEF TInv, Functions_, Replaces
<1>3. Calling(p)'
  <2>1. (Opens(p) => Opens(p)') /\ (Connected(p) => Connected(p)')
    BY SameFiles DEF Acts
  <2> QED BY <2>1, SameCall DEF TInv
<1>4. RunsFollow(p)
  <2>1. \A r : Carries(p, r)
    BY DEF Carries, Executing
  <2> QED BY <2>1 DEF RunsFollow, TInv, TFile, IsSeq
<1> QED BY <1>1, <1>2, <1>3, <1>4 DEF IsTStep

\* An event of a run that is ended is one that has its times.
LEMMA KernelTStep ==
  ASSUME TInv, NEW p \in Process, Acts(p), KernelEnds(p)
  PROVE  IsTStep(p)
<1>1. PICK e \in events[p] :
        /\ ~e.done /\ ~e.out
        /\ events' = [events EXCEPT ![p] = (@ \ {e}) \cup {[e EXCEPT !.done = TRUE]}]
        /\ UNCHANGED <<disk, conns, status, session, run_id, made, region, todo>>
  BY DEF KernelEnds
<1> PICK f : f = [e EXCEPT !.done = TRUE]
  BY Zenon
<1>2. IsEvent(e)
  BY DEF TInv
<1>3. f = [id |-> e.id, run |-> e.run, device |-> e.device, on |-> e.on,
           done |-> TRUE, out |-> e.out]
  BY <1>2, EventChanges DEF IsEvent
<1>4. IsEvent(f) /\ f.run = e.run /\ f.done = TRUE /\ f.out = FALSE /\ e.done = FALSE
  BY <1>1, <1>2, <1>3 DEF IsEvent
<1>5. Replaces(p, e, f) /\ events'[p] = (events[p] \ {e}) \cup {f}
  BY <1>1, <1>4 DEF Replaces, TInv, Functions_
<1>6. DiskGrows /\ Runs' = Runs /\ Stored' = Stored
  BY <1>1, SameDisk
<1>7. StoredGrows
  BY <1>6 DEF TInv, TFile, StoredGrows, IsSeq
<1>8. ASSUME NEW o, NEW r, Reached(p, o, r)
      PROVE  Reached(p, o, r)'
  <2>1. Profiled(r) => Profiled(r)'
    BY <1>7, ProfiledStays
  <2>2. o = 4 => \E x \in events'[p] : x.run = r /\ x.out = FALSE
    <3>1. ASSUME o = 4
          PROVE  \E x \in events'[p] : x.run = r /\ x.out = FALSE
      <4>1. PICK x \in events[p] : x.run = r /\ x.out = FALSE
        BY <1>8, <3>1 DEF Reached
      <4> QED BY <1>4, <1>5, <4>1
    <3> QED BY <3>1
  <2>3. o = 5 => \E x \in events'[p] : x.run = r /\ x.done = TRUE /\ (x.out = TRUE => Profiled(r)')
    <3>1. ASSUME o = 5
          PROVE  \E x \in events'[p] : x.run = r /\ x.done = TRUE /\ (x.out = TRUE => Profiled(r)')
      <4>1. PICK x \in events[p] : x.run = r /\ x.done = TRUE /\ (x.out = TRUE => Profiled(r))
        BY <1>8, <3>1 DEF Reached
      <4>2. x \in events'[p]
        BY <1>4, <1>5, <4>1
      <4> QED BY <2>1, <4>1, <4>2
    <3> QED BY <3>1
  <2> QED BY <1>1, <1>8, <2>1, <2>2, <2>3 DEF Reached
<1> QED BY <1>1, <1>5, <1>6, <1>7, <1>8, ReplacedTStep

LEMMA StoreTStep ==
  ASSUME TInv, NEW p \in Process, Acts(p), acc_profiling_release_event(p)
  PROVE  IsTStep(p)
<1>1. PICK e \in events[p] :
        /\ Insert(p, Profile, "Events", EventRow(e))
        /\ events' = [events EXCEPT ![p] = (@ \ {e}) \cup {[e EXCEPT !.out = TRUE]}]
  BY DEF acc_profiling_release_event
<1>2. /\ At(p, "release") /\ Calling(p) /\ Functions_
      /\ UNCHANGED <<status, session, run_id, made, region, todo>>
  BY DEF acc_profiling_release_event, TInv
<1> PICK f, row : f = [e EXCEPT !.out = TRUE] /\ row = EventRow(e)
  BY Zenon
<1>3. IsEvent(e)
  BY DEF TInv
<1>4. f = [id |-> e.id, run |-> e.run, device |-> e.device, on |-> e.on,
           done |-> e.done, out |-> TRUE]
  BY <1>3, EventChanges DEF IsEvent
<1>5. IsEvent(f) /\ f.run = e.run /\ f.done = e.done /\ f.out = TRUE
  BY <1>3, <1>4 DEF IsEvent
<1>6. Replaces(p, e, f) /\ events'[p] = (events[p] \ {e}) \cup {f}
  BY <1>1, <1>2, <1>5 DEF Replaces, Functions_
<1>7. Connected(p)
  BY <1>2, ShapeOf
<1>8. conns' = conns /\ Runs' = Runs /\ Stored' = Append(Stored, row)
  <2>1. Insert(p, Profile, "Events", row)
    BY <1>1
  <2> QED BY <1>2, <1>7, <2>1, InsertFacts DEF Runs, Stored, Rows
<1>9. DiskGrows
  BY <1>1, <1>7, WrittenGrows DEF Insert
<1>10. /\ IsSeq(Append(Stored, row)) /\ Len(Stored) \in Nat
       /\ DOMAIN Stored = 1 .. Len(Stored) /\ DOMAIN Append(Stored, row) = 1 .. Len(Stored) + 1
       /\ \A i \in DOMAIN Stored : Append(Stored, row)[i] = Stored[i]
       /\ Append(Stored, row)[Len(Stored) + 1] = row
  BY AppendFacts DEF TInv, TFile
<1>11. StoredGrows
  BY <1>8, <1>10 DEF StoredGrows, IsSeq
<1>12. e.done = TRUE => Profiled(e.run)'
  <2>1. row.run = e.run /\ row.measured = e.done
    BY DEF EventRow
  <2>2. Len(Stored) + 1 \in DOMAIN Append(Stored, row)
    BY <1>10
  <2> QED BY <1>8, <1>10, <2>1, <2>2 DEF Profiled
<1>13. ASSUME NEW o, NEW r, Rest(todo[p], 1, o, r), Reached(p, o, r)
       PROVE  Reached(p, o, r)'
  <2>1. Profiled(r) => Profiled(r)'
    BY <1>11, ProfiledStays
  <2>2. o = 5 => \E x \in events'[p] : x.run = r /\ x.done = TRUE /\ (x.out = TRUE => Profiled(r)')
    <3>1. ASSUME o = 5
          PROVE  \E x \in events'[p] : x.run = r /\ x.done = TRUE /\ (x.out = TRUE => Profiled(r)')
      <4>1. PICK x \in events[p] : x.run = r /\ x.done = TRUE /\ (x.out = TRUE => Profiled(r))
        BY <1>13, <3>1 DEF Reached
      <4>2. CASE x = e
        BY <1>5, <1>6, <1>12, <4>1, <4>2
      <4>3. CASE x # e
        BY <1>6, <2>1, <4>1, <4>3
      <4> QED BY <4>2, <4>3
    <3> QED BY <3>1
  <2>3. o # 4
    <3>1. ASSUME o = 4
          PROVE  FALSE
      <4>1. IsSeq(todo[p]) /\ todo[p][1].op = "release"
        BY <1>2, HeadStep
      <4>2. Rest(todo[p], 1, 4, r) /\ 4 \in 1 .. 6
        BY <1>13, <3>1
      <4>3. todo[p][1] = ExecuteRun(r)[4]
        BY <4>1, <4>2, RestOn
      <4> QED BY <4>1, <4>3, RunOps
    <3> QED BY <3>1
  <2> QED BY <1>2, <1>13, <2>1, <2>2, <2>3 DEF Reached
<1> QED BY <1>2, <1>6, <1>8, <1>9, <1>11, <1>13, ReplacedTStep

\* When the events are cleared each of them is in the file.
LEMMA ClearTStep ==
  ASSUME TInv, NEW p \in Process, Acts(p), ClearEvents(p)
  PROVE  IsTStep(p)
<1>1. /\ At(p, "release") /\ GoOn(p) /\ Calling(p) /\ Functions_
      /\ \A e \in events[p] : e.out
      /\ events' = [events EXCEPT ![p] = {}]
      /\ UNCHANGED <<disk, conns, status, session, run_id, made, region>>
  BY DEF ClearEvents, TInv
<1>2. /\ Closes(todo[p]) \/ Executes(p)
      /\ IsSeq(todo[p]) /\ todo[p] # <<>> /\ todo[p][1].op = "release"
  BY <1>1, ShapeOf, HeadStep
<1>3. Alone(p) /\ conns'[p] = conns[p] /\ todo'[p] = Tail(todo[p]) /\ status'[p] = status[p]
      /\ events'[p] = {}
  BY <1>1 DEF TInv, Functions_, Alone, Idle, Acts, GoOn
<1>4. DiskGrows /\ Runs' = Runs /\ Stored' = Stored
  BY <1>1, SameDisk
<1>5. Connected(p)'
  <2>1. Connected(p)
    BY <1>1, ShapeOf
  <2> QED BY <1>3, <1>4, <2>1, OnConnected
<1>6. Calling(p)'
  <2>1. CASE Executes(p)
    <3>1. Begun(p, 5)
      BY <1>1, <2>1, InRun
    <3>2. PICK r \in Targets(p) : Rest(todo[p], 1, 5, r) /\ Reached(p, 5, r)
      BY <3>1 DEF Begun
    <3>3. Profiled(r)
      BY <1>1, <3>2 DEF Reached, TInv, IsEvent
    <3>4. Reached(p, 5 + 1, r)'
      BY <1>4, <3>3 DEF Reached, Profiled
    <3>5. Executes(p)'
      <4>1. status'[p] = "up" /\ 5 \in 1 .. 5
        BY <1>3, <2>1 DEF Executes
      <4> QED BY <1>1, <2>1, <3>2, <3>4, <4>1, OnInRun
    <3> QED BY <1>5, <3>5 DEF Calling
  <2>2. CASE Closes(todo[p])
    <3> PICK t : t = todo[p]
      BY Zenon
    <3>1. t = <<Plain("close")>> => t[1].op = "close"
      BY One, Ops
    <3>2. t = <<Plain("release")>> \/ t = <<Plain("release"), Plain("close")>>
      BY <1>2, <2>2, <3>1, Ops DEF Closes
    <3>3. Tail(t) = <<>> \/ Tail(t) = <<Plain("close")>>
      <4>1. t = <<Plain("release")>> => Tail(t) = <<>>
        BY ONLY Shapes
      <4>2. t = <<Plain("release"), Plain("close")>> => Tail(t) = <<Plain("close")>>
        BY ONLY Shapes
      <4> QED BY <3>2, <4>1, <4>2, Zenon
    <3>4. Closes(todo[p])'
      BY <1>3, <3>3 DEF Closes
    <3> QED BY <1>5, <3>4 DEF Calling
  <2> QED BY <1>2, <2>1, <2>2
<1>7. \A r : Carries(p, r)
  BY <1>1, GoOnCarries
<1> QED BY <1>3, <1>4, <1>6, <1>7, QuietTStep

------------------------------------------------------------------------------
\* Others.

\* Nobody of the library acts.
LEMMA OutsideKeeps ==
  ASSUME TInv, UNCHANGED <<conns, status, session, own, cut>>, Stored' = Stored, TFile',
         \A p \in Process : (Opens(p) => Opens(p)') /\ (Connected(p) => Connected(p)'),
         \A r \in DOMAIN Runs' : Runs'[r].executed \in {2, 3} => r \in DOMAIN Runs /\ Runs'[r] = Runs[r]
  PROVE  TInv'
<1>1. UNCHANGED <<run_id, events, made, region, todo>>
  BY DEF own
<1>2. Functions_'
  BY <1>1 DEF TInv, Functions_
<1>3. \A r : Profiled(r) => Profiled(r)'
  BY DEF Profiled
<1>4. ASSUME NEW p \in Process
      PROVE  Calling(p)' /\ \A e \in events'[p] : IsEvent(e)
  <2>1. \A o, r : Reached(p, o, r) => Reached(p, o, r)'
    BY <1>1, <1>3 DEF Reached
  <2>2. Calling(p)'
    BY <1>1, <2>1, SameCall DEF TInv
  <2> QED BY <1>1, <2>2 DEF TInv
<1>5. \A r \in DOMAIN Runs' : Runs'[r].executed = 3 => Profiled(r)'
  BY <1>3 DEF TInv
<1>6. StuckOnlyByCrash'
  <2>1. \A p, r : Executing(p, r) => Executing(p, r)'
    BY <1>1 DEF Executing
  <2> QED BY <2>1 DEF TInv, StuckOnlyByCrash
<1> QED BY <1>2, <1>4, <1>5, <1>6 DEF TInv, IsEvent

LEMMA CompileKeeps ==
  ASSUME TInv, Compile, UNCHANGED cut
  PROVE  TInv'
<1>1. /\ disk' = With(disk, Versions, Compilation(compiled + 1))
      /\ compiled' = compiled + 1
      /\ crossed' = \E p \in Process : At(p, "save")
      /\ UNCHANGED <<conns, status, session, own, run_id, events, made, region, todo>>
  BY DEF Compile, own
<1>2. /\ Versions \in DOMAIN disk' /\ DOMAIN disk \subseteq DOMAIN disk'
      /\ disk'[Versions] = Compilation(compiled + 1)
      /\ \A f \in DOMAIN disk : f # Versions => disk'[f] = disk[f]
      /\ \A f \in DOMAIN disk' : f # Versions => f \in DOMAIN disk
  BY <1>1 DEF With
<1>3. Runs' = Runs /\ Stored' = Stored
  <2>1. Content(Profile)' = Content(Profile)
    BY <1>2, FilesDiffer DEF Content
  <2> QED BY <2>1, SameContent
<1>4. TFile'
  <2>1. compiled' \in Nat /\ compiled' > 0 /\ compiled' \in 1 .. compiled'
    BY <1>1 DEF TInv, TFile
  <2>2. VersionsKept'
    BY <1>1, <1>2, <2>1 DEF VersionsKept, Compilation
  <2> QED BY <1>2, <1>3, <2>1, <2>2 DEF TFile, TInv, IsSeq
<1>5. ASSUME NEW p \in Process
      PROVE  (Opens(p) => Opens(p)') /\ (Connected(p) => Connected(p)')
  <2>1. Connected(p) => Connected(p)'
    BY <1>1, <1>2 DEF Connected
  <2>2. todo[p] = <<Plain("save"), Plain("open")>> => crossed' = TRUE
    <3>1. todo[p] = <<Plain("save"), Plain("open")>> => At(p, "save")
      BY Shapes, Ops DEF At
    <3> QED BY <1>1, <3>1
  <2>3. todo[p] = <<Plain("save"), Plain("open")>> /\ Loaded(p) => Loaded(p)'
    <3>1. \A db : IsCompiled(db) => \E k \in 1 .. compiled' : db = Compilation(k)
      BY <1>1 DEF IsCompiled, TInv, TFile
    <3> QED BY <1>1, <1>2, <2>2, <3>1 DEF Loaded, IsCompiled, Compilation
  <2>4. Opens(p) => Opens(p)'
    BY <1>1, <2>3 DEF Opens
  <2> QED BY <2>1, <2>4
<1> QED BY <1>1, <1>3, <1>4, <1>5, OutsideKeeps

LEMMA ChooseKeeps ==
  ASSUME TInv, NEW r \in DOMAIN Runs, Choose(r), UNCHANGED thistory
  PROVE  TInv'
<1>1. /\ disk' = [disk EXCEPT ![Profile] = Executed(@, r, 1)]
      /\ UNCHANGED <<conns, status, session, own, run_id, events, made, region, todo>>
      /\ UNCHANGED <<compiled, crossed, cut>>
  BY DEF Choose, own, thistory
<1>2. Profile \in DOMAIN disk
  BY EmptyIsSeq DEF Runs, RowsOf, Content, NoTables
<1> PICK db, new : db = Content(Profile) /\ new = Executed(db, r, 1)
  BY Zenon
<1>3. Content(Profile)' = new /\ DiskGrows
  BY <1>1, <1>2, FilesDiffer DEF Content, DiskGrows
<1>4. Runs = RowsOf(db, "Runs") /\ Stored = RowsOf(db, "Events")
  BY DEF Runs, Stored
<1>5. Runs' = RowsOf(new, "Runs") /\ Stored' = RowsOf(new, "Events")
  BY <1>3 DEF Runs, Stored
<1>6. IsMarked(Runs, Runs', r, 1) /\ Stored' = Stored
  <2>1. IsSeq(Runs) /\ "executed" \in DOMAIN Runs[r]
    BY DEF TInv, TFile
  <2> QED BY <1>4, <1>5, <2>1, ExecutedFacts
<1>7. TFile'
  <2>1. /\ DOMAIN disk' = DOMAIN disk
        /\ Versions \in DOMAIN disk => disk'[Versions] = disk[Versions]
    BY <1>1, FilesDiffer
  <2>2. VersionsKept' /\ compiled' \in Nat /\ (compiled' > 0 <=> Versions \in DOMAIN disk')
    BY <1>1, <2>1 DEF VersionsKept, TInv, TFile, Compilation
  <2> QED BY <1>6, <2>2 DEF TFile, TInv, IsSeq, IsMarked
<1>8. \A p \in Process : (Opens(p) => Opens(p)') /\ (Connected(p) => Connected(p)')
  BY <1>1, <1>3, SameFiles
<1>9. \A q \in DOMAIN Runs' : Runs'[q].executed \in {2, 3} => q \in DOMAIN Runs /\ Runs'[q] = Runs[q]
  BY <1>6 DEF IsMarked
<1> QED BY <1>1, <1>6, <1>7, <1>8, <1>9, OutsideKeeps

LEMMA StutterKeeps ==
  ASSUME TInv, UNCHANGED tvars
  PROVE  TInv'
<1>1. /\ UNCHANGED <<disk, conns, status, session, own, run_id, events, made, region, todo>>
      /\ UNCHANGED <<compiled, crossed, cut>>
  BY DEF tvars, pvars, own, thistory
<1>2. Runs' = Runs /\ Stored' = Stored /\ DiskGrows
  BY <1>1, SameDisk
<1>3. TFile'
  BY <1>1, <1>2 DEF TFile, TInv, VersionsKept, Compilation, IsSeq
<1>4. \A p \in Process : (Opens(p) => Opens(p)') /\ (Connected(p) => Connected(p)')
  BY <1>1, <1>2, SameFiles
<1> QED BY <1>1, <1>2, <1>3, <1>4, OutsideKeeps

------------------------------------------------------------------------------
\* The specification.

LEMMA InitTInv ==
  ASSUME TInit
  PROVE  TInv
<1>1. /\ PInit /\ compiled = 0 /\ crossed = FALSE /\ cut = {}
  BY DEF TInit
<1>2. Functions_
  BY <1>1 DEF PInit, Functions_, NoConns
<1>3. Content(Profile) = <<>>
  BY <1>1 DEF PInit, Content, NoTables
<1>4. Runs = <<>> /\ Stored = <<>>
  BY <1>3 DEF Runs, Stored, RowsOf
<1>5. TFile
  <2>1. Versions \notin DOMAIN disk
    BY <1>1 DEF PInit
  <2> QED BY <1>1, <1>4, <2>1, EmptyIsSeq DEF TFile, VersionsKept
<1>6. \A p \in Process : Calling(p) /\ events[p] = {}
  BY <1>1 DEF PInit, Calling, Closes
<1> QED BY <1>2, <1>4, <1>5, <1>6, EmptyIsSeq DEF TInv, StuckOnlyByCrash

LEMMA ProcessTStep ==
  ASSUME TInv, ProfilingAssumption, TunerAssumption, NEW p \in Process, Acts(p), OfProcess(p)
  PROVE  IsTStep(p)
<1>1. CASE Steps(p)
  BY <1>1, OpenTStep, NeedTStep, CreateTStep, InsertTStep, FlagTStep, NewRunTStep, StoreTStep,
     ClearTStep, CloseTStep, DiesTStep DEF Steps
<1>2. CASE TunerSteps(p)
  BY <1>2, LoadTStep, SaveTStep, CountTStep, ReadTStep, BeginTStep, StartRegionTStep, LaunchTStep,
     StopRegionTStep, EndTStep, TransferTStep DEF TunerSteps
<1>3. CASE TunerCalls(p)
  BY <1>3, InitTStep, ExperimentTStep, GenerateTStep, ExecuteTStep, ReleaseTStep, ExitTStep DEF TunerCalls
<1>4. CASE StartTuner(p) \/ Dies(p) \/ ExitsWithin(p) \/ KernelEnds(p)
  BY <1>4, StartTStep, DiesTStep, ExitTStep, KernelTStep
<1> QED BY <1>1, <1>2, <1>3, <1>4 DEF OfProcess

LEMMA NextKeepsTInv ==
  ASSUME TInv, ProfilingAssumption, TunerAssumption, [TNext]_tvars
  PROVE  TInv'
<1>1. CASE \E p \in Process : OfProcess(p) /\ Acts(p)
  BY <1>1, ProcessTStep, StepKeepsTInv
<1>2. CASE Compile /\ UNCHANGED cut
  BY <1>2, CompileKeeps
<1>3. CASE (\E r \in DOMAIN Runs : Choose(r)) /\ UNCHANGED thistory
  BY <1>3, ChooseKeeps
<1>4. CASE UNCHANGED tvars
  BY <1>4, StutterKeeps
<1> QED BY <1>1, <1>2, <1>3, <1>4 DEF TNext, Acts

\* The invariant of the tuner: what is left of each call is a call's, and what
\* an execution has achieved, the file and the histories agree.
THEOREM TunerInv == TSpec => []TInv
<1>1. TInit => TInv
  BY InitTInv
<1>2. TInv /\ [TNext]_tvars => TInv'
  BY NextKeepsTInv, ProfilingAssumption, TunerAssumption
<1> QED BY <1>1, <1>2, PTL DEF TSpec

\* A run that the file says was executed has an event with times there:
\* acc_tuning_execute sets the mark only after the event of the run's kernel is
\* stored, and no interruption and no other process undoes either.
THEOREM DoneAlwaysProfiled == TSpec => []DoneIsProfiled
<1>1. TInv => DoneIsProfiled
  BY DEF TInv, DoneIsProfiled, Profiled
<1> QED BY <1>1, TunerInv, PTL

\* A run that is marked as begun is being executed by some process, or the
\* process that executed it has ended before it was through with it.
THEOREM StuckOnlyByInterruption == TSpec => []StuckOnlyByCrash
<1>1. TInv => StuckOnlyByCrash
  BY DEF TInv
<1> QED BY <1>1, TunerInv, PTL

\* The database of versions is a whole compilation at any time, however many
\* processes load it and save it again in acc_load_ocl_sources, and it is the
\* last one unless that was written while some process had it loaded.
THEOREM VersionsAlwaysKept == TSpec => []VersionsKept
<1>1. TInv => VersionsKept
  BY DEF TInv, TFile
<1> QED BY <1>1, TunerInv, PTL

------------------------------------------------------------------------------
\* What the generation lists.

\* The sequence has each element of the set, once.
Enumerates(l, S) ==
  /\ l \in Seq(S)
  /\ \A x \in S : \E k \in 1 .. Len(l) : l[k] = x
  /\ \A i, j \in 1 .. Len(l) : l[i] = l[j] => i = j

LEMMA EnumerationFacts ==
  ASSUME NEW S, NEW l, Enumerates(l, S)
  PROVE  /\ Len(l) \in Nat /\ DOMAIN l = 1 .. Len(l)
         /\ l \in [1 .. Len(l) -> S]
         /\ \A k \in 1 .. Len(l) : l[k] \in S
         /\ \A i, j \in 1 .. Len(l) : l[i] = l[j] => i = j
<1>1. l \in Seq(S)
  BY DEF Enumerates
<1> QED BY <1>1 DEF Enumerates

LEMMA ListedOnce ==
  ASSUME NEW S, NEW l, Enumerates(l, S)
  PROVE  EachOnce(l, S)
<1> PICK n : n = Len(l)
  BY Zenon
<1>1. n \in Nat /\ l \in [1 .. n -> S]
  BY DEF Enumerates
<1>2. ToSet(l) = S
  BY <1>1 DEF Enumerates, ToSet
<1>3. l \in Bijection(1 .. n, S)
  <2>1. \A i, j \in 1 .. n : l[i] = l[j] => i = j
    BY EnumerationFacts
  <2>2. \A x \in S : \E k \in 1 .. n : l[k] = x
    BY DEF Enumerates
  <2>3. l \in Injection(1 .. n, S) /\ l \in Surjection(1 .. n, S)
    BY <1>1, <2>1, <2>2 DEF Injection, IsInjective, Surjection
  <2> QED BY <2>3 DEF Bijection
<1>4. IsFiniteSet(1 .. n) /\ Cardinality(1 .. n) = n
  <2>1. 1 \in Int /\ n \in Int /\ (1 > n <=> n = 0) /\ n - 1 + 1 = n
    BY <1>1
  <2> QED BY <1>1, <2>1, FS_Interval
<1>5. Cardinality(S) = n
  <2>1. ExistsBijection(1 .. n, S)
    BY <1>3 DEF ExistsBijection
  <2> QED BY <1>4, <2>1, FS_Bijection
<1> QED BY <1>2, <1>5 DEF EachOnce

\* A list of lists of disjoint sets lists their union.
LEMMA JoinedLists ==
  ASSUME NEW S, NEW n \in Nat, NEW ss, NEW P, DOMAIN ss = 1 .. n, ss = [i \in 1 .. n |-> ss[i]],
         \A i \in 1 .. n : Enumerates(ss[i], P[i]) /\ P[i] \subseteq S,
         \A i, j \in 1 .. n : \A x \in P[i] \cap P[j] : i = j,
         \A x : x \in S <=> \E i \in 1 .. n : x \in P[i]
  PROVE  Enumerates(Joined(ss), S)
<1>1. ss \in [1 .. n -> Seq(S)]
  <2>1. ASSUME NEW i \in 1 .. n PROVE ss[i] \in Seq(S)
    <3>1. ss[i] \in Seq(P[i]) /\ P[i] \subseteq S
      BY DEF Enumerates
    <3> QED BY <3>1
  <2> QED BY <2>1
<1>2. PICK c : Lengths(c, n, ss)
  BY <1>1, LengthsExist
<1> PICK s : s = Joined(ss)
  BY Zenon
<1>3. FlatTo(s, n, c, ss, S)
  BY <1>1, <1>2, FlattenFacts DEF Joined
<1>4. /\ s \in Seq(S) /\ Len(s) = c[n]
      /\ \A a \in 1 .. n : \A m \in 1 .. Len(ss[a]) : c[a - 1] + m \in 1 .. c[n] /\ s[c[a - 1] + m] = ss[a][m]
      /\ \A k \in 1 .. c[n] : \E a \in 1 .. n : \E m \in 1 .. Len(ss[a]) : k = c[a - 1] + m
  BY <1>3 DEF FlatTo
<1>5. ASSUME NEW x \in S
      PROVE  \E k \in 1 .. Len(s) : s[k] = x
  <2>1. PICK a \in 1 .. n : x \in P[a]
    OBVIOUS
  <2>2. PICK m \in 1 .. Len(ss[a]) : ss[a][m] = x
    BY <2>1 DEF Enumerates
  <2>3. c[a - 1] + m \in 1 .. Len(s) /\ s[c[a - 1] + m] = x
    BY <1>4, <2>2
  <2> QED BY <2>3, Zenon
<1>6. ASSUME NEW k \in 1 .. Len(s), NEW q \in 1 .. Len(s), s[k] = s[q]
      PROVE  k = q
  <2>1. PICK a \in 1 .. n : \E m \in 1 .. Len(ss[a]) : k = c[a - 1] + m
    BY <1>4
  <2>2. PICK m \in 1 .. Len(ss[a]) : k = c[a - 1] + m
    BY <2>1
  <2>3. PICK b \in 1 .. n : \E m2 \in 1 .. Len(ss[b]) : q = c[b - 1] + m2
    BY <1>4
  <2>4. PICK m2 \in 1 .. Len(ss[b]) : q = c[b - 1] + m2
    BY <2>3
  <2>5. ss[a][m] = ss[b][m2]
    BY <1>4, <1>6, <2>2, <2>4
  <2>6. ss[a][m] \in P[a] /\ ss[b][m2] \in P[b]
    BY EnumerationFacts
  <2>7. a = b
    BY <2>5, <2>6
  <2>8. m = m2
    BY <2>5, <2>7, EnumerationFacts
  <2> QED BY <2>2, <2>4, <2>7, <2>8
<1> QED BY <1>4, <1>5, <1>6 DEF Enumerates

\* One element more in front of each.
InFront(l, x) == [r \in DOMAIN l |-> <<x>> \o l[r]]
AllInFront(S, x) == {<<x>> \o s : s \in S}

LEMMA Prefixed ==
  ASSUME NEW V, NEW S, S \subseteq Seq(V), NEW l, Enumerates(l, S), NEW x \in V
  PROVE  Enumerates(InFront(l, x), AllInFront(S, x))
<1> PICK n, T : n = Len(l) /\ T = {<<x>> \o s : s \in S}
  BY Zenon
<1>1. n \in Nat /\ DOMAIN l = 1 .. n /\ \A r \in 1 .. n : l[r] \in S
  BY DEF Enumerates
<1> PICK m : m = [r \in 1 .. n |-> <<x>> \o l[r]]
  BY Zenon
<1>2. m \in Seq(T) /\ Len(m) = n /\ \A r \in 1 .. n : m[r] = <<x>> \o l[r]
  <2>1. \A r \in 1 .. n : <<x>> \o l[r] \in T
    BY <1>1
  <2>2. m \in [1 .. n -> T]
    BY <2>1
  <2>3. m \in Seq(T) /\ Len(m) = n
    BY ONLY <1>1, <2>2
  <2>4. \A r \in 1 .. n : m[r] = <<x>> \o l[r]
    BY Zenon
  <2> QED BY <2>3, <2>4
<1>3. ASSUME NEW t \in T PROVE \E k \in 1 .. n : m[k] = t
  <2>1. PICK s \in S : t = <<x>> \o s
    OBVIOUS
  <2>2. PICK k \in 1 .. n : l[k] = s
    BY DEF Enumerates
  <2> QED BY <1>2, <2>1, <2>2
<1>4. ASSUME NEW i \in 1 .. n, NEW j \in 1 .. n, m[i] = m[j]
      PROVE  i = j
  <2>1. <<x>> \o l[i] = <<x>> \o l[j] /\ l[i] \in Seq(V) /\ l[j] \in Seq(V) /\ <<x>> \in Seq(V)
    BY <1>1, <1>2, <1>4
  <2>2. l[i] = l[j]
    BY <2>1, ConcatSimplifications
  <2> QED BY <2>2, EnumerationFacts
<1>5. Enumerates(m, T)
  <2>1. \A i, j \in 1 .. Len(m) : m[i] = m[j] => i = j
    BY ONLY <1>2, <1>4
  <2>2. \A t \in T : \E k \in 1 .. Len(m) : m[k] = t
    BY <1>2, <1>3
  <2> QED BY <1>2, <2>1, <2>2 DEF Enumerates
<1>6. m = InFront(l, x) /\ T = AllInFront(S, x)
  BY <1>1 DEF InFront, AllInFront
<1> QED BY <1>5, <1>6

LEMMA InFrontType ==
  ASSUME NEW A, NEW rest \in Seq(Seq(A)), NEW x \in A
  PROVE  InFront(rest, x) \in Seq(Seq(A)) /\ Len(InFront(rest, x)) = Len(rest)
<1> PICK n : n = Len(rest)
  BY Zenon
<1>1. n \in Nat /\ DOMAIN rest = 1 .. n /\ \A r \in 1 .. n : rest[r] \in Seq(A)
  OBVIOUS
<1>2. \A r \in 1 .. n : <<x>> \o rest[r] \in Seq(A)
  BY <1>1
<1> PICK t : t = InFront(rest, x)
  BY Zenon
<1>3. t \in [1 .. n -> Seq(A)]
  BY <1>1, <1>2 DEF InFront
<1>4. t \in Seq(Seq(A)) /\ Len(t) = n
  BY ONLY <1>1, <1>3
<1> QED BY <1>4, Zenon

------------------------------------------------------------------------------
\* Sums.

IsSums(s, n, c) ==
  /\ s \in [0 .. n -> Nat] /\ s[0] = 0
  /\ \A k \in 1 .. n : s[k] = s[k - 1] + c[k]

LEMMA TotalFacts ==
  ASSUME NEW n \in Nat, NEW c \in [1 .. n -> Nat]
  PROVE  \E s : IsSums(s, n, c) /\ Total(c) = s[n]
<1>1. Len(c) = n
  OBVIOUS
<1> PICK step : step = [pair \in (1 .. n) \X Nat |-> pair[2] + c[pair[1]]]
  BY Zenon
<1>2. /\ step \in [(1 .. n) \X Nat -> Nat]
      /\ \A k \in 1 .. n : \A v \in Nat : step[<<k, v>>] = v + c[k]
  OBVIOUS
<1>3. PICK f : IsIterated(f, n, Nat, 0, step)
  BY <1>2, Iterated
<1> DEFINE Is(s) == s = [k \in 0 .. n |-> IF k = 0 THEN 0 ELSE s[k - 1] + c[k]]
<1>4. \A k \in 1 .. n : k - 1 \in 0 .. n /\ f[k] = f[k - 1] + c[k]
  <2>1. \A k \in 1 .. n : k - 1 \in 0 .. n
    OBVIOUS
  <2> QED BY <1>2, <1>3, <2>1 DEF IsIterated
<1>5. Is(f)
  BY <1>3, <1>4 DEF IsIterated
<1>6. Total(c) = (CHOOSE s : Is(s))[n]
  BY <1>1 DEF Total
<1> PICK s : s = CHOOSE x : Is(x)
  BY Zenon
<1>7. Is(s)
  BY <1>5
<1>8. s[0] = 0 /\ \A k \in 1 .. n : s[k] = s[k - 1] + c[k]
  <2>1. \A k \in 0 .. n : s[k] = IF k = 0 THEN 0 ELSE s[k - 1] + c[k]
    BY ONLY <1>7
  <2>2. 0 \in 0 .. n /\ \A k \in 1 .. n : k \in 0 .. n /\ k # 0
    OBVIOUS
  <2> QED BY ONLY <2>1, <2>2
<1> HIDE DEF Is
<1> DEFINE Agree == {k \in 0 .. n : s[k] = f[k]}
<1>9. \A k \in 0 .. n : k \in Agree
  <2>1. 0 \in Agree
    BY <1>3, <1>8 DEF IsIterated
  <2>2. ASSUME NEW k \in 0 .. n - 1, k \in Agree PROVE k + 1 \in Agree
    <3>1. k + 1 \in 1 .. n /\ (k + 1) - 1 = k
      OBVIOUS
    <3>2. s[k + 1] = s[k] + c[k + 1] /\ f[k + 1] = f[k] + c[k + 1]
      BY <1>4, <1>8, <3>1
    <3> QED BY <2>2, <3>1, <3>2
  <2> HIDE DEF Agree
  <2> QED BY <2>1, <2>2, SetInduction
<1>10. s[n] = f[n]
  BY <1>9
<1>11. IsSums(f, n, c)
  BY <1>3, <1>4 DEF IsSums, IsIterated
<1> QED BY <1>6, <1>10, <1>11

\* Two ways to sum up are the same.
LEMMA SumsUnique ==
  ASSUME NEW n \in Nat, NEW c, NEW s, NEW t, IsSums(s, n, c), IsSums(t, n, c)
  PROVE  s[n] = t[n]
<1> DEFINE Agree == {k \in 0 .. n : s[k] = t[k]}
<1>1. 0 \in Agree
  BY DEF IsSums
<1>2. ASSUME NEW k \in 0 .. n - 1, k \in Agree PROVE k + 1 \in Agree
  <2>1. k + 1 \in 1 .. n /\ (k + 1) - 1 = k
    OBVIOUS
  <2>2. s[k + 1] = s[k] + c[k + 1] /\ t[k + 1] = t[k] + c[k + 1]
    BY <2>1 DEF IsSums
  <2> QED BY <1>2, <2>1, <2>2
<1> HIDE DEF Agree
<1>3. n \in Agree
  BY <1>1, <1>2, SetInduction
<1> QED BY <1>3 DEF Agree

LEMMA TotalIs ==
  ASSUME NEW n \in Nat, NEW c \in [1 .. n -> Nat], NEW s, IsSums(s, n, c)
  PROVE  Total(c) = s[n] /\ Total(c) \in Nat
<1>1. PICK t : IsSums(t, n, c) /\ Total(c) = t[n]
  BY TotalFacts
<1>2. t[n] = s[n]
  BY <1>1, SumsUnique
<1>3. n \in 0 .. n
  OBVIOUS
<1> QED BY <1>1, <1>2, <1>3 DEF IsSums

\* A value in front adds to the total.
LEMMA TotalPrefixed ==
  ASSUME NEW n \in Nat, NEW c \in [1 .. n -> Nat], NEW x \in Nat
  PROVE  /\ <<x>> \o c \in [1 .. n + 1 -> Nat]
         /\ (<<x>> \o c)[1] = x
         /\ Total(<<x>> \o c) = x + Total(c) /\ Total(c) \in Nat
<1> PICK d, one : one = <<x>> /\ d = one \o c
  BY Zenon
<1>1. c \in Seq(Nat) /\ Len(c) = n /\ one \in Seq(Nat) /\ Len(one) = 1 /\ one[1] = x
  OBVIOUS
<1>2. /\ d \in Seq(Nat) /\ Len(d) = n + 1
      /\ \A k \in 1 .. n + 1 : d[k] = IF k <= 1 THEN one[k] ELSE c[k - 1]
  <2>1. /\ one \o c \in Seq(Nat) /\ Len(one \o c) = Len(one) + Len(c)
        /\ \A k \in 1 .. Len(one) + Len(c) :
             (one \o c)[k] = IF k <= Len(one) THEN one[k] ELSE c[k - Len(one)]
    BY <1>1, ConcatProperties
  <2> QED BY <1>1, <2>1
<1>3. d \in [1 .. n + 1 -> Nat] /\ d[1] = x
  BY ONLY <1>1, <1>2, n \in Nat
<1>4. PICK s : IsSums(s, n, c) /\ Total(c) = s[n]
  BY TotalFacts
<1>5. s \in [0 .. n -> Nat] /\ s[0] = 0 /\ \A k \in 1 .. n : s[k] = s[k - 1] + c[k]
  BY <1>4 DEF IsSums
<1> PICK t : t = [k \in 0 .. n + 1 |-> IF k = 0 THEN 0 ELSE x + s[k - 1]]
  BY Zenon
<1>6. /\ t \in [0 .. n + 1 -> Nat] /\ t[0] = 0
      /\ \A k \in 1 .. n + 1 : t[k] = x + s[k - 1]
  <2>1. \A k \in 1 .. n + 1 : k - 1 \in 0 .. n
    OBVIOUS
  <2>2. \A k \in 0 .. n : s[k] \in Nat
    BY <1>5
  <2> QED BY <2>1, <2>2
<1>7. ASSUME NEW k \in 1 .. n + 1
      PROVE  t[k] = t[k - 1] + d[k]
  <2>1. CASE k = 1
    BY <1>3, <1>5, <1>6, <2>1
  <2>2. CASE k # 1
    <3> PICK j : j = k - 1
      BY Zenon
    <3>1. j \in 1 .. n /\ j \in 1 .. n + 1 /\ j - 1 \in 0 .. n /\ ~(k <= 1) /\ j \in 0 .. n
      BY <2>2
    <3>2. t[k] = x + s[j] /\ t[j] = x + s[j - 1] /\ d[k] = c[j] /\ s[j] = s[j - 1] + c[j]
      BY <1>2, <1>5, <1>6, <3>1
    <3>3. s[j - 1] \in Nat /\ c[j] \in Nat
      BY <1>5, <3>1
    <3> QED BY <3>2, <3>3
  <2> QED BY <2>1, <2>2
<1>8. IsSums(t, n + 1, d)
  BY <1>6, <1>7 DEF IsSums
<1>9. Total(d) = t[n + 1] /\ Total(c) \in Nat
  <2>1. n + 1 \in Nat
    OBVIOUS
  <2> QED BY <1>3, <1>4, <1>8, <2>1, TotalIs
<1>10. t[n + 1] = x + s[n]
  <2>1. n + 1 \in 1 .. n + 1 /\ (n + 1) - 1 = n
    OBVIOUS
  <2> QED BY <1>6, <2>1
<1> QED BY <1>3, <1>4, <1>9, <1>10

\* A share is not more than the total.
LEMMA ShareBelowTotal ==
  ASSUME NEW n \in Nat, NEW c \in [1 .. n -> Nat]
  PROVE  \A k \in 1 .. n : c[k] <= Total(c)
<1>1. PICK s : IsSums(s, n, c) /\ Total(c) = s[n]
  BY TotalFacts
<1>2. s \in [0 .. n -> Nat] /\ s[0] = 0 /\ \A k \in 1 .. n : s[k] = s[k - 1] + c[k]
  BY <1>1 DEF IsSums
<1> TAKE k \in 1 .. n
<1> DEFINE Above == {j \in 0 .. n : k <= j => c[k] <= s[j]}
<1>3. 0 \in Above
  OBVIOUS
<1>4. ASSUME NEW j \in 0 .. n - 1, j \in Above PROVE j + 1 \in Above
  <2>1. j + 1 \in 1 .. n /\ (j + 1) - 1 = j /\ j \in 0 .. n
    OBVIOUS
  <2>2. s[j + 1] = s[j] + c[j + 1] /\ s[j] \in Nat /\ c[j + 1] \in Nat /\ c[k] \in Nat
    BY <1>2, <2>1
  <2>3. CASE k <= j
    BY <1>4, <2>1, <2>2, <2>3
  <2>4. CASE k = j + 1
    BY <2>1, <2>2, <2>4
  <2>5. CASE ~(k <= j + 1)
    BY <2>1, <2>5
  <2> QED BY <2>3, <2>4, <2>5
<1> HIDE DEF Above
<1>5. \A j \in 0 .. n : j \in Above
  BY <1>3, <1>4, SetInduction
<1>6. n \in Above
  BY <1>5
<1>7. k \in 1 .. n /\ k <= n
  OBVIOUS
<1> QED BY <1>1, <1>6, <1>7 DEF Above

------------------------------------------------------------------------------
\* The number of ways to share portions, row by row.

IsUpto(u, row, k) == u = [i \in 0 .. k |-> row[i] + (IF i = 0 THEN 0 ELSE u[i - 1])]

RunningSums(u, row, k) ==
  /\ u \in [0 .. k -> Nat] /\ u[0] = row[0]
  /\ \A i \in 1 .. k : u[i] = row[i] + u[i - 1]

CountRow(n, row, K) ==
  [k \in 0 .. K |-> IF k = 0 \/ n = 1 THEN 1 ELSE (CHOOSE u : IsUpto(u, row, k))[k]]

IsCount(f, N, K) == f = [n \in 1 .. N |-> CountRow(n, f[n - 1], K)]

Count(N, K) == CHOOSE f : IsCount(f, N, K)

LEMMA CountIs ==
  ASSUME NEW N, NEW K
  PROVE  acc_tuning_count_portion_combinaisons(K, N) = Count(N, K)[N][K]
BY DEF acc_tuning_count_portion_combinaisons, Count, IsCount, CountRow, IsUpto

LEMMA UptoFacts ==
  ASSUME NEW k \in Nat, NEW row, \A i \in 0 .. k : row[i] \in Nat
  PROVE  \E u : RunningSums(u, row, k) /\ (CHOOSE x : IsUpto(x, row, k))[k] = u[k]
<1> PICK step : step = [pair \in (1 .. k) \X Nat |-> row[pair[1]] + pair[2]]
  BY Zenon
<1>1. /\ step \in [(1 .. k) \X Nat -> Nat]
      /\ \A i \in 1 .. k : \A v \in Nat : step[<<i, v>>] = row[i] + v
      /\ row[0] \in Nat
  OBVIOUS
<1>2. PICK f : IsIterated(f, k, Nat, row[0], step)
  BY <1>1, Iterated
<1>3. RunningSums(f, row, k)
  <2>1. \A i \in 1 .. k : i - 1 \in 0 .. k
    OBVIOUS
  <2> QED BY <1>1, <1>2, <2>1 DEF IsIterated, RunningSums
<1>4. IsUpto(f, row, k)
  <2>1. f[0] = row[0] + 0 /\ f = [i \in 0 .. k |-> f[i]] /\ \A i \in 1 .. k : f[i] = row[i] + f[i - 1]
    BY <1>1, <1>3 DEF RunningSums
  <2>2. \A i \in 0 .. k : i = 0 \/ i \in 1 .. k
    OBVIOUS
  <2> QED BY <2>1, <2>2 DEF IsUpto
<1> PICK u : u = CHOOSE x : IsUpto(x, row, k)
  BY Zenon
<1>5. IsUpto(u, row, k)
  BY <1>4
<1>6. u[0] = row[0] + 0 /\ \A i \in 1 .. k : u[i] = row[i] + u[i - 1]
  <2>1. \A i \in 0 .. k : u[i] = row[i] + (IF i = 0 THEN 0 ELSE u[i - 1])
    BY ONLY <1>5 DEF IsUpto
  <2>2. 0 \in 0 .. k /\ \A i \in 1 .. k : i \in 0 .. k /\ i # 0
    OBVIOUS
  <2> QED BY ONLY <2>1, <2>2
<1> DEFINE Agree == {i \in 0 .. k : u[i] = f[i]}
<1>7. 0 \in Agree
  BY <1>1, <1>3, <1>6 DEF RunningSums
<1>8. ASSUME NEW i \in 0 .. k - 1, i \in Agree PROVE i + 1 \in Agree
  <2>1. i + 1 \in 1 .. k /\ (i + 1) - 1 = i
    OBVIOUS
  <2>2. u[i + 1] = row[i + 1] + u[i] /\ f[i + 1] = row[i + 1] + f[i]
    BY <1>3, <1>6, <2>1 DEF RunningSums
  <2> QED BY <1>8, <2>1, <2>2
<1> HIDE DEF Agree
<1>9. \A i \in 0 .. k : i \in Agree
  BY <1>7, <1>8, SetInduction
<1>10. k \in Agree
  BY <1>9
<1> QED BY <1>3, <1>10 DEF Agree

LEMMA CountRowType ==
  ASSUME NEW K \in Nat, NEW n, NEW row \in [0 .. K -> Nat]
  PROVE  CountRow(n, row, K) \in [0 .. K -> Nat]
<1>1. ASSUME NEW k \in 0 .. K
      PROVE  (CHOOSE u : IsUpto(u, row, k))[k] \in Nat
  <2>1. k \in Nat /\ k \in 0 .. k /\ \A i \in 0 .. k : row[i] \in Nat
    OBVIOUS
  <2>2. PICK u : RunningSums(u, row, k) /\ (CHOOSE x : IsUpto(x, row, k))[k] = u[k]
    BY <2>1, UptoFacts
  <2> QED BY <2>1, <2>2 DEF RunningSums
<1>2. 1 \in Nat
  OBVIOUS
<1> QED BY <1>1, <1>2 DEF CountRow

LEMMA FirstCountRow ==
  ASSUME NEW K, NEW row, NEW n, n = 1
  PROVE  CountRow(n, row, K) = [k \in 0 .. K |-> 1]
BY DEF CountRow

LEMMA CountFacts ==
  ASSUME NEW N \in Nat, NEW K \in Nat
  PROVE  \E f : /\ f = Count(N, K)
                /\ 1 \in 1 .. N => f[1] = [k \in 0 .. K |-> 1]
                /\ \A n \in 2 .. N : f[n] = CountRow(n, f[n - 1], K)
                /\ \A n \in 1 .. N : f[n] \in [0 .. K -> Nat]
<1> PICK V, one : V = [0 .. K -> Nat] /\ one = [k \in 0 .. K |-> 1]
  BY Zenon
<1> PICK step : step = [pair \in (1 .. N) \X V |-> CountRow(pair[1], pair[2], K)]
  BY Zenon
<1>1. /\ step \in [(1 .. N) \X V -> V] /\ one \in V
      /\ \A n \in 1 .. N : \A v \in V : step[<<n, v>>] = CountRow(n, v, K)
  <2>1. \A n \in 1 .. N : \A v \in V : CountRow(n, v, K) \in V
    BY CountRowType
  <2> QED BY <2>1
<1>2. PICK g : IsIterated(g, N, V, one, step)
  BY <1>1, Iterated
<1>3. /\ g \in [0 .. N -> V]
      /\ \A n \in 1 .. N : n - 1 \in 0 .. N /\ g[n] = CountRow(n, g[n - 1], K)
  <2>1. \A n \in 1 .. N : n - 1 \in 0 .. N
    OBVIOUS
  <2> QED BY <1>1, <1>2, <2>1 DEF IsIterated
<1> PICK h : h = [n \in 1 .. N |-> g[n]]
  BY Zenon
<1>4. ASSUME NEW n \in 1 .. N
      PROVE  h[n] = CountRow(n, h[n - 1], K)
  <2>1. CASE n = 1
    <3>1. CountRow(n, g[n - 1], K) = CountRow(n, h[n - 1], K)
      BY <2>1, FirstCountRow
    <3> QED BY <1>3, <3>1
  <2>2. CASE n # 1
    <3>1. n - 1 \in 1 .. N
      BY <2>2
    <3> QED BY <1>3, <3>1
  <2> QED BY <2>1, <2>2
<1>5. h = [n \in 1 .. N |-> CountRow(n, h[n - 1], K)]
  <2>1. h = [n \in 1 .. N |-> h[n]]
    BY ONLY h = [n \in 1 .. N |-> g[n]]
  <2> QED BY ONLY <1>4, <2>1
<1>6. IsCount(h, N, K)
  BY <1>5, Zenon DEF IsCount
<1> PICK f : f = Count(N, K)
  BY Zenon
<1>7. IsCount(f, N, K)
  BY <1>6 DEF Count
<1>8. \A n \in 1 .. N : f[n] = CountRow(n, f[n - 1], K)
  BY ONLY <1>7 DEF IsCount
<1>9. 1 \in 1 .. N => f[1] = one
  <2>1. 1 \in 1 .. N => f[1] = CountRow(1, f[1 - 1], K)
    BY <1>8, Zenon
  <2> QED BY <2>1, FirstCountRow
<1>10. \A n \in 2 .. N : n \in 1 .. N /\ f[n] = CountRow(n, f[n - 1], K)
  <2>1. \A n \in 2 .. N : n \in 1 .. N
    OBVIOUS
  <2> QED BY <1>8, <2>1
<1> DEFINE Typed == {n \in 0 .. N : n # 0 => f[n] \in V}
<1>11. 0 \in Typed
  OBVIOUS
<1>12. ASSUME NEW n \in 0 .. N - 1, n \in Typed PROVE n + 1 \in Typed
  <2>1. n + 1 \in 1 .. N /\ (n + 1) - 1 = n /\ n + 1 \in 0 .. N
    OBVIOUS
  <2>2. CASE n = 0
    <3>1. f[n + 1] = one
      BY <1>9, <2>1, <2>2
    <3> QED BY <1>1, <2>1, <3>1
  <2>3. CASE n # 0
    <3>1. f[n] \in V
      BY <1>12, <2>3
    <3>2. f[n + 1] = CountRow(n + 1, f[n], K)
      BY <1>8, <2>1
    <3> QED BY <2>1, <3>1, <3>2, CountRowType
  <2> QED BY <2>2, <2>3
<1> HIDE DEF Typed
<1>13. \A n \in 0 .. N : n \in Typed
  BY <1>11, <1>12, SetInduction
<1>14. \A n \in 1 .. N : f[n] \in V
  <2>1. \A n \in 1 .. N : n \in 0 .. N /\ n # 0
    OBVIOUS
  <2> QED BY <1>13, <2>1 DEF Typed
<1> QED BY <1>9, <1>10, <1>14

------------------------------------------------------------------------------
\* The ways to share portions.

GenRow(n, row, K) ==
  [k \in 0 .. K |->
     IF n = 1
       THEN <<(<<k>>)>>
       ELSE Joined([i \in 1 .. k + 1 |->
              LET rest == row[k - i + 1]
              IN  [r \in DOMAIN rest |-> <<i - 1>> \o rest[r]]])]

IsGen(f, N, K) == f = [n \in 1 .. N |-> GenRow(n, f[n - 1], K)]

Gen(N, K) == CHOOSE f : IsGen(f, N, K)

LEMMA GenIs ==
  ASSUME NEW N, NEW K
  PROVE  acc_tuning_gen_all_portion_combinaisons(K, N) = Gen(N, K)[N][K]
BY DEF acc_tuning_gen_all_portion_combinaisons, Gen, IsGen, GenRow

LEMMA GenRowType ==
  ASSUME NEW K \in Nat, NEW n, NEW row \in [0 .. K -> Seq(Seq(Nat))]
  PROVE  GenRow(n, row, K) \in [0 .. K -> Seq(Seq(Nat))]
<1>1. ASSUME NEW k \in 0 .. K
      PROVE  Joined([i \in 1 .. k + 1 |-> InFront(row[k - i + 1], i - 1)]) \in Seq(Seq(Nat))
  <2> PICK ss, m : ss = [i \in 1 .. k + 1 |-> InFront(row[k - i + 1], i - 1)] /\ m = k + 1
    BY Zenon
  <2>1. \A i \in 1 .. k + 1 : k - i + 1 \in 0 .. K /\ i - 1 \in Nat
    OBVIOUS
  <2>2. \A i \in 1 .. k + 1 : InFront(row[k - i + 1], i - 1) \in Seq(Seq(Nat))
    BY <2>1, InFrontType
  <2>3. m \in Nat /\ ss \in [1 .. m -> Seq(Seq(Nat))]
    BY <2>2
  <2>4. PICK c : Lengths(c, m, ss)
    BY <2>3, LengthsExist
  <2>5. FlatTo(FlattenSeq(ss), m, c, ss, Seq(Nat))
    BY <2>3, <2>4, FlattenFacts
  <2> QED BY <2>5 DEF FlatTo, Joined
<1>2. ASSUME NEW k \in 0 .. K PROVE <<(<<k>>)>> \in Seq(Seq(Nat))
  OBVIOUS
<1> QED BY <1>1, <1>2 DEF GenRow, InFront

LEMMA FirstGenRow ==
  ASSUME NEW K, NEW row, NEW n, n = 1
  PROVE  GenRow(n, row, K) = [k \in 0 .. K |-> <<(<<k>>)>>]
BY DEF GenRow

LEMMA GenFacts ==
  ASSUME NEW N \in Nat, NEW K \in Nat
  PROVE  \E f : /\ f = Gen(N, K)
                /\ 1 \in 1 .. N => f[1] = [k \in 0 .. K |-> <<(<<k>>)>>]
                /\ \A n \in 2 .. N : f[n] = GenRow(n, f[n - 1], K)
                /\ \A n \in 1 .. N : f[n] \in [0 .. K -> Seq(Seq(Nat))]
<1> PICK V, one : V = [0 .. K -> Seq(Seq(Nat))] /\ one = [k \in 0 .. K |-> <<(<<k>>)>>]
  BY Zenon
<1> PICK step : step = [pair \in (1 .. N) \X V |-> GenRow(pair[1], pair[2], K)]
  BY Zenon
<1>1. /\ step \in [(1 .. N) \X V -> V] /\ one \in V
      /\ \A n \in 1 .. N : \A v \in V : step[<<n, v>>] = GenRow(n, v, K)
  <2>1. \A n \in 1 .. N : \A v \in V : GenRow(n, v, K) \in V
    BY GenRowType
  <2>2. ASSUME NEW k \in 0 .. K PROVE <<(<<k>>)>> \in Seq(Seq(Nat))
    OBVIOUS
  <2> QED BY <2>1, <2>2
<1>2. PICK g : IsIterated(g, N, V, one, step)
  BY <1>1, Iterated
<1>3. /\ g \in [0 .. N -> V]
      /\ \A n \in 1 .. N : n - 1 \in 0 .. N /\ g[n] = GenRow(n, g[n - 1], K)
  <2>1. \A n \in 1 .. N : n - 1 \in 0 .. N
    OBVIOUS
  <2> QED BY <1>1, <1>2, <2>1 DEF IsIterated
<1> PICK h : h = [n \in 1 .. N |-> g[n]]
  BY Zenon
<1>4. ASSUME NEW n \in 1 .. N
      PROVE  h[n] = GenRow(n, h[n - 1], K)
  <2>1. CASE n = 1
    <3>1. GenRow(n, g[n - 1], K) = GenRow(n, h[n - 1], K)
      <4>1. GenRow(n, g[n - 1], K) = one /\ GenRow(n, h[n - 1], K) = one
        BY <2>1, FirstGenRow
      <4> QED BY <4>1, Zenon
    <3> QED BY <1>3, <3>1
  <2>2. CASE n # 1
    <3>1. n - 1 \in 1 .. N
      BY <2>2
    <3> QED BY <1>3, <3>1
  <2> QED BY <2>1, <2>2
<1>5. h = [n \in 1 .. N |-> GenRow(n, h[n - 1], K)]
  <2>1. h = [n \in 1 .. N |-> h[n]]
    BY ONLY h = [n \in 1 .. N |-> g[n]]
  <2> QED BY ONLY <1>4, <2>1
<1>6. IsGen(h, N, K)
  BY <1>5, Zenon DEF IsGen
<1> PICK f : f = Gen(N, K)
  BY Zenon
<1>7. IsGen(f, N, K)
  BY <1>6 DEF Gen
<1>8. \A n \in 1 .. N : f[n] = GenRow(n, f[n - 1], K)
  BY ONLY <1>7 DEF IsGen
<1>9. 1 \in 1 .. N => f[1] = one
  <2>1. 1 \in 1 .. N => f[1] = GenRow(1, f[1 - 1], K)
    BY <1>8, Zenon
  <2> QED BY <2>1, FirstGenRow
<1>10. \A n \in 2 .. N : n \in 1 .. N /\ f[n] = GenRow(n, f[n - 1], K)
  <2>1. \A n \in 2 .. N : n \in 1 .. N
    OBVIOUS
  <2> QED BY <1>8, <2>1
<1> DEFINE Typed == {n \in 0 .. N : n # 0 => f[n] \in V}
<1>11. 0 \in Typed
  OBVIOUS
<1>12. ASSUME NEW n \in 0 .. N - 1, n \in Typed PROVE n + 1 \in Typed
  <2>1. n + 1 \in 1 .. N /\ (n + 1) - 1 = n /\ n + 1 \in 0 .. N
    OBVIOUS
  <2>2. CASE n = 0
    <3>1. f[n + 1] = one
      BY <1>9, <2>1, <2>2
    <3> QED BY <1>1, <2>1, <3>1
  <2>3. CASE n # 0
    <3>1. f[n] \in V
      BY <1>12, <2>3
    <3>2. f[n + 1] = GenRow(n + 1, f[n], K)
      BY <1>8, <2>1
    <3> QED BY <2>1, <3>1, <3>2, GenRowType
  <2> QED BY <2>2, <2>3
<1> HIDE DEF Typed
<1>13. \A n \in 0 .. N : n \in Typed
  BY <1>11, <1>12, SetInduction
<1>14. \A n \in 1 .. N : f[n] \in V
  <2>1. \A n \in 1 .. N : n \in 0 .. N /\ n # 0
    OBVIOUS
  <2> QED BY <1>13, <2>1 DEF Typed
<1> QED BY <1>9, <1>10, <1>14

\* The ways to give k portions to n devices.
Shares(n, k) == {c \in [1 .. n -> Nat] : Total(c) = k}

LEMMA FirstShares ==
  ASSUME NEW k \in Nat
  PROVE  Enumerates(<<(<<k>>)>>, Shares(1, k))
<1> PICK one, l, S : one = <<k>> /\ l = <<one>> /\ S = Shares(1, k)
  BY Zenon
<1>1. one \in [1 .. 1 -> Nat] /\ one[1] = k
  OBVIOUS
<1>2. ASSUME NEW c \in [1 .. 1 -> Nat] PROVE Total(c) = c[1]
  <2>1. PICK s : IsSums(s, 1, c) /\ Total(c) = s[1]
    BY TotalFacts
  <2>2. s[0] = 0 /\ s[1] = s[1 - 1] + c[1] /\ c[1] \in Nat
    BY <2>1 DEF IsSums
  <2> QED BY <2>1, <2>2
<1>3. one \in S
  BY <1>1, <1>2 DEF Shares
<1>4. ASSUME NEW c \in S PROVE c = one
  <2>1. c \in [1 .. 1 -> Nat] /\ c[1] = k
    BY <1>2 DEF Shares
  <2>2. \A i \in 1 .. 1 : c[i] = one[i]
    BY <1>1, <2>1
  <2> QED BY <1>1, <2>1, <2>2
<1>5. l \in Seq(S) /\ Len(l) = 1 /\ l[1] = one
  BY <1>3
<1> QED BY <1>4, <1>5 DEF Enumerates

\* The first device gets what the others leave.
Leaving(n, k, i) == AllInFront(Shares(n, k - i + 1), i - 1)

LEMMA SharesSplit ==
  ASSUME NEW n \in Nat \ {0}, NEW k \in Nat, NEW c
  PROVE  c \in Shares(n + 1, k) <=> \E i \in 1 .. k + 1 : c \in Leaving(n, k, i)
<1>1. ASSUME NEW i \in 1 .. k + 1, c \in Leaving(n, k, i)
      PROVE  c \in Shares(n + 1, k)
  <2>1. PICK s \in Shares(n, k - i + 1) : c = <<i - 1>> \o s
    BY <1>1 DEF Leaving, AllInFront
  <2>2. s \in [1 .. n -> Nat] /\ Total(s) = k - i + 1 /\ i - 1 \in Nat
    BY DEF Shares
  <2>3. /\ <<i - 1>> \o s \in [1 .. n + 1 -> Nat]
        /\ Total(<<i - 1>> \o s) = (i - 1) + Total(s)
    BY <2>2, TotalPrefixed
  <2>4. (i - 1) + (k - i + 1) = k
    OBVIOUS
  <2> QED BY <2>1, <2>2, <2>3, <2>4 DEF Shares
<1>2. ASSUME c \in Shares(n + 1, k)
      PROVE  \E i \in 1 .. k + 1 : c \in Leaving(n, k, i)
  <2>1. c \in [1 .. n + 1 -> Nat] /\ Total(c) = k
    BY <1>2 DEF Shares
  <2> PICK x, s, i : x = c[1] /\ s = [j \in 1 .. n |-> c[j + 1]] /\ i = x + 1
    BY Zenon
  <2>2. x \in Nat /\ s \in [1 .. n -> Nat] /\ \A j \in 1 .. n : s[j] = c[j + 1]
    BY <2>1
  <2>3. c = <<x>> \o s
    <3>1. /\ c \in Seq(Nat) /\ Len(c) = n + 1 /\ s \in Seq(Nat) /\ Len(s) = n
          /\ <<x>> \in Seq(Nat) /\ Len(<<x>>) = 1 /\ <<x>>[1] = x
      <4>1. c \in Seq(Nat) /\ Len(c) = n + 1
        BY <2>1
      <4>2. s \in Seq(Nat) /\ Len(s) = n
        BY ONLY <2>2, n \in Nat \ {0}
      <4>3. <<x>> \in Seq(Nat) /\ Len(<<x>>) = 1 /\ <<x>>[1] = x
        BY <2>2
      <4> QED BY <4>1, <4>2, <4>3
    <3> PICK d : d = <<x>> \o s
      BY Zenon
    <3>2. /\ d \in Seq(Nat) /\ Len(d) = n + 1
          /\ \A j \in 1 .. n + 1 : d[j] = IF j <= 1 THEN x ELSE s[j - 1]
      <4>1. /\ <<x>> \o s \in Seq(Nat) /\ Len(<<x>> \o s) = Len(<<x>>) + Len(s)
            /\ \A j \in 1 .. Len(<<x>>) + Len(s) :
                 (<<x>> \o s)[j] = IF j <= Len(<<x>>) THEN <<x>>[j] ELSE s[j - Len(<<x>>)]
        BY <3>1, ConcatProperties
      <4>2. \A j \in 1 .. n + 1 : j <= 1 => j = 1
        OBVIOUS
      <4> QED BY <3>1, <4>1, <4>2
    <3>3. ASSUME NEW j \in 1 .. n + 1 PROVE d[j] = c[j]
      <4>1. CASE j = 1
        BY <3>2, <4>1
      <4>2. CASE j # 1
        <5>1. j - 1 \in 1 .. n /\ (j - 1) + 1 = j /\ ~(j <= 1)
          BY <4>2
        <5> QED BY <2>2, <3>2, <5>1
      <4> QED BY <4>1, <4>2
    <3>4. d = c
      BY <3>1, <3>2, <3>3, SeqEqual
    <3> QED BY <3>4
  <2>4. k = x + Total(s) /\ Total(s) \in Nat
    BY <2>1, <2>2, <2>3, TotalPrefixed
  <2>5. i \in 1 .. k + 1 /\ i - 1 = x /\ Total(s) = k - i + 1
    BY ONLY <2>2, <2>4, i = x + 1, k \in Nat
  <2>6. s \in Shares(n, k - i + 1)
    BY <2>2, <2>5 DEF Shares
  <2>7. c \in Leaving(n, k, i)
    BY <2>3, <2>5, <2>6 DEF Leaving, AllInFront
  <2> QED BY <2>5, <2>7
<1> QED BY <1>1, <1>2

LEMMA LeavingDisjoint ==
  ASSUME NEW n \in Nat \ {0}, NEW k \in Nat, NEW i \in 1 .. k + 1, NEW j \in 1 .. k + 1,
         NEW c, c \in Leaving(n, k, i), c \in Leaving(n, k, j)
  PROVE  i = j
<1>1. ASSUME NEW m \in 1 .. k + 1, c \in Leaving(n, k, m)
      PROVE  c[1] = m - 1
  <2>1. PICK s \in Shares(n, k - m + 1) : c = <<m - 1>> \o s
    BY <1>1 DEF Leaving, AllInFront
  <2>2. s \in [1 .. n -> Nat] /\ m - 1 \in Nat
    BY DEF Shares
  <2> QED BY <2>1, <2>2, TotalPrefixed
<1>2. c[1] = i - 1 /\ c[1] = j - 1
  BY <1>1
<1> QED BY <1>2

\* The lists for one more device.
LEMMA NextShares ==
  ASSUME NEW K \in Nat, NEW n \in Nat \ {0}, NEW row \in [0 .. K -> Seq(Seq(Nat))],
         \A k \in 0 .. K : Enumerates(row[k], Shares(n, k)), NEW k \in 0 .. K
  PROVE  Enumerates(GenRow(n + 1, row, K)[k], Shares(n + 1, k))
<1> PICK ss, m, P, S : /\ ss = [i \in 1 .. k + 1 |-> InFront(row[k - i + 1], i - 1)] /\ m = k + 1
                       /\ P = [i \in 1 .. k + 1 |-> Leaving(n, k, i)] /\ S = Shares(n + 1, k)
  BY Zenon
<1>1. GenRow(n + 1, row, K)[k] = Joined(ss)
  <2>1. n + 1 # 1
    OBVIOUS
  <2> QED BY <2>1 DEF GenRow, InFront
<1>2. m \in Nat /\ k \in Nat /\ DOMAIN ss = 1 .. m /\ ss = [i \in 1 .. m |-> ss[i]]
  OBVIOUS
<1>3. ASSUME NEW i \in 1 .. m
      PROVE  Enumerates(ss[i], P[i]) /\ P[i] \subseteq S
  <2>1. k - i + 1 \in 0 .. K /\ i - 1 \in Nat /\ i \in 1 .. k + 1
    OBVIOUS
  <2> PICK T, rest : T = Shares(n, k - i + 1) /\ rest = row[k - i + 1]
    BY Zenon
  <2>2. T \subseteq Seq(Nat) /\ Enumerates(rest, T)
    <3>1. ASSUME NEW c \in [1 .. n -> Nat] PROVE c \in Seq(Nat)
      BY ONLY n \in Nat \ {0}, <3>1
    <3> QED BY <2>1, <3>1 DEF Shares
  <2>3. Enumerates(InFront(rest, i - 1), AllInFront(T, i - 1))
    BY <2>1, <2>2, Prefixed
  <2>4. ss[i] = InFront(rest, i - 1) /\ P[i] = Leaving(n, k, i)
    BY <2>1
  <2>5. P[i] \subseteq S
    BY <1>2, <2>1, <2>4, SharesSplit
  <2> QED BY <2>3, <2>4, <2>5 DEF Leaving, AllInFront
<1>4. \A i, j \in 1 .. m : \A x \in P[i] \cap P[j] : i = j
  <2> TAKE i, j \in 1 .. m
  <2> TAKE x \in P[i] \cap P[j]
  <2>1. i \in 1 .. k + 1 /\ j \in 1 .. k + 1 /\ x \in Leaving(n, k, i) /\ x \in Leaving(n, k, j)
    OBVIOUS
  <2> QED BY <1>2, <2>1, LeavingDisjoint
<1>5. \A x : x \in S <=> \E i \in 1 .. m : x \in P[i]
  <2>1. \A i \in 1 .. m : P[i] = Leaving(n, k, i)
    OBVIOUS
  <2> QED BY <1>2, <2>1, SharesSplit
<1>6. Enumerates(Joined(ss), S)
  <2>1. \A i \in 1 .. m : Enumerates(ss[i], P[i]) /\ P[i] \subseteq S
    BY <1>3
  <2> QED BY ONLY <1>2, <1>4, <1>5, <2>1, JoinedLists
<1> QED BY <1>1, <1>6

\* There are as many as the row of counts says.
LEMMA NextLengths ==
  ASSUME NEW K \in Nat, NEW n, n # 1, NEW row \in [0 .. K -> Seq(Seq(Nat))],
         NEW w \in [0 .. K -> Nat], w[0] = 1,
         \A k \in 0 .. K : Len(row[k]) = w[k], NEW k \in 0 .. K
  PROVE  Len(GenRow(n, row, K)[k]) = CountRow(n, w, K)[k]
<1> PICK ss, m : ss = [i \in 1 .. k + 1 |-> InFront(row[k - i + 1], i - 1)] /\ m = k + 1
  BY Zenon
<1>1. GenRow(n, row, K)[k] = Joined(ss)
  BY DEF GenRow, InFront
<1>2. k \in Nat /\ m \in Nat /\ ss \in [1 .. m -> Seq(Seq(Nat))]
      /\ \A i \in 1 .. m : k - i + 1 \in 0 .. K /\ Len(ss[i]) = w[k - i + 1]
  <2>1. \A i \in 1 .. m : k - i + 1 \in 0 .. K /\ i - 1 \in Nat
    OBVIOUS
  <2>2. ASSUME NEW i \in 1 .. m
        PROVE  ss[i] \in Seq(Seq(Nat)) /\ Len(ss[i]) = w[k - i + 1]
    <3>1. ss[i] = InFront(row[k - i + 1], i - 1) /\ row[k - i + 1] \in Seq(Seq(Nat))
      BY <2>1
    <3> QED BY <2>1, <3>1, InFrontType
  <2> QED BY <2>1, <2>2
<1>3. PICK c : Lengths(c, m, ss)
  BY <1>2, LengthsExist
<1>4. Len(Joined(ss)) = c[m]
  <2>1. FlatTo(FlattenSeq(ss), m, c, ss, Seq(Nat))
    BY <1>2, <1>3, FlattenFacts
  <2> QED BY <2>1 DEF FlatTo, Joined
<1>5. /\ c \in [0 .. m -> Nat] /\ c[0] = 0
      /\ \A i \in 1 .. m : c[i] = c[i - 1] + w[k - i + 1]
  BY <1>2, <1>3 DEF Lengths
<1>6. CASE k = 0
  <2>1. 1 \in 1 .. m /\ m = 1 /\ 1 - 1 = 0 /\ k - 1 + 1 = 0
    BY <1>6
  <2>2. c[1] = c[0] + w[0]
    BY ONLY <1>5, <1>6, <2>1
  <2>3. CountRow(n, w, K)[k] = 1
    BY <1>6 DEF CountRow
  <2>4. c[m] = 1
    BY ONLY <1>5, <2>1, <2>2, w[0] = 1
  <2> QED BY <1>1, <1>4, <2>3, <2>4
<1>7. CASE k # 0
  <2>1. \A i \in 0 .. k : w[i] \in Nat
    OBVIOUS
  <2>2. PICK u : RunningSums(u, w, k) /\ (CHOOSE x : IsUpto(x, w, k))[k] = u[k]
    BY <1>2, <2>1, UptoFacts
  <2>3. /\ u \in [0 .. k -> Nat] /\ u[0] = w[0]
        /\ \A i \in 1 .. k : u[i] = w[i] + u[i - 1]
    BY <2>2 DEF RunningSums
  <2>4. CountRow(n, w, K)[k] = u[k]
    BY <1>7, <2>2 DEF CountRow
  <2> DEFINE Rest_ == {i \in 0 .. k : c[i] = u[k] - u[k - i]}
  <2>5. 0 \in Rest_
    BY <1>2, <1>5, <2>3
  <2>6. ASSUME NEW i \in 0 .. k - 1, i \in Rest_ PROVE i + 1 \in Rest_
    <3>1. i + 1 \in 1 .. m /\ (i + 1) - 1 = i /\ k - (i + 1) + 1 = k - i /\ k - i \in 1 .. k
          /\ (k - i) - 1 = k - (i + 1) /\ k - (i + 1) \in 0 .. k /\ i + 1 \in 0 .. k /\ k \in 0 .. k
      BY <1>2
    <3>2. c[i + 1] = c[i] + w[k - i] /\ u[k - i] = w[k - i] + u[k - (i + 1)]
      BY <1>5, <2>3, <3>1
    <3>3. c[i] = u[k] - u[k - i] /\ u[k] \in Nat /\ u[k - (i + 1)] \in Nat /\ w[k - i] \in Nat
      BY <2>1, <2>3, <2>6, <3>1
    <3> PICK a, b, e, x, y, z : a = c[i + 1] /\ b = c[i] /\ e = w[k - i]
                                /\ x = u[k] /\ y = u[k - i] /\ z = u[k - (i + 1)]
      BY Zenon
    <3>4. a = b + e /\ y = e + z /\ b = x - y /\ x \in Nat /\ z \in Nat /\ e \in Nat
      BY <3>2, <3>3, Zenon
    <3>5. a = x - z
      BY ONLY <3>4
    <3>6. c[i + 1] = u[k] - u[k - (i + 1)]
      BY <3>5, Zenon
    <3> QED BY <3>1, <3>6
  <2> HIDE DEF Rest_
  <2>7. \A i \in 0 .. k : i \in Rest_
    BY <1>2, <2>5, <2>6, SetInduction
  <2>8. k \in 0 .. k /\ k - k = 0
    BY <1>2
  <2>9. c[k] = u[k] - u[0]
    BY <2>7, <2>8 DEF Rest_
  <2>10. m \in 1 .. m /\ m - 1 = k /\ k - m + 1 = 0
    BY <1>2
  <2>11. c[m] = c[k] + w[0]
    BY <1>5, <2>10
  <2>12. c[m] = u[k]
    <3>1. u[k] \in Nat /\ w[0] \in Nat
      BY <2>1, <2>3, <2>8
    <3> QED BY ONLY <2>3, <2>9, <2>11, <3>1
  <2> QED BY <1>1, <1>4, <2>4, <2>12
<1> QED BY <1>6, <1>7

\* The lists of shares, and their lengths, for every number of devices and of
\* portions.
LEMMA PortionLists ==
  ASSUME NEW N \in Nat \ {0}, NEW K \in Nat
  PROVE  /\ Enumerates(acc_tuning_gen_all_portion_combinaisons(K, N), Shares(N, K))
         /\ Len(acc_tuning_gen_all_portion_combinaisons(K, N))
              = acc_tuning_count_portion_combinaisons(K, N)
<1>1. PICK f : /\ f = Gen(N, K)
               /\ 1 \in 1 .. N => f[1] = [k \in 0 .. K |-> <<(<<k>>)>>]
               /\ \A n \in 2 .. N : f[n] = GenRow(n, f[n - 1], K)
               /\ \A n \in 1 .. N : f[n] \in [0 .. K -> Seq(Seq(Nat))]
  BY GenFacts
<1>2. PICK w : /\ w = Count(N, K)
               /\ 1 \in 1 .. N => w[1] = [k \in 0 .. K |-> 1]
               /\ \A n \in 2 .. N : w[n] = CountRow(n, w[n - 1], K)
               /\ \A n \in 1 .. N : w[n] \in [0 .. K -> Nat]
  BY CountFacts
<1> DEFINE Good(n) == /\ \A k \in 0 .. K : Enumerates(f[n][k], Shares(n, k))
                      /\ \A k \in 0 .. K : Len(f[n][k]) = w[n][k]
                      /\ w[n][0] = 1
           Up == {n \in 0 .. N - 1 : Good(n + 1)}
<1>3. Good(1)
  <2>1. 1 \in 1 .. N /\ 0 \in 0 .. K
    OBVIOUS
  <2>2. \A k \in 0 .. K : f[1][k] = <<(<<k>>)>> /\ w[1][k] = 1
    BY <1>1, <1>2, <2>1
  <2>3. \A k \in 0 .. K : k \in Nat /\ Len(<<(<<k>>)>>) = 1
    OBVIOUS
  <2>4. \A k \in 0 .. K : Enumerates(f[1][k], Shares(1, k))
    BY <2>2, <2>3, FirstShares
  <2>5. \A k \in 0 .. K : Len(f[1][k]) = w[1][k]
    BY <2>2, <2>3
  <2> QED BY <2>1, <2>2, <2>4, <2>5
<1>4. ASSUME NEW n \in 1 .. N - 1, Good(n)
      PROVE  Good(n + 1)
  <2>1. n \in 1 .. N /\ n + 1 \in 2 .. N /\ n \in Nat \ {0} /\ (n + 1) - 1 = n /\ n + 1 # 1 /\ 0 \in 0 .. K
    OBVIOUS
  <2> PICK row, v : row = f[n] /\ v = w[n]
    BY Zenon
  <2>2. /\ row \in [0 .. K -> Seq(Seq(Nat))] /\ v \in [0 .. K -> Nat]
        /\ f[n + 1] = GenRow(n + 1, row, K) /\ w[n + 1] = CountRow(n + 1, v, K)
    BY <1>1, <1>2, <2>1
  <2>3. /\ \A k \in 0 .. K : Enumerates(row[k], Shares(n, k))
        /\ \A k \in 0 .. K : Len(row[k]) = v[k]
        /\ v[0] = 1
    BY <1>4
  <2> HIDE DEF Good
  <2>4. \A k \in 0 .. K : Enumerates(GenRow(n + 1, row, K)[k], Shares(n + 1, k))
    BY <2>1, <2>2, <2>3, NextShares
  <2>5. \A k \in 0 .. K : Len(GenRow(n + 1, row, K)[k]) = CountRow(n + 1, v, K)[k]
    BY <2>1, <2>2, <2>3, NextLengths
  <2>6. CountRow(n + 1, v, K)[0] = 1
    BY <2>1 DEF CountRow
  <2> QED BY <2>2, <2>4, <2>5, <2>6 DEF Good
<1>5. \A n \in 0 .. N - 1 : n \in Up
  <2>1. 0 \in Up /\ N - 1 \in Nat
    <3>1. 0 \in 0 .. N - 1 /\ 0 + 1 = 1 /\ N - 1 \in Nat
      OBVIOUS
    <3> HIDE DEF Good
    <3> QED BY <1>3, <3>1
  <2>2. ASSUME NEW n \in 0 .. N - 1 - 1, n \in Up PROVE n + 1 \in Up
    <3>1. n + 1 \in 1 .. N - 1 /\ n + 1 \in 0 .. N - 1
      OBVIOUS
    <3> HIDE DEF Good
    <3> QED BY <1>4, <2>2, <3>1
  <2> HIDE DEF Up
  <2> QED BY <2>1, <2>2, SetInduction
<1>6. Good(N)
  <2>1. N - 1 \in 0 .. N - 1 /\ (N - 1) + 1 = N
    OBVIOUS
  <2> HIDE DEF Good
  <2> QED BY <1>5, <2>1
<1>7. K \in 0 .. K
  OBVIOUS
<1> QED BY <1>1, <1>2, <1>6, <1>7, GenIs, CountIs

LEMMA DevicesAre ==
  ASSUME NEW g, GenDataOK(g)
  PROVE  Num(g) \in Nat \ {0} /\ Devices(g) = 1 .. Num(g) /\ g.portions \in Nat
<1>1. g.devices \in Seq(ToSet(g.devices)) /\ g.devices # <<>> /\ g.portions \in Nat
  BY DEF GenDataOK, IsSeq
<1>2. Len(g.devices) \in Nat /\ DOMAIN g.devices = 1 .. Len(g.devices)
  BY <1>1
<1>3. Len(g.devices) # 0
  BY <1>1, EmptySeq
<1> QED BY <1>1, <1>2, <1>3 DEF Num, Devices

LEMMA PortionsListed ==
  ASSUME NEW g, GenDataOK(g)
  PROVE  /\ EachOnce(acc_tuning_gen_all_portion_combinaisons(g.portions, Num(g)), PortionChoices(g))
         /\ Len(acc_tuning_gen_all_portion_combinaisons(g.portions, Num(g)))
              = acc_tuning_count_portion_combinaisons(g.portions, Num(g))
<1> PICK N, K : N = Num(g) /\ K = g.portions
  BY Zenon
<1>1. N \in Nat \ {0} /\ Devices(g) = 1 .. N /\ K \in Nat
  BY DevicesAre
<1>2. Shares(N, K) = PortionChoices(g)
  <2>1. ASSUME NEW c \in Shares(N, K) PROVE c \in PortionChoices(g)
    <3>1. c \in [1 .. N -> Nat] /\ Total(c) = K
      BY DEF Shares
    <3>2. \A k \in 1 .. N : c[k] \in 0 .. K
      <4>1. \A k \in 1 .. N : c[k] <= K
        BY <1>1, <3>1, ShareBelowTotal
      <4> QED BY <1>1, <3>1, <4>1
    <3>3. c \in [1 .. N -> 0 .. K]
      BY <3>1, <3>2
    <3> QED BY <1>1, <3>1, <3>3 DEF PortionChoices
  <2>2. ASSUME NEW c \in PortionChoices(g) PROVE c \in Shares(N, K)
    <3>1. c \in [1 .. N -> 0 .. K] /\ Total(c) = K
      BY <1>1 DEF PortionChoices
    <3>2. c \in [1 .. N -> Nat]
      BY <3>1
    <3> QED BY <3>1, <3>2 DEF Shares
  <2> QED BY <2>1, <2>2
<1> QED BY <1>1, <1>2, PortionLists, ListedOnce

------------------------------------------------------------------------------
\* The ways to choose versions.

VersionsOf(g, d) == g.devices[d].versions

VersionRow(g, d, rest) ==
  Joined([k \in DOMAIN g.devices[d].versions |->
            [r \in DOMAIN rest |-> <<g.devices[d].versions[k]>> \o rest[r]]])

IsFrom(f, g) ==
  f = [d \in 1 .. Num(g) + 1 |->
         IF d > Num(g) THEN <<(<<>>)>> ELSE VersionRow(g, d, f[d + 1])]

From(g) == CHOOSE f : IsFrom(f, g)

LEMMA FromIs ==
  ASSUME NEW g
  PROVE  acc_tuning_gen_all_version_combinaisons(g) = From(g)[1]
BY DEF acc_tuning_gen_all_version_combinaisons, From, IsFrom, VersionRow

AllVersions(g) == UNION {ToSet(g.devices[d].versions) : d \in Devices(g)}

LEMMA VersionFacts ==
  ASSUME NEW g, GenDataOK(g), NEW d \in Devices(g)
  PROVE  /\ VersionsOf(g, d) \in Seq(AllVersions(g))
         /\ Enumerates(VersionsOf(g, d), ToSet(VersionsOf(g, d)))
         /\ ToSet(VersionsOf(g, d)) \subseteq AllVersions(g)
<1> PICK s : s = VersionsOf(g, d)
  BY Zenon
<1>1. s \in Seq(ToSet(s)) /\ \A i, j \in DOMAIN s : s[i] = s[j] => i = j
  BY DEF GenDataOK, NoRepeats, IsSeq, VersionsOf
<1>2. ToSet(s) \subseteq AllVersions(g)
  BY DEF AllVersions, VersionsOf
<1>3. Enumerates(s, ToSet(s))
  <2>1. DOMAIN s = 1 .. Len(s)
    BY <1>1
  <2>2. \A x \in ToSet(s) : \E k \in 1 .. Len(s) : s[k] = x
    BY <2>1 DEF ToSet
  <2> QED BY <1>1, <2>1, <2>2 DEF Enumerates
<1>4. s \in Seq(AllVersions(g))
  BY <1>1, <1>2
<1> QED BY <1>2, <1>3, <1>4

\* One version of the device in front of each choice for the later devices.
LEMMA VersionRowIs ==
  ASSUME NEW g, NEW d, NEW rest
  PROVE  VersionRow(g, d, rest) =
           Joined([k \in DOMAIN VersionsOf(g, d) |-> InFront(rest, VersionsOf(g, d)[k])])
BY DEF VersionRow, InFront, VersionsOf

\* Lists of the same length put one behind the other.
LEMMA LengthsEqual ==
  ASSUME NEW n \in Nat, NEW m \in Nat, NEW ss, NEW c, Lengths(c, n, ss),
         \A i \in 1 .. n : Len(ss[i]) = m
  PROVE  c[n] = n * m
<1> DEFINE Good == {i \in 0 .. n : c[i] = i * m}
<1>1. 0 \in Good
  BY DEF Lengths
<1>2. ASSUME NEW i \in 0 .. n - 1, i \in Good PROVE i + 1 \in Good
  <2>1. i + 1 \in 1 .. n /\ (i + 1) - 1 = i /\ i + 1 \in 0 .. n /\ i \in Nat
    OBVIOUS
  <2>2. c[i + 1] = i * m + m
    BY <1>2, <2>1 DEF Lengths
  <2>3. (i + 1) * m = i * m + m
    BY <2>1
  <2> QED BY <2>1, <2>2, <2>3
<1> HIDE DEF Good
<1>3. \A i \in 0 .. n : i \in Good
  BY <1>1, <1>2, SetInduction
<1>4. n \in Good
  BY <1>3
<1> QED BY <1>4 DEF Good

LEMMA VersionRowType ==
  ASSUME NEW g, GenDataOK(g), NEW d \in Devices(g), NEW rest \in Seq(Seq(AllVersions(g)))
  PROVE  /\ VersionRow(g, d, rest) \in Seq(Seq(AllVersions(g)))
         /\ Len(VersionsOf(g, d)) \in Nat
         /\ Len(VersionRow(g, d, rest)) = Len(VersionsOf(g, d)) * Len(rest)
<1> PICK A, vs, n : A = AllVersions(g) /\ vs = VersionsOf(g, d) /\ n = Len(vs)
  BY Zenon
<1>1. vs \in Seq(A) /\ n \in Nat /\ DOMAIN vs = 1 .. n /\ \A k \in 1 .. n : vs[k] \in A
  <2>1. vs \in Seq(A)
    BY VersionFacts
  <2> QED BY <2>1
<1> PICK ss : ss = [k \in 1 .. n |-> InFront(rest, vs[k])]
  BY Zenon
<1>2. VersionRow(g, d, rest) = Joined(ss)
  BY <1>1, VersionRowIs
<1>3. \A k \in 1 .. n : ss[k] \in Seq(Seq(A)) /\ Len(ss[k]) = Len(rest)
  <2> TAKE k \in 1 .. n
  <2>1. vs[k] \in A /\ ss[k] = InFront(rest, vs[k])
    BY <1>1
  <2> QED BY <2>1, InFrontType
<1>4. ss \in [1 .. n -> Seq(Seq(A))]
  BY <1>3
<1>5. PICK c : Lengths(c, n, ss)
  BY <1>1, <1>4, LengthsExist
<1>6. FlatTo(FlattenSeq(ss), n, c, ss, Seq(A))
  BY <1>1, <1>4, <1>5, FlattenFacts
<1>7. Len(rest) \in Nat
  OBVIOUS
<1>8. c[n] = n * Len(rest)
  <2>1. \A k \in 1 .. n : Len(ss[k]) = Len(rest)
    BY <1>3
  <2> QED BY ONLY <1>1, <1>5, <1>7, <2>1, LengthsEqual
<1> QED BY <1>1, <1>2, <1>6, <1>8 DEF FlatTo, Joined

LEMMA FromFacts ==
  ASSUME NEW g, GenDataOK(g)
  PROVE  \E f : /\ f = From(g)
                /\ f[Num(g) + 1] = <<(<<>>)>>
                /\ \A d \in 1 .. Num(g) : f[d] = VersionRow(g, d, f[d + 1])
                /\ \A d \in 1 .. Num(g) + 1 : f[d] \in Seq(Seq(AllVersions(g)))
<1> PICK N, V, last : N = Num(g) /\ V = Seq(Seq(AllVersions(g))) /\ last = <<(<<>>)>>
  BY Zenon
<1>1. N \in Nat \ {0} /\ Devices(g) = 1 .. N
  BY DevicesAre
<1> PICK step : step = [pair \in (1 .. N) \X V |-> VersionRow(g, N + 1 - pair[1], pair[2])]
  BY Zenon
<1>2. /\ step \in [(1 .. N) \X V -> V] /\ last \in V
      /\ \A n \in 1 .. N : \A v \in V : step[<<n, v>>] = VersionRow(g, N + 1 - n, v)
  <2>1. \A n \in 1 .. N : N + 1 - n \in 1 .. N
    BY <1>1
  <2>2. \A d \in 1 .. N : \A v \in V : VersionRow(g, d, v) \in V
    BY <1>1, VersionRowType
  <2>3. \A n \in 1 .. N : \A v \in V : VersionRow(g, N + 1 - n, v) \in V
    BY <2>1, <2>2
  <2>4. last \in V
    OBVIOUS
  <2> QED BY <2>3, <2>4
<1>3. PICK e : IsIterated(e, N, V, last, step)
  BY <1>1, <1>2, Iterated
<1>4. /\ e \in [0 .. N -> V] /\ e[0] = last
      /\ \A n \in 1 .. N : e[n] = VersionRow(g, N + 1 - n, e[n - 1])
  <2>1. \A n \in 1 .. N : n - 1 \in 0 .. N
    BY <1>1
  <2> QED BY <1>2, <1>3, <2>1 DEF IsIterated
<1> PICK h : h = [d \in 1 .. N + 1 |-> e[N + 1 - d]]
  BY Zenon
<1>5. \A d \in 1 .. N + 1 : h[d] = IF d > N THEN last ELSE VersionRow(g, d, h[d + 1])
  <2> TAKE d \in 1 .. N + 1
  <2>1. CASE d > N
    <3>1. N + 1 - d = 0
      BY <1>1, <2>1
    <3> QED BY <1>4, <2>1, <3>1
  <2>2. CASE ~(d > N)
    <3>1. /\ N + 1 - d \in 1 .. N /\ d + 1 \in 1 .. N + 1
          /\ N + 1 - (N + 1 - d) = d /\ (N + 1 - d) - 1 = N + 1 - (d + 1)
      BY <1>1, <2>2
    <3>2. e[N + 1 - d] = VersionRow(g, d, e[N + 1 - (d + 1)])
      BY <1>4, <3>1
    <3>3. h[d] = e[N + 1 - d] /\ h[d + 1] = e[N + 1 - (d + 1)]
      BY <3>1
    <3> QED BY <2>2, <3>2, <3>3
  <2> QED BY <2>1, <2>2
<1>6. IsFrom(h, g)
  <2>1. h = [d \in 1 .. N + 1 |-> h[d]]
    BY ONLY h = [d \in 1 .. N + 1 |-> e[N + 1 - d]]
  <2>2. h = [d \in 1 .. N + 1 |-> IF d > N THEN last ELSE VersionRow(g, d, h[d + 1])]
    BY ONLY <1>5, <2>1
  <2> QED BY <2>2, Zenon DEF IsFrom
<1> PICK f : f = From(g)
  BY Zenon
<1>7. IsFrom(f, g)
  BY <1>6 DEF From
<1>8. \A d \in 1 .. N + 1 : f[d] = IF d > N THEN last ELSE VersionRow(g, d, f[d + 1])
  BY ONLY <1>7, N = Num(g), last = <<(<<>>)>> DEF IsFrom
<1>9. f[N + 1] = last
  <2>1. N + 1 \in 1 .. N + 1 /\ N + 1 > N
    BY <1>1
  <2> QED BY <1>8, <2>1
<1>10. \A d \in 1 .. N : f[d] = VersionRow(g, d, f[d + 1])
  <2>1. \A d \in 1 .. N : d \in 1 .. N + 1 /\ ~(d > N)
    BY <1>1
  <2> QED BY <1>8, <2>1
<1> DEFINE Typed == {n \in 0 .. N : f[N + 1 - n] \in V}
<1>11. 0 \in Typed
  <2>1. N + 1 - 0 = N + 1 /\ 0 \in 0 .. N
    BY <1>1
  <2> QED BY <1>2, <1>9, <2>1
<1>12. ASSUME NEW n \in 0 .. N - 1, n \in Typed PROVE n + 1 \in Typed
  <2>1. N + 1 - (n + 1) \in 1 .. N /\ (N + 1 - (n + 1)) + 1 = N + 1 - n /\ n + 1 \in 0 .. N
    BY <1>1
  <2>2. f[N + 1 - n] \in V
    BY <1>12
  <2>3. f[N + 1 - (n + 1)] = VersionRow(g, N + 1 - (n + 1), f[N + 1 - n])
    BY <1>10, <2>1
  <2>4. f[N + 1 - (n + 1)] \in V
    BY <1>1, <2>1, <2>2, <2>3, VersionRowType
  <2> QED BY <2>1, <2>4
<1> HIDE DEF Typed
<1>13. \A n \in 0 .. N : n \in Typed
  BY <1>1, <1>11, <1>12, SetInduction
<1>14. \A d \in 1 .. N + 1 : f[d] \in V
  <2> TAKE d \in 1 .. N + 1
  <2>1. N + 1 - d \in 0 .. N /\ N + 1 - (N + 1 - d) = d
    BY <1>1
  <2>2. f[N + 1 - (N + 1 - d)] \in V
    BY <1>13, <2>1 DEF Typed
  <2> QED BY <2>1, <2>2
<1> QED BY <1>9, <1>10, <1>14

\* The choices for the devices from d on.
LaterChoices(g, d) ==
  {s \in [1 .. Num(g) + 1 - d -> AllVersions(g)] :
     \A j \in 1 .. Num(g) + 1 - d : s[j] \in ToSet(VersionsOf(g, d + j - 1))}

LEMMA NoChoices ==
  ASSUME NEW g, GenDataOK(g)
  PROVE  Enumerates(<<(<<>>)>>, LaterChoices(g, Num(g) + 1))
<1> PICK n, S : n = Num(g) + 1 - (Num(g) + 1) /\ S = LaterChoices(g, Num(g) + 1)
  BY Zenon
<1>1. n = 0
  BY DevicesAre
<1>2. \A s \in S : s = <<>>
  <2>1. \A s \in S : s \in [1 .. n -> AllVersions(g)]
    BY DEF LaterChoices
  <2>2. ASSUME NEW s \in S PROVE s = <<>>
    <3>1. s \in [1 .. 0 -> AllVersions(g)]
      BY <1>1, <2>1
    <3> QED BY <3>1
  <2> QED BY <2>2
<1>3. <<>> \in S
  <2>1. <<>> \in [1 .. 0 -> AllVersions(g)] /\ \A j \in 1 .. 0 : FALSE
    OBVIOUS
  <2> QED BY <1>1, <2>1 DEF LaterChoices
<1> PICK e, l : e = <<>> /\ l = <<e>>
  BY Zenon
<1>4. l \in Seq(S) /\ Len(l) = 1 /\ l[1] = e
  BY <1>3
<1> QED BY <1>2, <1>4 DEF Enumerates

\* A sequence is its first element in front of the rest.
IsRest(s, c, n) ==
  /\ c = <<c[1]>> \o s
  /\ \A j \in 1 .. n : s[j] = c[j + 1]

LEMMA FirstAndRest ==
  ASSUME NEW A, NEW n \in Nat, NEW c \in [1 .. n + 1 -> A]
  PROVE  c[1] \in A /\ \E s \in [1 .. n -> A] : IsRest(s, c, n)
<1> PICK x, s : x = c[1] /\ s = [j \in 1 .. n |-> c[j + 1]]
  BY Zenon
<1>1. x \in A /\ s \in [1 .. n -> A] /\ \A j \in 1 .. n : s[j] = c[j + 1]
  OBVIOUS
<1>2. s \in Seq(A) /\ Len(s) = n
  BY ONLY <1>1, n \in Nat
<1>3. c \in Seq(A) /\ Len(c) = n + 1
  BY ONLY n \in Nat, c \in [1 .. n + 1 -> A]
<1>4. <<x>> \in Seq(A) /\ Len(<<x>>) = 1 /\ <<x>>[1] = x
  BY <1>1
<1> PICK d : d = <<x>> \o s
  BY Zenon
<1>5. /\ d \in Seq(A) /\ Len(d) = n + 1
      /\ \A j \in 1 .. n + 1 : d[j] = IF j <= 1 THEN x ELSE s[j - 1]
  <2>1. /\ <<x>> \o s \in Seq(A) /\ Len(<<x>> \o s) = Len(<<x>>) + Len(s)
        /\ \A j \in 1 .. Len(<<x>>) + Len(s) :
             (<<x>> \o s)[j] = IF j <= Len(<<x>>) THEN <<x>>[j] ELSE s[j - Len(<<x>>)]
    BY <1>2, <1>4, ConcatProperties
  <2>2. \A j \in 1 .. n + 1 : j <= 1 => j = 1
    OBVIOUS
  <2> QED BY <1>2, <1>4, <2>1, <2>2
<1>6. ASSUME NEW j \in 1 .. n + 1 PROVE d[j] = c[j]
  <2>1. CASE j = 1
    BY <1>5, <2>1
  <2>2. CASE j # 1
    <3>1. j - 1 \in 1 .. n /\ (j - 1) + 1 = j /\ ~(j <= 1)
      BY <2>2
    <3> QED BY <1>1, <1>5, <3>1
  <2> QED BY <2>1, <2>2
<1>7. d = c
  BY <1>3, <1>5, <1>6, SeqEqual
<1>8. IsRest(s, c, n)
  BY <1>1, <1>7, Zenon DEF IsRest
<1> QED BY <1>1, <1>8

\* And the other way round.
LEMMA InFrontFacts ==
  ASSUME NEW A, NEW n \in Nat, NEW s \in [1 .. n -> A], NEW x \in A
  PROVE  /\ <<x>> \o s \in [1 .. n + 1 -> A]
         /\ (<<x>> \o s)[1] = x
         /\ \A j \in 1 .. n : (<<x>> \o s)[j + 1] = s[j]
<1>1. s \in Seq(A) /\ Len(s) = n
  BY ONLY n \in Nat, s \in [1 .. n -> A]
<1>2. <<x>> \in Seq(A) /\ Len(<<x>>) = 1 /\ <<x>>[1] = x
  OBVIOUS
<1> PICK d : d = <<x>> \o s
  BY Zenon
<1>3. /\ d \in Seq(A) /\ Len(d) = n + 1
      /\ \A j \in 1 .. n + 1 : d[j] = IF j <= 1 THEN x ELSE s[j - 1]
  <2>1. /\ <<x>> \o s \in Seq(A) /\ Len(<<x>> \o s) = Len(<<x>>) + Len(s)
        /\ \A j \in 1 .. Len(<<x>>) + Len(s) :
             (<<x>> \o s)[j] = IF j <= Len(<<x>>) THEN <<x>>[j] ELSE s[j - Len(<<x>>)]
    BY <1>1, <1>2, ConcatProperties
  <2>2. \A j \in 1 .. n + 1 : j <= 1 => j = 1
    OBVIOUS
  <2> QED BY <1>1, <1>2, <2>1, <2>2
<1>4. \A j \in 1 .. n : j + 1 \in 1 .. n + 1 /\ ~(j + 1 <= 1) /\ (j + 1) - 1 = j
  OBVIOUS
<1>5. \A j \in 1 .. n : d[j + 1] = s[j]
  BY <1>3, <1>4
<1>6. d \in [1 .. n + 1 -> A] /\ d[1] = x
  BY ONLY <1>3, n \in Nat
<1> QED BY <1>5, <1>6

\* The choices from d on: a version for d in front of each later choice.
LEMMA ChoicesSplit ==
  ASSUME NEW g, GenDataOK(g), NEW d \in Devices(g), NEW c
  PROVE  c \in LaterChoices(g, d) <=>
           \E x \in ToSet(VersionsOf(g, d)) : c \in AllInFront(LaterChoices(g, d + 1), x)
<1> PICK N, A, n : N = Num(g) /\ A = AllVersions(g) /\ n = Num(g) - d
  BY Zenon
<1>1. N \in Nat \ {0} /\ d \in 1 .. N
  BY DevicesAre
<1>2. n \in Nat /\ N + 1 - d = n + 1 /\ N + 1 - (d + 1) = n
      /\ d + 1 - 1 = d /\ 1 \in 1 .. n + 1
      /\ \A j \in 1 .. n : (d + (j + 1) - 1 = (d + 1) + j - 1 /\ j + 1 \in 1 .. n + 1)
      /\ \A i \in 1 .. n + 1 : (i = 1 \/ (i - 1 \in 1 .. n /\ (i - 1) + 1 = i))
  BY <1>1
<1>3. ASSUME NEW s
      PROVE  /\ s \in LaterChoices(g, d) <=>
                  (s \in [1 .. n + 1 -> A] /\ \A j \in 1 .. n + 1 : s[j] \in ToSet(VersionsOf(g, d + j - 1)))
             /\ s \in LaterChoices(g, d + 1) <=>
                  (s \in [1 .. n -> A] /\ \A i \in 1 .. n : s[i] \in ToSet(VersionsOf(g, (d + 1) + i - 1)))
  BY <1>2 DEF LaterChoices
<1>4. ToSet(VersionsOf(g, d)) \subseteq A
  BY VersionFacts
<1>5. ASSUME NEW x \in ToSet(VersionsOf(g, d)), NEW s \in LaterChoices(g, d + 1), c = <<x>> \o s
      PROVE  c \in LaterChoices(g, d)
  <2>1. s \in [1 .. n -> A] /\ \A j \in 1 .. n : s[j] \in ToSet(VersionsOf(g, (d + 1) + j - 1))
    BY <1>3
  <2>2. /\ c \in [1 .. n + 1 -> A] /\ c[1] = x
        /\ \A j \in 1 .. n : c[j + 1] = s[j]
    <3>1. n \in Nat /\ x \in A /\ s \in [1 .. n -> A]
      BY <1>2, <1>4, <2>1
    <3>2. /\ <<x>> \o s \in [1 .. n + 1 -> A]
          /\ (<<x>> \o s)[1] = x
          /\ \A j \in 1 .. n : (<<x>> \o s)[j + 1] = s[j]
      BY ONLY <3>1, InFrontFacts
    <3> QED BY <1>5, <3>2, Zenon
  <2>3. ASSUME NEW j \in 1 .. n + 1 PROVE c[j] \in ToSet(VersionsOf(g, d + j - 1))
    <3>1. CASE j = 1
      BY <1>2, <2>2, <3>1
    <3>2. CASE j # 1
      <4> PICK i : i = j - 1
        BY Zenon
      <4>1. i \in 1 .. n /\ i + 1 = j
        BY <1>2, <3>2
      <4>2. d + j - 1 = (d + 1) + i - 1
        BY <1>2, <4>1
      <4>3. c[j] = s[i]
        BY <2>2, <4>1
      <4> QED BY <2>1, <4>1, <4>2, <4>3
    <3> QED BY <3>1, <3>2
  <2> QED BY <1>3, <2>2, <2>3
<1>6. ASSUME c \in LaterChoices(g, d)
      PROVE  \E x \in ToSet(VersionsOf(g, d)) : c \in AllInFront(LaterChoices(g, d + 1), x)
  <2>1. /\ c \in [1 .. n + 1 -> A]
        /\ \A j \in 1 .. n + 1 : c[j] \in ToSet(VersionsOf(g, d + j - 1))
    BY <1>3, <1>6
  <2>2. PICK s \in [1 .. n -> A] : /\ c = <<c[1]>> \o s /\ c[1] \in A
                                   /\ \A j \in 1 .. n : s[j] = c[j + 1]
    <3>1. n \in Nat /\ c \in [1 .. n + 1 -> A]
      BY <1>2, <2>1
    <3>2. c[1] \in A /\ \E s \in [1 .. n -> A] : IsRest(s, c, n)
      BY <3>1, FirstAndRest, Zenon
    <3> QED BY <3>2 DEF IsRest
  <2>3. c[1] \in ToSet(VersionsOf(g, d))
    BY <1>2, <2>1
  <2>4. \A j \in 1 .. n : s[j] \in ToSet(VersionsOf(g, (d + 1) + j - 1))
    <3> TAKE j \in 1 .. n
    <3>1. j + 1 \in 1 .. n + 1 /\ d + (j + 1) - 1 = (d + 1) + j - 1
      BY <1>2
    <3>2. c[j + 1] \in ToSet(VersionsOf(g, d + (j + 1) - 1))
      BY <2>1, <3>1
    <3> QED BY <2>2, <3>1, <3>2
  <2>5. s \in LaterChoices(g, d + 1)
    BY <1>3, <2>4
  <2> QED BY <2>2, <2>3, <2>5 DEF AllInFront
<1> QED BY <1>5, <1>6 DEF AllInFront

LEMMA AllInFrontHead ==
  ASSUME NEW g, GenDataOK(g), NEW d \in Devices(g), NEW x \in AllVersions(g),
         NEW c \in AllInFront(LaterChoices(g, d + 1), x)
  PROVE  c[1] = x
<1>1. PICK s \in LaterChoices(g, d + 1) : c = <<x>> \o s
  BY DEF AllInFront
<1> PICK n, A : n = Num(g) + 1 - (d + 1) /\ A = AllVersions(g)
  BY Zenon
<1>2. n \in Nat
  <2>1. Num(g) \in Nat \ {0} /\ d \in 1 .. Num(g)
    BY DevicesAre
  <2> QED BY <2>1
<1>3. s \in [1 .. n -> A]
  BY DEF LaterChoices
<1> QED BY <1>1, <1>2, <1>3, InFrontFacts

LEMMA NextChoices ==
  ASSUME NEW g, GenDataOK(g), NEW d \in Devices(g), NEW rest,
         Enumerates(rest, LaterChoices(g, d + 1))
  PROVE  Enumerates(VersionRow(g, d, rest), LaterChoices(g, d))
<1> PICK A, vs, n, T : /\ A = AllVersions(g) /\ vs = VersionsOf(g, d) /\ n = Len(vs)
                       /\ T = LaterChoices(g, d + 1)
  BY Zenon
<1>1. Enumerates(vs, ToSet(vs)) /\ ToSet(vs) \subseteq A
  BY VersionFacts
<1>2. /\ n \in Nat /\ DOMAIN vs = 1 .. n
      /\ \A k \in 1 .. n : vs[k] \in ToSet(vs)
      /\ \A i, j \in 1 .. n : vs[i] = vs[j] => i = j
      /\ \A x \in ToSet(vs) : \E k \in 1 .. n : vs[k] = x
  BY <1>1, EnumerationFacts DEF Enumerates
<1> PICK ss, P : /\ ss = [k \in 1 .. n |-> InFront(rest, vs[k])]
                 /\ P = [k \in 1 .. n |-> AllInFront(T, vs[k])]
  BY Zenon
<1>3. VersionRow(g, d, rest) = Joined(ss)
  BY <1>2, VersionRowIs
<1>4. T \subseteq Seq(A)
  <2> PICK m : m = Num(g) + 1 - (d + 1)
    BY Zenon
  <2>1. m \in Nat
    <3>1. Num(g) \in Nat \ {0} /\ d \in 1 .. Num(g)
      BY DevicesAre
    <3> QED BY <3>1
  <2>2. ASSUME NEW s \in T PROVE s \in Seq(A)
    <3>1. s \in [1 .. m -> A]
      BY DEF LaterChoices
    <3> QED BY ONLY <2>1, <3>1
  <2> QED BY <2>2
<1>5. \A k \in 1 .. n : Enumerates(ss[k], P[k]) /\ P[k] \subseteq LaterChoices(g, d)
  <2> TAKE k \in 1 .. n
  <2>1. vs[k] \in A /\ vs[k] \in ToSet(vs)
    BY <1>1, <1>2
  <2>2. Enumerates(InFront(rest, vs[k]), AllInFront(T, vs[k]))
    BY <1>4, <2>1, Prefixed
  <2>3. AllInFront(T, vs[k]) \subseteq LaterChoices(g, d)
    BY <2>1, ChoicesSplit
  <2> QED BY <2>2, <2>3
<1>6. \A i, j \in 1 .. n : \A x \in P[i] \cap P[j] : i = j
  <2> TAKE i, j \in 1 .. n
  <2> TAKE x \in P[i] \cap P[j]
  <2>1. x \in AllInFront(T, vs[i]) /\ x \in AllInFront(T, vs[j]) /\ vs[i] \in A /\ vs[j] \in A
    BY <1>1, <1>2
  <2>2. x[1] = vs[i] /\ x[1] = vs[j]
    BY <2>1, AllInFrontHead
  <2>3. i \in 1 .. n /\ j \in 1 .. n
    OBVIOUS
  <2> QED BY ONLY <1>2, <2>2, <2>3
<1>7. \A x : x \in LaterChoices(g, d) <=> \E k \in 1 .. n : x \in P[k]
  <2> TAKE x
  <2>1. x \in LaterChoices(g, d) <=> \E y \in ToSet(vs) : x \in AllInFront(T, y)
    BY ChoicesSplit
  <2>2. (\E y \in ToSet(vs) : x \in AllInFront(T, y)) <=> \E k \in 1 .. n : x \in AllInFront(T, vs[k])
    BY ONLY <1>2, Zenon
  <2> QED BY <2>1, <2>2
<1>8. DOMAIN ss = 1 .. n /\ ss = [k \in 1 .. n |-> ss[k]]
  BY ONLY ss = [k \in 1 .. n |-> InFront(rest, vs[k])]
<1>9. Enumerates(Joined(ss), LaterChoices(g, d))
  BY ONLY <1>2, <1>5, <1>6, <1>7, <1>8, JoinedLists
<1> QED BY <1>3, <1>9

\* The number of choices is the product of the numbers of versions.
IsNum(f, g) ==
  f = [d \in 0 .. Num(g) |-> IF d = 0 THEN 1 ELSE f[d - 1] * Len(g.devices[d].versions)]

NumTo(g) == CHOOSE f : IsNum(f, g)

LEMMA NumIs ==
  ASSUME NEW g
  PROVE  NumVersionCombinaisons(g) = NumTo(g)[Num(g)]
BY DEF NumVersionCombinaisons, NumTo, IsNum

LEMMA NumFacts ==
  ASSUME NEW g, GenDataOK(g)
  PROVE  \E f : /\ f = NumTo(g)
                /\ f[0] = 1
                /\ \A d \in 1 .. Num(g) : f[d] = f[d - 1] * Len(VersionsOf(g, d))
                /\ \A d \in 0 .. Num(g) : f[d] \in Nat
<1> PICK N, len : N = Num(g) /\ len = [d \in 1 .. Num(g) |-> Len(VersionsOf(g, d))]
  BY Zenon
<1>1. N \in Nat \ {0} /\ Devices(g) = 1 .. N
  BY DevicesAre
<1>2. len \in [1 .. N -> Nat]
  <2>1. ASSUME NEW d \in 1 .. N PROVE Len(VersionsOf(g, d)) \in Nat
    <3>1. VersionsOf(g, d) \in Seq(AllVersions(g))
      BY <1>1, VersionFacts
    <3> QED BY <3>1
  <2> QED BY <2>1
<1>3. \A d \in 1 .. N : len[d] = Len(VersionsOf(g, d))
  OBVIOUS
<1> PICK step : step = [pair \in (1 .. N) \X Nat |-> pair[2] * len[pair[1]]]
  BY Zenon
<1>4. /\ step \in [(1 .. N) \X Nat -> Nat]
      /\ \A d \in 1 .. N : \A v \in Nat : step[<<d, v>>] = v * len[d]
  <2>1. \A a, b \in Nat : a * b \in Nat
    OBVIOUS
  <2>2. \A d \in 1 .. N : \A v \in Nat : v * len[d] \in Nat
    BY ONLY <1>2, <2>1
  <2> QED BY <2>2
<1>5. PICK e : IsIterated(e, N, Nat, 1, step)
  BY <1>1, <1>4, Iterated
<1>6. /\ e \in [0 .. N -> Nat] /\ e[0] = 1
      /\ \A d \in 1 .. N : e[d] = e[d - 1] * len[d]
  <2>1. \A d \in 1 .. N : d - 1 \in 0 .. N
    BY <1>1
  <2> QED BY <1>4, <1>5, <2>1 DEF IsIterated
<1>7. IsNum(e, g)
  <2>1. e = [d \in 0 .. N |-> e[d]]
    BY <1>6
  <2>2. \A d \in 0 .. N : e[d] = IF d = 0 THEN 1 ELSE e[d - 1] * Len(g.devices[d].versions)
    <3> TAKE d \in 0 .. N
    <3>1. CASE d = 0
      BY <1>6, <3>1
    <3>2. CASE d # 0
      <4>1. d \in 1 .. N
        BY <1>1, <3>2
      <4>2. e[d] = e[d - 1] * Len(VersionsOf(g, d))
        BY <1>3, <1>6, <4>1
      <4> QED BY <3>2, <4>2, Zenon DEF VersionsOf
    <3> QED BY <3>1, <3>2
  <2>3. e = [d \in 0 .. N |-> IF d = 0 THEN 1 ELSE e[d - 1] * Len(g.devices[d].versions)]
    BY ONLY <2>1, <2>2
  <2> QED BY <2>3, Zenon DEF IsNum
<1> PICK f : f = NumTo(g)
  BY Zenon
<1>8. IsNum(f, g)
  BY <1>7 DEF NumTo
<1>9. \A d \in 0 .. N : f[d] = IF d = 0 THEN 1 ELSE f[d - 1] * Len(g.devices[d].versions)
  BY ONLY <1>8, N = Num(g) DEF IsNum
<1>10. f[0] = 1
  BY <1>1, <1>9
<1>11. \A d \in 1 .. N : f[d] = f[d - 1] * Len(VersionsOf(g, d))
  <2>1. \A d \in 1 .. N : d \in 0 .. N /\ d # 0
    BY <1>1
  <2> QED BY <1>9, <2>1, Zenon DEF VersionsOf
<1> DEFINE Agree == {d \in 0 .. N : f[d] = e[d]}
<1>12. 0 \in Agree
  BY <1>1, <1>6, <1>10
<1>13. ASSUME NEW d \in 0 .. N - 1, d \in Agree PROVE d + 1 \in Agree
  <2>1. d + 1 \in 1 .. N /\ (d + 1) - 1 = d /\ d + 1 \in 0 .. N
    BY <1>1
  <2>2. f[d + 1] = f[d] * len[d + 1] /\ e[d + 1] = e[d] * len[d + 1]
    BY <1>3, <1>6, <1>11, <2>1
  <2> QED BY <1>13, <2>1, <2>2
<1> HIDE DEF Agree
<1>14. \A d \in 0 .. N : d \in Agree
  BY <1>1, <1>12, <1>13, SetInduction
<1>15. \A d \in 0 .. N : f[d] \in Nat
  BY <1>6, <1>14 DEF Agree
<1> QED BY <1>10, <1>11, <1>15

LEMMA VersionLists ==
  ASSUME NEW g, GenDataOK(g)
  PROVE  /\ Enumerates(acc_tuning_gen_all_version_combinaisons(g), LaterChoices(g, 1))
         /\ Len(acc_tuning_gen_all_version_combinaisons(g)) = NumVersionCombinaisons(g)
<1> PICK N, V : N = Num(g) /\ V = Seq(Seq(AllVersions(g)))
  BY Zenon
<1>1. N \in Nat \ {0} /\ Devices(g) = 1 .. N
  BY DevicesAre
<1>2. PICK f : /\ f = From(g)
               /\ f[N + 1] = <<(<<>>)>>
               /\ \A d \in 1 .. N : f[d] = VersionRow(g, d, f[d + 1])
               /\ \A d \in 1 .. N + 1 : f[d] \in V
  BY FromFacts
<1>3. PICK m : /\ m = NumTo(g)
               /\ m[0] = 1
               /\ \A d \in 1 .. N : m[d] = m[d - 1] * Len(VersionsOf(g, d))
               /\ \A d \in 0 .. N : m[d] \in Nat
  BY NumFacts
<1> DEFINE Good == {n \in 0 .. N : /\ Enumerates(f[N + 1 - n], LaterChoices(g, N + 1 - n))
                                   /\ m[N - n] * Len(f[N + 1 - n]) = m[N]}
<1>4. 0 \in Good
  <2>1. N + 1 - 0 = N + 1 /\ N - 0 = N /\ 0 \in 0 .. N
    BY <1>1
  <2>2. Enumerates(f[N + 1], LaterChoices(g, N + 1))
    BY <1>2, NoChoices
  <2>3. Len(f[N + 1]) = 1
    BY <1>2
  <2>4. m[N] * 1 = m[N]
    <3>1. m[N] \in Nat
      BY <1>1, <1>3
    <3> QED BY <3>1
  <2> QED BY <2>1, <2>2, <2>3, <2>4
<1>5. ASSUME NEW n \in 0 .. N - 1, n \in Good PROVE n + 1 \in Good
  <2> PICK d : d = N - n
    BY Zenon
  <2>1. /\ d \in 1 .. N /\ n + 1 \in 0 .. N
        /\ N + 1 - (n + 1) = d /\ N - (n + 1) = d - 1 /\ N + 1 - n = d + 1
        /\ d - 1 \in 0 .. N /\ d + 1 \in 1 .. N + 1
    BY <1>1
  <2>2. Enumerates(f[d + 1], LaterChoices(g, d + 1)) /\ m[d] * Len(f[d + 1]) = m[N]
    BY <1>5, <2>1
  <2>3. f[d] = VersionRow(g, d, f[d + 1]) /\ f[d + 1] \in V
    BY <1>2, <2>1
  <2>4. Enumerates(f[d], LaterChoices(g, d))
    BY <1>1, <2>1, <2>2, <2>3, NextChoices
  <2>5. Len(f[d]) = Len(VersionsOf(g, d)) * Len(f[d + 1]) /\ Len(VersionsOf(g, d)) \in Nat
    <3>1. d \in Devices(g) /\ f[d + 1] \in Seq(Seq(AllVersions(g)))
      BY <1>1, <2>1, <2>3
    <3>2. /\ Len(VersionsOf(g, d)) \in Nat
          /\ Len(VersionRow(g, d, f[d + 1])) = Len(VersionsOf(g, d)) * Len(f[d + 1])
      BY ONLY GenDataOK(g), <3>1, VersionRowType
    <3> QED BY <2>3, <3>2, Zenon
  <2>6. Len(f[d + 1]) \in Nat
    BY <2>3
  <2>7. m[d] = m[d - 1] * Len(VersionsOf(g, d)) /\ m[d - 1] \in Nat
    BY <1>3, <2>1
  <2>8. \A a, b, c \in Nat : a * (b * c) = (a * b) * c
    OBVIOUS
  <2>9. m[d - 1] * Len(f[d]) = m[N]
    BY ONLY <2>2, <2>5, <2>6, <2>7, <2>8
  <2> QED BY <2>1, <2>4, <2>9
<1> HIDE DEF Good
<1>6. \A n \in 0 .. N : n \in Good
  BY <1>1, <1>4, <1>5, SetInduction
<1>7. Enumerates(f[1], LaterChoices(g, 1)) /\ m[0] * Len(f[1]) = m[N]
  <2>1. N + 1 - N = 1 /\ N - N = 0 /\ N \in 0 .. N
    BY <1>1
  <2>2. N \in Good
    BY <1>6, <2>1
  <2> QED BY <2>1, <2>2 DEF Good
<1>8. Len(f[1]) = m[N]
  <2>1. Len(f[1]) \in Nat
    BY <1>7, EnumerationFacts
  <2> QED BY <1>3, <1>7, <2>1
<1> QED BY <1>2, <1>3, <1>7, <1>8, FromIs, NumIs

LEMMA VersionsListed ==
  ASSUME NEW g, GenDataOK(g)
  PROVE  /\ EachOnce(acc_tuning_gen_all_version_combinaisons(g), VersionChoices(g))
         /\ Len(acc_tuning_gen_all_version_combinaisons(g)) = NumVersionCombinaisons(g)
<1>1. Num(g) \in Nat \ {0} /\ Devices(g) = 1 .. Num(g)
  BY DevicesAre
<1>2. Num(g) + 1 - 1 = Num(g) /\ \A j \in 1 .. Num(g) : 1 + j - 1 = j
  BY <1>1
<1>3. LaterChoices(g, 1) =
        {s \in [1 .. Num(g) -> AllVersions(g)] : \A j \in 1 .. Num(g) : s[j] \in ToSet(VersionsOf(g, j))}
  BY <1>2 DEF LaterChoices
<1>4. LaterChoices(g, 1) = VersionChoices(g)
  BY <1>1, <1>3, Zenon DEF VersionChoices, AllVersions, VersionsOf
<1> QED BY <1>4, VersionLists, ListedOnce

LEMMA EveryChoiceListed ==
  ASSUME NEW g, GenDataOK(g)
  PROVE  ChoicesListed(g)
BY VersionsListed, PortionsListed DEF ChoicesListed, CountsAgree

------------------------------------------------------------------------------
\* The runs of one device.

LEMMA ValuesListed ==
  ASSUME NEW s, NoRepeats(s)
  PROVE  /\ Enumerates(s, ToSet(s))
         /\ Len(s) \in Nat /\ DOMAIN s = 1 .. Len(s)
         /\ \A k \in 1 .. Len(s) : s[k] \in ToSet(s)
<1>1. s \in Seq(ToSet(s)) /\ \A i, j \in DOMAIN s : s[i] = s[j] => i = j
  BY DEF NoRepeats, IsSeq
<1>2. Len(s) \in Nat /\ DOMAIN s = 1 .. Len(s)
  BY <1>1
<1>3. \A x \in ToSet(s) : \E k \in 1 .. Len(s) : s[k] = x
  BY <1>2 DEF ToSet
<1>4. Enumerates(s, ToSet(s))
  BY <1>1, <1>2, <1>3 DEF Enumerates
<1> QED BY <1>2, <1>4, EnumerationFacts

\* One to one images are listed as the elements are.
LEMMA MappedList ==
  ASSUME NEW S, NEW l, Enumerates(l, S), NEW T, NEW f \in [S -> T],
         \A x, y \in S : f[x] = f[y] => x = y,
         \A t \in T : \E x \in S : f[x] = t,
         NEW m, m = [k \in DOMAIN l |-> f[l[k]]]
  PROVE  Enumerates(m, T)
<1> PICK n : n = Len(l)
  BY Zenon
<1>1. /\ n \in Nat /\ DOMAIN l = 1 .. n /\ \A k \in 1 .. n : l[k] \in S
      /\ \A i, j \in 1 .. n : l[i] = l[j] => i = j
  BY EnumerationFacts
<1>2. \A k \in 1 .. n : m[k] = f[l[k]] /\ f[l[k]] \in T
  BY <1>1
<1>3. m \in [1 .. n -> T]
  BY <1>1, <1>2
<1>4. m \in Seq(T) /\ Len(m) = n
  BY ONLY <1>1, <1>3
<1>5. \A t \in T : \E k \in 1 .. n : m[k] = t
  <2> TAKE t \in T
  <2>1. PICK x \in S : f[x] = t
    OBVIOUS
  <2>2. PICK k \in 1 .. n : l[k] = x
    BY DEF Enumerates
  <2> QED BY <1>2, <2>1, <2>2
<1>6. \A i, j \in 1 .. n : m[i] = m[j] => i = j
  <2> TAKE i, j \in 1 .. n
  <2> HAVE m[i] = m[j]
  <2>1. f[l[i]] = f[l[j]] /\ l[i] \in S /\ l[j] \in S
    BY <1>1, <1>2
  <2>2. l[i] = l[j]
    BY <2>1
  <2>3. i \in 1 .. n /\ j \in 1 .. n
    OBVIOUS
  <2> QED BY ONLY <1>1, <2>2, <2>3
<1> QED BY <1>4, <1>5, <1>6 DEF Enumerates

\* The triples of the values for gang, worker and vector.
VectorRow(x, y, vec) == [c \in DOMAIN vec |-> <<x, y, vec[c]>>]
WorkerRow(x, wor, vec) == Joined([b \in DOMAIN wor |-> VectorRow(x, wor[b], vec)])
Triples(dev) == ToSet(dev.gang) \X ToSet(dev.worker) \X ToSet(dev.vector)

LEMMA GwvIs ==
  ASSUME NEW dev
  PROVE  GwvList(dev) = Joined([a \in DOMAIN dev.gang |-> WorkerRow(dev.gang[a], dev.worker, dev.vector)])
BY DEF GwvList, WorkerRow, VectorRow

LEMMA VectorRowListed ==
  ASSUME NEW x, NEW y, NEW vec, NoRepeats(vec)
  PROVE  Enumerates(VectorRow(x, y, vec), {x} \X {y} \X ToSet(vec))
<1> PICK S, T, f : S = ToSet(vec) /\ T = {x} \X {y} \X S /\ f = [z \in S |-> <<x, y, z>>]
  BY Zenon
<1>1. f \in [S -> T] /\ (\A z \in S : f[z] = <<x, y, z>>)
  OBVIOUS
<1>2. \A z, w \in S : f[z] = f[w] => z = w
  BY <1>1
<1>3. \A t \in T : \E z \in S : f[z] = t
  BY <1>1
<1>4. VectorRow(x, y, vec) = [k \in DOMAIN vec |-> f[vec[k]]]
  <2>1. \A k \in DOMAIN vec : vec[k] \in S
    BY ValuesListed
  <2> QED BY <1>1, <2>1 DEF VectorRow
<1>5. Enumerates(vec, S)
  BY ValuesListed
<1> PICK m : m = VectorRow(x, y, vec)
  BY Zenon
<1>6. Enumerates(m, T)
  BY ONLY <1>1, <1>2, <1>3, <1>4, <1>5, m = VectorRow(x, y, vec), MappedList
<1> QED BY <1>6

LEMMA WorkerRowListed ==
  ASSUME NEW x, NEW wor, NEW vec, NoRepeats(wor), NoRepeats(vec)
  PROVE  Enumerates(WorkerRow(x, wor, vec), {x} \X ToSet(wor) \X ToSet(vec))
<1> PICK n, S, ss, P : /\ n = Len(wor) /\ S = {x} \X ToSet(wor) \X ToSet(vec)
                       /\ ss = [b \in 1 .. n |-> VectorRow(x, wor[b], vec)]
                       /\ P = [b \in 1 .. n |-> {x} \X {wor[b]} \X ToSet(vec)]
  BY Zenon
<1>1. /\ n \in Nat /\ DOMAIN wor = 1 .. n /\ \A k \in 1 .. n : wor[k] \in ToSet(wor)
      /\ \A i, j \in 1 .. n : wor[i] = wor[j] => i = j
      /\ \A y \in ToSet(wor) : \E k \in 1 .. n : wor[k] = y
  BY ValuesListed, EnumerationFacts DEF Enumerates
<1>2. \A b \in 1 .. n : Enumerates(ss[b], P[b]) /\ P[b] \subseteq S
  <2> TAKE b \in 1 .. n
  <2>1. Enumerates(ss[b], P[b])
    BY VectorRowListed
  <2>2. P[b] \subseteq S
    BY <1>1
  <2> QED BY <2>1, <2>2
<1>3. \A i, j \in 1 .. n : \A t \in P[i] \cap P[j] : i = j
  <2> TAKE i, j \in 1 .. n
  <2> TAKE t \in P[i] \cap P[j]
  <2>1. t \in {x} \X {wor[i]} \X ToSet(vec) /\ t \in {x} \X {wor[j]} \X ToSet(vec)
    OBVIOUS
  <2>2. wor[i] = wor[j] /\ i \in 1 .. n /\ j \in 1 .. n
    BY <2>1
  <2> QED BY ONLY <1>1, <2>2
<1>4. \A t : t \in S <=> \E b \in 1 .. n : t \in P[b]
  <2> TAKE t
  <2>1. ASSUME t \in S PROVE \E b \in 1 .. n : t \in P[b]
    <3>1. PICK y \in ToSet(wor), z \in ToSet(vec) : t = <<x, y, z>>
      BY <2>1
    <3>2. PICK b \in 1 .. n : wor[b] = y
      BY <1>1
    <3>3. t \in {x} \X {wor[b]} \X ToSet(vec)
      BY <3>1, <3>2
    <3> QED BY <3>3
  <2> QED BY <1>2, <2>1
<1>5. DOMAIN ss = 1 .. n /\ ss = [b \in 1 .. n |-> ss[b]]
  BY ONLY ss = [b \in 1 .. n |-> VectorRow(x, wor[b], vec)]
<1>6. Enumerates(Joined(ss), S)
  BY ONLY <1>1, <1>2, <1>3, <1>4, <1>5, JoinedLists
<1> QED BY <1>1, <1>6 DEF WorkerRow

LEMMA GwvListed ==
  ASSUME NEW dev, NoRepeats(dev.gang), NoRepeats(dev.worker), NoRepeats(dev.vector)
  PROVE  Enumerates(GwvList(dev), Triples(dev))
<1> PICK gang, wor, vec : gang = dev.gang /\ wor = dev.worker /\ vec = dev.vector
  BY Zenon
<1> PICK n, S, ss, P : /\ n = Len(gang) /\ S = ToSet(gang) \X ToSet(wor) \X ToSet(vec)
                       /\ ss = [a \in 1 .. n |-> WorkerRow(gang[a], wor, vec)]
                       /\ P = [a \in 1 .. n |-> {gang[a]} \X ToSet(wor) \X ToSet(vec)]
  BY Zenon
<1>1. /\ n \in Nat /\ DOMAIN gang = 1 .. n /\ \A k \in 1 .. n : gang[k] \in ToSet(gang)
      /\ \A i, j \in 1 .. n : gang[i] = gang[j] => i = j
      /\ \A x \in ToSet(gang) : \E k \in 1 .. n : gang[k] = x
  <2>1. NoRepeats(gang)
    OBVIOUS
  <2>2. /\ Enumerates(gang, ToSet(gang)) /\ DOMAIN gang = 1 .. n
        /\ n \in Nat /\ \A k \in 1 .. n : gang[k] \in ToSet(gang)
    BY <2>1, ValuesListed
  <2> QED BY <2>2, EnumerationFacts DEF Enumerates
<1>2. \A a \in 1 .. n : Enumerates(ss[a], P[a]) /\ P[a] \subseteq S
  <2> TAKE a \in 1 .. n
  <2>1. Enumerates(ss[a], P[a])
    BY WorkerRowListed
  <2>2. P[a] \subseteq S
    BY <1>1
  <2> QED BY <2>1, <2>2
<1>3. \A i, j \in 1 .. n : \A t \in P[i] \cap P[j] : i = j
  <2> TAKE i, j \in 1 .. n
  <2> TAKE t \in P[i] \cap P[j]
  <2>1. t \in {gang[i]} \X ToSet(wor) \X ToSet(vec) /\ t \in {gang[j]} \X ToSet(wor) \X ToSet(vec)
    OBVIOUS
  <2>2. gang[i] = gang[j] /\ i \in 1 .. n /\ j \in 1 .. n
    BY <2>1
  <2> QED BY ONLY <1>1, <2>2
<1>4. \A t : t \in S <=> \E a \in 1 .. n : t \in P[a]
  <2> TAKE t
  <2>1. ASSUME t \in S PROVE \E a \in 1 .. n : t \in P[a]
    <3>1. PICK x \in ToSet(gang), y \in ToSet(wor), z \in ToSet(vec) : t = <<x, y, z>>
      BY <2>1
    <3>2. PICK a \in 1 .. n : gang[a] = x
      BY <1>1
    <3>3. t \in {gang[a]} \X ToSet(wor) \X ToSet(vec)
      BY <3>1, <3>2
    <3> QED BY <3>3
  <2> QED BY <1>2, <2>1
<1>5. DOMAIN ss = 1 .. n /\ ss = [a \in 1 .. n |-> ss[a]]
  BY ONLY ss = [a \in 1 .. n |-> WorkerRow(gang[a], wor, vec)]
<1>6. Enumerates(Joined(ss), S)
  BY ONLY <1>1, <1>2, <1>3, <1>4, <1>5, JoinedLists
<1>7. GwvList(dev) = Joined(ss)
  BY <1>1, GwvIs
<1> QED BY <1>6, <1>7 DEF Triples

\* The valid triples of the only device, each in a sequence of its own.
ComboRow(g, versions, loops, d, rest) ==
  Joined([k \in DOMAIN GwvList(g.devices[d]) |->
            IF acc_tuner_is_valid_gwv_combinaison(loops[versions[d]], GwvList(g.devices[d])[k])
              THEN [r \in DOMAIN rest |-> <<GwvList(g.devices[d])[k]>> \o rest[r]]
              ELSE <<>>])

IsCombos(f, g, versions, loops) ==
  f = [d \in 1 .. Num(g) + 1 |->
         IF d > Num(g) THEN <<(<<>>)>> ELSE ComboRow(g, versions, loops, d, f[d + 1])]

Combos(g, versions, loops) == CHOOSE f : IsCombos(f, g, versions, loops)

LEMMA CombosAre ==
  ASSUME NEW g, NEW versions, NEW loops
  PROVE  acc_tuning_gen_valid_gwv_combinaisons(g, versions, loops) = Combos(g, versions, loops)[1]
BY DEF acc_tuning_gen_valid_gwv_combinaisons, Combos, IsCombos, ComboRow

LEMMA CombosOfOne ==
  ASSUME NEW g, Num(g) = 1, NEW versions, NEW loops
  PROVE  acc_tuning_gen_valid_gwv_combinaisons(g, versions, loops)
           = ComboRow(g, versions, loops, 1, <<(<<>>)>>)
<1> PICK last, row : last = <<(<<>>)>> /\ row = ComboRow(g, versions, loops, 1, last)
  BY Zenon
<1> PICK h : h = [d \in 1 .. 2 |-> IF d > 1 THEN last ELSE row]
  BY Zenon
<1>1. h[2] = last /\ 1 \in 1 .. 2 /\ 2 \in 1 .. 2 /\ \A d \in 1 .. 2 : (d > 1 <=> d = 2) /\ (~(d > 1) <=> d = 1)
  OBVIOUS
<1>2. \A d \in 1 .. 2 : h[d] = IF d > 1 THEN last ELSE ComboRow(g, versions, loops, d, h[d + 1])
  <2> TAKE d \in 1 .. 2
  <2>1. CASE d > 1
    BY <2>1
  <2>2. CASE ~(d > 1)
    <3>1. d = 1 /\ d + 1 = 2 /\ h[d] = row
      BY <1>1, <2>2
    <3>2. h[d] = ComboRow(g, versions, loops, d, h[d + 1])
      BY <1>1, <3>1, Zenon
    <3> QED BY <2>2, <3>2
  <2> QED BY <2>1, <2>2
<1>3. h = [d \in 1 .. 2 |-> h[d]]
  BY ONLY h = [d \in 1 .. 2 |-> IF d > 1 THEN last ELSE row]
<1>4. h = [d \in 1 .. 2 |-> IF d > 1 THEN last ELSE ComboRow(g, versions, loops, d, h[d + 1])]
  BY ONLY <1>2, <1>3
<1>5. Num(g) + 1 = 2
  OBVIOUS
<1>6. IsCombos(h, g, versions, loops)
  BY <1>4, <1>5, Zenon DEF IsCombos
<1> PICK f : f = Combos(g, versions, loops)
  BY Zenon
<1>7. IsCombos(f, g, versions, loops)
  BY <1>6 DEF Combos
<1>8. f = [d \in 1 .. 2 |-> IF d > 1 THEN last ELSE ComboRow(g, versions, loops, d, f[d + 1])]
  BY <1>5, <1>7, Zenon DEF IsCombos
<1>9. f[2] = last /\ f[1] = ComboRow(g, versions, loops, 1, f[1 + 1])
  BY ONLY <1>1, <1>8
<1>10. f[1] = row
  <2>1. 1 + 1 = 2
    OBVIOUS
  <2> QED BY <1>9, <2>1, Zenon
<1> QED BY <1>10, CombosAre

ValidTriples(g, loops, v) ==
  {t \in Triples(g.devices[1]) : acc_tuner_is_valid_gwv_combinaison(loops[v], t)}

OneEach(S) == {<<t>> : t \in S}

LEMMA OneInFront ==
  ASSUME NEW x
  PROVE  Enumerates([r \in DOMAIN <<(<<>>)>> |-> <<x>> \o <<(<<>>)>>[r]], {<<x>>})
<1> PICK e, l, S, V : e = <<>> /\ l = <<e>> /\ S = {e} /\ V = {x}
  BY Zenon
<1>1. l \in Seq(S) /\ Len(l) = 1 /\ l[1] = e /\ S \subseteq Seq(V)
  OBVIOUS
<1>2. Enumerates(l, S)
  BY <1>1 DEF Enumerates
<1>3. Enumerates(InFront(l, x), AllInFront(S, x))
  BY <1>1, <1>2, Prefixed
<1>4. <<x>> \o e = <<x>>
  OBVIOUS
<1>5. AllInFront(S, x) = {<<x>>}
  BY <1>4 DEF AllInFront
<1> QED BY <1>3, <1>5, Zenon DEF InFront

LEMMA NothingListed == Enumerates(<<>>, {})
BY DEF Enumerates

LEMMA CombosListed ==
  ASSUME NEW g, GenDataOK(g), Num(g) = 1, NEW versions, NEW loops
  PROVE  Enumerates(acc_tuning_gen_valid_gwv_combinaisons(g, versions, loops),
                    OneEach(ValidTriples(g, loops, versions[1])))
<1> PICK l, T, S, last : /\ l = GwvList(g.devices[1]) /\ T = Triples(g.devices[1])
                         /\ S = OneEach(ValidTriples(g, loops, versions[1]))
                         /\ last = <<(<<>>)>>
  BY Zenon
<1> PICK n, good : n = Len(l) /\ good = {t \in T : acc_tuner_is_valid_gwv_combinaison(loops[versions[1]], t)}
  BY Zenon
<1>1. Enumerates(l, T)
  <2>1. 1 \in Devices(g)
    BY DevicesAre
  <2>2. NoRepeats(g.devices[1].gang) /\ NoRepeats(g.devices[1].worker) /\ NoRepeats(g.devices[1].vector)
    BY <2>1 DEF GenDataOK
  <2> QED BY <2>2, GwvListed
<1>2. /\ n \in Nat /\ DOMAIN l = 1 .. n /\ \A k \in 1 .. n : l[k] \in T
      /\ \A i, j \in 1 .. n : l[i] = l[j] => i = j
      /\ \A t \in T : \E k \in 1 .. n : l[k] = t
  BY <1>1, EnumerationFacts DEF Enumerates
<1>3. S = {<<t>> : t \in good}
  BY DEF OneEach, ValidTriples
<1> PICK ss, P : /\ ss = [k \in 1 .. n |-> IF l[k] \in good
                                            THEN [r \in DOMAIN last |-> <<l[k]>> \o last[r]]
                                            ELSE <<>>]
                 /\ P = [k \in 1 .. n |-> IF l[k] \in good THEN {<<l[k]>>} ELSE {}]
  BY Zenon
<1>4. \A k \in 1 .. n : Enumerates(ss[k], P[k]) /\ P[k] \subseteq S
  <2> TAKE k \in 1 .. n
  <2>1. CASE l[k] \in good
    <3>1. ss[k] = [r \in DOMAIN last |-> <<l[k]>> \o last[r]] /\ P[k] = {<<l[k]>>}
      BY <2>1
    <3>2. Enumerates(ss[k], P[k])
      BY <3>1, OneInFront, Zenon
    <3> QED BY <1>3, <2>1, <3>1, <3>2
  <2>2. CASE l[k] \notin good
    <3>1. ss[k] = <<>> /\ P[k] = {}
      BY <2>2
    <3> QED BY <3>1, NothingListed
  <2> QED BY <2>1, <2>2
<1>5. \A i, j \in 1 .. n : \A t \in P[i] \cap P[j] : i = j
  <2> TAKE i, j \in 1 .. n
  <2> TAKE t \in P[i] \cap P[j]
  <2>1. t = <<l[i]>> /\ t = <<l[j]>>
    OBVIOUS
  <2>2. l[i] = l[j] /\ i \in 1 .. n /\ j \in 1 .. n
    BY <2>1
  <2> QED BY ONLY <1>2, <2>2
<1>6. \A x : x \in S <=> \E k \in 1 .. n : x \in P[k]
  <2> TAKE x
  <2>1. ASSUME x \in S PROVE \E k \in 1 .. n : x \in P[k]
    <3>1. PICK t \in good : x = <<t>>
      BY <1>3, <2>1
    <3>2. PICK k \in 1 .. n : l[k] = t
      BY <1>2
    <3>3. x \in P[k]
      BY <3>1, <3>2
    <3> QED BY <3>3
  <2> QED BY <1>4, <2>1
<1>7. DOMAIN ss = 1 .. n /\ ss = [k \in 1 .. n |-> ss[k]]
  BY ONLY ss = [k \in 1 .. n |-> IF l[k] \in good
                                   THEN [r \in DOMAIN last |-> <<l[k]>> \o last[r]]
                                   ELSE <<>>]
<1>8. Enumerates(Joined(ss), S)
  BY ONLY <1>2, <1>4, <1>5, <1>6, <1>7, JoinedLists
<1>9. ComboRow(g, versions, loops, 1, last) = Joined(ss)
  <2>1. \A k \in 1 .. n : l[k] \in good <=> acc_tuner_is_valid_gwv_combinaison(loops[versions[1]], l[k])
    BY <1>2
  <2>2. [k \in DOMAIN l |-> IF acc_tuner_is_valid_gwv_combinaison(loops[versions[1]], l[k])
                              THEN [r \in DOMAIN last |-> <<l[k]>> \o last[r]]
                              ELSE <<>>] = ss
    BY <1>2, <2>1
  <2>3. l = GwvList(g.devices[1])
    OBVIOUS
  <2>4. ComboRow(g, versions, loops, 1, last) =
          Joined([k \in DOMAIN l |-> IF acc_tuner_is_valid_gwv_combinaison(loops[versions[1]], l[k])
                                       THEN [r \in DOMAIN last |-> <<l[k]>> \o last[r]]
                                       ELSE <<>>])
    BY ONLY <2>3, Zenon DEF ComboRow
  <2> QED BY ONLY <2>2, <2>4, Zenon
<1> QED BY <1>8, <1>9, CombosOfOne

\* Sequences of one element each, put one behind the other.
LEMMA JoinedSingles ==
  ASSUME NEW n \in Nat, NEW S, NEW ss \in [1 .. n -> Seq(S)], \A k \in 1 .. n : Len(ss[k]) = 1
  PROVE  \A k \in 1 .. n : Joined(ss)[k] = ss[k][1]
<1>1. PICK c : Lengths(c, n, ss)
  BY LengthsExist
<1>2. FlatTo(FlattenSeq(ss), n, c, ss, S)
  BY <1>1, FlattenFacts
<1> DEFINE Good == {k \in 0 .. n : c[k] = k}
<1>3. 0 \in Good
  BY <1>1 DEF Lengths
<1>4. ASSUME NEW k \in 0 .. n - 1, k \in Good PROVE k + 1 \in Good
  <2>1. k + 1 \in 1 .. n /\ (k + 1) - 1 = k /\ k + 1 \in 0 .. n
    OBVIOUS
  <2>2. c[k + 1] = c[k] + 1
    BY <1>1, <2>1 DEF Lengths
  <2> QED BY <1>4, <2>1, <2>2
<1> HIDE DEF Good
<1>5. \A k \in 0 .. n : k \in Good
  BY <1>3, <1>4, SetInduction
<1>6. ASSUME NEW k \in 1 .. n PROVE FlattenSeq(ss)[k] = ss[k][1]
  <2>1. k - 1 \in 0 .. n /\ (k - 1) + 1 = k /\ 1 \in 1 .. 1
    OBVIOUS
  <2>2. c[k - 1] = k - 1
    BY <1>5, <2>1 DEF Good
  <2>3. FlattenSeq(ss)[c[k - 1] + 1] = ss[k][1]
    BY <1>2, <2>1 DEF FlatTo
  <2> QED BY <2>1, <2>2, <2>3
<1> QED BY <1>6 DEF Joined

\* The runs of one device for one of its versions.
RunWith(g, v, t) == [version |-> v, gwv |-> t, portion |-> g.portions]
RunsOf(g, loops, v) == {<<RunWith(g, v, t)>> : t \in ValidTriples(g, loops, v)}

RunRow(g, versions, loops, portions) ==
  [k \in DOMAIN acc_tuning_gen_valid_gwv_combinaisons(g, versions, loops) |->
     DeviceParams(g, versions, portions, acc_tuning_gen_valid_gwv_combinaisons(g, versions, loops), k)]

LEMMA RunRowListed ==
  ASSUME NEW g, GenDataOK(g), Num(g) = 1, NEW versions, NEW loops, NEW portions, portions[1] = g.portions
  PROVE  Enumerates(RunRow(g, versions, loops, portions), RunsOf(g, loops, versions[1]))
<1> PICK l, v, T, S : /\ l = acc_tuning_gen_valid_gwv_combinaisons(g, versions, loops)
                      /\ v = versions[1] /\ T = ValidTriples(g, loops, v)
                      /\ S = OneEach(ValidTriples(g, loops, v))
  BY Zenon
<1> PICK n : n = Len(l)
  BY Zenon
<1>1. Enumerates(l, S)
  BY CombosListed
<1>2. /\ n \in Nat /\ DOMAIN l = 1 .. n /\ l \in [1 .. n -> S]
      /\ \A k \in 1 .. n : l[k] \in S
  BY <1>1, EnumerationFacts
<1>3. S = {<<t>> : t \in T}
  BY DEF OneEach
<1>4. \A k \in 1 .. n : l[k] \in Seq(T) /\ Len(l[k]) = 1
  <2> TAKE k \in 1 .. n
  <2>1. PICK t \in T : l[k] = <<t>>
    BY <1>2, <1>3
  <2> QED BY <2>1
<1>5. \A k \in 1 .. n : Joined(l)[k] = l[k][1]
  <2>1. l \in [1 .. n -> Seq(T)]
    BY <1>2, <1>4
  <2> QED BY ONLY <1>2, <1>4, <2>1, JoinedSingles
<1> PICK f, R : /\ f = [s \in S |-> <<RunWith(g, v, s[1])>>]
                /\ R = RunsOf(g, loops, v)
  BY Zenon
<1>6. R = {<<RunWith(g, v, t)>> : t \in T}
  BY DEF RunsOf
<1>7. \A s \in S : s[1] \in T /\ s = <<s[1]>> /\ f[s] = <<RunWith(g, v, s[1])>>
  BY <1>3
<1>8. f \in [S -> R]
  BY <1>6, <1>7
<1>9. \A r, s \in S : f[r] = f[s] => r = s
  <2> TAKE r, s \in S
  <2> HAVE f[r] = f[s]
  <2>1. <<RunWith(g, v, r[1])>> = <<RunWith(g, v, s[1])>>
    BY <1>7
  <2>2. RunWith(g, v, r[1]) = RunWith(g, v, s[1])
    BY ONLY <2>1
  <2>3. r[1] = s[1]
    BY ONLY <2>2 DEF RunWith
  <2> QED BY <1>7, <2>3
<1>10. \A x \in R : \E s \in S : f[s] = x
  <2> TAKE x \in R
  <2>1. PICK t \in T : x = <<RunWith(g, v, t)>>
    BY <1>6
  <2>2. <<t>> \in S /\ <<t>>[1] = t
    BY <1>3
  <2>3. f[<<t>>] = x
    BY <1>7, <2>1, <2>2
  <2> QED BY <2>2, <2>3
<1>11. RunRow(g, versions, loops, portions) = [k \in DOMAIN l |-> f[l[k]]]
  <2>1. Devices(g) = 1 .. 1
    BY DevicesAre
  <2>2. ASSUME NEW k \in 1 .. n PROVE DeviceParams(g, versions, portions, l, k) = f[l[k]]
    <3> PICK d : d = RunWith(g, v, l[k][1])
      BY Zenon
    <3>1. DeviceParams(g, versions, portions, l, k)
            = [e \in 1 .. 1 |-> [version |-> versions[e], gwv |-> Joined(l)[k], portion |-> portions[e]]]
      BY <2>1, Zenon DEF DeviceParams
    <3>2. \A e \in 1 .. 1 : [version |-> versions[e], gwv |-> Joined(l)[k], portion |-> portions[e]] = d
      <4> TAKE e \in 1 .. 1
      <4>1. e = 1
        OBVIOUS
      <4>2. versions[e] = v /\ Joined(l)[k] = l[k][1] /\ portions[e] = g.portions
        BY <1>5, <4>1
      <4> QED BY <4>2, Zenon DEF RunWith
    <3>3. DeviceParams(g, versions, portions, l, k) = [e \in 1 .. 1 |-> d]
      BY ONLY <3>1, <3>2
    <3>4. [e \in 1 .. 1 |-> d] = <<d>>
      OBVIOUS
    <3>5. f[l[k]] = <<d>>
      BY <1>2, <1>7
    <3> QED BY <3>3, <3>4, <3>5
  <2>3. RunRow(g, versions, loops, portions) = [k \in DOMAIN l |-> DeviceParams(g, versions, portions, l, k)]
    BY DEF RunRow
  <2> QED BY ONLY <1>2, <2>2, <2>3
<1> PICK m : m = RunRow(g, versions, loops, portions)
  BY Zenon
<1>12. m = [k \in DOMAIN l |-> f[l[k]]]
  BY <1>11, Zenon
<1>13. Enumerates(m, R)
  BY ONLY <1>1, <1>8, <1>9, <1>10, <1>12, MappedList
<1> QED BY <1>13

LEMMA OnlyShare ==
  ASSUME NEW k \in Nat
  PROVE  Shares(1, k) = {<<k>>}
<1> PICK e, l : e = <<k>> /\ l = <<e>>
  BY Zenon
<1>1. Enumerates(l, Shares(1, k))
  BY FirstShares
<1>2. Len(l) = 1 /\ l[1] = e /\ 1 \in 1 .. 1 /\ \A i \in 1 .. 1 : i = 1
  OBVIOUS
<1>3. e \in Shares(1, k) /\ \A x \in Shares(1, k) : x = e
  BY <1>1, <1>2, EnumerationFacts DEF Enumerates
<1> QED BY <1>3

\* The choices for the one device are its versions.
LEMMA OnlyChoice ==
  ASSUME NEW g, GenDataOK(g), Num(g) = 1
  PROVE  /\ \A c \in LaterChoices(g, 1) : c[1] \in ToSet(VersionsOf(g, 1)) /\ c = <<c[1]>>
         /\ \A v \in ToSet(VersionsOf(g, 1)) : <<v>> \in LaterChoices(g, 1)
<1>1. Num(g) + 1 - 1 = 1 /\ 1 + 1 - 1 = 1 /\ 1 \in 1 .. 1 /\ \A j \in 1 .. 1 : j = 1
  OBVIOUS
<1> PICK A, V : A = AllVersions(g) /\ V = ToSet(VersionsOf(g, 1))
  BY Zenon
<1>2. LaterChoices(g, 1) = {s \in [1 .. 1 -> A] : \A j \in 1 .. 1 : s[j] \in ToSet(VersionsOf(g, 1 + j - 1))}
  BY <1>1 DEF LaterChoices
<1>3. \A j \in 1 .. 1 : 1 + j - 1 = 1
  OBVIOUS
<1>4. LaterChoices(g, 1) = {s \in [1 .. 1 -> A] : s[1] \in V}
  BY <1>1, <1>2, <1>3
<1>5. V \subseteq A
  <2>1. 1 \in Devices(g)
    BY DevicesAre
  <2> QED BY <2>1, VersionFacts
<1>6. \A s \in [1 .. 1 -> A] : s = <<s[1]>>
  OBVIOUS
<1>7. \A v \in A : <<v>> \in [1 .. 1 -> A] /\ <<v>>[1] = v
  OBVIOUS
<1> QED BY <1>4, <1>5, <1>6, <1>7

LEMMA ValidRunsAre ==
  ASSUME NEW g, NEW loops
  PROVE  \A x : x \in ValidRuns(g, loops) <=>
                  \E v \in ToSet(VersionsOf(g, 1)) : x \in RunsOf(g, loops, v)
<1> PICK T, V, K : T = Triples(g.devices[1]) /\ V = ToSet(g.devices[1].versions) /\ K = g.portions
  BY Zenon
<1> PICK all : all = [version : V, portion : {K}, gwv : T]
  BY Zenon
<1> DEFINE Gwvs == {<<x, y, z>> : x \in ToSet(g.devices[1].gang), y \in ToSet(g.devices[1].worker),
                                  z \in ToSet(g.devices[1].vector)}
<1>1. Gwvs = T
  BY DEF Triples
<1>2. ValidRuns(g, loops) =
        {<<r>> : r \in {x \in all : acc_tuner_is_valid_gwv_combinaison(loops[x.version], x.gwv)}}
  <2>1. ValidRuns(g, loops) =
          {<<r>> : r \in {x \in [version : ToSet(g.devices[1].versions), portion : {g.portions}, gwv : Gwvs] :
                            acc_tuner_is_valid_gwv_combinaison(loops[x.version], x.gwv)}}
    BY DEF ValidRuns
  <2> HIDE DEF Gwvs
  <2>2. [version : ToSet(g.devices[1].versions), portion : {g.portions}, gwv : Gwvs]
          = [version : V, portion : {K}, gwv : T]
    BY <1>1
  <2>3. [version : ToSet(g.devices[1].versions), portion : {g.portions}, gwv : Gwvs] = all
    BY ONLY <2>2, all = [version : V, portion : {K}, gwv : T], Zenon
  <2> QED BY <2>1, <2>3, Zenon
<1> HIDE DEF Gwvs
<1>3. ASSUME NEW x, x \in ValidRuns(g, loops)
      PROVE  \E v \in V : x \in RunsOf(g, loops, v)
  <2>1. PICK r \in all : acc_tuner_is_valid_gwv_combinaison(loops[r.version], r.gwv) /\ x = <<r>>
    BY <1>2, <1>3
  <2>2. r.version \in V /\ r.gwv \in T /\ r = [version |-> r.version, gwv |-> r.gwv, portion |-> K]
    BY DEF RunWith
  <2>3. r.gwv \in ValidTriples(g, loops, r.version)
    BY <2>1, <2>2 DEF ValidTriples
  <2>4. r = RunWith(g, r.version, r.gwv)
    BY <2>2, Zenon DEF RunWith
  <2>5. x \in RunsOf(g, loops, r.version)
    BY <2>1, <2>3, <2>4 DEF RunsOf
  <2> QED BY <2>2, <2>5
<1>4. ASSUME NEW x, NEW v \in V, x \in RunsOf(g, loops, v)
      PROVE  x \in ValidRuns(g, loops)
  <2>1. PICK t \in ValidTriples(g, loops, v) : x = <<RunWith(g, v, t)>>
    BY <1>4 DEF RunsOf
  <2>2. t \in T /\ acc_tuner_is_valid_gwv_combinaison(loops[v], t)
    BY <2>1 DEF ValidTriples
  <2> PICK r : r = RunWith(g, v, t)
    BY Zenon
  <2>3. r \in all /\ r.version = v /\ r.gwv = t
    BY <2>2 DEF RunWith
  <2>4. acc_tuner_is_valid_gwv_combinaison(loops[r.version], r.gwv)
    BY <2>2, <2>3, Zenon
  <2> QED BY <1>2, <2>1, <2>3, <2>4
<1> QED BY <1>3, <1>4 DEF VersionsOf

RunRows(g, versions, portions, loops) ==
  Joined([q \in DOMAIN portions |-> RunRow(g, versions, loops, portions[q])])

LEMMA GenerateIs ==
  ASSUME NEW g, NEW loops
  PROVE  LET versions == acc_tuning_gen_all_version_combinaisons(g)
             portions == acc_tuning_gen_all_portion_combinaisons(g.portions, Num(g))
         IN  acc_tuning_generate(g, loops) =
               Joined([v \in DOMAIN versions |-> RunRows(g, versions[v], portions, loops)])
BY DEF acc_tuning_generate, RunRows, RunRow

LEMMA RunRowsListed ==
  ASSUME NEW g, GenDataOK(g), Num(g) = 1, NEW versions, NEW loops, NEW portions,
         Enumerates(portions, Shares(1, g.portions))
  PROVE  Enumerates(RunRows(g, versions, portions, loops), RunsOf(g, loops, versions[1]))
<1> PICK n, K, S : n = Len(portions) /\ K = g.portions /\ S = RunsOf(g, loops, versions[1])
  BY Zenon
<1>1. K \in Nat
  BY DevicesAre
<1>2. Shares(1, K) = {<<K>>}
  BY <1>1, OnlyShare
<1>3. /\ n \in Nat /\ DOMAIN portions = 1 .. n
      /\ \A q \in 1 .. n : portions[q] = <<K>>
      /\ \A i, j \in 1 .. n : portions[i] = portions[j] => i = j
      /\ \E q \in 1 .. n : portions[q] = <<K>>
  BY <1>2, EnumerationFacts DEF Enumerates
<1> PICK ss, P : /\ ss = [q \in 1 .. n |-> RunRow(g, versions, loops, portions[q])]
                 /\ P = [q \in 1 .. n |-> S]
  BY Zenon
<1>4. \A q \in 1 .. n : Enumerates(ss[q], P[q]) /\ P[q] \subseteq S
  <2> TAKE q \in 1 .. n
  <2>1. portions[q][1] = g.portions
    BY <1>3
  <2>2. Enumerates(RunRow(g, versions, loops, portions[q]), S)
    BY <2>1, RunRowListed
  <2> QED BY <2>2
<1>5. \A i, j \in 1 .. n : \A x \in P[i] \cap P[j] : i = j
  BY <1>3
<1>6. \A x : x \in S <=> \E q \in 1 .. n : x \in P[q]
  BY <1>3
<1>7. DOMAIN ss = 1 .. n /\ ss = [q \in 1 .. n |-> ss[q]]
  BY ONLY ss = [q \in 1 .. n |-> RunRow(g, versions, loops, portions[q])]
<1>8. Enumerates(Joined(ss), S)
  BY ONLY <1>3, <1>4, <1>5, <1>6, <1>7, JoinedLists
<1>9. RunRows(g, versions, portions, loops) = Joined(ss)
  BY <1>3, Zenon DEF RunRows
<1> QED BY <1>8, <1>9

LEMMA EveryRunListed ==
  ASSUME NEW g, GenDataOK(g), Num(g) = 1, NEW loops
  PROVE  RunsListed(g, loops)
<1> PICK vl, pl : /\ vl = acc_tuning_gen_all_version_combinaisons(g)
                  /\ pl = acc_tuning_gen_all_portion_combinaisons(g.portions, Num(g))
  BY Zenon
<1> PICK n, C, V, S : /\ n = Len(vl) /\ C = LaterChoices(g, 1)
                      /\ V = ToSet(VersionsOf(g, 1)) /\ S = ValidRuns(g, loops)
  BY Zenon
<1>1. Enumerates(vl, C)
  BY VersionLists
<1>2. Enumerates(pl, Shares(1, g.portions))
  <2>1. g.portions \in Nat /\ 1 \in Nat \ {0}
    BY DevicesAre
  <2> QED BY <2>1, PortionLists
<1>3. /\ n \in Nat /\ DOMAIN vl = 1 .. n /\ \A k \in 1 .. n : vl[k] \in C
      /\ \A i, j \in 1 .. n : vl[i] = vl[j] => i = j
      /\ \A c \in C : \E k \in 1 .. n : vl[k] = c
  BY <1>1, EnumerationFacts DEF Enumerates
<1>4. /\ \A c \in C : c[1] \in V /\ c = <<c[1]>>
      /\ \A v \in V : <<v>> \in C
  BY OnlyChoice
<1>5. \A x : x \in S <=> \E v \in V : x \in RunsOf(g, loops, v)
  BY ValidRunsAre
<1> PICK ss, P : /\ ss = [k \in 1 .. n |-> RunRows(g, vl[k], pl, loops)]
                 /\ P = [k \in 1 .. n |-> RunsOf(g, loops, vl[k][1])]
  BY Zenon
<1>6. \A k \in 1 .. n : Enumerates(ss[k], P[k]) /\ P[k] \subseteq S
  <2> TAKE k \in 1 .. n
  <2>1. Enumerates(RunRows(g, vl[k], pl, loops), RunsOf(g, loops, vl[k][1]))
    BY <1>2, RunRowsListed
  <2>2. vl[k][1] \in V
    BY <1>3, <1>4
  <2> QED BY <1>5, <2>1, <2>2
<1>7. \A i, j \in 1 .. n : \A x \in P[i] \cap P[j] : i = j
  <2> TAKE i, j \in 1 .. n
  <2> TAKE x \in P[i] \cap P[j]
  <2>1. x \in RunsOf(g, loops, vl[i][1]) /\ x \in RunsOf(g, loops, vl[j][1])
    OBVIOUS
  <2>2. PICK t \in ValidTriples(g, loops, vl[i][1]) : x = <<RunWith(g, vl[i][1], t)>>
    BY <2>1 DEF RunsOf
  <2>3. PICK u \in ValidTriples(g, loops, vl[j][1]) : x = <<RunWith(g, vl[j][1], u)>>
    BY <2>1 DEF RunsOf
  <2>4. RunWith(g, vl[i][1], t) = RunWith(g, vl[j][1], u)
    BY ONLY <2>2, <2>3
  <2>5. vl[i][1] = vl[j][1]
    BY ONLY <2>4 DEF RunWith
  <2>6. vl[i] = vl[j] /\ i \in 1 .. n /\ j \in 1 .. n
    BY <1>3, <1>4, <2>5
  <2> QED BY ONLY <1>3, <2>6
<1>8. \A x : x \in S <=> \E k \in 1 .. n : x \in P[k]
  <2> TAKE x
  <2>1. ASSUME x \in S PROVE \E k \in 1 .. n : x \in P[k]
    <3>1. PICK v \in V : x \in RunsOf(g, loops, v)
      BY <1>5, <2>1
    <3>2. PICK k \in 1 .. n : vl[k] = <<v>>
      BY <1>3, <1>4
    <3>3. vl[k][1] = v
      BY <3>2
    <3> QED BY <3>1, <3>3
  <2> QED BY <1>6, <2>1
<1>9. DOMAIN ss = 1 .. n /\ ss = [k \in 1 .. n |-> ss[k]]
  BY ONLY ss = [k \in 1 .. n |-> RunRows(g, vl[k], pl, loops)]
<1>10. Enumerates(Joined(ss), S)
  BY ONLY <1>3, <1>6, <1>7, <1>8, <1>9, JoinedLists
<1>11. acc_tuning_generate(g, loops) = Joined(ss)
  BY <1>3, GenerateIs
<1> QED BY <1>10, <1>11, ListedOnce DEF RunsListed

\* Whatever the values a device is to be tried with, the choices of versions and
\* of portions are generated once each, as many of them as are computed, and so
\* are the runs of one device that are valid for the loops of their version.
THEOREM GenerationAlwaysComplete == TSpec => []GenerationComplete
<1>1. GenDataOK(GenData) /\ Num(GenData) = 1
  BY SpacesAssumption, TunerAssumption DEF Num
<1>2. SpacesListed
  <2>1. ASSUME NEW s \in Spaces PROVE GenDataOK(s.gen)
    BY SpacesAssumption
  <2>2. ASSUME NEW s \in Spaces
        PROVE  ChoicesListed(s.gen) /\ (Num(s.gen) = 1 => RunsListed(s.gen, s.loops))
    BY <2>1, EveryChoiceListed, EveryRunListed
  <2> QED BY <2>2, Zenon DEF SpacesListed
<1>3. RunsListed(GenData, LoopsOf(Content(Versions)))
  BY <1>1, EveryRunListed
<1>4. GenerationComplete
  BY <1>2, <1>3, Zenon DEF GenerationComplete
<1> QED BY <1>4, PTL
==============================================================================
