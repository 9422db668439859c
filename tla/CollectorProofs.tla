-------------------------- MODULE CollectorProofs --------------------------
(***************************************************************************)
(* What a run of the collector promises, for any number of overlapping     *)
(* runs, any records and timestamps, and any batch size.  None of the      *)
(* promises is inductive alone: that exit 0 means stored depends on what   *)
(* is left to insert, and that a commit meets no duplicate on who holds    *)
(* the write lock.                                                         *)
(***************************************************************************)
EXTENDS Collector, FiniteSetTheorems, TLAPS

USE PopCountAssumption, MalformedAssumption, PublishedAssumption

Elems(s) == {s[i] : i \in DOMAIN s}

\* What is inserted and not committed is of the run's batch, alone under the
\* lock, and no duplicate of a row or of one another.
StagedInv(p) ==
    /\ run[p].staged \subseteq Fetched(p)
    /\ run[p].staged # {} =>
         /\ run[p].at = "inserting"
         /\ writer = {p}
         /\ StampsOf(run[p].staged) \cap StampsOf(rows) = {}
    /\ \A r, s \in run[p].staged : Timestamp(r) = Timestamp(s) => r = s

\* What a run has fetched is stored, inserted or still to be inserted.
PendingInv(p) ==
    /\ Elems(run[p].todo) \subseteq Fetched(p)
    /\ run[p].at \in {"opened", "asking", "answered"} => run[p].todo = <<>>
    /\ run[p].at = "inserting" =>
         StampsOf(Fetched(p)) \subseteq StampsOf(rows \cup run[p].staged \cup Elems(run[p].todo))
    /\ run[p].at \in {"committed", "0"} => StampsOf(Fetched(p)) \subseteq StampsOf(rows)

\* The count is that of the rows inserted.
CountInv(p) ==
    /\ IsFiniteSet(run[p].staged)
    /\ run[p].at \in {"opened", "asking", "answered", "inserting"} =>
         run[p].count = Cardinality(run[p].staged)

RunInv(p) == StagedInv(p) /\ PendingInv(p) /\ CountInv(p)

RowsInv == IsFiniteSet(rows) /\ OneRowPerTimestamp

CollectorInv == TypeOK /\ RowsInv /\ \A p \in Procs : RunInv(p)

-----------------------------------------------------------------------------
(* Sequences.                                                              *)

LEMMA ElemsOfTail ==
    ASSUME NEW s \in Seq(Records), s # <<>>
    PROVE  /\ Tail(s) \in Seq(Records) /\ Head(s) \in Records
           /\ Elems(s) = {Head(s)} \cup Elems(Tail(s))
<1>1. /\ Tail(s) \in Seq(Records) /\ Head(s) \in Records /\ Head(s) = s[1]
      /\ Len(s) \in Nat \ {0}
      /\ DOMAIN s = 1 .. Len(s) /\ DOMAIN Tail(s) = 1 .. Len(s) - 1
  OBVIOUS
<1>2. \A i \in 1 .. Len(s) - 1 : Tail(s)[i] = s[i + 1]
  OBVIOUS
<1>3. ASSUME NEW x \in Elems(s) PROVE x \in {Head(s)} \cup Elems(Tail(s))
  <2>1. PICK i \in 1 .. Len(s) : x = s[i]
    BY <1>1 DEF Elems
  <2>2. CASE i = 1
    BY <2>1, <2>2, <1>1
  <2>3. CASE i # 1
    <3>1. i - 1 \in 1 .. Len(s) - 1 /\ (i - 1) + 1 = i
      BY <2>3, <1>1
    <3>2. x = Tail(s)[i - 1]
      BY <3>1, <2>1, <1>2
    <3> QED  BY <3>1, <3>2, <1>1 DEF Elems
  <2> QED  BY <2>2, <2>3
<1>4. ASSUME NEW x \in Elems(Tail(s)) PROVE x \in Elems(s)
  <2>1. PICK i \in 1 .. Len(s) - 1 : x = Tail(s)[i]
    BY <1>1 DEF Elems
  <2>2. i + 1 \in 1 .. Len(s) /\ x = s[i + 1]
    BY <2>1, <1>1, <1>2
  <2> QED  BY <2>2, <1>1 DEF Elems
<1>5. Head(s) \in Elems(s)
  BY <1>1 DEF Elems
<1> QED  BY <1>1, <1>3, <1>4, <1>5

LEMMA ElemsOfEmpty == Elems(<<>>) = {}
  BY DEF Elems

LEMMA Pieces ==
    ASSUME TypeOK
    PROVE  /\ SubSeq(queue, 1, Popped) \in Seq(Records)
           /\ SubSeq(queue, Popped + 1, Len(queue)) \in Seq(Records)
<1>1. Popped \in 0 .. Len(queue) /\ Len(queue) \in Nat /\ queue \in Seq(Records)
  BY DEF Popped, TypeOK
<1> QED  BY <1>1

-----------------------------------------------------------------------------
(* Types.                                                                  *)

LEMMA ExitTypes ==
    ASSUME TypeOK, NEW p \in Procs, NEW code \in Exited, Exit(p, code)
    PROVE  TypeOK'
<1>1. run[p] \in Run
  BY DEF TypeOK
<1>2. run' = [run EXCEPT ![p] = [run[p] EXCEPT !.at = code, !.todo = <<>>, !.staged = {}]]
  BY DEF Exit, TypeOK
<1>3. [run[p] EXCEPT !.at = code, !.todo = <<>>, !.staged = {}] \in Run
  <2>1. <<>> \in Seq(Records)
    OBVIOUS
  <2> QED  BY <1>1, <2>1 DEF Run
<1>4. run' \in [Procs -> Run]
  BY <1>2, <1>3 DEF TypeOK
<1> QED  BY <1>4 DEF TypeOK, Exit

LEMMA RunTypes ==
    ASSUME TypeOK, NEW p \in Procs, NEW r \in Run, run' = [run EXCEPT ![p] = r]
    PROVE  run' \in [Procs -> Run] /\ run'[p] = r /\ \A q \in Procs \ {p} : run'[q] = run[q]
  BY DEF TypeOK

\* What each of the actions does to the run and to the rest.
LEMMA StepTypes ==
    ASSUME TypeOK, NEW p \in Procs, Step(p)
    PROVE  TypeOK'
<1>0. run[p] \in Run /\ run \in [Procs -> Run]
  BY DEF TypeOK
<1>1. CASE Start(p) \/ StartFails(p)
  <2>1. \A code \in {"opened", "1", "2"} :
          [at |-> code, batch |-> <<>>, todo |-> <<>>, staged |-> {}, count |-> 0] \in Run
    BY DEF Run, Working, Exited
  <2> QED  BY <1>1, <2>1 DEF Start, StartFails, TypeOK
<1>2. CASE Ask(p)
  <2>1. [run[p] EXCEPT !.at = "asking"] \in Run
    BY <1>0 DEF Run, Working
  <2> QED  BY <1>2, <2>1 DEF Ask, TypeOK
<1>3. CASE Serve(p)
  <2>1. [run[p] EXCEPT !.at = "answered", !.batch = SubSeq(queue, 1, Popped)] \in Run
    BY <1>0, Pieces DEF Run, Working
  <2>2. run' = [run EXCEPT ![p] = [run[p] EXCEPT !.at = "answered", !.batch = SubSeq(queue, 1, Popped)]]
    BY <1>3 DEF Serve, TypeOK
  <2>3. run' \in [Procs -> Run]
    BY <2>1, <2>2, <1>0
  <2> QED  BY <1>3, <2>3, Pieces DEF Serve, TypeOK
<1>4. CASE \E code \in Exited : Exit(p, code)
  BY <1>4, ExitTypes
<1>5. CASE Parse(p)
  <2>1. [run[p] EXCEPT !.at = "inserting", !.todo = run[p].batch] \in Run
    BY <1>0 DEF Run, Working
  <2>2. run' = [run EXCEPT ![p] = [run[p] EXCEPT !.at = "inserting", !.todo = run[p].batch]]
    BY <1>5 DEF Parse, TypeOK
  <2> QED  BY <1>5, <2>1, <2>2 DEF Parse, TypeOK
<1>6. CASE InsertRow(p)
  <2> DEFINE r == Head(run[p].todo)
             next == [run[p] EXCEPT !.todo = Tail(@),
                                    !.staged = IF Ignored(p, r) THEN @ ELSE @ \cup {r},
                                    !.count = @ + Changes(p, r)]
  <2>1. run[p].todo \in Seq(Records) /\ run[p].todo # <<>>
    BY <1>0, <1>6 DEF InsertRow, Run
  <2>2. r \in Records /\ Tail(run[p].todo) \in Seq(Records)
    BY <2>1, ElemsOfTail
  <2>3. run[p].count + Changes(p, r) \in Nat
    BY <1>0 DEF Run, Changes
  <2>4. next \in Run
    BY <1>0, <2>2, <2>3 DEF Run
  <2>5. run' = [run EXCEPT ![p] = next]
    BY <1>6, <1>0 DEF InsertRow
  <2> HIDE DEF next
  <2>6. run' \in [Procs -> Run]
    BY <2>4, <2>5, <1>0
  <2> QED  BY <1>6, <2>6 DEF InsertRow, TypeOK
<1>7. CASE Commit(p)
  <2>1. [run[p] EXCEPT !.at = "committed", !.staged = {}] \in Run
    BY <1>0 DEF Run, Working
  <2>2. run' = [run EXCEPT ![p] = [run[p] EXCEPT !.at = "committed", !.staged = {}]]
    BY <1>7 DEF Commit, TypeOK
  <2>3. rows' \subseteq Records
    BY <1>0, <1>7 DEF Commit, TypeOK, Run
  <2> QED  BY <1>7, <2>1, <2>2, <2>3 DEF Commit, TypeOK
<1>8. Refused(p) \/ AnswerLost(p) \/ Invalid(p) \/ WriteFails(p) \/ Done(p) \/ Kill(p)
         => \E code \in Exited : Exit(p, code)
  BY DEF Refused, AnswerLost, Invalid, WriteFails, Done, Kill, Exited
<1> QED  BY <1>1, <1>2, <1>3, <1>4, <1>5, <1>6, <1>7, <1>8 DEF Step

LEMMA QueueTypes ==
    ASSUME TypeOK, Discard \/ \E r \in Records : Publish(r)
    PROVE  TypeOK'
<1>1. CASE Discard
  <2>1. Tail(queue) \in Seq(Records)
    BY <1>1 DEF Discard, TypeOK
  <2> QED  BY <1>1, <2>1 DEF Discard, TypeOK
<1>2. ASSUME NEW r \in Records, Publish(r) PROVE TypeOK'
  <2>1. Append(queue, r) \in Seq(Records) /\ published + 1 \in 0 .. MaxPublished
    BY <1>2 DEF Publish, TypeOK
  <2> QED  BY <1>2, <2>1 DEF Publish, TypeOK
<1> QED  BY <1>1, <1>2

\* What the queue, the database and the runs hold has its type (cli.py, schemas.py).
THEOREM TypeCorrect == Spec => []TypeOK
<1>1. Init => TypeOK
  BY DEF Init, TypeOK, Run, Working, Exited
<1>2. TypeOK /\ [Next]_vars => TypeOK'
  <2> SUFFICES ASSUME TypeOK, [Next]_vars PROVE TypeOK'
    OBVIOUS
  <2>1. CASE UNCHANGED vars
    BY <2>1 DEF vars, TypeOK
  <2> QED  BY <2>1, StepTypes, QueueTypes DEF Next
<1> QED  BY <1>1, <1>2, PTL DEF Spec
-----------------------------------------------------------------------------
(* The invariant.                                                          *)

LEMMA StampsOfUnion ==
    \A S, T : /\ StampsOf(S \cup T) = StampsOf(S) \cup StampsOf(T)
              /\ S \subseteq T => StampsOf(S) \subseteq StampsOf(T)
  BY DEF StampsOf

\* A run is not disturbed by one that adds rows under the lock.
LEMMA OthersKeep ==
    ASSUME CollectorInv, NEW p \in Procs, NEW q \in Procs, p # q,
           run'[q] = run[q], rows \subseteq rows',
           run[q].staged # {} => rows' = rows /\ writer' = writer
    PROVE  RunInv(q)'
<1>1. RunInv(q)
  BY DEF CollectorInv
<1>2. Fetched(q)' = Fetched(q)
  BY DEF Fetched
<1>3. StampsOf(rows) \subseteq StampsOf(rows')
  BY StampsOfUnion
<1>4. StampsOf(rows \cup run[q].staged \cup Elems(run[q].todo))
        \subseteq StampsOf(rows' \cup run[q].staged \cup Elems(run[q].todo))
  BY StampsOfUnion
<1>5. StagedInv(q)'
  <2>1. run'[q].staged \subseteq Fetched(q)'
    BY <1>1, <1>2 DEF RunInv, StagedInv
  <2>2. ASSUME run[q].staged # {}
        PROVE  /\ run'[q].at = "inserting"
               /\ writer' = {q}
               /\ StampsOf(run'[q].staged) \cap StampsOf(rows') = {}
    BY <2>2, <1>1 DEF RunInv, StagedInv
  <2>3. \A r, s \in run'[q].staged : Timestamp(r) = Timestamp(s) => r = s
    BY <1>1 DEF RunInv, StagedInv
  <2> QED  BY <2>1, <2>2, <2>3 DEF StagedInv
<1>6. PendingInv(q)'
  <2>1. run[q].at = "inserting" =>
          StampsOf(Fetched(q)) \subseteq StampsOf(rows' \cup run[q].staged \cup Elems(run[q].todo))
    BY <1>1, <1>4 DEF RunInv, PendingInv
  <2>2. run[q].at \in {"committed", "0"} => StampsOf(Fetched(q)) \subseteq StampsOf(rows')
    BY <1>1, <1>3 DEF RunInv, PendingInv
  <2> QED  BY <1>1, <1>2, <2>1, <2>2 DEF RunInv, PendingInv
<1>7. CountInv(q)'
  BY <1>1 DEF RunInv, CountInv
<1> QED  BY <1>5, <1>6, <1>7 DEF RunInv

\* A run outside its transaction has inserted nothing.
LEMMA NothingStaged ==
    ASSUME CollectorInv, NEW p \in Procs, run[p].at # "inserting"
    PROVE  run[p].staged = {}
  BY DEF CollectorInv, RunInv, StagedInv

\* A run that has just started, asks, or has its answer owes nothing yet.
LEMMA FreshRun ==
    ASSUME NEW p \in Procs, run'[p].staged = {}, run'[p].todo = <<>>, run'[p].count = 0,
           run'[p].at \notin {"inserting", "committed", "0"}
    PROVE  RunInv(p)'
<1>1. IsFiniteSet({}) /\ Cardinality({}) = 0
  BY FS_EmptySet
<1>2. StagedInv(p)'
  BY DEF StagedInv
<1>3. PendingInv(p)'
  BY ElemsOfEmpty DEF PendingInv
<1>4. CountInv(p)'
  BY <1>1 DEF CountInv
<1> QED  BY <1>2, <1>3, <1>4 DEF RunInv

LEMMA ExitKeeps ==
    ASSUME CollectorInv, NEW p \in Procs, NEW code \in Exited, Exit(p, code),
           code = "0" => run[p].at = "committed"
    PROVE  CollectorInv'
<1>1. TypeOK' /\ TypeOK
  BY ExitTypes DEF CollectorInv
<1>2. /\ run'[p].at = code /\ run'[p].todo = <<>> /\ run'[p].staged = {}
      /\ run'[p].batch = run[p].batch
      /\ \A q \in Procs \ {p} : run'[q] = run[q]
  BY <1>1 DEF Exit, TypeOK, Run
<1>3. rows' = rows /\ writer' = writer \ {p}
  BY DEF Exit
<1>4. RowsInv'
  BY <1>3 DEF CollectorInv, RowsInv, OneRowPerTimestamp
<1>5. ASSUME NEW q \in Procs, q # p PROVE RunInv(q)'
  <2>1. run[q].staged # {} => writer = {q}
    BY DEF CollectorInv, RunInv, StagedInv
  <2>2. run[q].staged # {} => writer' = writer
    BY <2>1, <1>3, <1>5
  <2> QED  BY <1>2, <1>3, <1>5, <2>2, OthersKeep
<1>6. RunInv(p)'
  <2>1. StagedInv(p)'
    BY <1>2 DEF StagedInv
  <2>2. Fetched(p)' = Fetched(p)
    BY <1>2 DEF Fetched
  <2>3. code \in {"committed", "0"} => StampsOf(Fetched(p)) \subseteq StampsOf(rows)
    BY DEF CollectorInv, RunInv, PendingInv, Exited
  <2>4. code # "inserting" /\ code \notin {"opened", "asking", "answered"}
    BY DEF Exited
  <2>5. PendingInv(p)'
    BY <1>2, <1>3, <2>2, <2>3, <2>4, ElemsOfEmpty DEF PendingInv
  <2>6. CountInv(p)'
    BY <1>2, <2>4, FS_EmptySet DEF CountInv
  <2> QED  BY <2>1, <2>5, <2>6 DEF RunInv
<1> QED  BY <1>1, <1>4, <1>5, <1>6 DEF CollectorInv

LEMMA StartKeeps ==
    ASSUME CollectorInv, NEW p \in Procs, Start(p) \/ StartFails(p)
    PROVE  CollectorInv'
<1>1. TypeOK' /\ TypeOK
  BY StepTypes DEF CollectorInv, Step
<1>2. /\ run'[p].at \in {"opened", "1", "2"} /\ run'[p].todo = <<>>
      /\ run'[p].staged = {} /\ run'[p].count = 0
      /\ \A q \in Procs \ {p} : run'[q] = run[q]
      /\ rows' = rows /\ writer' = writer
  BY <1>1 DEF Start, StartFails, TypeOK
<1>3. \A q \in Procs \ {p} : RunInv(q)'
  BY <1>2, OthersKeep
<1>4. RunInv(p)'
  BY <1>2, FreshRun
<1> QED  BY <1>1, <1>2, <1>3, <1>4 DEF CollectorInv, RowsInv, OneRowPerTimestamp
LEMMA AskKeeps ==
    ASSUME CollectorInv, NEW p \in Procs, Ask(p) \/ Serve(p)
    PROVE  CollectorInv'
<1>1. TypeOK' /\ TypeOK
  BY StepTypes DEF CollectorInv, Step
<1>2. /\ run[p].at \in {"opened", "asking"} /\ run'[p].at \in {"asking", "answered"}
      /\ run'[p].todo = run[p].todo /\ run'[p].staged = run[p].staged
      /\ run'[p].count = run[p].count
      /\ \A q \in Procs \ {p} : run'[q] = run[q]
      /\ rows' = rows /\ writer' = writer
  BY <1>1 DEF Ask, Serve, TypeOK, Run
<1>3. \A q \in Procs \ {p} : RunInv(q)'
  BY <1>2, OthersKeep
<1>4. run[p].staged = {} /\ run[p].todo = <<>> /\ run[p].count = 0
  <2>1. run[p].staged = {}
    BY <1>2, NothingStaged
  <2> QED  BY <2>1, <1>2, FS_EmptySet DEF CollectorInv, RunInv, PendingInv, CountInv
<1>5. RunInv(p)'
  BY <1>2, <1>4, FreshRun
<1> QED  BY <1>1, <1>2, <1>3, <1>5 DEF CollectorInv, RowsInv, OneRowPerTimestamp

LEMMA ParseKeeps ==
    ASSUME CollectorInv, NEW p \in Procs, Parse(p)
    PROVE  CollectorInv'
<1>1. TypeOK' /\ TypeOK
  BY StepTypes DEF CollectorInv, Step
<1>2. /\ run[p].at = "answered" /\ run'[p].at = "inserting"
      /\ run'[p].todo = run[p].batch /\ run'[p].batch = run[p].batch
      /\ run'[p].staged = run[p].staged /\ run'[p].count = run[p].count
      /\ \A q \in Procs \ {p} : run'[q] = run[q]
      /\ rows' = rows /\ writer' = writer
  BY <1>1 DEF Parse, TypeOK, Run
<1>3. \A q \in Procs \ {p} : RunInv(q)'
  BY <1>2, OthersKeep
<1>4. run[p].staged = {} /\ run[p].count = 0
  <2>1. run[p].staged = {}
    BY <1>2, NothingStaged
  <2> QED  BY <2>1, <1>2, FS_EmptySet DEF CollectorInv, RunInv, CountInv
<1>5. Fetched(p)' = Elems(run'[p].todo)
  BY <1>2 DEF Fetched, Elems
<1>6. StagedInv(p)'
  BY <1>2, <1>4 DEF StagedInv
<1>7. PendingInv(p)'
  BY <1>2, <1>5, StampsOfUnion DEF PendingInv
<1>8. CountInv(p)'
  BY <1>2, <1>4, FS_EmptySet DEF CountInv
<1>9. RunInv(p)'
  BY <1>6, <1>7, <1>8 DEF RunInv
<1> QED  BY <1>1, <1>2, <1>3, <1>9 DEF CollectorInv, RowsInv, OneRowPerTimestamp

LEMMA InsertKeeps ==
    ASSUME CollectorInv, NEW p \in Procs, InsertRow(p)
    PROVE  CollectorInv'
<1> DEFINE r == Head(run[p].todo)
<1>1. TypeOK' /\ TypeOK /\ RunInv(p)
  BY StepTypes DEF CollectorInv, Step
<1>2. /\ run[p].at = "inserting" /\ run'[p].at = "inserting"
      /\ run'[p].todo = Tail(run[p].todo) /\ run'[p].batch = run[p].batch
      /\ run'[p].staged = (IF Ignored(p, r) THEN run[p].staged ELSE run[p].staged \cup {r})
      /\ run'[p].count = run[p].count + Changes(p, r)
      /\ \A q \in Procs \ {p} : run'[q] = run[q]
      /\ rows' = rows /\ writer' = {p} /\ writer \subseteq {p}
  BY <1>1 DEF InsertRow, TypeOK, Run, LockFree
<1>3. /\ r \in Records /\ Elems(run[p].todo) = {r} \cup Elems(run'[p].todo)
      /\ r \in Fetched(p)
  <2>1. run[p].todo \in Seq(Records) /\ run[p].todo # <<>>
    BY <1>1 DEF InsertRow, TypeOK, Run
  <2>2. r \in Records /\ Elems(run[p].todo) = {r} \cup Elems(Tail(run[p].todo))
    BY <2>1, ElemsOfTail
  <2> QED  BY <2>2, <1>1, <1>2 DEF RunInv, PendingInv
<1>4. Ignored(p, r) <=> Timestamp(r) \in StampsOf(rows) \cup StampsOf(run[p].staged)
  BY StampsOfUnion DEF Ignored
<1> HIDE DEF r
<1>5. ASSUME NEW q \in Procs, q # p PROVE RunInv(q)'
  <2>1. run[q].staged = {}
    BY <1>2, <1>5 DEF CollectorInv, RunInv, StagedInv
  <2> QED  BY <1>2, <1>5, <2>1, OthersKeep
<1>6. Fetched(p)' = Fetched(p)
  BY <1>2 DEF Fetched
<1>7. StagedInv(p)'
  <2>1. run'[p].staged \subseteq Fetched(p)'
    BY <1>1, <1>2, <1>3, <1>6 DEF RunInv, StagedInv
  <2>2. StampsOf(run'[p].staged) \cap StampsOf(rows') = {}
    <3>1. StampsOf(run[p].staged) \cap StampsOf(rows) = {}
      BY <1>1 DEF RunInv, StagedInv, StampsOf
    <3>2. CASE Ignored(p, r)
      BY <3>1, <3>2, <1>2
    <3>3. CASE ~Ignored(p, r)
      <4>1. StampsOf(run'[p].staged) = StampsOf(run[p].staged) \cup {Timestamp(r)}
        BY <1>2, <3>3 DEF StampsOf
      <4> QED  BY <4>1, <3>1, <3>3, <1>2, <1>4
    <3> QED  BY <3>2, <3>3
  <2>3. ASSUME NEW x \in run'[p].staged, NEW y \in run'[p].staged, Timestamp(x) = Timestamp(y)
        PROVE  x = y
    <3>1. \A u, v \in run[p].staged : Timestamp(u) = Timestamp(v) => u = v
      BY <1>1 DEF RunInv, StagedInv
    <3>2. CASE Ignored(p, r)
      BY <2>3, <3>1, <3>2, <1>2
    <3>3. CASE ~Ignored(p, r)
      <4>1. \A u \in run[p].staged : Timestamp(u) # Timestamp(r)
        BY <1>4, <3>3 DEF StampsOf
      <4>2. (x \in run[p].staged \/ x = r) /\ (y \in run[p].staged \/ y = r)
        BY <1>2, <2>3, <3>3
      <4> QED  BY <2>3, <3>1, <4>1, <4>2
    <3> QED  BY <3>2, <3>3
  <2> QED  BY <1>2, <2>1, <2>2, <2>3 DEF StagedInv
<1>8. PendingInv(p)'
  <2>1. Elems(run'[p].todo) \subseteq Fetched(p)'
    BY <1>1, <1>3, <1>6 DEF RunInv, PendingInv
  <2>2. StampsOf(Fetched(p)) \subseteq
          StampsOf(rows) \cup StampsOf(run[p].staged) \cup {Timestamp(r)} \cup StampsOf(Elems(run'[p].todo))
    <3>1. StampsOf(Fetched(p)) \subseteq StampsOf(rows \cup run[p].staged \cup Elems(run[p].todo))
      BY <1>1, <1>2 DEF RunInv, PendingInv
    <3> QED  BY <3>1, <1>3 DEF StampsOf
  <2>3. Timestamp(r) \in StampsOf(rows) \cup StampsOf(run'[p].staged)
        /\ StampsOf(run[p].staged) \subseteq StampsOf(run'[p].staged)
    <3>1. CASE Ignored(p, r)   BY <3>1, <1>2, <1>4
    <3>2. CASE ~Ignored(p, r)  BY <3>2, <1>2 DEF StampsOf
    <3> QED  BY <3>1, <3>2
  <2>4. StampsOf(Fetched(p)') \subseteq StampsOf(rows' \cup run'[p].staged \cup Elems(run'[p].todo))
    BY <1>2, <1>6, <2>2, <2>3, StampsOfUnion
  <2> QED  BY <1>2, <2>1, <2>4 DEF PendingInv
<1>9. CountInv(p)'
  <2>1. IsFiniteSet(run[p].staged) /\ run[p].count = Cardinality(run[p].staged)
    BY <1>1, <1>2 DEF RunInv, CountInv
  <2>2. CASE Ignored(p, r)
    <3>1. run'[p].staged = run[p].staged /\ run'[p].count = run[p].count
      BY <2>2, <1>1, <1>2 DEF Changes, TypeOK, Run
    <3> QED  BY <2>1, <3>1 DEF CountInv
  <2>3. CASE ~Ignored(p, r)
    <3>1. r \notin run[p].staged
      BY <2>3, <1>4 DEF StampsOf
    <3>2. run'[p].staged = run[p].staged \cup {r} /\ run'[p].count = run[p].count + 1
      BY <2>3, <1>2 DEF Changes
    <3>3. /\ IsFiniteSet(run[p].staged \cup {r})
          /\ Cardinality(run[p].staged \cup {r}) = Cardinality(run[p].staged) + 1
      BY <2>1, <3>1, FS_AddElement
    <3> QED  BY <2>1, <3>2, <3>3 DEF CountInv
  <2> QED  BY <2>2, <2>3
<1>10. RunInv(p)'
  BY <1>7, <1>8, <1>9 DEF RunInv
<1> QED  BY <1>1, <1>2, <1>5, <1>10 DEF CollectorInv, RowsInv, OneRowPerTimestamp
\* What a commit does to the table, from the invariant.
LEMMA CommitFacts ==
    ASSUME CollectorInv, NEW p \in Procs, Commit(p)
    PROVE  /\ rows' = rows \cup run[p].staged /\ rows \cap run[p].staged = {}
           /\ run[p].staged \subseteq Fetched(p)
           /\ StampsOf(Fetched(p)) \subseteq StampsOf(rows')
           /\ IsFiniteSet(run[p].staged) /\ run[p].count = Cardinality(run[p].staged)
<1>1. RunInv(p) /\ run[p].at = "inserting" /\ run[p].todo = <<>>
  BY DEF CollectorInv, Commit
<1>2. rows' = rows \cup run[p].staged
  BY DEF Commit
<1>3. rows \cap run[p].staged = {}
  BY <1>1 DEF RunInv, StagedInv, StampsOf
<1>4. StampsOf(Fetched(p)) \subseteq StampsOf(rows')
  BY <1>1, <1>2, ElemsOfEmpty DEF RunInv, PendingInv
<1> QED  BY <1>1, <1>2, <1>3, <1>4 DEF RunInv, StagedInv, CountInv

LEMMA CommitKeeps ==
    ASSUME CollectorInv, NEW p \in Procs, Commit(p)
    PROVE  CollectorInv'
<1>1. TypeOK' /\ TypeOK /\ RunInv(p)
  BY StepTypes DEF CollectorInv, Step
<1>2. /\ run'[p].at = "committed" /\ run'[p].staged = {}
      /\ run'[p].todo = run[p].todo /\ run'[p].batch = run[p].batch
      /\ \A q \in Procs \ {p} : run'[q] = run[q]
      /\ rows' = rows \cup run[p].staged /\ writer' = writer \ {p}
  BY <1>1 DEF Commit, TypeOK, Run
<1>3. ASSUME NEW q \in Procs, q # p PROVE RunInv(q)'
  <2>1. ASSUME run[q].staged # {} PROVE rows' = rows /\ writer' = writer
    <3>1. writer = {q}
      BY <2>1 DEF CollectorInv, RunInv, StagedInv
    <3>2. run[p].staged = {}
      BY <3>1, <1>1, <1>3 DEF RunInv, StagedInv
    <3> QED  BY <3>1, <3>2, <1>2, <1>3
  <2> QED  BY <1>2, <1>3, <2>1, OthersKeep
<1>4. RowsInv'
  <2>1. IsFiniteSet(rows')
    BY <1>2, CommitFacts, FS_Union DEF CollectorInv, RowsInv
  <2>2. ASSUME NEW x \in rows', NEW y \in rows', Timestamp(x) = Timestamp(y)
        PROVE  x = y
    <3>1. /\ \A u, v \in run[p].staged : Timestamp(u) = Timestamp(v) => u = v
          /\ \A u \in run[p].staged, v \in rows : Timestamp(u) # Timestamp(v)
      BY <1>1 DEF RunInv, StagedInv, StampsOf
    <3>2. \A u, v \in rows : Timestamp(u) = Timestamp(v) => u = v
      BY DEF CollectorInv, RowsInv, OneRowPerTimestamp
    <3>3. (x \in rows \/ x \in run[p].staged) /\ (y \in rows \/ y \in run[p].staged)
      BY <1>2
    <3> QED  BY <2>2, <3>1, <3>2, <3>3
  <2> QED  BY <2>1, <2>2 DEF RowsInv, OneRowPerTimestamp
<1>5. StagedInv(p)'
  BY <1>2 DEF StagedInv
<1>6. Fetched(p)' = Fetched(p)
  BY <1>2 DEF Fetched
<1>7. PendingInv(p)'
  <2>1. StampsOf(Fetched(p)) \subseteq StampsOf(rows')
    BY CommitFacts
  <2>2. Elems(run[p].todo) \subseteq Fetched(p)
    BY <1>1 DEF RunInv, PendingInv
  <2> QED  BY <1>2, <1>6, <2>1, <2>2 DEF PendingInv
<1>8. CountInv(p)'
  BY <1>2, FS_EmptySet DEF CountInv
<1>9. RunInv(p)'
  BY <1>5, <1>7, <1>8 DEF RunInv
<1> QED  BY <1>1, <1>2, <1>3, <1>4, <1>9 DEF CollectorInv

\* The parts of the invariant hold together in every reachable state.
THEOREM Invariance == Spec => []CollectorInv
<1>1. Init => CollectorInv
  <2> SUFFICES ASSUME Init PROVE CollectorInv
    OBVIOUS
  <2>1. TypeOK
    BY DEF Init, TypeOK, Run, Working, Exited
  <2>2. RowsInv
    BY FS_EmptySet DEF Init, RowsInv, OneRowPerTimestamp
  <2>3. ASSUME NEW p \in Procs PROVE RunInv(p)
    <3>1. run[p].at = "none" /\ run[p].staged = {} /\ run[p].todo = <<>>
      BY DEF Init
    <3> QED  BY <3>1, FS_EmptySet, ElemsOfEmpty DEF RunInv, StagedInv, PendingInv, CountInv
  <2> QED  BY <2>1, <2>2, <2>3 DEF CollectorInv
<1>2. CollectorInv /\ [Next]_vars => CollectorInv'
  <2> SUFFICES ASSUME CollectorInv, [Next]_vars PROVE CollectorInv'
    OBVIOUS
  <2>1. CASE UNCHANGED <<rows, writer, run>> /\ TypeOK'
    <3>1. ASSUME NEW p \in Procs PROVE RunInv(p)'
      <4>1. RunInv(p) /\ run'[p] = run[p] /\ rows' = rows /\ writer' = writer
            /\ Fetched(p)' = Fetched(p)
        BY <2>1 DEF CollectorInv, Fetched
      <4>2. StagedInv(p)'   BY <4>1 DEF RunInv, StagedInv
      <4>3. PendingInv(p)'  BY <4>1 DEF RunInv, PendingInv
      <4>4. CountInv(p)'    BY <4>1 DEF RunInv, CountInv
      <4> QED  BY <4>2, <4>3, <4>4 DEF RunInv
    <3> QED  BY <2>1, <3>1 DEF CollectorInv, RowsInv, OneRowPerTimestamp
  <2>2. CASE Discard \/ \E r \in Records : Publish(r)
    <3>1. UNCHANGED <<rows, writer, run>> /\ TypeOK'
      BY <2>2, QueueTypes DEF Discard, Publish, CollectorInv
    <3> QED  BY <3>1, <2>1
  <2>3. ASSUME NEW p \in Procs, Step(p) PROVE CollectorInv'
    <3>1. CASE Start(p) \/ StartFails(p)  BY <3>1, StartKeeps
    <3>2. CASE Ask(p) \/ Serve(p)         BY <3>2, AskKeeps
    <3>3. CASE Parse(p)                   BY <3>3, ParseKeeps
    <3>4. CASE InsertRow(p)               BY <3>4, InsertKeeps
    <3>5. CASE Commit(p)                  BY <3>5, CommitKeeps
    <3>6. CASE \E code \in {"1", "3", "4", "killed"} : Exit(p, code)
      BY <3>6, ExitKeeps DEF Exited
    <3>7. CASE Done(p)
      BY <3>7, ExitKeeps DEF Done, Exited
    <3>8. Refused(p) \/ AnswerLost(p) \/ Invalid(p) \/ WriteFails(p) \/ Kill(p)
            => \E code \in {"1", "3", "4", "killed"} : Exit(p, code)
      BY DEF Refused, AnswerLost, Invalid, WriteFails, Kill
    <3> QED  BY <2>3, <3>1, <3>2, <3>3, <3>4, <3>5, <3>6, <3>7, <3>8 DEF Step
  <2>4. CASE UNCHANGED vars
    BY <2>4, <2>1 DEF vars, CollectorInv, TypeOK
  <2> QED  BY <2>2, <2>3, <2>4 DEF Next
<1> QED  BY <1>1, <1>2, PTL DEF Spec

-----------------------------------------------------------------------------
(* The promises.                                                           *)

\* Exit code 0 means stored (cli.py:33), however the runs overlap and die.
THEOREM ZeroMeansStored == Spec => []SuccessMeansStored
<1>1. CollectorInv => SuccessMeansStored
  BY DEF CollectorInv, RunInv, PendingInv, SuccessMeansStored
<1> QED  BY <1>1, Invariance, PTL

\* No two rows of one timestamp (README.md:3), and only one run at a time
\* between its first insert and its commit.
THEOREM RowsAreUnique == Spec => []OneRowPerTimestamp /\ []WriterIsAlone
<1>1. CollectorInv => OneRowPerTimestamp /\ WriterIsAlone
  BY DEF CollectorInv, RowsInv, RunInv, StagedInv, WriterIsAlone
<1> QED  BY <1>1, Invariance, PTL

\* Only a commit changes the table.
LEMMA OnlyCommits ==
    ASSUME [Next]_vars, rows' # rows
    PROVE  \E p \in Procs : Commit(p)
  BY DEF vars, Next, Publish, Discard, Step, Start, StartFails, Ask, Serve, Refused, AnswerLost,
         Invalid, Parse, InsertRow, WriteFails, Done, Kill, Exit

\* A batch is stored whole or not at all, and no row goes (db.py:64-70).
THEOREM BatchIsStoredWhole == Spec => BatchIsAtomic
<1>1. CollectorInv /\ [Next]_vars =>
        [rows' # rows =>
          /\ rows \subseteq rows'
          /\ \E p \in Procs : /\ rows' \subseteq rows \cup Fetched(p)
                              /\ StampsOf(Fetched(p)) \subseteq StampsOf(rows')]_vars
  <2> SUFFICES ASSUME CollectorInv, [Next]_vars, rows' # rows
               PROVE  /\ rows \subseteq rows'
                      /\ \E p \in Procs : /\ rows' \subseteq rows \cup Fetched(p)
                                          /\ StampsOf(Fetched(p)) \subseteq StampsOf(rows')
    OBVIOUS
  <2>1. PICK p \in Procs : Commit(p)
    BY OnlyCommits
  <2> QED  BY <2>1, CommitFacts
<1> QED  BY <1>1, Invariance, PTL DEF Spec, BatchIsAtomic

\* insert_records counts this run's new rows and nobody else's (db.py:69).
THEOREM CountIsExact == Spec => CountIsNewRows
<1>1. ASSUME CollectorInv, [Next]_vars, NEW p \in Procs,
             run[p].at = "inserting", run'[p].at = "committed"
      PROVE  run'[p].count = Cardinality(rows') - Cardinality(rows)
  <2>1. Commit(p)
    <3>1. TypeOK
      BY <1>1 DEF CollectorInv
    <3>2. run'[p] # run[p]
      BY <1>1
    <3>3. PICK q \in Procs : Step(q)
      BY <1>1, <3>2 DEF Next, vars, Publish, Discard
    <3>4. q = p
      BY <3>1, <3>2, <3>3 DEF Step, Start, StartFails, Ask, Serve, Refused, AnswerLost, Invalid,
         Parse, InsertRow, Commit, WriteFails, Done, Kill, Exit, TypeOK
    <3>5. CASE \E code \in {"1", "3", "4", "0", "killed"} : Exit(p, code)
      BY <3>1, <3>5, <1>1 DEF Exit, TypeOK
    <3>6. CASE InsertRow(p)
      BY <3>1, <3>6, <1>1 DEF InsertRow, TypeOK
    <3>7. Refused(p) \/ AnswerLost(p) \/ Invalid(p) \/ WriteFails(p) \/ Done(p) \/ Kill(p)
            => \E code \in {"1", "3", "4", "0", "killed"} : Exit(p, code)
      BY DEF Refused, AnswerLost, Invalid, WriteFails, Done, Kill
    <3> QED
      BY <1>1, <3>3, <3>4, <3>5, <3>6, <3>7 DEF Step, Start, StartFails, Ask, Serve, Parse, Exited
  <2>2. run'[p].count = run[p].count
    BY <1>1, <2>1 DEF Commit, CollectorInv, TypeOK, Run
  <2>3. /\ IsFiniteSet(rows) /\ IsFiniteSet(run[p].staged)
        /\ rows \cap run[p].staged = {} /\ rows' = rows \cup run[p].staged
        /\ run[p].count = Cardinality(run[p].staged)
    BY <1>1, <2>1, CommitFacts DEF CollectorInv, RowsInv
  <2>4. Cardinality(rows \cup run[p].staged) =
          Cardinality(rows) + Cardinality(run[p].staged) - Cardinality(rows \cap run[p].staged)
    BY <2>3, FS_Union
  <2>5. /\ Cardinality(rows) \in Nat /\ Cardinality(run[p].staged) \in Nat
        /\ Cardinality(rows \cap run[p].staged) = 0
    BY <2>3, FS_CardinalityType, FS_EmptySet
  <2> QED  BY <2>2, <2>3, <2>4, <2>5
<1>2. CollectorInv /\ [Next]_vars =>
        [\A p \in Procs : run[p].at = "inserting" /\ run'[p].at = "committed" =>
            run'[p].count = Cardinality(rows') - Cardinality(rows)]_vars
  BY <1>1
<1> QED  BY <1>2, Invariance, PTL DEF Spec, CountIsNewRows
=============================================================================
