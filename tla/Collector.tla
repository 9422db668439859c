----------------------------- MODULE Collector -----------------------------
(***************************************************************************)
(* cliproxy_usage_collect: cron starts a run, which pops one batch off     *)
(* CLIProxyAPI's usage queue and stores it in SQLite.  Runs may overlap,   *)
(* be killed, lose the answer to their request, or fail to write.          *)
(*                                                                         *)
(* The pop is destructive: the upstream forgets the batch when it serves   *)
(* the request, whatever then becomes of the answer.  A request that the   *)
(* upstream serves after the client gave up is modelled as served first.   *)
(***************************************************************************)
EXTENDS Naturals, Sequences, FiniteSets

CONSTANTS
    Procs,          \* processes cron may have running at once
    Records,        \* the usage records of the proxy's requests
    Timestamp(_),   \* a record's timestamp: the primary key
    Malformed,      \* records that _QueuePayload rejects
    PopCount,       \* queue_pop_count
    MaxPublished    \* bound: how many records the proxy publishes, repeats included

ASSUME PopCountAssumption == PopCount \in Nat \ {0}
ASSUME MalformedAssumption == Malformed \subseteq Records
ASSUME PublishedAssumption == MaxPublished \in Nat

VARIABLES
    queue,      \* the upstream's usage queue, oldest record first
    published,  \* how many records were ever put in it
    rows,       \* the records of the committed rows of table requests
    writer,     \* the process holding SQLite's write lock, if any
    run         \* run[p]: the collector run of process p

vars == <<queue, published, rows, writer, run>>

(* Stages of a run:
     opened     connected to the database, about to ask
     asking     the GET is on its way to the upstream
     answered   the upstream popped batch, the answer is on its way back
     inserting  inside `with conn`, todo still to be inserted, staged inserted
     committed  the transaction is committed, exit code not yet returned
   and the exit codes of main; "1" also stands for an uncaught exception,
   whose status is 1 too, and "killed" for a run that returned none.       *)
Working == {"opened", "asking", "answered", "inserting", "committed"}
Exited == {"none", "0", "1", "2", "3", "4", "killed"}

Run == [at : Working \cup Exited,
        batch : Seq(Records), todo : Seq(Records), staged : SUBSET Records, count : Nat]

Fetched(p) == {run[p].batch[i] : i \in DOMAIN run[p].batch}
StampsOf(S) == {Timestamp(r) : r \in S}

Init ==
    /\ queue = <<>>
    /\ published = 0
    /\ rows = {}
    /\ writer = {}
    /\ run = [p \in Procs |->
                [at |-> "none", batch |-> <<>>, todo |-> <<>>, staged |-> {}, count |-> 0]]

\* A request of the proxy, or the same record published a second time.
Publish(r) ==
    /\ published < MaxPublished
    /\ published' = published + 1
    /\ queue' = Append(queue, r)
    /\ UNCHANGED <<rows, writer, run>>

\* The upstream's retention window runs out for the oldest record.
Discard ==
    /\ queue # <<>>
    /\ queue' = Tail(queue)
    /\ UNCHANGED <<published, rows, writer, run>>

\* cron's tick: configuration and database are fine.
Start(p) ==
    /\ run[p].at \in Exited
    /\ run' = [run EXCEPT ![p] = [at |-> "opened", batch |-> <<>>, todo |-> <<>>,
                                  staged |-> {}, count |-> 0]]
    /\ UNCHANGED <<queue, published, rows, writer>>

\* ... or not: a configuration error, a database that cannot be opened.
StartFails(p) ==
    /\ run[p].at \in Exited
    /\ \E code \in {"1", "2"} :
         run' = [run EXCEPT ![p] = [at |-> code, batch |-> <<>>, todo |-> <<>>,
                                    staged |-> {}, count |-> 0]]
    /\ UNCHANGED <<queue, published, rows, writer>>

Ask(p) ==
    /\ run[p].at = "opened"
    /\ run' = [run EXCEPT ![p].at = "asking"]
    /\ UNCHANGED <<queue, published, rows, writer>>

Popped == IF Len(queue) < PopCount THEN Len(queue) ELSE PopCount

Serve(p) ==
    /\ run[p].at = "asking"
    /\ run' = [run EXCEPT ![p].at = "answered", ![p].batch = SubSeq(queue, 1, Popped)]
    /\ queue' = SubSeq(queue, Popped + 1, Len(queue))
    /\ UNCHANGED <<published, rows, writer>>

\* Faulty: what was inserted so far is committed.
ExitCommitting(p, code) ==
    /\ run' = [run EXCEPT ![p].at = code, ![p].todo = <<>>, ![p].staged = {}]
    /\ rows' = rows \cup run[p].staged
    /\ writer' = writer \ {p}
    /\ UNCHANGED <<queue, published>>

\* Faulty: the transaction is left open, and with it the lock held.
ExitHolding(p, code) ==
    /\ run' = [run EXCEPT ![p].at = code, ![p].todo = <<>>, ![p].staged = {}]
    /\ UNCHANGED <<queue, published, rows, writer>>

\* The run ends with an exit code, its transaction rolled back.
Exit(p, code) ==
    /\ run' = [run EXCEPT ![p].at = code, ![p].todo = <<>>, ![p].staged = {}]
    /\ writer' = writer \ {p}
    /\ UNCHANGED <<queue, published, rows>>

\* 401 and 403 are AuthError, any other status from 400 on is TransientError;
\* the upstream popped nothing.
Refused(p) == run[p].at = "asking" /\ \E code \in {"1", "3"} : Exit(p, code)

\* No connection, no answer in time, or a body that is not an array of objects.
AnswerLost(p) == run[p].at \in {"asking", "answered"} /\ Exit(p, "1")

\* One malformed element fails the whole batch before a row is inserted.
Invalid(p) == run[p].at = "answered" /\ Fetched(p) \cap Malformed # {} /\ Exit(p, "4")

\* Faulty: malformed elements are skipped.
ParseValid(p) ==
    /\ run[p].at = "answered"
    /\ run' = [run EXCEPT ![p].at = "inserting",
                          ![p].todo = SelectSeq(run[p].batch, LAMBDA r : r \notin Malformed)]
    /\ UNCHANGED <<queue, published, rows, writer>>

Parse(p) ==
    /\ run[p].at = "answered"
    /\ Fetched(p) \cap Malformed = {}
    /\ run' = [run EXCEPT ![p].at = "inserting", ![p].todo = run[p].batch]
    /\ UNCHANGED <<queue, published, rows, writer>>

\* INSERT OR IGNORE: the timestamp has a row already, committed or of this batch.
Ignored(p, r) == Timestamp(r) \in StampsOf(rows \cup run[p].staged)

\* Faulty: a duplicate counts.
EveryRow(p, r) == 1

\* total_changes does not count a row that was ignored.
Changes(p, r) == IF Ignored(p, r) THEN 0 ELSE 1

LockFree(p) == writer \subseteq {p}

\* One row of executemany.  The first takes SQLite's write lock.
InsertRow(p) ==
    /\ run[p].at = "inserting"
    /\ run[p].todo # <<>>
    /\ LockFree(p)
    /\ writer' = {p}
    /\ LET r == Head(run[p].todo)
       IN  run' = [run EXCEPT ![p].todo = Tail(@),
                              ![p].staged = IF Ignored(p, r) THEN @ ELSE @ \cup {r},
                              ![p].count = @ + Changes(p, r)]
    /\ UNCHANGED <<queue, published, rows>>

Commit(p) ==
    /\ run[p].at = "inserting"
    /\ run[p].todo = <<>>
    /\ rows' = rows \cup run[p].staged
    /\ run' = [run EXCEPT ![p].at = "committed", ![p].staged = {}]
    /\ writer' = writer \ {p}
    /\ UNCHANGED <<queue, published>>

\* The lock is not given up in time, the disk is full, an integer does not fit:
\* `with conn` rolls back, nothing catches the exception.
WriteFails(p) == run[p].at = "inserting" /\ Exit(p, "1")

Done(p) == run[p].at = "committed" /\ Exit(p, "0")

Kill(p) == run[p].at \in Working /\ Exit(p, "killed")

Step(p) ==
    \/ Start(p) \/ StartFails(p) \/ Ask(p) \/ Serve(p) \/ Refused(p) \/ AnswerLost(p)
    \/ Invalid(p) \/ Parse(p) \/ InsertRow(p) \/ Commit(p) \/ WriteFails(p) \/ Done(p)
    \/ Kill(p)

Next ==
    \/ \E r \in Records : Publish(r)
    \/ Discard
    \/ \E p \in Procs : Step(p)

Spec == Init /\ [][Next]_vars

\* A process that runs goes on running.  Nothing is assumed of cron and of the
\* upstream, nor that a write that fails or a timeout ends a wait.
Progress(p) ==
    Ask(p) \/ Invalid(p) \/ Parse(p) \/ InsertRow(p) \/ Commit(p) \/ Done(p)
FairSpec == Spec /\ \A p \in Procs : WF_vars(Progress(p))
-----------------------------------------------------------------------------
TypeOK ==
    /\ queue \in Seq(Records)
    /\ published \in 0 .. MaxPublished
    /\ rows \subseteq Records
    /\ writer \subseteq Procs
    /\ run \in [Procs -> Run]

\* README:3, "inserts new rows by timestamp": overlapping runs, repeats of a
\* record and re-runs never leave two rows of one timestamp.
OneRowPerTimestamp == \A r, s \in rows : Timestamp(r) = Timestamp(s) => r = s

\* Exit code 0 (cli.py:33): everything the run took off the queue is in the
\* database, put there by this run or, for a duplicate, by another.
SuccessMeansStored ==
    \A p \in Procs : run[p].at = "0" => StampsOf(Fetched(p)) \subseteq StampsOf(rows)

\* insert_records returns "the number of genuinely new rows inserted": what
\* this run added, not what a concurrent run did, and no duplicate.
CountIsNewRows ==
    [][\A p \in Procs : run[p].at = "inserting" /\ run'[p].at = "committed" =>
          run'[p].count = Cardinality(rows') - Cardinality(rows)]_vars

\* A reader of the database sees the whole of a batch or nothing of it, and no
\* row is ever replaced or removed.
BatchIsAtomic ==
    [][rows' # rows =>
          /\ rows \subseteq rows'
          /\ \E p \in Procs : /\ rows' \subseteq rows \cup Fetched(p)
                              /\ StampsOf(Fetched(p)) \subseteq StampsOf(rows')]_vars

\* Only one run at a time is between its first insert and its commit, and it
\* inserted what no other run has: nobody's commit can meet a duplicate.
WriterIsAlone ==
    \A p \in Procs : run[p].staged # {} =>
        /\ writer = {p}
        /\ StampsOf(run[p].staged) \cap StampsOf(rows) = {}

\* What a run popped, and only it has, is stored some day, or the run says that
\* it failed: no run waits for good on the lock of another, of one that is
\* killed or fails between its first row and its commit.
PopIsSettled ==
    \A p \in Procs : \A r \in Records :
        run[p].at = "answered" /\ r \in Fetched(p)
            ~> Timestamp(r) \in StampsOf(rows) \/ run[p].at \in {"1", "4", "killed"}
=============================================================================
