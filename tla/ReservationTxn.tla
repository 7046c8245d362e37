--------------------------- MODULE ReservationTxn ---------------------------
(***************************************************************************)
(* reserve, set_status and release of src/spectrum/services.py as they run *)
(* in production: several transactions at once, each writing its rows one  *)
(* statement at a time, with the exclusion constraint checked by           *)
(* PostgreSQL on every statement (IMMEDIATE), and each able to fail after  *)
(* any of them.                                                            *)
(*                                                                         *)
(* The database (external): a statement first writes its tuple and then    *)
(* looks for colliding ones.  A committed one refuses the statement; one   *)
(* another transaction has in flight, written or about to be deleted,      *)
(* makes this transaction wait until that one ends and look again.  A      *)
(* circle of waiters is broken by killing one of them, any of them.        *)
(*                                                                         *)
(* Every transaction but rewrite's holds the lock of its Satnet Path's row *)
(* from its first statement (lifecycle._apply updates that row first,      *)
(* _create inserts it, revise updates it), so here no two of them write    *)
(* for one path at a time.  What becomes of requests that meet on one      *)
(* path is the subject of PathLifecycle.                                   *)
(***************************************************************************)
EXTENDS Reservations

CONSTANTS
    Txn,       \* database connections, one for each request being served
    NoTxn,     \* "waiting for nobody"
    NoRow,     \* "no statement in progress"
    Entering,  \* the statuses allocations are placed in
    Asked,     \* the statuses they are moved to
    Replanned  \* bound: the paths that two requests plan from one draft

ASSUME TxnAssumption  == NoTxn \notin Txn
ASSUME RowAssumption  == NoRow \notin Row
ASSUME StatusAssumption == Entering \subseteq PathStatus /\ Asked \subseteq PathStatus
ASSUME ReplannedAssumption == Replanned \subseteq Path

VARIABLES
    table,      \* the committed rows
    step,       \* where each transaction is
    job,        \* what each transaction was asked to do
    todo,       \* the claims it still has to insert
    dirty,      \* the rows it has written and the constraint has accepted
    placed,     \* the row it has written and the constraint has not yet judged
    dead,       \* the committed rows it has deleted or replaced
    waitsFor,   \* the transaction it waits for
    outcome     \* how its last request ended

txnVars == <<step, job, todo, dirty, placed, dead, waitsFor, outcome>>
vars == <<table, txnVars>>

Step    == {"idle", "release", "write"}
Op      == {"reserve", "set_status", "release", "exchange"}
Outcome == {"none", "running", "committed", "rolled_back",
            "conflict", "deadlock", "outside"}
Refusal == {"conflict", "deadlock"}

\* path is the allocation whose rows are there already, target the one written;
\* again: it is placed although it has rows.
Job   == [op : Op, path : Path, target : Path, period : AnyPeriod, status : PathStatus,
          again : BOOLEAN]
NoJob == [op |-> "none"]

TypeOK ==
    /\ table \subseteq Row
    /\ step \in [Txn -> Step]
    /\ job \in [Txn -> Job \cup {NoJob}]
    /\ todo \in [Txn -> Seq(Claim)]
    /\ dirty \in [Txn -> SUBSET Row]
    /\ placed \in [Txn -> Row \cup {NoRow}]
    /\ dead \in [Txn -> SUBSET Row]
    /\ waitsFor \in [Txn -> Txn \cup {NoTxn}]
    /\ outcome \in [Txn -> Outcome]

Init ==
    /\ table = {}
    /\ step = [t \in Txn |-> "idle"]
    /\ job = [t \in Txn |-> NoJob]
    /\ todo = [t \in Txn |-> <<>>]
    /\ dirty = [t \in Txn |-> {}]
    /\ placed = [t \in Txn |-> NoRow]
    /\ dead = [t \in Txn |-> {}]
    /\ waitsFor = [t \in Txn |-> NoTxn]
    /\ outcome = [t \in Txn |-> "none"]
-----------------------------------------------------------------------------
(***************************************************************************)
(* What the transactions see of one another.                               *)
(***************************************************************************)
PathsOf(aJob) == IF aJob = NoJob THEN {} ELSE {aJob.path, aJob.target}

Touches(t) == PathsOf(job[t])

\* The lock on the Satnet Path's own row.
PathFree(path) == \A t \in Txn : path \notin Touches(t)

InProgress(t) == IF placed[t] = NoRow THEN {} ELSE {placed[t]}

DyingRows == UNION {dead[t] : t \in Txn}

\* The rows that refuse row outright: committed and not about to go, or t's own.
Obstacles(t, row) ==
    {r \in (table \ DyingRows) \cup dirty[t] : Clash(r, row)}

\* Mutant of Blockers: rows in flight are not looked at, as a check in Python does not.
BlockersUnseen(t, row) == {}

\* The transactions whose fate decides whether t may keep row.
Blockers(t, row) ==
    {u \in Txn \ {t} : \E r \in dirty[u] \cup InProgress(u) \cup dead[u] : Clash(r, row)}

\* Mutant of Deadlocked: circles of waiters are never looked for.
NeverDeadlocked(t) == FALSE

\* t is on a circle of waiters.
Deadlocked(t) ==
    \E circle \in SUBSET Txn :
        /\ t \in circle
        /\ \A u \in circle : waitsFor[u] \in circle
        /\ \A v \in circle : \E u \in circle : waitsFor[u] = v
-----------------------------------------------------------------------------
(***************************************************************************)
(* A request arrives and its transaction opens.                            *)
(***************************************************************************)
Begin(t, newJob, newStep, claims) ==
    /\ step[t] = "idle"
    /\ PathFree(newJob.path) /\ PathFree(newJob.target)
    /\ job' = [job EXCEPT ![t] = newJob]
    /\ step' = [step EXCEPT ![t] = newStep]
    /\ todo' = [todo EXCEPT ![t] = claims]
    /\ outcome' = [outcome EXCEPT ![t] = "running"]
    /\ UNCHANGED <<table, dirty, placed, dead, waitsFor>>

JobFor(op, path, target, period, status, again) ==
    [op |-> op, path |-> path, target |-> target, period |-> period, status |-> status,
     again |-> again]

\* A new allocation, or a draft that is planned.  Nobody looks for rows it may have
\* already: a plan loaded while another one was under way finds those of the first
\* (only a plan does, creation has a new key).  Bounds: Replanned, and never thrice.
BeginReserve(t, path, pl, status) ==
    LET there == RowsOf(table, path)
    IN  /\ there # {} => /\ path \in Replanned /\ status = "PLANNED"
                         /\ \A r \in there : ~r.again
        /\ Begin(t, JobFor("reserve", path, path, pl.period, status, there # {}),
                 "write", pl.claims)

\* A move along the lifecycle that keeps the rows.
BeginSetStatus(t, path, status) ==
    \E r \in RowsOf(table, path) :
        Begin(t, JobFor("set_status", path, path, r.period, status, FALSE), "write", <<>>)

\* A retirement or a cancellation.
BeginRelease(t, path) ==
    \E r \in RowsOf(table, path) :
        Begin(t, JobFor("release", path, path, r.period, r.status, FALSE), "release", <<>>)

\* rewrite (the path is its own successor) and revise (a new path succeeds it).
BeginExchange(t, path, successor, pl, status) ==
    /\ RowsOf(table, path) # {}
    /\ successor # path => RowsOf(table, successor) = {}
    /\ Begin(t, JobFor("exchange", path, successor, pl.period, status, FALSE),
             "release", pl.claims)
-----------------------------------------------------------------------------
(***************************************************************************)
(* The statements.                                                         *)
(***************************************************************************)
\* Mutant of DeleteRows: an exchange reserves before it releases.
DeleteNothing(t) ==
    /\ step[t] = "release"
    /\ step' = [step EXCEPT ![t] = "write"]
    /\ UNCHANGED <<table, job, todo, dirty, placed, dead, waitsFor, outcome>>

\* DELETE ... WHERE satnet_path_id: release(), and the first half of an exchange.
DeleteRows(t) ==
    /\ step[t] = "release"
    /\ dead' = [dead EXCEPT ![t] = RowsOf(table, job[t].path)]
    /\ step' = [step EXCEPT ![t] = "write"]
    /\ UNCHANGED <<table, job, todo, dirty, placed, waitsFor, outcome>>

\* A written tuple is judged by the constraint only if the partial index holds it.
WriteTuple(t, row) ==
    IF row.holds
    THEN placed' = [placed EXCEPT ![t] = row] /\ UNCHANGED dirty
    ELSE dirty' = [dirty EXCEPT ![t] = @ \cup {row}] /\ UNCHANGED placed

NextRow(t) ==
    RowFor(job[t].target, Head(todo[t]), job[t].period, job[t].status, job[t].again)

\* reserve(): the entitlement first, then one INSERT per resource.
InsertRow(t) ==
    /\ step[t] = "write" /\ placed[t] = NoRow
    /\ todo[t] # <<>>
    /\ Entitled(NextRow(t))
    /\ WriteTuple(t, NextRow(t))
    /\ todo' = [todo EXCEPT ![t] = Tail(@)]
    /\ UNCHANGED <<table, step, job, dead, waitsFor, outcome>>

\* set_status(): one UPDATE per row, which replaces the row by a new tuple.
StaleRows(t) ==
    IF job[t].op = "set_status" THEN RowsOf(table, job[t].path) \ dead[t] ELSE {}

\* An UPDATE that leaves reserves_spectrum alone touches no indexed column: the
\* new tuple may share the old one's index entry, and then nothing judges it.
KeepTuple(t, r, row) ==
    /\ r.holds /\ row.holds
    /\ dirty' = [dirty EXCEPT ![t] = @ \cup {row}]
    /\ UNCHANGED placed

UpdateRow(t) ==
    /\ step[t] = "write" /\ placed[t] = NoRow
    /\ \E r \in StaleRows(t) :
        /\ dead' = [dead EXCEPT ![t] = @ \cup {r}]
        /\ \/ WriteTuple(t, Restatused(r, job[t].status))
           \/ KeepTuple(t, r, Restatused(r, job[t].status))
    /\ UNCHANGED <<table, step, job, todo, waitsFor, outcome>>
-----------------------------------------------------------------------------
(***************************************************************************)
(* The exclusion constraint judges the tuple in progress.                  *)
(***************************************************************************)
Judged(t) == placed[t] # NoRow /\ waitsFor[t] = NoTxn

Accept(t) ==
    /\ Judged(t)
    /\ Obstacles(t, placed[t]) = {}
    /\ Blockers(t, placed[t]) = {}
    /\ dirty' = [dirty EXCEPT ![t] = @ \cup {placed[t]}]
    /\ placed' = [placed EXCEPT ![t] = NoRow]
    /\ UNCHANGED <<table, step, job, todo, dead, waitsFor, outcome>>

Wait(t) ==
    /\ Judged(t)
    /\ \E u \in Blockers(t, placed[t]) : waitsFor' = [waitsFor EXCEPT ![t] = u]
    /\ UNCHANGED <<table, step, job, todo, dirty, placed, dead, outcome>>
-----------------------------------------------------------------------------
(***************************************************************************)
(* The transaction ends, and whoever waits for it looks again.             *)
(***************************************************************************)
End(t, how) ==
    /\ step' = [step EXCEPT ![t] = "idle"]
    /\ job' = [job EXCEPT ![t] = NoJob]
    /\ todo' = [todo EXCEPT ![t] = <<>>]
    /\ dirty' = [dirty EXCEPT ![t] = {}]
    /\ placed' = [placed EXCEPT ![t] = NoRow]
    /\ dead' = [dead EXCEPT ![t] = {}]
    /\ waitsFor' = [u \in Txn |-> IF u = t \/ waitsFor[u] = t THEN NoTxn ELSE waitsFor[u]]
    /\ outcome' = [outcome EXCEPT ![t] = how]

Commit(t) ==
    /\ step[t] = "write" /\ placed[t] = NoRow
    /\ todo[t] = <<>> /\ StaleRows(t) = {}
    /\ table' = (table \ dead[t]) \cup dirty[t]
    /\ End(t, "committed")

\* Mutant of Refuse: the legs written before the refused one stay.
RefuseOneLeg(t) ==
    /\ Judged(t)
    /\ Obstacles(t, placed[t]) # {}
    /\ table' = (table \ dead[t]) \cup dirty[t]
    /\ End(t, "conflict")

\* IntegrityError naming excl_reservation_overlap: SpectrumConflictError.
Refuse(t) ==
    /\ Judged(t)
    /\ Obstacles(t, placed[t]) # {}
    /\ End(t, "conflict")
    /\ UNCHANGED table

\* OperationalError "deadlock detected": SpectrumConflictError, was_deadlock.
KillVictim(t) ==
    /\ Deadlocked(t)
    /\ End(t, "deadlock")
    /\ UNCHANGED table

\* OutsideEntitlementError, raised between two legs as easily as before the first.
RefuseOutside(t) ==
    /\ step[t] = "write" /\ placed[t] = NoRow
    /\ todo[t] # <<>>
    /\ ~Entitled(NextRow(t))
    /\ End(t, "outside")
    /\ UNCHANGED table

\* Anything else that fails in the request's transaction, a lost worker included.
RollBack(t) ==
    /\ step[t] # "idle"
    /\ End(t, "rolled_back")
    /\ UNCHANGED table
-----------------------------------------------------------------------------
Arrive(t) ==
    \E p \in Path :
        \/ \E pl \in Placement, s \in Entering : BeginReserve(t, p, pl, s)
        \/ \E s \in Asked : BeginSetStatus(t, p, s)
        \/ BeginRelease(t, p)
        \/ \E q \in Path, pl \in Placement, s \in Entering : BeginExchange(t, p, q, pl, s)

\* What the program and the database do of their own accord.
Proceed(t) ==
    \/ DeleteRows(t) \/ InsertRow(t) \/ UpdateRow(t)
    \/ Accept(t) \/ Wait(t)
    \/ Commit(t) \/ Refuse(t) \/ RefuseOutside(t)

Next == \E t \in Txn : Arrive(t) \/ Proceed(t) \/ KillVictim(t) \/ RollBack(t)

Spec == Init /\ [][Next]_vars

\* Statements run, woken waiters look again, and the deadlock detector does its
\* work; no request is obliged to arrive and none to fail.
Fairness == \A t \in Txn : WF_vars(Proceed(t)) /\ WF_vars(KillVictim(t))
-----------------------------------------------------------------------------
(***************************************************************************)
(* Properties.                                                             *)
(***************************************************************************)
\* The platform's promise, kept by the constraint alone however transactions
\* interleave: no two committed reservations hold the same Hz of the same
\* resource at the same time.
NoOverlap == Disjoint(table)

\* No committed row lies outside the assignment it was granted from, in
\* frequency or in time, although the assignment of a second leg is only
\* looked at once the rows of the first are written.
OnlyEntitledRows ==
    \A r \in table :
        LET grant == Grant[r.assignment]
        IN  /\ grant.active
            /\ grant.bounds.start <= r.allocated.start
            /\ r.allocated.end <= grant.bounds.end
            /\ grant.period.start <= r.period.start
            /\ grant.period.end = NoEnd \/ r.period.end \in r.period.start .. grant.period.end

\* A SpectrumConflictError, of either shape, means that somebody else's row stands
\* or stood in the way, or a row that another placing of the same allocation left:
\* two requests loaded the draft and both planned it, and reserve does not look for
\* rows the path has.  An allocation that exchanges its rows or moves their status
\* is never refused by the rows it replaces, and no deadlock is without a rival.
Rival(t, r) == r.path \notin Touches(t) /\ Clash(r, placed[t])

Twin(t, r) == r.path \in Touches(t) /\ r.again # placed[t].again /\ Clash(r, placed[t])

NoSpuriousRefusal ==
    [][\A t \in Txn :
          outcome[t] = "running" /\ outcome'[t] \in Refusal
            => \/ \E r \in table : Rival(t, r)
               \/ \E u \in Txn \ {t} :
                     \E r \in dirty[u] \cup InProgress(u) : Rival(t, r)
               \/ /\ outcome'[t] = "conflict"
                  /\ job[t].op \in {"reserve", "set_status"}
                  /\ \E r \in (table \ dead[t]) \cup dirty[t] : Twin(t, r)]_vars

\* Once no more requests arrive, every transaction ends: transactions that wait
\* for one another in a circle are always found and one of them is killed.
NobodyArrives == \A t \in Txn : step[t] = "idle" => step'[t] = "idle"

EveryTransactionEnds ==
    <>[][NobodyArrives]_vars =>
        \A t \in Txn : step[t] # "idle" ~> step[t] = "idle"

\* The transactions together implement the ledger: the committed rows change by
\* whole allocations, all rows or none, and a failure changes nothing.
Ledger == INSTANCE SpectrumLedger WITH ledger <- table

ImplementsLedger == Ledger!Spec
=============================================================================
