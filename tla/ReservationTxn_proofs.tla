----------------------- MODULE ReservationTxn_proofs -----------------------
(***************************************************************************)
(* Proofs about ReservationTxn, for every set of transactions, paths,      *)
(* resources, placements and assignments.                                  *)
(***************************************************************************)
EXTENDS ReservationTxn, TLAPS

(***************************************************************************)
(* The inductive invariant.                                                *)
(***************************************************************************)
\* A transaction has a job exactly while it runs, and nothing written before
\* its first statement.
Employed ==
    \A t \in Txn :
        /\ IF step[t] = "idle" THEN job[t] = NoJob ELSE job[t] \in Job
        /\ step[t] # "write" => dirty[t] = {} /\ placed[t] = NoRow /\ dead[t] = {}

\* The row locks: no two transactions touch one path.
Owners ==
    \A t, u \in Txn : t # u => Touches(t) \cap Touches(u) = {}

\* A transaction writes and deletes rows of the paths it touches only.
OwnRows ==
    \A t \in Txn :
        /\ \A r \in dirty[t] \cup InProgress(t) \cup dead[t] : r.path \in Touches(t)
        /\ dead[t] \subseteq table

\* An accepted row collides with nothing that is committed and stays.
AcceptedBeside ==
    \A t \in Txn : \A r \in dirty[t], c \in table \ dead[t] : ~Clash(r, c)

\* Nor with any other accepted row, of the same transaction or of another.
AcceptedApart ==
    \A t, u \in Txn : \A r \in dirty[t], s \in dirty[u] : r # s => ~Clash(r, s)

\* Every row anywhere lies inside its assignment.
AllEntitled ==
    /\ \A r \in table : Entitled(r)
    /\ \A t \in Txn : \A r \in dirty[t] \cup InProgress(t) : Entitled(r)

IInv ==
    /\ TypeOK /\ Employed
    /\ Owners /\ OwnRows
    /\ NoOverlap /\ AcceptedBeside /\ AcceptedApart
    /\ AllEntitled
-----------------------------------------------------------------------------
(***************************************************************************)
(* Rows.                                                                   *)
(***************************************************************************)
\* The exclusion constraint does not depend on which of two rows came first.
LEMMA ClashSymmetric == ASSUME NEW a, NEW b, Clash(a, b) PROVE Clash(b, a)
BY DEF Clash, Overlaps, PeriodsOverlap

\* A row that reserves nothing collides with nothing.
LEMMA SilentRow == ASSUME NEW a, NEW b, ~a.holds PROVE ~Clash(a, b) /\ ~Clash(b, a)
BY DEF Clash

\* What a status says of holding is what the CHECK constraint wants of it.
LEMMA HoldingPinned ==
    ASSUME NEW status \in PathStatus, NEW row, NEW retains \in BOOLEAN,
           row.status = status, row.holds = ReservesSpectrum(status, retains)
    PROVE  row.holds \in BOOLEAN /\ StatusPins(row)
BY DEF StatusPins, ReservesSpectrum, PathStatus, AlwaysReserving, NeverReserving

\* reserve() writes rows the table's constraints accept ...
LEMMA RowForType ==
    ASSUME NEW path \in Path, NEW claim \in Claim, NEW period \in AnyPeriod,
           NEW status \in PathStatus, NEW again \in BOOLEAN
    PROVE  /\ RowFor(path, claim, period, status, again) \in Row
           /\ RowFor(path, claim, period, status, again).path = path
<1> DEFINE row == RowFor(path, claim, period, status, again)
<1>1. row.status = status /\ row.holds = ReservesSpectrum(status, TRUE) /\ row.path = path
  BY DEF RowFor
<1>2. row.holds \in BOOLEAN /\ StatusPins(row)
  BY <1>1, HoldingPinned
<1>3. ReservesSpectrum(status, TRUE) \in BOOLEAN
  BY <1>1, <1>2
<1> QED
  BY <1>1, <1>2, <1>3 DEF Row, RowFor, Claim

\* ... and so does set_status(), which moves a row nowhere.
LEMMA RestatusedType ==
    ASSUME NEW r \in Row, NEW status \in PathStatus
    PROVE  /\ Restatused(r, status) \in Row
           /\ Restatused(r, status).path = r.path
           /\ Entitled(r) => Entitled(Restatused(r, status))
<1> DEFINE row == Restatused(r, status)
<1>1. /\ row.status = status /\ row.holds = ReservesSpectrum(status, SuspendedRetains)
      /\ row.path = r.path /\ row.resource = r.resource
      /\ row.assignment = r.assignment /\ row.allocated = r.allocated
      /\ row.period = r.period
  BY DEF Restatused, Row
<1>2. row.holds \in BOOLEAN /\ StatusPins(row)
  BY <1>1, HoldingPinned, SettingAssumption
<1>3. ReservesSpectrum(status, SuspendedRetains) \in BOOLEAN
  BY <1>1, <1>2
<1>4. row \in Row
  BY <1>1, <1>2, <1>3 DEF Row, Restatused
<1> QED
  BY <1>1, <1>4 DEF Entitled

\* Every job a request brings is told from no job by its operation.
LEMMA JobIsNotNoJob == NoJob \notin Job
BY DEF NoJob, Job, Op
-----------------------------------------------------------------------------
(***************************************************************************)
(* The initial state, and one lemma for each kind of step.                 *)
(***************************************************************************)
\* An empty table and idle connections.
LEMMA InitInv == Init => IInv
<1> SUFFICES ASSUME Init PROVE IInv
  OBVIOUS
<1>1. TypeOK
  BY DEF Init, TypeOK, Step, Outcome
<1>2. \A t \in Txn : Touches(t) = {} /\ InProgress(t) = {}
  BY DEF Init, Touches, PathsOf, InProgress
<1>3. Employed /\ OwnRows /\ AcceptedBeside /\ AcceptedApart
  BY <1>2 DEF Init, Employed, OwnRows, AcceptedBeside, AcceptedApart
<1>4. Owners
  BY <1>2 DEF Owners, Touches
<1>5. NoOverlap /\ AllEntitled
  BY <1>2 DEF Init, NoOverlap, Disjoint, AllEntitled
<1> QED
  BY <1>1, <1>3, <1>4, <1>5 DEF IInv

\* A transaction that ends without writing takes nothing of anybody else along.
LEMMA EndStep ==
    ASSUME IInv, NEW t \in Txn, NEW how \in Outcome, End(t, how), UNCHANGED table
    PROVE  IInv'
<1> USE DEF IInv
<1>1. TypeOK'
  BY DEF TypeOK, End, Step
<1>2. PathsOf(NoJob) = {}
  BY DEF PathsOf
<1>3. Employed'
  BY DEF Employed, TypeOK, End
<1>4. Owners'
  BY <1>2 DEF Owners, Touches, TypeOK, End
<1>5. OwnRows'
  BY <1>2 DEF OwnRows, TypeOK, End, Touches, InProgress
<1>6. NoOverlap'
  BY DEF NoOverlap
<1>7. AcceptedBeside' /\ AcceptedApart'
  BY DEF AcceptedBeside, AcceptedApart, TypeOK, End
<1>8. AllEntitled'
  BY DEF AllEntitled, TypeOK, End, InProgress
<1> QED
  BY <1>1, <1>3, <1>4, <1>5, <1>6, <1>7, <1>8

\* A transaction opens on paths nobody else touches.
LEMMA BeginStep ==
    ASSUME IInv, NEW t \in Txn, NEW newJob \in Job, NEW newStep \in {"release", "write"},
           NEW claims \in Seq(Claim), Begin(t, newJob, newStep, claims)
    PROVE  IInv'
<1> USE DEF IInv
<1>1. TypeOK'
  BY DEF TypeOK, Begin, Step, Outcome
<1>2. PathsOf(newJob) = {newJob.path, newJob.target}
  BY JobIsNotNoJob DEF PathsOf
<1>3. Employed'
  BY DEF Employed, TypeOK, Begin
<1>4. Owners'
  <2>1. \A u \in Txn : Touches(u) \cap PathsOf(newJob) = {}
    BY <1>2 DEF Begin, PathFree
  <2>2. job \in [Txn -> Job \cup {NoJob}] /\ job' = [job EXCEPT ![t] = newJob]
    BY DEF TypeOK, Begin
  <2>3. \A u \in Txn : job'[u] = IF u = t THEN newJob ELSE job[u]
    BY <2>2
  <2> QED
    BY <2>1, <2>3 DEF Owners, Touches
<1>5. dirty[t] = {} /\ dead[t] = {} /\ InProgress(t) = {}
  BY DEF Employed, Begin, InProgress
<1>6. OwnRows'
  <2>1. \A u \in Txn \ {t} : job'[u] = job[u]
    BY DEF Begin, TypeOK
  <2>2. UNCHANGED <<table, dirty, placed, dead>>
    BY DEF Begin
  <2> QED
    BY <1>5, <2>1, <2>2 DEF OwnRows, Touches, InProgress
<1>7. NoOverlap' /\ AcceptedBeside' /\ AcceptedApart'
  BY DEF NoOverlap, AcceptedBeside, AcceptedApart, Begin
<1>8. AllEntitled'
  BY DEF AllEntitled, Begin, InProgress
<1> QED
  BY <1>1, <1>3, <1>4, <1>6, <1>7, <1>8

\* A statement marks committed rows of the transaction's own path dead and
\* writes one row; the index judges it later, unless it does not hold it.
LEMMA WriteStep ==
    ASSUME IInv, NEW t \in Txn, step[t] = "write", placed[t] = NoRow,
           NEW row \in Row, row.path \in Touches(t), Entitled(row), WriteTuple(t, row),
           NEW gone \in SUBSET RowsOf(table, job[t].path),
           dead' = [dead EXCEPT ![t] = @ \cup gone],
           todo' \in [Txn -> Seq(Claim)],
           UNCHANGED <<table, step, job, waitsFor, outcome>>
    PROVE  IInv'
<1> USE DEF IInv
<1>1. gone \subseteq table /\ \A r \in gone : r.path \in Touches(t)
  BY JobIsNotNoJob DEF RowsOf, Touches, PathsOf, Employed
<1>2. dirty \in [Txn -> SUBSET Row] /\ placed \in [Txn -> Row \cup {NoRow}]
        /\ dead \in [Txn -> SUBSET Row] /\ table \subseteq Row
  BY DEF TypeOK
<1>3. CASE row.holds
  <2>1. placed' = [placed EXCEPT ![t] = row] /\ dirty' = dirty
    BY <1>3 DEF WriteTuple
  <2>2. TypeOK'
    BY <1>1, <1>2, <2>1 DEF TypeOK
  <2>3. Employed'
    BY <1>2, <2>1 DEF Employed
  <2>4. \A u \in Txn : /\ Touches(u)' = Touches(u)
                        /\ (u # t => InProgress(u)' = InProgress(u))
                        /\ (u = t => InProgress(u)' = {row})
    BY <1>2, <2>1, RowAssumption DEF Touches, InProgress
  <2>5. Owners'
    BY <2>4 DEF Owners, Touches
  <2>6. OwnRows'
    BY <1>1, <1>2, <2>1, <2>4 DEF OwnRows, Touches, InProgress
  <2>7. NoOverlap' /\ AcceptedBeside' /\ AcceptedApart'
    BY <1>2, <2>1 DEF NoOverlap, AcceptedBeside, AcceptedApart
  <2>8. AllEntitled'
    BY <2>1, <2>4 DEF AllEntitled, InProgress
  <2> QED
    BY <2>2, <2>3, <2>5, <2>6, <2>7, <2>8
<1>4. CASE ~row.holds
  <2>1. dirty' = [dirty EXCEPT ![t] = @ \cup {row}] /\ placed' = placed
    BY <1>4 DEF WriteTuple
  <2>2. TypeOK'
    BY <1>1, <1>2, <2>1 DEF TypeOK
  <2>3. Employed'
    BY <1>2, <2>1 DEF Employed
  <2>4. \A u \in Txn : Touches(u)' = Touches(u) /\ InProgress(u)' = InProgress(u)
    BY <2>1 DEF Touches, InProgress
  <2>5. Owners'
    BY <2>4 DEF Owners, Touches
  <2>6. OwnRows'
    BY <1>1, <1>2, <2>1, <2>4 DEF OwnRows, Touches, InProgress
  <2>7. \A r \in Row : ~Clash(row, r) /\ ~Clash(r, row)
    BY <1>4, SilentRow
  <2>8. NoOverlap'
    BY DEF NoOverlap
  <2>9. AcceptedBeside'
    BY <1>2, <2>1, <2>7 DEF AcceptedBeside
  <2>10. AcceptedApart'
    BY <1>2, <2>1, <2>7 DEF AcceptedApart
  <2>11. AllEntitled'
    BY <1>2, <2>1, <2>4 DEF AllEntitled, InProgress
  <2> QED
    BY <2>2, <2>3, <2>5, <2>6, <2>8, <2>9, <2>10, <2>11
<1> QED
  BY <1>3, <1>4

\* A row that only changes its status stands where it stood: what kept clear of
\* the old row keeps clear of the new one, judged or not.
LEMMA KeepStep ==
    ASSUME IInv, NEW t \in Txn, step[t] = "write", placed[t] = NoRow, job[t] \in Job,
           NEW r \in RowsOf(table, job[t].path) \ dead[t],
           KeepTuple(t, r, Restatused(r, job[t].status)),
           dead' = [dead EXCEPT ![t] = @ \cup {r}],
           UNCHANGED <<table, step, job, todo, waitsFor, outcome>>
    PROVE  IInv'
<1> USE DEF IInv
<1> DEFINE row == Restatused(r, job[t].status)
<1>1. /\ dirty \in [Txn -> SUBSET Row] /\ placed \in [Txn -> Row \cup {NoRow}]
      /\ dead \in [Txn -> SUBSET Row] /\ table \subseteq Row
  BY DEF TypeOK
<1>2. r \in table /\ r \in Row /\ r.path = job[t].path /\ Entitled(r)
  BY <1>1 DEF RowsOf, AllEntitled
<1>3. row \in Row /\ row.path = r.path /\ Entitled(row)
  BY <1>2, RestatusedType DEF Job
<1>4. r.path \in Touches(t)
  BY <1>2, JobIsNotNoJob DEF Touches, PathsOf
<1>5. r.holds /\ row.holds /\ dirty' = [dirty EXCEPT ![t] = @ \cup {row}] /\ placed' = placed
  BY DEF KeepTuple
<1>6. row.resource = r.resource /\ row.allocated = r.allocated /\ row.period = r.period
  BY <1>2 DEF Restatused, Row
<1>7. ASSUME NEW c, ~Clash(r, c) PROVE ~Clash(row, c) /\ ~Clash(c, row)
  BY <1>5, <1>6, <1>7, ClashSymmetric DEF Clash
<1>8. TypeOK'
  BY <1>1, <1>2, <1>3, <1>5 DEF TypeOK
<1>9. Employed'
  BY <1>1, <1>5 DEF Employed
<1>10. Owners'
  BY DEF Owners, Touches
<1>11. OwnRows'
  BY <1>1, <1>2, <1>3, <1>4, <1>5 DEF OwnRows, Touches, InProgress
<1>12. NoOverlap'
  BY DEF NoOverlap
<1>13. AcceptedBeside'
  <2>1. \A c \in table \ {r} : ~Clash(row, c)
    BY <1>2, <1>7 DEF NoOverlap, Disjoint
  <2> QED
    BY <1>1, <1>5, <2>1 DEF AcceptedBeside
<1>14. AcceptedApart'
  <2>1. ASSUME NEW u \in Txn, NEW s \in dirty[u] PROVE ~Clash(r, s)
    <3>1. r \notin dead[u]
      BY <1>4 DEF OwnRows, Owners
    <3> QED
      BY <1>2, <2>1, <3>1, ClashSymmetric DEF AcceptedBeside
  <2>2. \A u \in Txn : \A s \in dirty[u] : ~Clash(row, s) /\ ~Clash(s, row)
    BY <1>7, <2>1
  <2> QED
    BY <1>1, <1>5, <2>2 DEF AcceptedApart
<1>15. AllEntitled'
  BY <1>1, <1>3, <1>5 DEF AllEntitled, InProgress
<1> QED
  BY <1>8, <1>9, <1>10, <1>11, <1>12, <1>13, <1>14, <1>15

\* The constraint accepts a row that collides with nothing committed that stays
\* and with nothing in flight.
LEMMA AcceptStep == ASSUME IInv, NEW t \in Txn, Accept(t) PROVE IInv'
<1> USE DEF IInv
<1> DEFINE row == placed[t]
<1>1. /\ dirty \in [Txn -> SUBSET Row] /\ placed \in [Txn -> Row \cup {NoRow}]
      /\ dead \in [Txn -> SUBSET Row] /\ table \subseteq Row
  BY DEF TypeOK
<1>2. row \in Row /\ InProgress(t) = {row}
  BY <1>1 DEF Accept, Judged, InProgress
<1>3. /\ dirty' = [dirty EXCEPT ![t] = @ \cup {row}]
      /\ placed' = [placed EXCEPT ![t] = NoRow]
      /\ UNCHANGED <<table, step, job, todo, dead, waitsFor, outcome>>
  BY DEF Accept
<1>4. TypeOK'
  BY <1>1, <1>2, <1>3 DEF TypeOK
<1>5. Employed'
  <2>1. step[t] = "write"
    BY DEF Employed, Accept, Judged
  <2> QED
    BY <1>1, <1>3, <2>1 DEF Employed
<1>6. Owners'
  BY <1>3 DEF Owners, Touches
<1>7. OwnRows'
  BY <1>1, <1>2, <1>3 DEF OwnRows, Touches, InProgress
<1>8. \A c \in table \ dead[t] : ~Clash(row, c)
  <2> SUFFICES ASSUME NEW c \in table \ dead[t], Clash(row, c) PROVE FALSE
    OBVIOUS
  <2>1. Clash(c, row)
    BY ClashSymmetric
  <2>2. CASE c \in DyingRows
    <3>1. PICK u \in Txn : c \in dead[u]
      BY <2>2 DEF DyingRows
    <3>2. u \in Blockers(t, row)
      BY <2>1, <3>1 DEF Blockers
    <3> QED
      BY <3>2 DEF Accept
  <2>3. CASE c \notin DyingRows
    <3>1. c \in Obstacles(t, row)
      BY <2>1, <2>3 DEF Obstacles
    <3> QED
      BY <3>1 DEF Accept
  <2> QED
    BY <2>2, <2>3
<1>9. \A u \in Txn : \A s \in dirty[u] : ~Clash(row, s) /\ ~Clash(s, row)
  <2> SUFFICES ASSUME NEW u \in Txn, NEW s \in dirty[u], Clash(s, row) PROVE FALSE
    BY ClashSymmetric
  <2>1. CASE u = t
    <3>1. s \in Obstacles(t, row)
      BY <2>1 DEF Obstacles
    <3> QED
      BY <3>1 DEF Accept
  <2>2. CASE u # t
    <3>1. u \in Blockers(t, row)
      BY <2>2 DEF Blockers
    <3> QED
      BY <3>1 DEF Accept
  <2> QED
    BY <2>1, <2>2
<1>10. NoOverlap'
  BY <1>3 DEF NoOverlap
<1>11. AcceptedBeside'
  BY <1>1, <1>3, <1>8 DEF AcceptedBeside
<1>12. AcceptedApart'
  BY <1>1, <1>3, <1>9 DEF AcceptedApart
<1>13. AllEntitled'
  BY <1>1, <1>2, <1>3 DEF AllEntitled, InProgress
<1> QED
  BY <1>4, <1>5, <1>6, <1>7, <1>10, <1>11, <1>12, <1>13

\* A commit swaps the dead rows for the accepted ones, which collide with
\* nothing that stays and with nothing that is still to come.
LEMMA CommitStep == ASSUME IInv, NEW t \in Txn, Commit(t) PROVE IInv'
<1> USE DEF IInv
<1>1. /\ dirty \in [Txn -> SUBSET Row] /\ placed \in [Txn -> Row \cup {NoRow}]
      /\ dead \in [Txn -> SUBSET Row] /\ table \subseteq Row
  BY DEF TypeOK
<1>2. table' = (table \ dead[t]) \cup dirty[t] /\ End(t, "committed")
  BY DEF Commit
<1>3. /\ dirty' = [dirty EXCEPT ![t] = {}]
      /\ placed' = [placed EXCEPT ![t] = NoRow]
      /\ dead' = [dead EXCEPT ![t] = {}]
      /\ job' = [job EXCEPT ![t] = NoJob]
      /\ step' = [step EXCEPT ![t] = "idle"]
  BY <1>2 DEF End
<1>4. TypeOK'
  BY <1>1, <1>2 DEF TypeOK, End, Step, Outcome
<1>5. Employed'
  BY <1>1, <1>3 DEF Employed, TypeOK
<1>6. Owners'
  <2>1. PathsOf(NoJob) = {}
    BY DEF PathsOf
  <2> QED
    BY <1>3, <2>1 DEF Owners, Touches, TypeOK
<1>7. OwnRows'
  <2> SUFFICES ASSUME NEW u \in Txn
               PROVE  /\ \A r \in (dirty[u] \cup InProgress(u) \cup dead[u])' :
                             r.path \in Touches(u)'
                      /\ dead'[u] \subseteq table'
    BY DEF OwnRows
  <2>1. CASE u = t
    BY <1>1, <1>3, <2>1 DEF InProgress
  <2>2. CASE u # t
    <3>1. dirty'[u] = dirty[u] /\ placed'[u] = placed[u] /\ dead'[u] = dead[u] /\ job'[u] = job[u]
      BY <1>1, <1>3, <2>2 DEF TypeOK
    <3>2. \A r \in dead[u] : r \notin dead[t]
      BY <2>2 DEF OwnRows, Owners
    <3>3. dead'[u] \subseteq table'
      BY <1>2, <3>1, <3>2 DEF OwnRows
    <3> QED
      BY <3>1, <3>3 DEF OwnRows, Touches, InProgress
  <2> QED
    BY <2>1, <2>2
<1>8. NoOverlap'
  <2> SUFFICES ASSUME NEW a \in table', NEW b \in table', a # b PROVE ~Clash(a, b)
    BY DEF NoOverlap, Disjoint
  <2>1. CASE a \in table \ dead[t] /\ b \in table \ dead[t]
    BY <2>1 DEF NoOverlap, Disjoint
  <2>2. CASE a \in dirty[t] /\ b \in table \ dead[t]
    BY <2>2 DEF AcceptedBeside
  <2>3. CASE a \in table \ dead[t] /\ b \in dirty[t]
    BY <2>3, ClashSymmetric DEF AcceptedBeside
  <2>4. CASE a \in dirty[t] /\ b \in dirty[t]
    BY <2>4 DEF AcceptedApart
  <2> QED
    BY <1>2, <2>1, <2>2, <2>3, <2>4
<1>9. AcceptedBeside'
  <2> SUFFICES ASSUME NEW u \in Txn, NEW r \in dirty'[u], NEW c \in table' \ dead'[u]
               PROVE  ~Clash(r, c)
    BY DEF AcceptedBeside
  <2>1. u # t /\ r \in dirty[u] /\ dead'[u] = dead[u]
    BY <1>1, <1>3
  <2>2. CASE c \in table
    BY <2>1, <2>2 DEF AcceptedBeside
  <2>3. CASE c \in dirty[t]
    <3>1. r.path \in Touches(u) /\ c.path \in Touches(t)
      BY <2>1, <2>3 DEF OwnRows
    <3>2. r # c
      BY <2>1, <3>1 DEF Owners
    <3> QED
      BY <2>1, <2>3, <3>2 DEF AcceptedApart
  <2> QED
    BY <1>2, <2>2, <2>3
<1>10. AcceptedApart'
  BY <1>1, <1>3 DEF AcceptedApart
<1>11. AllEntitled'
  BY <1>1, <1>2, <1>3 DEF AllEntitled, InProgress
<1> QED
  BY <1>4, <1>5, <1>6, <1>7, <1>8, <1>9, <1>10, <1>11
-----------------------------------------------------------------------------
(***************************************************************************)
(* Every step.                                                             *)
(***************************************************************************)
\* A job made of a path, a target, a period and a status is one.
LEMMA JobForType ==
    ASSUME NEW op \in Op, NEW path \in Path, NEW target \in Path,
           NEW period \in AnyPeriod, NEW status \in PathStatus, NEW again \in BOOLEAN
    PROVE  JobFor(op, path, target, period, status, again) \in Job
BY DEF JobFor, Job

\* A request that arrives.
LEMMA ArriveStep == ASSUME IInv, NEW t \in Txn, Arrive(t) PROVE IInv'
<1>1. \A r \in table : r.period \in AnyPeriod /\ r.status \in PathStatus
  BY DEF IInv, TypeOK, Row
<1>2. <<>> \in Seq(Claim)
  OBVIOUS
<1>3. ASSUME NEW path \in Path, NEW pl \in Placement, NEW status \in Entering,
             BeginReserve(t, path, pl, status)
      PROVE  IInv'
  <2>1. JobFor("reserve", path, path, pl.period, status, RowsOf(table, path) # {}) \in Job
    BY JobForType, PlacementAssumption, StatusAssumption DEF Op
  <2>2. pl.claims \in Seq(Claim)
    BY PlacementAssumption
  <2> QED
    BY <1>3, <2>1, <2>2, BeginStep DEF BeginReserve
<1>4. ASSUME NEW path \in Path, NEW status \in Asked, BeginSetStatus(t, path, status)
      PROVE  IInv'
  <2>1. PICK r \in RowsOf(table, path) :
            Begin(t, JobFor("set_status", path, path, r.period, status, FALSE), "write", <<>>)
    BY <1>4 DEF BeginSetStatus
  <2>2. JobFor("set_status", path, path, r.period, status, FALSE) \in Job
    BY <1>1, JobForType, StatusAssumption DEF Op, RowsOf
  <2> QED
    BY <1>2, <2>1, <2>2, BeginStep
<1>5. ASSUME NEW path \in Path, BeginRelease(t, path)
      PROVE  IInv'
  <2>1. PICK r \in RowsOf(table, path) :
            Begin(t, JobFor("release", path, path, r.period, r.status, FALSE), "release", <<>>)
    BY <1>5 DEF BeginRelease
  <2>2. JobFor("release", path, path, r.period, r.status, FALSE) \in Job
    BY <1>1, JobForType DEF Op, RowsOf
  <2> QED
    BY <1>2, <2>1, <2>2, BeginStep
<1>6. ASSUME NEW path \in Path, NEW successor \in Path, NEW pl \in Placement,
             NEW status \in Entering, BeginExchange(t, path, successor, pl, status)
      PROVE  IInv'
  <2>1. JobFor("exchange", path, successor, pl.period, status, FALSE) \in Job
    BY JobForType, PlacementAssumption, StatusAssumption DEF Op
  <2>2. pl.claims \in Seq(Claim)
    BY PlacementAssumption
  <2> QED
    BY <1>6, <2>1, <2>2, BeginStep DEF BeginExchange
<1> QED
  BY <1>3, <1>4, <1>5, <1>6 DEF Arrive

\* DELETE: the path's committed rows are marked dead.
LEMMA DeleteStep == ASSUME IInv, NEW t \in Txn, DeleteRows(t) PROVE IInv'
<1> USE DEF IInv
<1> DEFINE gone == RowsOf(table, job[t].path)
<1>1. /\ dead \in [Txn -> SUBSET Row] /\ step \in [Txn -> Step] /\ table \subseteq Row
      /\ dead' = [dead EXCEPT ![t] = gone] /\ step' = [step EXCEPT ![t] = "write"]
      /\ step[t] = "release"
      /\ UNCHANGED <<table, job, todo, dirty, placed, waitsFor, outcome>>
  BY DEF DeleteRows, TypeOK
<1>2. gone \subseteq table /\ \A r \in gone : r.path = job[t].path
  BY DEF RowsOf
<1>3. job[t] \in Job
  BY <1>1 DEF Employed
<1>4. \A r \in gone : r.path \in Touches(t)
  BY <1>2, <1>3, JobIsNotNoJob DEF Touches, PathsOf
<1>5. TypeOK'
  BY <1>1, <1>2 DEF TypeOK, Step
<1>6. Employed'
  BY <1>1, <1>3 DEF Employed
<1>7. Owners'
  BY <1>1 DEF Owners, Touches
<1>8. OwnRows'
  BY <1>1, <1>2, <1>4 DEF OwnRows, Touches, InProgress
<1>9. NoOverlap' /\ AcceptedApart' /\ AllEntitled'
  BY <1>1 DEF NoOverlap, AcceptedApart, AllEntitled, InProgress
<1>10. AcceptedBeside'
  <2>1. dirty[t] = {}
    BY <1>1 DEF Employed
  <2> QED
    BY <1>1, <2>1 DEF AcceptedBeside
<1> QED
  BY <1>5, <1>6, <1>7, <1>8, <1>9, <1>10

\* The index's verdict apart, what a running transaction does.
LEMMA ProceedStep == ASSUME IInv, NEW t \in Txn, Proceed(t) PROVE IInv'
<1> USE DEF IInv
<1>1. CASE DeleteRows(t)
  BY <1>1, DeleteStep
<1>2. CASE InsertRow(t)
  <2>1. /\ job[t] \in Job /\ todo \in [Txn -> Seq(Claim)] /\ dead \in [Txn -> SUBSET Row]
        /\ step[t] = "write" /\ placed[t] = NoRow /\ todo[t] # <<>>
        /\ Entitled(NextRow(t)) /\ WriteTuple(t, NextRow(t))
        /\ todo' = [todo EXCEPT ![t] = Tail(@)]
        /\ UNCHANGED <<table, step, job, dead, waitsFor, outcome>>
    BY <1>2 DEF InsertRow, Employed, TypeOK
  <2>2. Head(todo[t]) \in Claim /\ Tail(todo[t]) \in Seq(Claim)
    BY <2>1
  <2>3. NextRow(t) \in Row /\ NextRow(t).path = job[t].target
    BY <2>1, <2>2, RowForType DEF NextRow, Job
  <2>4. NextRow(t).path \in Touches(t)
    BY <2>1, <2>3, JobIsNotNoJob DEF Touches, PathsOf
  <2>5. dead' = [dead EXCEPT ![t] = @ \cup {}] /\ todo' \in [Txn -> Seq(Claim)]
    BY <2>1, <2>2
  <2>6. {} \in SUBSET RowsOf(table, job[t].path)
    OBVIOUS
  <2> QED
    BY <2>1, <2>3, <2>4, <2>5, <2>6, WriteStep
<1>3. CASE UpdateRow(t)
  <2>1. /\ job[t] \in Job /\ todo \in [Txn -> Seq(Claim)]
        /\ step[t] = "write" /\ placed[t] = NoRow
        /\ UNCHANGED <<table, step, job, todo, waitsFor, outcome>>
    BY <1>3 DEF UpdateRow, Employed, TypeOK
  <2>2. PICK r \in StaleRows(t) :
            /\ dead' = [dead EXCEPT ![t] = @ \cup {r}]
            /\ \/ WriteTuple(t, Restatused(r, job[t].status))
               \/ KeepTuple(t, r, Restatused(r, job[t].status))
    BY <1>3 DEF UpdateRow
  <2> DEFINE row == Restatused(r, job[t].status)
  <2>3. r \in RowsOf(table, job[t].path) \ dead[t]
    BY <2>2 DEF StaleRows
  <2>4. CASE KeepTuple(t, r, row)
    BY <2>1, <2>2, <2>3, <2>4, KeepStep
  <2>5. CASE WriteTuple(t, row)
    <3>1. r \in Row /\ r.path = job[t].path /\ Entitled(r)
      BY <2>3 DEF RowsOf, TypeOK, AllEntitled
    <3>2. row \in Row /\ row.path = job[t].path /\ Entitled(row)
      BY <2>1, <3>1, RestatusedType DEF Job
    <3>3. row.path \in Touches(t)
      BY <2>1, <3>2, JobIsNotNoJob DEF Touches, PathsOf
    <3>4. todo' \in [Txn -> Seq(Claim)] /\ {r} \in SUBSET RowsOf(table, job[t].path)
      BY <2>1, <2>3
    <3> QED
      BY <2>1, <2>2, <2>5, <3>2, <3>3, <3>4, WriteStep
  <2> QED
    BY <2>2, <2>4, <2>5
<1>4. CASE Accept(t)
  BY <1>4, AcceptStep
<1>5. CASE Wait(t)
  <2>1. UNCHANGED <<table, step, job, todo, dirty, placed, dead, outcome>>
    BY <1>5 DEF Wait
  <2>2. PICK u \in Txn : waitsFor' = [waitsFor EXCEPT ![t] = u]
    BY <1>5 DEF Wait, Blockers
  <2>3. TypeOK'
    BY <2>1, <2>2 DEF TypeOK
  <2> QED
    BY <2>1, <2>3 DEF Employed, Owners, OwnRows, NoOverlap, AcceptedBeside, AcceptedApart,
                      AllEntitled, Touches, InProgress
<1>6. CASE Commit(t)
  BY <1>6, CommitStep
<1>7. CASE Refuse(t) \/ RefuseOutside(t)
  BY <1>7, EndStep DEF Refuse, RefuseOutside, Outcome
<1> QED
  BY <1>1, <1>2, <1>3, <1>4, <1>5, <1>6, <1>7 DEF Proceed

\* No step of any transaction breaks the invariant.
LEMMA NextInv == IInv /\ [Next]_vars => IInv'
<1> SUFFICES ASSUME IInv, [Next]_vars PROVE IInv'
  OBVIOUS
<1>1. CASE UNCHANGED vars
  BY <1>1 DEF vars, txnVars, IInv, TypeOK, Employed, Owners, OwnRows, NoOverlap,
              AcceptedBeside, AcceptedApart, AllEntitled, Touches, InProgress
<1>2. CASE Next
  <2>1. PICK t \in Txn : Arrive(t) \/ Proceed(t) \/ KillVictim(t) \/ RollBack(t)
    BY <1>2 DEF Next
  <2>2. CASE Arrive(t)
    BY <2>2, ArriveStep
  <2>3. CASE Proceed(t)
    BY <2>3, ProceedStep
  <2>4. CASE KillVictim(t) \/ RollBack(t)
    BY <2>4, EndStep DEF KillVictim, RollBack, Outcome
  <2> QED
    BY <2>1, <2>2, <2>3, <2>4
<1> QED
  BY <1>1, <1>2
-----------------------------------------------------------------------------
(***************************************************************************)
(* The theorems.                                                           *)
(***************************************************************************)
\* The inductive invariant holds in every reachable state.
THEOREM Invariance == Spec => []IInv
BY InitInv, NextInv, PTL DEF Spec

\* Every row, job and statement of every transaction is of its type, the
\* CHECK constraint on status and reserves_spectrum included.
THEOREM TypeCorrect == Spec => []TypeOK
<1>1. IInv => TypeOK
  BY DEF IInv
<1> QED
  BY Invariance, <1>1, PTL

\* However many requests write at once, however their statements interleave
\* and wherever any of them fails, no two committed reservations hold the same
\* Hz of one resource at one time: the platform's promise (excl_reservation_overlap).
THEOREM SpectrumIsNeverSharedTwice == Spec => []NoOverlap
<1>1. IInv => NoOverlap
  BY DEF IInv
<1> QED
  BY Invariance, <1>1, PTL

\* An allocation commits no leg outside the assignment it is granted from, in
\* frequency or in time, however late the offending leg is looked at.
THEOREM RowsStayEntitled == Spec => []OnlyEntitledRows
<1>1. IInv => OnlyEntitledRows
  <2> SUFFICES ASSUME IInv, NEW r \in table
               PROVE  LET grant == Grant[r.assignment]
                      IN  /\ grant.active
                          /\ grant.bounds.start <= r.allocated.start
                          /\ r.allocated.end <= grant.bounds.end
                          /\ grant.period.start <= r.period.start
                          /\ \/ grant.period.end = NoEnd
                             \/ r.period.end \in r.period.start .. grant.period.end
    BY DEF OnlyEntitledRows
  <2> DEFINE grant == Grant[r.assignment]
  <2>1. r \in Row /\ Entitled(r)
    BY DEF IInv, TypeOK, AllEntitled
  <2>2. r.period \in AnyPeriod /\ r.assignment \in DOMAIN Grant
    BY <2>1 DEF Row
  <2>3. grant.period \in AnyPeriod
    BY <2>2, GrantAssumption
  <2>4. grant.active /\ PeriodContains(grant.period, r.period) /\ Contains(grant.bounds, r.allocated)
    BY <2>1 DEF Entitled
  <2>5. /\ grant.period.start <= r.period.start
        /\ \/ grant.period.end = NoEnd
           \/ r.period.end \in r.period.start .. grant.period.end
    BY <2>2, <2>3, <2>4 DEF PeriodContains, AnyPeriod, PeriodsOver, Moment, NoEnd
  <2> QED
    BY <2>4, <2>5 DEF Contains
<1> QED
  BY Invariance, <1>1, PTL
-----------------------------------------------------------------------------
(***************************************************************************)
(* The transactions implement the ledger, for any number of them and for   *)
(* allocations of any size.                                                *)
(***************************************************************************)
(***************************************************************************)
(* What a running transaction has written is a part of one whole change.   *)
(***************************************************************************)
Written(t) == dirty[t] \cup InProgress(t)

RowsToCome(t) ==
    {RowFor(job[t].target, todo[t][i], job[t].period, job[t].status, job[t].again) :
       i \in DOMAIN todo[t]}

\* With the rows still to come, the rows written are an allocation.
Placing(t) ==
    \E pl \in Placement :
        Written(t) \cup RowsToCome(t) = Rows(job[t].target, pl, job[t].status, job[t].again)

\* What it has written of a placing is of the path and the placing it was asked for.
LEMMA PlacedRow ==
    ASSUME NEW t \in Txn, Placing(t), NEW r \in Written(t)
    PROVE  r.path = job[t].target /\ r.again = job[t].again
<1>1. PICK pl \in Placement :
          Written(t) \cup RowsToCome(t) = Rows(job[t].target, pl, job[t].status, job[t].again)
  BY DEF Placing
<1>2. PICK i \in DOMAIN pl.claims :
          r = RowFor(job[t].target, pl.claims[i], pl.period, job[t].status, job[t].again)
  BY <1>1 DEF Rows
<1> QED BY <1>2 DEF RowFor

Reserving(t) ==
    /\ step[t] = "write" /\ job[t].target = job[t].path
    /\ job[t].again = (RowsOf(table, job[t].path) # {}) /\ dead[t] = {}
    /\ \A r \in RowsOf(table, job[t].path) : ~r.again
    /\ Placing(t)

Moving(t) ==
    /\ step[t] = "write" /\ job[t].target = job[t].path /\ todo[t] = <<>>
    /\ dead[t] \subseteq RowsOf(table, job[t].path)
    /\ Written(t) = {Restatused(r, job[t].status) : r \in dead[t]}

Deleted(t) == step[t] = "write" => dead[t] = RowsOf(table, job[t].path)

Releasing(t) == todo[t] = <<>> /\ Written(t) = {} /\ Deleted(t)

Exchanging(t) ==
    /\ job[t].target # job[t].path => RowsOf(table, job[t].target) = {}
    /\ ~job[t].again /\ Deleted(t) /\ Placing(t)

Faithful(t) ==
    step[t] # "idle" =>
        /\ job[t].op = "reserve"    => Reserving(t)
        /\ job[t].op = "set_status" => Moving(t)
        /\ job[t].op = "release"    => Releasing(t)
        /\ job[t].op = "exchange"   => Exchanging(t)

AllFaithful == \A t \in Txn : Faithful(t)

\* A transaction that does nothing is not disturbed by what others do to rows
\* of other paths.
LEMMA OtherStep ==
    ASSUME IInv, NEW u \in Txn, Faithful(u),
           step'[u] = step[u], job'[u] = job[u], todo'[u] = todo[u],
           dirty'[u] = dirty[u], placed'[u] = placed[u], dead'[u] = dead[u],
           \A p \in Touches(u) : RowsOf(table', p) = RowsOf(table, p)
    PROVE  Faithful(u)'
<1> SUFFICES ASSUME step[u] # "idle" PROVE Faithful(u)'
  BY DEF Faithful
<1>1. job[u] \in Job /\ job[u].path \in Touches(u) /\ job[u].target \in Touches(u)
  BY JobIsNotNoJob DEF IInv, Employed, Touches, PathsOf
<1>2. /\ RowsOf(table', job[u].path) = RowsOf(table, job[u].path)
      /\ RowsOf(table', job[u].target) = RowsOf(table, job[u].target)
  BY <1>1
<1>3. /\ Written(u)' = Written(u) /\ RowsToCome(u)' = RowsToCome(u)
  BY DEF Written, InProgress, RowsToCome
<1>4. Placing(u)' <=> Placing(u)
  BY <1>3 DEF Placing
<1>5. CASE job[u].op = "reserve"
  BY <1>2, <1>4, <1>5 DEF Faithful, Reserving
<1>6. CASE job[u].op = "set_status"
  BY <1>2, <1>3, <1>6 DEF Faithful, Moving
<1>7. CASE job[u].op = "release"
  BY <1>2, <1>3, <1>7 DEF Faithful, Releasing, Deleted
<1>8. CASE job[u].op = "exchange"
  BY <1>2, <1>4, <1>8 DEF Faithful, Exchanging, Deleted
<1> QED BY <1>1, <1>5, <1>6, <1>7, <1>8 DEF Job, Op

\* One transaction moves, and the table stays.
LEMMA OneStep ==
    ASSUME IInv, AllFaithful, NEW t \in Txn, table' = table, Faithful(t)',
           \A u \in Txn \ {t} :
               /\ step'[u] = step[u] /\ job'[u] = job[u] /\ todo'[u] = todo[u]
               /\ dirty'[u] = dirty[u] /\ placed'[u] = placed[u] /\ dead'[u] = dead[u]
    PROVE  AllFaithful'
<1> SUFFICES ASSUME NEW u \in Txn, u # t PROVE Faithful(u)'
  BY DEF AllFaithful
<1>1. Faithful(u)
  BY DEF AllFaithful
<1>2. \A p \in Touches(u) : RowsOf(table', p) = RowsOf(table, p)
  OBVIOUS
<1> QED BY <1>1, <1>2, OtherStep

\* A step that touches nothing but waitsFor and outcome.
LEMMA SameStep ==
    ASSUME IInv, AllFaithful, UNCHANGED <<table, step, job, todo, dirty, placed, dead>>
    PROVE  AllFaithful'
<1> SUFFICES ASSUME NEW u \in Txn PROVE Faithful(u)'
  BY DEF AllFaithful
<1>1. Faithful(u)
  BY DEF AllFaithful
<1> QED BY <1>1, OtherStep

\* A transaction ends, and leaves the rows of the others as they are.
LEMMA EndFaithful ==
    ASSUME IInv, AllFaithful, NEW t \in Txn, NEW how, End(t, how),
           \A u \in Txn \ {t} : \A p \in Touches(u) : RowsOf(table', p) = RowsOf(table, p)
    PROVE  AllFaithful'
<1> SUFFICES ASSUME NEW u \in Txn PROVE Faithful(u)'
  BY DEF AllFaithful
<1>1. Faithful(u)
  BY DEF AllFaithful
<1>2. CASE u = t
  BY <1>2 DEF Faithful, End, IInv, TypeOK
<1>3. CASE u # t
  <2>1. /\ step'[u] = step[u] /\ job'[u] = job[u] /\ todo'[u] = todo[u]
        /\ dirty'[u] = dirty[u] /\ placed'[u] = placed[u] /\ dead'[u] = dead[u]
    BY <1>3 DEF End, IInv, TypeOK
  <2> QED BY <1>1, <1>3, <2>1, OtherStep
<1> QED BY <1>2, <1>3

(***************************************************************************)
(* Requests arrive with nothing written.                                   *)
(***************************************************************************)
LEMMA BeginFaithful ==
    ASSUME IInv, AllFaithful, NEW t \in Txn, NEW newJob \in Job,
           NEW newStep \in {"release", "write"}, NEW claims \in Seq(Claim),
           Begin(t, newJob, newStep, claims),
           newJob.op = "reserve" =>
               /\ newStep = "write" /\ newJob.target = newJob.path
               /\ newJob.again = (RowsOf(table, newJob.path) # {})
               /\ \A r \in RowsOf(table, newJob.path) : ~r.again,
           newJob.op = "set_status" =>
               newStep = "write" /\ newJob.target = newJob.path /\ claims = <<>>,
           newJob.op = "release" => newStep = "release" /\ claims = <<>>,
           newJob.op = "exchange" =>
               /\ newStep = "release" /\ ~newJob.again
               /\ newJob.target # newJob.path => RowsOf(table, newJob.target) = {},
           newJob.op \in {"reserve", "exchange"} =>
               \E pl \in Placement : pl.claims = claims /\ pl.period = newJob.period
    PROVE  AllFaithful'
<1>1. /\ job'[t] = newJob /\ step'[t] = newStep /\ todo'[t] = claims
      /\ UNCHANGED <<table, dirty, placed, dead>>
      /\ \A u \in Txn \ {t} : step'[u] = step[u] /\ job'[u] = job[u] /\ todo'[u] = todo[u]
  BY DEF Begin, IInv, TypeOK
<1>2. dirty'[t] = {} /\ placed'[t] = NoRow /\ dead'[t] = {}
  BY <1>1 DEF IInv, Employed, Begin
<1>3. Written(t)' = {}
  BY <1>2 DEF Written, InProgress
<1>4. newJob.op \in {"reserve", "exchange"} => Placing(t)'
  <2> SUFFICES ASSUME NEW pl \in Placement, pl.claims = claims, pl.period = newJob.period
               PROVE  Placing(t)'
    OBVIOUS
  <2>1. RowsToCome(t)' = Rows(newJob.target, pl, newJob.status, newJob.again)
    BY <1>1 DEF RowsToCome, Rows
  <2> QED BY <1>1, <1>3, <2>1 DEF Placing
<1>5. Faithful(t)'
  <2>1. CASE newJob.op = "reserve"
    BY <1>1, <1>2, <1>4, <2>1 DEF Faithful, Reserving
  <2>2. CASE newJob.op = "set_status"
    BY <1>1, <1>2, <1>3, <2>2 DEF Faithful, Moving
  <2>3. CASE newJob.op = "release"
    BY <1>1, <1>3, <2>3 DEF Faithful, Releasing, Deleted
  <2>4. CASE newJob.op = "exchange"
    BY <1>1, <1>4, <2>4 DEF Faithful, Exchanging, Deleted
  <2> QED BY <1>1, <2>1, <2>2, <2>3, <2>4 DEF Job, Op
<1> QED BY <1>1, <1>5, OneStep

\* Every request that arrives has its whole change still to make.
LEMMA ArriveFaithful ==
    ASSUME IInv, AllFaithful, NEW t \in Txn, Arrive(t) PROVE AllFaithful'
<1>1. \A r \in table : r.period \in AnyPeriod /\ r.status \in PathStatus
  BY DEF IInv, TypeOK, Row
<1>2. <<>> \in Seq(Claim)
  OBVIOUS
<1>3. ASSUME NEW path \in Path, NEW pl \in Placement, NEW status \in Entering,
             BeginReserve(t, path, pl, status)
      PROVE  AllFaithful'
  <2> DEFINE j == JobFor("reserve", path, path, pl.period, status, RowsOf(table, path) # {})
  <2>1. /\ j \in Job /\ j.op = "reserve" /\ j.path = path /\ j.target = path
        /\ j.period = pl.period /\ j.again = (RowsOf(table, path) # {})
    BY JobForType, PlacementAssumption, StatusAssumption DEF Op, JobFor
  <2>2. pl.claims \in Seq(Claim)
    BY PlacementAssumption
  <2>3. Begin(t, j, "write", pl.claims) /\ \A r \in RowsOf(table, path) : ~r.again
    BY <1>3 DEF BeginReserve
  <2> HIDE DEF j
  <2> QED BY <2>1, <2>2, <2>3, BeginFaithful
<1>4. ASSUME NEW path \in Path, NEW status \in Asked, BeginSetStatus(t, path, status)
      PROVE  AllFaithful'
  <2>1. PICK r \in RowsOf(table, path) :
            Begin(t, JobFor("set_status", path, path, r.period, status, FALSE), "write", <<>>)
    BY <1>4 DEF BeginSetStatus
  <2> DEFINE j == JobFor("set_status", path, path, r.period, status, FALSE)
  <2>2. j \in Job /\ j.op = "set_status" /\ j.target = j.path
    BY <1>1, JobForType, StatusAssumption DEF Op, RowsOf, JobFor
  <2>3. Begin(t, j, "write", <<>>)
    BY <2>1
  <2> HIDE DEF j
  <2> QED BY <1>2, <2>2, <2>3, BeginFaithful
<1>5. ASSUME NEW path \in Path, BeginRelease(t, path)
      PROVE  AllFaithful'
  <2>1. PICK r \in RowsOf(table, path) :
            Begin(t, JobFor("release", path, path, r.period, r.status, FALSE), "release", <<>>)
    BY <1>5 DEF BeginRelease
  <2> DEFINE j == JobFor("release", path, path, r.period, r.status, FALSE)
  <2>2. j \in Job /\ j.op = "release"
    BY <1>1, JobForType DEF Op, RowsOf, JobFor
  <2>3. Begin(t, j, "release", <<>>)
    BY <2>1
  <2> HIDE DEF j
  <2> QED BY <1>2, <2>2, <2>3, BeginFaithful
<1>6. ASSUME NEW path \in Path, NEW successor \in Path, NEW pl \in Placement,
             NEW status \in Entering, BeginExchange(t, path, successor, pl, status)
      PROVE  AllFaithful'
  <2> DEFINE j == JobFor("exchange", path, successor, pl.period, status, FALSE)
  <2>1. /\ j \in Job /\ j.op = "exchange" /\ j.path = path /\ j.target = successor
        /\ j.period = pl.period /\ ~j.again
    BY JobForType, PlacementAssumption, StatusAssumption DEF Op, JobFor
  <2>2. pl.claims \in Seq(Claim)
    BY PlacementAssumption
  <2>3. /\ Begin(t, j, "release", pl.claims)
        /\ successor # path => RowsOf(table, successor) = {}
    BY <1>6 DEF BeginExchange
  <2> HIDE DEF j
  <2> QED BY <2>1, <2>2, <2>3, BeginFaithful
<1> QED BY <1>3, <1>4, <1>5, <1>6 DEF Arrive

(***************************************************************************)
(* Statements.                                                             *)
(***************************************************************************)
LEMMA DeleteFaithful ==
    ASSUME IInv, AllFaithful, NEW t \in Txn, DeleteRows(t) PROVE AllFaithful'
<1>1. /\ step[t] = "release" /\ step'[t] = "write" /\ dead'[t] = RowsOf(table, job[t].path)
      /\ UNCHANGED <<table, job, todo, dirty, placed>>
      /\ \A u \in Txn \ {t} : step'[u] = step[u] /\ dead'[u] = dead[u]
  BY DEF DeleteRows, IInv, TypeOK
<1>2. Faithful(t)
  BY DEF AllFaithful
<1>3. Written(t)' = Written(t) /\ (Placing(t)' <=> Placing(t))
  BY <1>1 DEF Written, InProgress, Placing, RowsToCome
<1>4. Faithful(t)'
  BY <1>1, <1>2, <1>3 DEF Faithful, Reserving, Moving, Releasing, Exchanging, Deleted
<1> QED BY <1>1, <1>4, OneStep

\* The row a statement writes is one of what the transaction has written,
\* judged or not.
LEMMA TupleWritten ==
    ASSUME IInv, NEW t \in Txn, NEW row \in Row, placed[t] = NoRow, WriteTuple(t, row)
    PROVE  /\ Written(t)' = Written(t) \cup {row}
           /\ \A u \in Txn \ {t} : dirty'[u] = dirty[u] /\ placed'[u] = placed[u]
<1>1. InProgress(t) = {} /\ row # NoRow
  BY RowAssumption DEF InProgress
<1> QED BY <1>1 DEF WriteTuple, Written, InProgress, IInv, TypeOK

\* An INSERT takes the next row from those to come.
LEMMA InsertFaithful ==
    ASSUME IInv, AllFaithful, NEW t \in Txn, InsertRow(t) PROVE AllFaithful'
<1>1. /\ step[t] = "write" /\ placed[t] = NoRow /\ todo[t] # <<>> /\ todo[t] \in Seq(Claim)
      /\ job[t] \in Job /\ WriteTuple(t, NextRow(t)) /\ todo'[t] = Tail(todo[t])
      /\ UNCHANGED <<table, step, job, dead>>
      /\ \A u \in Txn \ {t} : todo'[u] = todo[u]
  BY DEF InsertRow, IInv, TypeOK, Employed
<1>2. Head(todo[t]) \in Claim
  BY <1>1
<1>3. NextRow(t) \in Row
  BY <1>1, <1>2, RowForType DEF NextRow, Job
<1>4. /\ Written(t)' = Written(t) \cup {NextRow(t)}
      /\ \A u \in Txn \ {t} : dirty'[u] = dirty[u] /\ placed'[u] = placed[u]
  BY <1>1, <1>3, TupleWritten
<1>5. RowsToCome(t) = RowsToCome(t)' \cup {NextRow(t)}
  <2> DEFINE r(c) == RowFor(job[t].target, c, job[t].period, job[t].status, job[t].again)
  <2>1. \A i \in DOMAIN todo[t] : i = 1 \/ (i - 1 \in DOMAIN todo'[t] /\ todo'[t][i - 1] = todo[t][i])
    BY <1>1
  <2>2. \A i \in DOMAIN todo'[t] : i + 1 \in DOMAIN todo[t] /\ todo[t][i + 1] = todo'[t][i]
    BY <1>1
  <2>3. 1 \in DOMAIN todo[t] /\ todo[t][1] = Head(todo[t])
    BY <1>1
  <2>4. /\ RowsToCome(t) = {r(todo[t][i]) : i \in DOMAIN todo[t]}
        /\ RowsToCome(t)' = {r(todo'[t][i]) : i \in DOMAIN todo'[t]}
        /\ NextRow(t) = r(Head(todo[t]))
    BY <1>1 DEF RowsToCome, NextRow
  <2> HIDE DEF r
  <2> QED BY <2>1, <2>2, <2>3, <2>4
<1>6. Placing(t) => Placing(t)'
  BY <1>1, <1>4, <1>5 DEF Placing
<1>7. Faithful(t)
  BY DEF AllFaithful
<1>8. Faithful(t)'
  <2>1. job[t].op = "reserve" => Reserving(t)'
    BY <1>1, <1>6, <1>7 DEF Faithful, Reserving
  <2>2. job[t].op = "exchange" => Exchanging(t)'
    BY <1>1, <1>6, <1>7 DEF Faithful, Exchanging, Deleted
  <2>3. job[t].op \notin {"set_status", "release"}
    BY <1>1, <1>7 DEF Faithful, Moving, Releasing
  <2> QED BY <1>1, <2>1, <2>2, <2>3 DEF Faithful
<1> QED BY <1>1, <1>4, <1>8, OneStep

\* An UPDATE replaces one row by its restatused form.
LEMMA UpdateFaithful ==
    ASSUME IInv, AllFaithful, NEW t \in Txn, UpdateRow(t) PROVE AllFaithful'
<1>1. PICK r \in StaleRows(t) :
          /\ dead' = [dead EXCEPT ![t] = @ \cup {r}]
          /\ \/ WriteTuple(t, Restatused(r, job[t].status))
             \/ KeepTuple(t, r, Restatused(r, job[t].status))
  BY DEF UpdateRow
<1> DEFINE row == Restatused(r, job[t].status)
<1>2. /\ step[t] = "write" /\ placed[t] = NoRow /\ job[t] \in Job
      /\ UNCHANGED <<table, step, job, todo>>
  BY DEF UpdateRow, IInv, Employed
<1>3. r \in RowsOf(table, job[t].path) /\ job[t].op = "set_status"
  BY DEF StaleRows
<1>4. row \in Row
  BY <1>2, <1>3, RestatusedType DEF IInv, TypeOK, RowsOf, Job
<1> HIDE DEF row
<1>5. /\ dead'[t] = dead[t] \cup {r}
      /\ \A u \in Txn \ {t} : dead'[u] = dead[u]
  BY <1>1 DEF IInv, TypeOK
<1>6. /\ Written(t)' = Written(t) \cup {row}
      /\ \A u \in Txn \ {t} : dirty'[u] = dirty[u] /\ placed'[u] = placed[u]
  <2>1. CASE WriteTuple(t, row)
    BY <1>2, <1>4, <2>1, TupleWritten
  <2>2. CASE KeepTuple(t, r, row)
    BY <2>2 DEF KeepTuple, Written, InProgress, IInv, TypeOK
  <2> QED BY <1>1, <2>1, <2>2 DEF row
<1>7. Moving(t)
  BY <1>2, <1>3 DEF AllFaithful, Faithful
<1>8. Moving(t)'
  BY <1>2, <1>3, <1>5, <1>6, <1>7 DEF Moving, row
<1>9. Faithful(t)'
  BY <1>2, <1>3, <1>8 DEF Faithful
<1> QED BY <1>2, <1>5, <1>6, <1>9, OneStep

\* The constraint accepts a row that was written already.
LEMMA AcceptFaithful ==
    ASSUME IInv, AllFaithful, NEW t \in Txn, Accept(t) PROVE AllFaithful'
<1>1. /\ placed[t] # NoRow /\ UNCHANGED <<table, step, job, todo, dead>>
      /\ dirty' = [dirty EXCEPT ![t] = @ \cup {placed[t]}]
      /\ placed' = [placed EXCEPT ![t] = NoRow]
  BY DEF Accept, Judged
<1>2. /\ Written(t)' = Written(t)
      /\ \A u \in Txn \ {t} : dirty'[u] = dirty[u] /\ placed'[u] = placed[u]
  BY <1>1 DEF Written, InProgress, IInv, TypeOK
<1>3. Placing(t)' <=> Placing(t)
  BY <1>1, <1>2 DEF Placing, RowsToCome
<1>4. Faithful(t)
  BY DEF AllFaithful
<1>5. Faithful(t)'
  BY <1>1, <1>2, <1>3, <1>4 DEF Faithful, Reserving, Moving, Releasing, Exchanging, Deleted
<1> QED BY <1>1, <1>2, <1>5, OneStep

\* What a transaction leaves in the table is of its own paths.
LEMMA CommitFaithful ==
    ASSUME IInv, AllFaithful, NEW t \in Txn, Commit(t) PROVE AllFaithful'
<1>1. table' = (table \ dead[t]) \cup dirty[t] /\ End(t, "committed")
  BY DEF Commit
<1>2. ASSUME NEW u \in Txn \ {t}, NEW p \in Touches(u)
      PROVE  RowsOf(table', p) = RowsOf(table, p)
  <2>1. p \notin Touches(t)
    BY DEF IInv, Owners
  <2>2. \A r \in dirty[t] \cup dead[t] : r.path # p
    BY <2>1 DEF IInv, OwnRows
  <2> QED BY <1>1, <2>2 DEF RowsOf
<1> QED BY <1>1, <1>2, EndFaithful

\* No step of any transaction loses track of its change.
LEMMA NextFaithful ==
    ASSUME IInv, AllFaithful, [Next]_vars PROVE AllFaithful'
<1>1. CASE UNCHANGED vars
  BY <1>1, SameStep DEF vars, txnVars
<1>2. ASSUME NEW t \in Txn, Arrive(t) PROVE AllFaithful'
  BY <1>2, ArriveFaithful
<1>3. ASSUME NEW t \in Txn, DeleteRows(t) PROVE AllFaithful'
  BY <1>3, DeleteFaithful
<1>4. ASSUME NEW t \in Txn, InsertRow(t) PROVE AllFaithful'
  BY <1>4, InsertFaithful
<1>5. ASSUME NEW t \in Txn, UpdateRow(t) PROVE AllFaithful'
  BY <1>5, UpdateFaithful
<1>6. ASSUME NEW t \in Txn, Accept(t) PROVE AllFaithful'
  BY <1>6, AcceptFaithful
<1>7. ASSUME NEW t \in Txn, Wait(t) PROVE AllFaithful'
  BY <1>7, SameStep DEF Wait
<1>8. ASSUME NEW t \in Txn, Commit(t) PROVE AllFaithful'
  BY <1>8, CommitFaithful
<1>9. ASSUME NEW t \in Txn, NEW how, End(t, how), UNCHANGED table PROVE AllFaithful'
  BY <1>9, EndFaithful
<1>10. ASSUME NEW t \in Txn, Refuse(t) \/ RefuseOutside(t) \/ KillVictim(t) \/ RollBack(t)
       PROVE  AllFaithful'
  BY <1>9, <1>10 DEF Refuse, RefuseOutside, KillVictim, RollBack
<1> QED BY <1>1, <1>2, <1>3, <1>4, <1>5, <1>6, <1>7, <1>8, <1>10 DEF Next, Proceed

(***************************************************************************)
(* The ledger speaks of the same rows.                                     *)
(***************************************************************************)
LEMMA SameRows ==
    /\ \A rows, p : Ledger!RowsOf(rows, p) = RowsOf(rows, p)
    /\ \A p, pl, s, g : Ledger!Rows(p, pl, s, g) = Rows(p, pl, s, g)
    /\ \A r, s : Ledger!Restatused(r, s) = Restatused(r, s)
<1>1. \A s, b : Ledger!ReservesSpectrum(s, b) = ReservesSpectrum(s, b)
  BY DEF Ledger!ReservesSpectrum, ReservesSpectrum, Ledger!AlwaysReserving, AlwaysReserving
<1>2. \A p, c, d, s, g : Ledger!RowFor(p, c, d, s, g) = RowFor(p, c, d, s, g)
  BY <1>1 DEF Ledger!RowFor, RowFor
<1>3. \A r, s : Ledger!Restatused(r, s) = Restatused(r, s)
  BY <1>1 DEF Ledger!Restatused, Restatused
<1>4. \A p, pl, s, g : Ledger!Rows(p, pl, s, g) = Rows(p, pl, s, g)
  BY <1>2 DEF Ledger!Rows, Rows
<1> QED BY <1>3, <1>4 DEF Ledger!RowsOf, RowsOf

\* It has the same notion of rows that collide ...
LEMMA SameDisjoint == \A rows : Ledger!Disjoint(rows) <=> Disjoint(rows)
BY DEF Ledger!Disjoint, Disjoint, Ledger!Clash, Clash, Ledger!Overlaps, Overlaps,
       Ledger!PeriodsOverlap, PeriodsOverlap, Ledger!NoEnd, NoEnd

\* ... and the same statuses.
LEMMA SameStatuses == Ledger!PathStatus = PathStatus
BY DEF Ledger!PathStatus, PathStatus, Ledger!AlwaysReserving, AlwaysReserving,
       Ledger!NeverReserving, NeverReserving

\* A commit is one whole allocation, moved, dropped or exchanged.
LEMMA CommitMoves ==
    ASSUME IInv, AllFaithful, NEW t \in Txn, Commit(t) PROVE Ledger!Move
<1> DEFINE p == job[t].path
           q == job[t].target
           s == job[t].status
           new == dirty[t]
<1>1. /\ step[t] = "write" /\ placed[t] = NoRow /\ todo[t] = <<>> /\ StaleRows(t) = {}
      /\ table' = (table \ dead[t]) \cup new
  BY DEF Commit
<1>2. job[t] \in Job /\ p \in Path /\ q \in Path /\ s \in PathStatus
  BY <1>1 DEF IInv, Employed, Job
<1>3. Written(t) = new /\ RowsToCome(t) = {}
  BY <1>1 DEF Written, InProgress, RowsToCome
<1>4. Faithful(t)
  BY DEF AllFaithful
<1>5. Placing(t) => \E pl \in Placement : new = Rows(q, pl, s, job[t].again)
  BY <1>3 DEF Placing
<1> HIDE DEF p, q, s, new
<1>6. CASE job[t].op = "reserve"
  <2>1. Reserving(t)
    BY <1>1, <1>4, <1>6 DEF Faithful
  <2>2. PICK pl \in Placement : new = Rows(p, pl, s, RowsOf(table, p) # {})
    BY <1>5, <2>1 DEF Reserving, p, q
  <2>3. Ledger!Reserve(p, pl, s)
    BY <1>1, <2>1, <2>2, SameRows DEF Ledger!Reserve, Reserving, p
  <2> QED BY <1>2, <2>3, SameStatuses DEF Ledger!Move
<1>7. CASE job[t].op = "set_status"
  <2>1. Moving(t) /\ dead[t] = RowsOf(table, p)
    BY <1>1, <1>4, <1>7 DEF Faithful, Moving, StaleRows, p
  <2>2. new = {Restatused(r, s) : r \in RowsOf(table, p)}
    BY <1>3, <2>1 DEF Moving, s
  <2>3. Ledger!SetStatus(p, s)
    BY <1>1, <2>1, <2>2, SameRows DEF Ledger!SetStatus
  <2> QED BY <1>2, <2>3, SameStatuses DEF Ledger!Move
<1>8. CASE job[t].op = "release"
  <2>1. new = {} /\ dead[t] = RowsOf(table, p)
    BY <1>1, <1>3, <1>4, <1>8 DEF Faithful, Releasing, Deleted, p
  <2>2. Ledger!Release(p)
    BY <1>1, <2>1, SameRows DEF Ledger!Release
  <2> QED BY <1>2, <2>2 DEF Ledger!Move
<1>9. CASE job[t].op = "exchange"
  <2>1. Exchanging(t) /\ dead[t] = RowsOf(table, p)
    BY <1>1, <1>4, <1>9 DEF Faithful, Exchanging, Deleted, p
  <2>2. PICK pl \in Placement : new = Rows(q, pl, s, FALSE)
    BY <1>2, <1>5, <2>1 DEF Exchanging, Job
  <2>3. Ledger!Exchange(p, q, pl, s)
    BY <1>1, <2>1, <2>2, SameRows DEF Ledger!Exchange, Exchanging, p, q
  <2> QED BY <1>2, <2>3, SameStatuses DEF Ledger!Move
<1> QED BY <1>2, <1>6, <1>7, <1>8, <1>9 DEF Job, Op

\* Whatever else a transaction does, the committed rows stay.
LEMMA StepMoves ==
    ASSUME IInv, IInv', AllFaithful, [Next]_vars
    PROVE  [Ledger!Next]_table
<1>1. ASSUME NEW t \in Txn, Commit(t), table' # table PROVE Ledger!Next
  <2>1. Disjoint(table')
    BY DEF IInv, NoOverlap
  <2>2. Ledger!Disjoint(table')
    BY <2>1, SameDisjoint
  <2> QED BY <1>1, <2>2, CommitMoves DEF Ledger!Next
<1>2. ASSUME NEW t \in Txn, Proceed(t), ~Commit(t) PROVE table' = table
  BY <1>2 DEF Proceed, DeleteRows, InsertRow, UpdateRow, Accept, Wait, Refuse, RefuseOutside
<1>3. ASSUME NEW t \in Txn, Arrive(t) PROVE table' = table
  BY <1>3 DEF Arrive, BeginReserve, BeginSetStatus, BeginRelease, BeginExchange, Begin
<1>4. ASSUME NEW t \in Txn, KillVictim(t) \/ RollBack(t) PROVE table' = table
  BY <1>4 DEF KillVictim, RollBack
<1>5. UNCHANGED vars => table' = table
  BY DEF vars
<1> QED BY <1>1, <1>2, <1>3, <1>4, <1>5 DEF Next

\* The transactions together implement the ledger: the committed rows change by
\* whole allocations, all rows or none, and a failure changes nothing, wherever
\* the statements of any number of transactions interleave.
THEOREM TransactionsImplementLedger == Spec => ImplementsLedger
<1>1. Init => IInv /\ AllFaithful /\ Ledger!Init
  BY InitInv DEF Init, AllFaithful, Faithful, Ledger!Init
<1>2. IInv /\ AllFaithful /\ [Next]_vars => (IInv /\ AllFaithful)'
  BY NextInv, NextFaithful
<1>3. IInv /\ IInv' /\ AllFaithful /\ [Next]_vars => [Ledger!Next]_table
  BY StepMoves
<1> QED BY <1>1, <1>2, <1>3, PTL DEF Spec, ImplementsLedger, Ledger!Spec
-----------------------------------------------------------------------------
(***************************************************************************)
(* No refusal without a rival.                                             *)
(***************************************************************************)
\* The rows of one placing of an allocation are on different resources, as its
\* claims are ...
OneEach ==
    \A a, b \in table :
        a.path = b.path /\ a.again = b.again /\ a.resource = b.resource => a = b

\* ... those that a transaction has written, and those it still has to write.
ApartBefore(t) ==
    /\ \A r, s \in dirty[t] : r.resource = s.resource /\ r.again = s.again => r = s
    /\ \A r \in dirty[t], s \in InProgress(t) : r.resource # s.resource \/ r.again # s.again

ApartToCome(t) ==
    /\ \A i, j \in DOMAIN todo[t] : i # j => todo[t][i].resource # todo[t][j].resource
    /\ \A r \in Written(t), i \in DOMAIN todo[t] : r.resource # todo[t][i].resource

OwnApart == \A t \in Txn : ApartBefore(t) /\ ApartToCome(t)

\* Whoever waits has a row in progress, and waits for somebody whose rows
\* collide with it, still.
WaitingForCause ==
    \A t \in Txn : waitsFor[t] # NoTxn => placed[t] # NoRow /\ waitsFor[t] \in Blockers(t, placed[t])

RivalInv == IInv /\ AllFaithful /\ OneEach /\ OwnApart /\ WaitingForCause

(***************************************************************************)
(* Apart: one transaction moves, and the others keep what they have.       *)
(***************************************************************************)
LEMMA OneApart ==
    ASSUME OwnApart, NEW t \in Txn, ApartBefore(t)', ApartToCome(t)',
           \A u \in Txn \ {t} :
               todo'[u] = todo[u] /\ dirty'[u] = dirty[u] /\ placed'[u] = placed[u]
    PROVE  OwnApart'
<1> SUFFICES ASSUME NEW u \in Txn, u # t PROVE ApartBefore(u)' /\ ApartToCome(u)'
  BY DEF OwnApart
<1>1. ApartBefore(u) /\ ApartToCome(u)
  BY DEF OwnApart
<1>2. InProgress(u)' = InProgress(u) /\ Written(u)' = Written(u)
  BY DEF InProgress, Written
<1> QED BY <1>1, <1>2 DEF ApartBefore, ApartToCome

LEMMA SameApart == ASSUME OwnApart, UNCHANGED <<todo, dirty, placed>> PROVE OwnApart'
BY DEF OwnApart, ApartBefore, ApartToCome, InProgress, Written

LEMMA EndApart == ASSUME IInv, OwnApart, NEW t \in Txn, NEW how, End(t, how) PROVE OwnApart'
<1>1. /\ todo'[t] = <<>> /\ dirty'[t] = {} /\ placed'[t] = NoRow
      /\ \A u \in Txn \ {t} :
             todo'[u] = todo[u] /\ dirty'[u] = dirty[u] /\ placed'[u] = placed[u]
  BY DEF End, IInv, TypeOK
<1>2. ApartBefore(t)' /\ ApartToCome(t)'
  BY <1>1 DEF ApartBefore, ApartToCome, InProgress, Written
<1> QED BY <1>1, <1>2, OneApart

LEMMA BeginApart ==
    ASSUME IInv, OwnApart, NEW t \in Txn, NEW newJob, NEW newStep, NEW claims,
           Begin(t, newJob, newStep, claims),
           \A i, j \in DOMAIN claims : i # j => claims[i].resource # claims[j].resource
    PROVE  OwnApart'
<1>1. /\ todo'[t] = claims /\ UNCHANGED <<dirty, placed>>
      /\ dirty[t] = {} /\ placed[t] = NoRow
      /\ \A u \in Txn \ {t} : todo'[u] = todo[u]
  BY DEF Begin, IInv, TypeOK, Employed
<1>2. ApartBefore(t)' /\ ApartToCome(t)'
  BY <1>1 DEF ApartBefore, ApartToCome, InProgress, Written
<1> QED BY <1>1, <1>2, OneApart

\* What arrives claims each resource once.
LEMMA ArriveApart == ASSUME IInv, OwnApart, NEW t \in Txn, Arrive(t) PROVE OwnApart'
<1>1. \A i, j \in DOMAIN <<>> : i # j => <<>>[i].resource # <<>>[j].resource
  OBVIOUS
<1>2. \A path \in Path, pl \in Placement, status \in Entering :
          BeginReserve(t, path, pl, status) => OwnApart'
  BY OneClaimAssumption, BeginApart DEF BeginReserve
<1>3. \A path \in Path, status \in Asked : BeginSetStatus(t, path, status) => OwnApart'
  BY <1>1, BeginApart DEF BeginSetStatus
<1>4. \A path \in Path : BeginRelease(t, path) => OwnApart'
  BY <1>1, BeginApart DEF BeginRelease
<1>5. \A path, successor \in Path, pl \in Placement, status \in Entering :
          BeginExchange(t, path, successor, pl, status) => OwnApart'
  BY OneClaimAssumption, BeginApart DEF BeginExchange
<1> QED BY <1>2, <1>3, <1>4, <1>5 DEF Arrive

\* A row on a resource that no other written row is on joins them.
LEMMA WriteApart ==
    ASSUME IInv, OwnApart, NEW t \in Txn, NEW row \in Row, placed[t] = NoRow,
           \/ WriteTuple(t, row)
           \/ dirty' = [dirty EXCEPT ![t] = @ \cup {row}] /\ UNCHANGED placed,
           \A r \in dirty[t] : r.resource # row.resource \/ r.again # row.again
    PROVE  /\ ApartBefore(t)' /\ Written(t)' = Written(t) \cup {row}
           /\ \A u \in Txn \ {t} : dirty'[u] = dirty[u] /\ placed'[u] = placed[u]
<1>1. dirty \in [Txn -> SUBSET Row] /\ placed \in [Txn -> Row \cup {NoRow}] /\ row # NoRow
  BY RowAssumption DEF IInv, TypeOK
<1>2. ApartBefore(t) /\ InProgress(t) = {} /\ Written(t) = dirty[t]
  BY DEF OwnApart, InProgress, Written
<1>3. CASE placed' = [placed EXCEPT ![t] = row] /\ dirty' = dirty
  <2>1. InProgress(t)' = {row} /\ dirty'[t] = dirty[t]
    BY <1>1, <1>3 DEF InProgress
  <2> QED BY <1>1, <1>2, <1>3, <2>1 DEF ApartBefore, Written
<1>4. CASE dirty' = [dirty EXCEPT ![t] = @ \cup {row}] /\ placed' = placed
  <2>1. InProgress(t)' = {} /\ dirty'[t] = dirty[t] \cup {row}
    BY <1>1, <1>4 DEF InProgress
  <2> QED BY <1>1, <1>2, <1>4, <2>1 DEF ApartBefore, Written
<1> QED BY <1>3, <1>4 DEF WriteTuple

LEMMA InsertApart == ASSUME IInv, OwnApart, NEW t \in Txn, InsertRow(t) PROVE OwnApart'
<1>1. /\ placed[t] = NoRow /\ todo[t] # <<>> /\ todo[t] \in Seq(Claim) /\ job[t] \in Job
      /\ WriteTuple(t, NextRow(t)) /\ todo'[t] = Tail(todo[t])
      /\ \A u \in Txn \ {t} : todo'[u] = todo[u]
  BY DEF InsertRow, IInv, TypeOK, Employed
<1>2. /\ Head(todo[t]) \in Claim /\ 1 \in DOMAIN todo[t] /\ Head(todo[t]) = todo[t][1]
      /\ \A i \in DOMAIN todo'[t] :
             i # 0 /\ i \in Int /\ i + 1 \in DOMAIN todo[t] /\ todo'[t][i] = todo[t][i + 1]
  BY <1>1
<1>3. NextRow(t) \in Row /\ NextRow(t).resource = todo[t][1].resource
  BY <1>1, <1>2, RowForType DEF NextRow, Job, RowFor
<1>4. ApartBefore(t) /\ ApartToCome(t)
  BY DEF OwnApart
<1>5. \A r \in Written(t) : r.resource # NextRow(t).resource
  BY <1>2, <1>3, <1>4 DEF ApartToCome
<1>6. /\ ApartBefore(t)' /\ Written(t)' = Written(t) \cup {NextRow(t)}
      /\ \A u \in Txn \ {t} : dirty'[u] = dirty[u] /\ placed'[u] = placed[u]
  BY <1>1, <1>3, <1>5, WriteApart DEF Written
<1>7. ApartToCome(t)'
  <2>1. ASSUME NEW i \in DOMAIN todo'[t], NEW j \in DOMAIN todo'[t], i # j
        PROVE  todo'[t][i].resource # todo'[t][j].resource
    BY <1>2, <1>4, <2>1 DEF ApartToCome
  <2>2. ASSUME NEW r \in Written(t) \cup {NextRow(t)}, NEW i \in DOMAIN todo'[t]
        PROVE  r.resource # todo'[t][i].resource
    <3>1. i + 1 # 1 /\ i + 1 \in DOMAIN todo[t] /\ todo'[t][i] = todo[t][i + 1]
      BY <1>2
    <3> QED BY <1>2, <1>3, <1>4, <2>2, <3>1 DEF ApartToCome
  <2> QED BY <1>6, <2>1, <2>2 DEF ApartToCome
<1> QED BY <1>1, <1>6, <1>7, OneApart

LEMMA UpdateApart ==
    ASSUME IInv, AllFaithful, OneEach, OwnApart, NEW t \in Txn, UpdateRow(t) PROVE OwnApart'
<1>1. PICK r \in StaleRows(t) :
          \/ WriteTuple(t, Restatused(r, job[t].status))
          \/ KeepTuple(t, r, Restatused(r, job[t].status))
  BY DEF UpdateRow
<1> DEFINE row == Restatused(r, job[t].status)
<1>2. /\ step[t] = "write" /\ placed[t] = NoRow /\ job[t] \in Job /\ UNCHANGED todo
      /\ job[t].op = "set_status" /\ r \in RowsOf(table, job[t].path) \ dead[t]
  BY DEF UpdateRow, IInv, Employed, StaleRows
<1>3. r \in Row /\ row \in Row /\ row.resource = r.resource /\ row.again = r.again
  BY <1>2, RestatusedType DEF IInv, TypeOK, RowsOf, Job, Restatused, Row
<1>4. Moving(t)
  BY <1>2 DEF AllFaithful, Faithful
<1>5. ASSUME NEW w \in dirty[t] PROVE w.resource # row.resource \/ w.again # row.again
  <2>1. PICK d \in dead[t] : w = Restatused(d, job[t].status)
    BY <1>4 DEF Moving, Written
  <2>2. d \in RowsOf(table, job[t].path) /\ d \in Row /\ d # r
    BY <1>2, <1>4 DEF Moving, IInv, TypeOK
  <2>3. w.resource = d.resource /\ w.again = d.again
    BY <2>1, <2>2 DEF Restatused, Row
  <2>4. d.resource # r.resource \/ d.again # r.again
    BY <1>2, <2>2 DEF OneEach, RowsOf
  <2> QED BY <1>3, <2>3, <2>4
<1> HIDE DEF row
<1>6. /\ ApartBefore(t)'
      /\ \A u \in Txn \ {t} : dirty'[u] = dirty[u] /\ placed'[u] = placed[u]
  BY <1>1, <1>2, <1>3, <1>5, WriteApart DEF KeepTuple, row
<1>7. ApartToCome(t)'
  BY <1>2, <1>4 DEF ApartToCome, Moving
<1> QED BY <1>2, <1>6, <1>7, OneApart

LEMMA AcceptApart == ASSUME IInv, OwnApart, NEW t \in Txn, Accept(t) PROVE OwnApart'
<1>1. /\ placed[t] # NoRow /\ todo' = todo
      /\ dirty'[t] = dirty[t] \cup {placed[t]} /\ placed'[t] = NoRow
      /\ \A u \in Txn \ {t} : dirty'[u] = dirty[u] /\ placed'[u] = placed[u]
  BY DEF Accept, Judged, IInv, TypeOK
<1>2. ApartBefore(t) /\ ApartToCome(t)
  BY DEF OwnApart
<1>3. InProgress(t) = {placed[t]} /\ InProgress(t)' = {} /\ Written(t)' = Written(t)
  BY <1>1 DEF InProgress, Written
<1>4. ApartBefore(t)' /\ ApartToCome(t)'
  BY <1>1, <1>2, <1>3 DEF ApartBefore, ApartToCome
<1> QED BY <1>1, <1>4, OneApart

(***************************************************************************)
(* A commit leaves one row for a resource.                                 *)
(***************************************************************************)
\* What a transaction has written is of its target, whose other rows it takes
\* away, or they are of another placing.
LEMMA TargetIsCleared ==
    ASSUME IInv, AllFaithful, NEW t \in Txn, Commit(t), NEW r \in dirty[t],
           NEW c \in table \ dead[t], c.path = r.path
    PROVE  c.again # r.again
<1>1. step[t] = "write" /\ StaleRows(t) = {} /\ r \in Written(t) /\ job[t] \in Job
  BY DEF Commit, Written, IInv, Employed
<1>2. Faithful(t)
  BY DEF AllFaithful
<1>3. Placing(t) => r.path = job[t].target /\ r.again = job[t].again
  BY <1>1, PlacedRow
<1>4. CASE job[t].op = "reserve"
  BY <1>1, <1>2, <1>3, <1>4 DEF Faithful, Reserving, RowsOf
<1>5. CASE job[t].op = "set_status"
  <2>1. /\ dead[t] = RowsOf(table, job[t].path)
        /\ Written(t) = {Restatused(d, job[t].status) : d \in dead[t]}
    BY <1>1, <1>2, <1>5 DEF Faithful, Moving, StaleRows
  <2>2. PICK d \in dead[t] : r = Restatused(d, job[t].status)
    BY <1>1, <2>1
  <2>3. d \in Row /\ d.path = job[t].path
    BY <2>1, <2>2 DEF RowsOf, IInv, TypeOK
  <2>4. r.path = job[t].path
    BY <2>2, <2>3 DEF Restatused, Row
  <2> QED BY <2>1, <2>4 DEF RowsOf
<1>6. CASE job[t].op = "release"
  BY <1>1, <1>2, <1>6 DEF Faithful, Releasing
<1>7. CASE job[t].op = "exchange"
  BY <1>1, <1>2, <1>3, <1>7 DEF Faithful, Exchanging, Deleted, RowsOf
<1> QED BY <1>1, <1>4, <1>5, <1>6, <1>7 DEF Job, Op

LEMMA CommitOneEach ==
    ASSUME IInv, AllFaithful, OneEach, OwnApart, NEW t \in Txn, Commit(t) PROVE OneEach'
<1>1. table' = (table \ dead[t]) \cup dirty[t]
  BY DEF Commit
<1>2. ASSUME NEW a \in table \ dead[t], NEW b \in dirty[t] PROVE a.path # b.path \/ a.again # b.again
  BY <1>2, TargetIsCleared
<1>3. \A a, b \in dirty[t] : a.resource = b.resource /\ a.again = b.again => a = b
  BY DEF OwnApart, ApartBefore
<1> QED BY <1>1, <1>2, <1>3 DEF OneEach

(***************************************************************************)
(* Waiting: what a transaction was stopped by stays until it ends.         *)
(***************************************************************************)
LEMMA StillWaiting ==
    ASSUME WaitingForCause, UNCHANGED waitsFor,
           \A u \in Txn : waitsFor[u] # NoTxn => placed'[u] = placed[u],
           \A u \in Txn : Written(u) \cup dead[u] \subseteq (Written(u) \cup dead[u])'
    PROVE  WaitingForCause'
<1> SUFFICES ASSUME NEW t \in Txn, waitsFor[t] # NoTxn
             PROVE  placed'[t] # NoRow /\ waitsFor[t] \in Blockers(t, placed[t])'
  BY DEF WaitingForCause
<1>1. placed[t] # NoRow /\ placed'[t] = placed[t] /\ waitsFor[t] \in Blockers(t, placed[t])
  BY DEF WaitingForCause
<1>2. PICK r \in Written(waitsFor[t]) \cup dead[waitsFor[t]] : Clash(r, placed[t])
  BY <1>1 DEF Blockers, Written
<1>3. r \in (Written(waitsFor[t]) \cup dead[waitsFor[t]])'
  BY <1>1, <1>2 DEF Blockers
<1> QED BY <1>1, <1>2, <1>3 DEF Blockers, Written

LEMMA EndWaiting ==
    ASSUME IInv, WaitingForCause, NEW t \in Txn, NEW how, End(t, how) PROVE WaitingForCause'
<1> SUFFICES ASSUME NEW u \in Txn, waitsFor'[u] # NoTxn
             PROVE  placed'[u] # NoRow /\ waitsFor'[u] \in Blockers(u, placed[u])'
  BY DEF WaitingForCause
<1>1. u # t /\ waitsFor[u] # t /\ waitsFor'[u] = waitsFor[u]
  BY DEF End
<1>2. placed[u] # NoRow /\ waitsFor[u] \in Blockers(u, placed[u])
  BY <1>1 DEF WaitingForCause
<1>3. \A v \in Txn \ {t} : dirty'[v] = dirty[v] /\ placed'[v] = placed[v] /\ dead'[v] = dead[v]
  BY DEF End, IInv, TypeOK
<1> QED BY <1>1, <1>2, <1>3 DEF Blockers, InProgress

LEMMA ProceedWaiting ==
    ASSUME IInv, WaitingForCause, NEW t \in Txn, Proceed(t) PROVE WaitingForCause'
<1>1. /\ dirty \in [Txn -> SUBSET Row] /\ placed \in [Txn -> Row \cup {NoRow}]
      /\ dead \in [Txn -> SUBSET Row] /\ waitsFor \in [Txn -> Txn \cup {NoTxn}]
  BY DEF IInv, TypeOK
<1>2. placed[t] = NoRow => waitsFor[t] = NoTxn
  BY DEF WaitingForCause
<1>3. CASE DeleteRows(t)
  <2>1. dead[t] = {}
    BY <1>3 DEF DeleteRows, IInv, Employed
  <2>2. /\ UNCHANGED <<waitsFor, dirty, placed>>
        /\ \A u \in Txn : dead[u] \subseteq dead'[u]
    BY <1>1, <1>3, <2>1 DEF DeleteRows
  <2> QED BY <2>2, StillWaiting DEF Written, InProgress
<1>4. ASSUME NEW row, placed[t] = NoRow, UNCHANGED waitsFor, \A u \in Txn : dead[u] \subseteq dead'[u],
             \/ WriteTuple(t, row)
             \/ dirty' = [dirty EXCEPT ![t] = @ \cup {row}] /\ UNCHANGED placed
      PROVE  WaitingForCause'
  <2>1. \A u \in Txn : waitsFor[u] # NoTxn => placed'[u] = placed[u]
    BY <1>1, <1>2, <1>4 DEF WriteTuple
  <2>2. \A u \in Txn : Written(u) \subseteq Written(u)'
    BY <1>1, <1>4 DEF WriteTuple, Written, InProgress
  <2> QED BY <1>4, <2>1, <2>2, StillWaiting
<1>5. CASE InsertRow(t)
  BY <1>4, <1>5 DEF InsertRow
<1>6. CASE UpdateRow(t)
  <2>1. PICK r \in StaleRows(t) :
            /\ dead' = [dead EXCEPT ![t] = @ \cup {r}]
            /\ \/ WriteTuple(t, Restatused(r, job[t].status))
               \/ KeepTuple(t, r, Restatused(r, job[t].status))
    BY <1>6 DEF UpdateRow
  <2>2. \A u \in Txn : dead[u] \subseteq dead'[u]
    BY <1>1, <2>1
  <2>3. placed[t] = NoRow /\ UNCHANGED waitsFor
    BY <1>6 DEF UpdateRow
  <2> QED BY <1>4, <2>1, <2>2, <2>3 DEF KeepTuple
<1>7. CASE Accept(t)
  <2>1. /\ waitsFor[t] = NoTxn /\ UNCHANGED <<waitsFor, dead>>
        /\ dirty' = [dirty EXCEPT ![t] = @ \cup {placed[t]}]
        /\ placed' = [placed EXCEPT ![t] = NoRow]
    BY <1>7 DEF Accept, Judged
  <2>2. \A u \in Txn : Written(u) \subseteq Written(u)'
    BY <1>1, <2>1 DEF Written, InProgress
  <2> QED BY <1>1, <2>1, <2>2, StillWaiting
<1>8. CASE Wait(t)
  <2>1. PICK u \in Blockers(t, placed[t]) : waitsFor' = [waitsFor EXCEPT ![t] = u]
    BY <1>8 DEF Wait
  <2>2. placed[t] # NoRow /\ UNCHANGED <<dirty, placed, dead>>
    BY <1>8 DEF Wait, Judged
  <2>3. \A v \in Txn : waitsFor'[v] = IF v = t THEN u ELSE waitsFor[v]
    BY <1>1, <2>1
  <2>4. \A v \in Txn : Blockers(v, placed[v])' = Blockers(v, placed[v])
    BY <2>2 DEF Blockers, InProgress
  <2> QED BY <2>1, <2>2, <2>3, <2>4 DEF WaitingForCause
<1>9. CASE Commit(t) \/ Refuse(t) \/ RefuseOutside(t)
  BY <1>9, EndWaiting DEF Commit, Refuse, RefuseOutside
<1> QED BY <1>3, <1>5, <1>6, <1>7, <1>8, <1>9 DEF Proceed

LEMMA ArriveWaiting ==
    ASSUME IInv, WaitingForCause, NEW t \in Txn, Arrive(t) PROVE WaitingForCause'
<1>1. UNCHANGED <<waitsFor, dirty, placed, dead>>
  BY DEF Arrive, BeginReserve, BeginSetStatus, BeginRelease, BeginExchange, Begin
<1> QED BY <1>1, StillWaiting DEF Written, InProgress

(***************************************************************************)
(* Every step, and what a refusal means.                                   *)
(***************************************************************************)
LEMMA InitRival == Init => RivalInv
<1> SUFFICES ASSUME Init PROVE RivalInv
  OBVIOUS
<1>1. IInv
  BY InitInv
<1>2. AllFaithful /\ OneEach /\ WaitingForCause
  BY DEF Init, AllFaithful, Faithful, OneEach, WaitingForCause
<1>3. OwnApart
  BY DEF Init, OwnApart, ApartBefore, ApartToCome, Written, InProgress
<1> QED BY <1>1, <1>2, <1>3 DEF RivalInv

LEMMA NextRival == ASSUME RivalInv, [Next]_vars PROVE RivalInv'
<1> USE DEF RivalInv
<1>1. IInv' /\ AllFaithful'
  BY NextInv, NextFaithful
<1>2. CASE UNCHANGED vars
  <2>1. OneEach'
    BY <1>2 DEF vars, OneEach
  <2>2. OwnApart'
    BY <1>2, SameApart DEF vars, txnVars
  <2>3. WaitingForCause'
    BY <1>2, StillWaiting DEF vars, txnVars, Written, InProgress
  <2> QED BY <1>1, <2>1, <2>2, <2>3
<1>3. ASSUME NEW t \in Txn, Arrive(t) PROVE OneEach' /\ OwnApart' /\ WaitingForCause'
  <2>1. table' = table
    BY <1>3 DEF Arrive, BeginReserve, BeginSetStatus, BeginRelease, BeginExchange, Begin
  <2> QED BY <1>3, <2>1, ArriveApart, ArriveWaiting DEF OneEach
<1>4. ASSUME NEW t \in Txn, Proceed(t) PROVE OneEach' /\ OwnApart' /\ WaitingForCause'
  <2>1. OneEach'
    <3>1. CASE Commit(t)
      BY <3>1, CommitOneEach
    <3>2. CASE ~Commit(t)
      <4>1. table' = table
        BY <1>4, <3>2
           DEF Proceed, DeleteRows, InsertRow, UpdateRow, Accept, Wait, Refuse, RefuseOutside
      <4> QED BY <4>1 DEF OneEach
    <3> QED BY <3>1, <3>2
  <2>2. OwnApart'
    <3>1. CASE DeleteRows(t) \/ Wait(t)
      BY <3>1, SameApart DEF DeleteRows, Wait
    <3>2. CASE Commit(t) \/ Refuse(t) \/ RefuseOutside(t)
      BY <3>2, EndApart DEF Commit, Refuse, RefuseOutside
    <3> QED BY <1>4, <3>1, <3>2, InsertApart, UpdateApart, AcceptApart DEF Proceed
  <2> QED BY <1>4, <2>1, <2>2, ProceedWaiting
<1>5. ASSUME NEW t \in Txn, KillVictim(t) \/ RollBack(t)
      PROVE  OneEach' /\ OwnApart' /\ WaitingForCause'
  <2>1. PICK how \in Outcome : End(t, how)
    BY <1>5 DEF KillVictim, RollBack, Outcome
  <2>2. table' = table
    BY <1>5 DEF KillVictim, RollBack
  <2> QED BY <2>1, <2>2, EndApart, EndWaiting DEF OneEach
<1> QED BY <1>1, <1>2, <1>3, <1>4, <1>5 DEF Next

\* A row that stands in the way is committed and not of the allocation being
\* written, or another placing of that allocation wrote it.
LEMMA ObstacleIsRival ==
    ASSUME RivalInv, NEW t \in Txn, placed[t] # NoRow, NEW r \in Obstacles(t, placed[t])
    PROVE  \/ r \in table /\ Rival(t, r)
           \/ /\ job[t].op \in {"reserve", "set_status"}
              /\ r \in (table \ dead[t]) \cup dirty[t] /\ Twin(t, r)
<1> USE DEF RivalInv
<1>1. Clash(r, placed[t]) /\ r.resource = placed[t].resource /\ InProgress(t) = {placed[t]}
  BY DEF Obstacles, Clash, InProgress
<1>2. /\ step[t] = "write" /\ job[t] \in Job /\ Faithful(t) /\ placed[t] \in Written(t)
      /\ placed[t].path \in Touches(t)
  BY <1>1 DEF IInv, TypeOK, Step, Employed, AllFaithful, Written, OwnRows
<1>3. Touches(t) = {job[t].path, job[t].target}
  BY <1>2, JobIsNotNoJob DEF Touches, PathsOf
<1>4. Placing(t) => placed[t].again = job[t].again
  BY <1>2, PlacedRow
<1>5. CASE r \in dirty[t]
  <2>1. r.again # placed[t].again
    BY <1>1, <1>5 DEF OwnApart, ApartBefore
  <2>2. r.path \in Touches(t) /\ Twin(t, r)
    BY <1>1, <1>5, <2>1 DEF IInv, OwnRows, Twin
  <2>3. CASE job[t].op = "exchange"
    <3>1. r \in Written(t) /\ Placing(t)
      BY <1>2, <1>5, <2>3 DEF Faithful, Exchanging, Written
    <3>2. r.again = job[t].again
      BY <3>1, PlacedRow
    <3> QED BY <1>4, <2>1, <3>1, <3>2
  <2>4. CASE job[t].op = "release"
    BY <1>2, <2>4 DEF Faithful, Releasing
  <2> QED BY <1>2, <1>5, <2>2, <2>3, <2>4 DEF Job, Op
<1>6. CASE r \notin dirty[t]
  <2>1. r \in table \ DyingRows /\ r \notin dead[t]
    BY <1>6 DEF Obstacles, DyingRows
  <2>2. CASE r.path \notin Touches(t)
    BY <1>1, <2>1, <2>2 DEF Rival
  <2>3. CASE r.path \in Touches(t)
    <3>1. CASE job[t].op = "reserve"
      <4>1. Reserving(t)
        BY <1>2, <3>1 DEF Faithful
      <4>2. r \in RowsOf(table, job[t].path)
        BY <1>3, <2>1, <2>3, <4>1 DEF Reserving, RowsOf
      <4>3. r.again # placed[t].again
        BY <1>2, <1>4, <2>1, <4>1, <4>2 DEF Reserving, IInv, TypeOK, Row, Job
      <4> QED BY <1>1, <2>1, <2>3, <3>1, <4>3 DEF Twin
    <3>2. CASE job[t].op = "set_status"
      <4>1. Moving(t)
        BY <1>2, <3>2 DEF Faithful
      <4>2. PICK d \in dead[t] : placed[t] = Restatused(d, job[t].status)
        BY <1>2, <4>1 DEF Moving
      <4>3. d \in table /\ d \in Row /\ d.path = job[t].path
        BY <4>1, <4>2 DEF Moving, RowsOf, IInv, TypeOK
      <4>4. placed[t].resource = d.resource /\ placed[t].again = d.again
        BY <4>2, <4>3 DEF Restatused, Row
      <4>5. r.path = d.path /\ r # d
        BY <1>3, <2>1, <2>3, <4>1, <4>2, <4>3 DEF Moving
      <4>6. r.again # placed[t].again
        BY <1>1, <2>1, <4>3, <4>4, <4>5 DEF OneEach
      <4> QED BY <1>1, <2>1, <2>3, <3>2, <4>6 DEF Twin
    <3>3. CASE job[t].op = "release"
      BY <1>2, <3>3 DEF Faithful, Releasing
    <3>4. CASE job[t].op = "exchange"
      BY <1>2, <1>3, <2>1, <2>3, <3>4 DEF Faithful, Exchanging, Deleted, RowsOf
    <3> QED BY <1>2, <3>1, <3>2, <3>3, <3>4 DEF Job, Op
  <2> QED BY <2>2, <2>3
<1> QED BY <1>5, <1>6

\* A SpectrumConflictError always means a rival, or a draft that two requests
\* planned, whichever way it comes about.
THEOREM RefusedOnlyByRivals == Spec => NoSpuriousRefusal
<1> DEFINE Because(t) == \/ \E r \in table : Rival(t, r)
                         \/ \E u \in Txn \ {t} : \E r \in dirty[u] \cup InProgress(u) : Rival(t, r)
                         \/ /\ outcome'[t] = "conflict"
                            /\ job[t].op \in {"reserve", "set_status"}
                            /\ \E r \in (table \ dead[t]) \cup dirty[t] : Twin(t, r)
<1>1. ASSUME RivalInv, [Next]_vars, NEW t \in Txn, outcome[t] = "running", outcome'[t] \in Refusal
      PROVE  Because(t)
  <2>1. Refuse(t) \/ KillVictim(t)
    <3>1. ASSUME NEW u \in Txn, Arrive(u) PROVE FALSE
      <4>1. outcome' = [outcome EXCEPT ![u] = "running"]
        BY <3>1 DEF Arrive, BeginReserve, BeginSetStatus, BeginRelease, BeginExchange, Begin
      <4> QED BY <1>1, <4>1 DEF Refusal, RivalInv, IInv, TypeOK
    <3>2. ASSUME NEW u \in Txn, Proceed(u) \/ KillVictim(u) \/ RollBack(u)
          PROVE  Refuse(t) \/ KillVictim(t)
      <4>1. outcome' # outcome /\ outcome \in [Txn -> Outcome]
        BY <1>1 DEF Refusal, RivalInv, IInv, TypeOK
      <4>2. ~(DeleteRows(u) \/ InsertRow(u) \/ UpdateRow(u) \/ Accept(u) \/ Wait(u))
        BY <4>1 DEF DeleteRows, InsertRow, UpdateRow, Accept, Wait
      <4>3. ASSUME NEW how, End(u, how) PROVE u = t /\ how \in Refusal
        BY <1>1, <4>1, <4>3 DEF End, Refusal
      <4>4. ~(Commit(u) \/ RefuseOutside(u) \/ RollBack(u))
        BY <4>3 DEF Commit, RefuseOutside, RollBack, Refusal
      <4>5. Refuse(u) \/ KillVictim(u) => u = t
        BY <4>3 DEF Refuse, KillVictim
      <4> QED BY <3>2, <4>2, <4>4, <4>5 DEF Proceed
    <3>3. ~UNCHANGED vars
      BY <1>1 DEF vars, txnVars, Refusal
    <3> QED BY <1>1, <3>1, <3>2, <3>3 DEF Next
  <2>2. CASE Refuse(t)
    <3>1. placed[t] # NoRow /\ Obstacles(t, placed[t]) # {} /\ outcome'[t] = "conflict"
      BY <1>1, <2>2 DEF Refuse, Judged, End, RivalInv, IInv, TypeOK
    <3>2. PICK r \in Obstacles(t, placed[t]) : TRUE
      BY <3>1
    <3> QED BY <1>1, <3>1, <3>2, ObstacleIsRival
  <2>3. CASE KillVictim(t)
    <3>1. waitsFor[t] \in Txn
      BY <2>3 DEF KillVictim, Deadlocked
    <3>2. placed[t] # NoRow /\ waitsFor[t] \in Blockers(t, placed[t])
      BY <1>1, <3>1, TxnAssumption DEF RivalInv, WaitingForCause
    <3>3. PICK u \in Txn \ {t} : \E r \in dirty[u] \cup InProgress(u) \cup dead[u] : Clash(r, placed[t])
      BY <3>2 DEF Blockers
    <3>4. PICK r \in dirty[u] \cup InProgress(u) \cup dead[u] : Clash(r, placed[t])
      BY <3>3
    <3>5. r.path \in Touches(u) /\ Touches(t) \cap Touches(u) = {} /\ dead[u] \subseteq table
      BY <1>1 DEF RivalInv, IInv, OwnRows, Owners
    <3> QED BY <3>4, <3>5 DEF Rival
  <2> QED BY <2>1, <2>2, <2>3
<1>2. RivalInv /\ [Next]_vars =>
        [\A t \in Txn : outcome[t] = "running" /\ outcome'[t] \in Refusal => Because(t)]_vars
  BY <1>1
<1> QED BY <1>2, InitRival, NextRival, PTL DEF Spec, NoSpuriousRefusal
=============================================================================
