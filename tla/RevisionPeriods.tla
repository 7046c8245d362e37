-------------------------- MODULE RevisionPeriods ---------------------------
(***************************************************************************)
(* The periods of the revisions of one Satnet Path, from the page that     *)
(* asks for a revision to the rows it leaves: SatnetPathReviseView of      *)
(* src/satnet_paths/views.py, revise and _carried_forward of lifecycle.py  *)
(* and create_revision of services.py.                                     *)
(*                                                                         *)
(* A revision is asked for on the screen, whose form is bound to the path  *)
(* that revise then works from, or by a call of the service, which gives   *)
(* the values that change.  Statuses, versions and spectrum are those of   *)
(* PathLifecycle; here every revision but the last is history.             *)
(***************************************************************************)
EXTENDS Periods, Sequences

CONSTANTS
    Moment,       \* moments a period may begin or end at
    Kept,         \* no end is given: the allocation keeps its own
    None,
    MaxRevision   \* bound on revision_number

VARIABLES
    chain,     \* the periods of the revisions, the oldest first
    request    \* the request in progress, with its instance of the path, or None

vars == <<chain, request>>

Caller == {"screen", "service"}

RequestRecord ==
    [caller : Caller, revision : DOMAIN chain, start : Moment,
     end : Moment \cup {NoEnd, Kept}, instance : PeriodsOver(Moment)]

\* The rows of the revision group and what a request carries with it.
TypeOK ==
    /\ chain \in Seq(PeriodsOver(Moment))
    /\ request # None => request \in RequestRecord

Init == chain = <<>> /\ request = None

Create(period) ==
    /\ chain = <<>>
    /\ chain' = <<period>>
    /\ UNCHANGED request

\* The page of any revision may be posted, the current one's or an older one's.
Asked(caller, revision, start, end, instance) ==
    /\ request = None /\ revision \in DOMAIN chain
    /\ request' = [caller |-> caller, revision |-> revision, start |-> start, end |-> end,
                   instance |-> instance]
    /\ UNCHANGED chain

\* The form writes what was posted onto the instance as it validates it.
Post(revision, period) == Asked("screen", revision, period.start, period.end, period)

Call(revision, start, end) == Asked("service", revision, start, end, chain[revision])

\* The end of the successor: given, or carried forward from the instance, whose
\* period has been closed by then.
SuccessorEnd(closed) == IF request.end = Kept THEN closed.end ELSE request.end

Runs(start, end) == end = NoEnd \/ start < end

\* The checks of revise and, by TimePeriod, of preview.
Accepted ==
    /\ request.revision = Len(chain)
    /\ request.instance.start < request.start
    /\ Runs(request.start, SuccessorEnd([request.instance EXCEPT !.end = request.start]))

Revise ==
    /\ request # None /\ Accepted /\ Len(chain) < MaxRevision
    /\ chain' = Append([chain EXCEPT ![request.revision].end = request.start],
                       Period(request.start,
                              SuccessorEnd([request.instance EXCEPT !.end = request.start])))
    /\ request' = None

Refuse ==
    /\ request # None /\ ~Accepted
    /\ request' = None
    /\ UNCHANGED chain

Next ==
    \/ \E period \in PeriodsOver(Moment) : Create(period)
    \/ \E revision \in DOMAIN chain, period \in PeriodsOver(Moment) : Post(revision, period)
    \/ \E revision \in DOMAIN chain, start \in Moment, end \in Moment \cup {NoEnd, Kept} :
          Call(revision, start, end)
    \/ Revise \/ Refuse

Spec == Init /\ [][Next]_vars
-----------------------------------------------------------------------------
\* Of one allocation there is always exactly one period in force: each
\* revision ends where its successor begins, and no period is empty or
\* runs backwards.
ChainIsContiguous ==
    /\ \A i \in DOMAIN chain : Runs(chain[i].start, chain[i].end)
    /\ \A i \in 1 .. Len(chain) - 1 : chain[i].end = chain[i + 1].start

\* "A revision takes effect after the allocation it replaces began": one of
\* the current revision that does, and ends after that, is not refused for
\* its period, be it asked for on the screen or by a call that names no end.
LaterIsAccepted ==
    [][request # None /\ request' = None /\ request.revision = Len(chain) =>
          LET own == chain[request.revision]
              end == IF request.end = Kept THEN own.end ELSE request.end
          IN  own.start < request.start /\ Runs(request.start, end) => chain' # chain]_vars
=============================================================================
