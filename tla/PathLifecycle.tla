---------------------------- MODULE PathLifecycle ----------------------------
(***************************************************************************)
(* The lifecycle of Satnet Paths as requests drive it:                     *)
(* src/satnet_paths/lifecycle.py (transition, edit, revise), the writes of *)
(* src/satnet_paths/services.py (create, rewrite, create_revision) and     *)
(* src/approvals/services.py (decide).                                     *)
(*                                                                         *)
(* A request loads the path's row into memory when it starts and judges    *)
(* everything on that copy; its transaction then writes.  Requests of      *)
(* other people may commit in between, and nothing in the write looks at   *)
(* record_version again.  A transaction updates the path's row first and   *)
(* so holds that row's lock while it moves the reservations: from there on *)
(* it is one step here (ReservationTxn has its statements).  rewrite is    *)
(* the exception, it deletes the reservations before it reaches the path's *)
(* row, and is two steps.  A DELETE that waited for another one finds the  *)
(* rows it saw gone and does not see those written since: a rewrite that   *)
(* commits takes its rows, old and new, out of what the others deleted.    *)
(*                                                                         *)
(* A placement is reduced to its content: equal contents collide on some   *)
(* resource, different ones do not.  Rows of one path that agree in all    *)
(* are one element here; only rows that hold nothing can agree.            *)
(***************************************************************************)
EXTENDS Statuses, Naturals, FiniteSets

CONSTANTS
    Path,            \* identifiers, used or not yet
    User,
    Request,         \* requests being served at once
    Content,         \* what an operator may ask a path to be
    None,            \* no path, no request, no predecessor
    RequireSeparateApprover,   \* the setting of that name
    Posted,          \* the statuses that requests to create carry
    MaxRequests,     \* bound on the requests that arrive
    MaxRevision      \* bound on revision_number

ASSUME SettingsAssumption ==
    /\ RequireSeparateApprover \in BOOLEAN /\ Posted \subseteq PathStatus
    /\ MaxRequests \in Nat /\ MaxRevision \in Nat \ {0}

VARIABLES
    path,        \* the table satnet_path
    held,        \* the reservations of each path, a leg's rows counted as one
    decisions,   \* the table approval_decision
    request,     \* each request in progress, with its copy of the row
    arrived,     \* how many requests have arrived
    met,         \* history: the paths that two requests were on at once,
    overwritten, \* those of them whose content one edited under the other,
    unasked      \* and the paths that were created on air, or suspended

vars == <<path, held, decisions, request, arrived, met, overwritten, unasked>>

Version  == 1 .. MaxRequests + 1
Revision == 1 .. MaxRevision

PathRow ==
    [status : PathStatus, version : Version, content : Content, author : User,
     group : Path, revision : Revision, supersedes : Path \cup {None}]

Holding == [content : Content, status : PathStatus, holds : BOOLEAN]

(***************************************************************************)
(* TRANSITIONS: what may follow what, and what becomes of the spectrum.    *)
(***************************************************************************)
Transition(from, action, to, spectrum) ==
    [from |-> from, action |-> action, to |-> to, spectrum |-> spectrum]

Transitions ==
    { Transition("DRAFT", "plan", "PLANNED", "reserve"),
      Transition("DRAFT", "cancel", "CANCELLED", "release"),
      Transition("PLANNED", "submit", "PENDING_APPROVAL", "restatus"),
      Transition("PLANNED", "cancel", "CANCELLED", "release"),
      Transition("PENDING_APPROVAL", "approve", "ON_AIR", "restatus"),
      Transition("PENDING_APPROVAL", "reject", "PLANNED", "restatus"),
      Transition("ON_AIR", "suspend", "SUSPENDED", "restatus"),
      Transition("ON_AIR", "retire", "RETIRED", "release"),
      Transition("SUSPENDED", "resume", "ON_AIR", "restatus"),
      Transition("SUSPENDED", "retire", "RETIRED", "release") }

Terminal == {"CANCELLED", "RETIRED"}
OnAir    == {"ON_AIR", "SUSPENDED"}

\* Mutant of Editable: what is on air may be edited in place.
EditableOnAir == {"DRAFT", "PLANNED", "ON_AIR"}

Editable == {"DRAFT", "PLANNED"}
Approval == {"approve", "reject"}

\* is_operational: every status but DRAFT writes reservations when it is saved.
IsOperational(status) == status # "DRAFT"

Actions == {tr.action : tr \in Transitions} \cup {"edit", "revise"}

\* A decision also keeps what the approver had in front of them.
Decision == [path : Path, action : Approval, by : User, content : Content]

RequestRecord ==
    [action : Actions, by : User, path : Path, seen : PathRow, content : Content,
     stage : {"loaded", "checked", "released"}, gone : SUBSET Holding]

ASSUME NoneAssumption == None \notin Path \cup PathRow \cup RequestRecord

\* The rows of satnet_path and approval_decision, the reservations, and what a
\* request holds in memory; versions are bounded by the requests that arrived.
TypeOK ==
    /\ path \in [Path -> PathRow \cup {None}]
    /\ held \in [Path -> SUBSET Holding]
    /\ decisions \subseteq Decision
    /\ request \in [Request -> RequestRecord \cup {None}]
    /\ arrived \in 0 .. MaxRequests
    /\ met \subseteq Path /\ overwritten \subseteq Path /\ unasked \subseteq Path

Init ==
    /\ path = [p \in Path |-> None]
    /\ held = [p \in Path |-> {}]
    /\ decisions = {}
    /\ request = [r \in Request |-> None]
    /\ arrived = 0 /\ met = {} /\ overwritten = {} /\ unasked = {}
-----------------------------------------------------------------------------
Saved == {p \in Path : path[p] # None}

InProgress == {r \in Request : request[r] # None}

\* Reservations a rewrite has deleted and not yet committed, with their locks.
Locked(p) ==
    UNION {request[r].gone \cap held[p] :
              r \in {r \in InProgress : request[r].path = p /\ request[r].stage = "released"}}

Holds(h) == h.holds

\* reserve, from the wizard, an edit, a revision or plan: the setting for a suspended
\* allocation is not passed, or does not matter.
Placed(content, status) ==
    [content |-> content, status |-> status, holds |-> ReservesSpectrum(status, TRUE)]

\* The row that reserve inserts collides with none that the path keeps.
FitsAmong(kept, new) ==
    \A h \in kept : Holds(h) /\ Holds(new) => h.content # new.content

\* Mutant of Fits: only the path's own rows are looked at.
FitsItself(p, holdings) ==
    \A g, h \in holdings : Holds(g) /\ Holds(h) /\ g # h => g.content # h.content

\* The exclusion constraint: what p would hold collides with nobody's holding.
Fits(p, holdings) ==
    /\ \A h \in holdings : Holds(h) =>
          \A q \in Path \ {p} : \A g \in held[q] : Holds(g) => g.content # h.content
    /\ \A g, h \in holdings : Holds(g) /\ Holds(h) /\ g # h => g.content # h.content

\* A row of another path that would collide is locked: wait for the rewrite to end.
MustWait(p, holdings) ==
    \E h \in holdings, q \in Path \ {p} : \E g \in Locked(q) :
        Holds(g) /\ Holds(h) /\ g.content = h.content

\* set_status: every row of the path, in its own UPDATE.
Restatus(holdings, status) ==
    {[h EXCEPT !.status = status, !.holds = ReservesSpectrum(status, SuspendedRetains)] :
        h \in holdings}

\* What a transition does to rows of the path that hold the same content, one of
\* them released before: reserve or set_status is refused by the other.
FitsItsOwn(p, tr, seen) ==
    /\ tr.spectrum = "reserve" => FitsAmong(held[p], Placed(seen.content, tr.to))
    /\ tr.spectrum = "restatus" /\ ReservesSpectrum(tr.to, SuspendedRetains) =>
          \A g, h \in held[p] : g # h => g.content # h.content

\* Mutant of Moved: a submitted, approved or suspended path keeps its old rows.
MovedWithoutRows(p, tr, seen) ==
    CASE tr.spectrum = "reserve"  -> held[p] \cup {Placed(seen.content, tr.to)}
      [] tr.spectrum = "restatus" -> held[p]
      [] tr.spectrum = "release"  -> {}

\* Mutant of Moved: a release leaves the rows where they are.
MovedKeepingRows(p, tr, seen) ==
    CASE tr.spectrum = "reserve"  -> held[p] \cup {Placed(seen.content, tr.to)}
      [] tr.spectrum = "restatus" -> Restatus(held[p], tr.to)
      [] tr.spectrum = "release"  -> held[p]

\* What the spectrum becomes, given the copy of the row the request works from.
Moved(p, tr, seen) ==
    CASE tr.spectrum = "reserve"  -> held[p] \cup {Placed(seen.content, tr.to)}
      [] tr.spectrum = "restatus" -> Restatus(held[p], tr.to)
      [] tr.spectrum = "release"  -> {}

\* record_version after a write by a request that works from the copy seen.
Bumped(seen) == seen.version + 1

Done(r) ==
    /\ request' = [request EXCEPT ![r] = None]
    /\ UNCHANGED <<arrived, met, overwritten, unasked>>
-----------------------------------------------------------------------------
\* The requests that arrive are counted: the bound of the model.
Another == arrived < MaxRequests /\ arrived' = arrived + 1

(***************************************************************************)
(* create: a new path, in whatever status the request carries.  The view   *)
(* takes it from the POST, and nothing asks how a path comes to be there.  *)
(***************************************************************************)
NewPath(status, content, author, group, revision, supersedes) ==
    [status |-> status, version |-> 1, content |-> content, author |-> author,
     group |-> group, revision |-> revision, supersedes |-> supersedes]

Create(u, p, c, status) ==
    LET rows == IF IsOperational(status) THEN {Placed(c, status)} ELSE {}
    IN  /\ path[p] = None /\ Another
        /\ Fits(p, rows) /\ ~MustWait(p, rows)
        /\ path' = [path EXCEPT ![p] = NewPath(status, c, u, p, 1, None)]
        /\ held' = [held EXCEPT ![p] = rows]
        /\ unasked' = IF status \in OnAir THEN unasked \cup {p} ELSE unasked
        /\ UNCHANGED <<decisions, request, met, overwritten>>

(***************************************************************************)
(* A request arrives with the version its page shows, loads the row, and   *)
(* is refused here unless the move is legal for that copy.                 *)
(***************************************************************************)
Legal(action, seen) ==
    CASE action = "edit"   -> seen.status \in Editable
      [] action = "revise" -> seen.status \notin Terminal
      [] OTHER             -> \E tr \in Transitions : tr.from = seen.status /\ tr.action = action

SeparateApprover(action, u, seen) ==
    action \in Approval /\ RequireSeparateApprover => u # seen.author

\* Who acts is recorded by a decision and by a revision, and by nothing else here.
Recorded(action, u, seen) ==
    action \notin Approval \cup {"revise"} => u = seen.author

Load(r, u, p, action, c) ==
    /\ request[r] = None
    /\ p \in Saved
    /\ Another
    /\ Legal(action, path[p])
    /\ SeparateApprover(action, u, path[p]) /\ Recorded(action, u, path[p])
    /\ action \notin {"edit", "revise"} => c = path[p].content
    /\ request' = [request EXCEPT ![r] =
          [action |-> action, by |-> u, path |-> p, seen |-> path[p], content |-> c,
           stage |-> "loaded", gone |-> {}]]
    /\ met' = IF \E q \in InProgress : request[q].path = p THEN met \cup {p} ELSE met
    /\ UNCHANGED <<path, held, decisions, overwritten, unasked>>
-----------------------------------------------------------------------------
(***************************************************************************)
(* transition and decide: UPDATE the row by its key, move the spectrum,    *)
(* and record the decision, in one transaction.                            *)
(***************************************************************************)
DecisionBy(r) ==
    IF request[r].action \in Approval
    THEN {[path |-> request[r].path, action |-> request[r].action, by |-> request[r].by,
           content |-> request[r].seen.content]}
    ELSE {}

Move(r) ==
    /\ request[r] # None
    /\ LET p    == request[r].path
           seen == request[r].seen
       IN  \E tr \in Transitions :
              /\ tr.from = seen.status /\ tr.action = request[r].action
              /\ tr.spectrum # "reserve" => Locked(p) = {}
              /\ Fits(p, Moved(p, tr, seen)) /\ FitsItsOwn(p, tr, seen)
              /\ ~MustWait(p, Moved(p, tr, seen))
              /\ path' = [path EXCEPT ![p].status = tr.to, ![p].version = Bumped(seen)]
              /\ held' = [held EXCEPT ![p] = Moved(p, tr, seen)]
              /\ decisions' = decisions \cup DecisionBy(r)
    /\ Done(r)

(***************************************************************************)
(* edit: the version is compared with a freshly read row, once, and then   *)
(* rewrite deletes the reservations, saves every field of the copy and     *)
(* reserves again.                                                         *)
(***************************************************************************)
Editing(r, stage) ==
    request[r] # None /\ request[r].action = "edit" /\ request[r].stage = stage

CheckEditVersion(r) ==
    /\ Editing(r, "loaded")
    /\ path[request[r].path].version = request[r].seen.version
    /\ request' = [request EXCEPT ![r].stage = "checked"]
    /\ UNCHANGED <<path, held, decisions, arrived, met, overwritten, unasked>>

RewriteReleases(r) ==
    /\ Editing(r, "checked")
    /\ request' = [request EXCEPT ![r].stage = "released", ![r].gone = held[request[r].path]]
    /\ UNCHANGED <<path, held, decisions, arrived, met, overwritten, unasked>>

RewriteSaves(r) ==
    /\ Editing(r, "released")
    /\ LET p    == request[r].path
           seen == request[r].seen
           row  == [seen EXCEPT !.content = request[r].content, !.version = Bumped(seen)]
           kept == held[p] \ request[r].gone
           new  == Placed(row.content, row.status)
           rows == IF IsOperational(row.status) THEN kept \cup {new} ELSE kept
       IN  /\ IsOperational(row.status) => FitsAmong(kept, new)
           /\ Fits(p, rows) /\ ~MustWait(p, rows)
           /\ path' = [path EXCEPT ![p] = row]
           /\ held' = [held EXCEPT ![p] = rows]
           /\ request' = [q \in Request |->
                 IF q = r THEN None
                 ELSE IF q \in InProgress /\ request[q].path = p
                      THEN [request[q] EXCEPT !.gone = @ \ (request[r].gone \cup rows)]
                      ELSE request[q]]
           /\ overwritten' = IF \E q \in InProgress \ {r} : request[q].path = p
                             THEN overwritten \cup {p} ELSE overwritten
    /\ UNCHANGED <<decisions, arrived, met, unasked>>

(***************************************************************************)
(* revise: close the predecessor, release it, open the successor.          *)
(***************************************************************************)
\* Mutant of Superseded: nobody asks whether the path was already revised.
NeverSuperseded(p) == FALSE

Superseded(p) == \E q \in Saved : path[q].supersedes = p

\* Mutant of Closed: the predecessor keeps its status.
ClosedInDateOnly(p, seen) == [path[p] EXCEPT !.version = Bumped(seen)]

\* The predecessor's row: retired, and its copy's version raised.
Closed(p, seen) == [path[p] EXCEPT !.status = "RETIRED", !.version = Bumped(seen)]

SuccessorStatus(status) ==
    IF status \in {"ON_AIR", "PENDING_APPROVAL"} THEN "PENDING_APPROVAL" ELSE "PLANNED"

Revise(r, q) ==
    /\ request[r] # None /\ request[r].action = "revise"
    /\ path[q] = None
    /\ LET p    == request[r].path
           seen == request[r].seen
           new  == NewPath(SuccessorStatus(seen.status), request[r].content, request[r].by,
                           seen.group, seen.revision + 1, p)
           rows == {Placed(new.content, new.status)}
           freed == [held EXCEPT ![p] = {}]
       IN  /\ ~Superseded(p)
           /\ seen.revision < MaxRevision
           /\ Locked(p) = {}
           /\ \A o \in Path : \A g \in freed[o] : Holds(g) => g.content # new.content
           /\ ~MustWait(p, rows)
           /\ path' = [path EXCEPT ![p] = Closed(p, seen), ![q] = new]
           /\ held' = [freed EXCEPT ![q] = rows]
    /\ UNCHANGED decisions
    /\ Done(r)

(***************************************************************************)
(* The request ends without a trace: refused by the constraint, by a stale *)
(* version or by a rule, killed to break a deadlock, or lost with its      *)
(* worker.  Its transaction rolls back.                                    *)
(***************************************************************************)
Fail(r) ==
    /\ request[r] # None
    /\ Done(r)
    /\ UNCHANGED <<path, held, decisions>>
-----------------------------------------------------------------------------
Arrive ==
    \/ \E u \in User, p \in Path, c \in Content, s \in Posted : Create(u, p, c, s)
    \/ \E r \in Request, u \in User, p \in Path, a \in Actions, c \in Content :
          Load(r, u, p, a, c)

Write(r) ==
    \/ Move(r)
    \/ CheckEditVersion(r) \/ RewriteReleases(r) \/ RewriteSaves(r)
    \/ \E q \in Path : Revise(r, q)

Next == Arrive \/ \E r \in Request : Write(r) \/ Fail(r)

Spec == Init /\ [][Next]_vars
-----------------------------------------------------------------------------
(***************************************************************************)
(* What holds however requests meet.                                       *)
(***************************************************************************)
\* No two paths hold the same spectrum, and no path holds it twice.
NoDoubleHolding ==
    \A p, q \in Path : \A g \in held[p], h \in held[q] :
        Holds(g) /\ Holds(h) /\ g.content = h.content => p = q /\ g = h

\* A cancelled or retired path holds nothing: what a terminal move releases is
\* what is there when it runs, not what was there when its page was loaded.
TerminalHoldsNothing ==
    \A p \in Saved : path[p].status \in Terminal => \A h \in held[p] : ~Holds(h)

\* A revision is superseded at most once, so a chain never branches.
ChainNeverBranches ==
    \A p, q \in Saved :
        /\ path[p].supersedes # None /\ path[p].supersedes = path[q].supersedes => p = q
        /\ path[p].group = path[q].group /\ path[p].revision = path[q].revision => p = q

\* A path that was not created on air never gets there without the approval of
\* somebody else, and what is on air is what the approver had in front of them,
\* whatever requests meet on the path, unless one of them edited it meanwhile.
OnAirAsApproved ==
    \A p \in Saved \ unasked : path[p].status \in OnAir =>
        \E d \in decisions :
            /\ d.path = p /\ d.action = "approve"
            /\ RequireSeparateApprover => d.by # path[p].author
            /\ p \notin overwritten => d.content = path[p].content

(***************************************************************************)
(* What holds where requests follow one another on each path.              *)
(***************************************************************************)
\* The reservation table says what the path says: every row has the path's content
\* and status and holds if that status always does, a draft has no row, and a
\* status that may hold has one.
HoldsWhatItSays ==
    \A p \in Saved \ met :
        LET row == path[p]
        IN  /\ \A h \in held[p] :
                  /\ h.content = row.content /\ h.status = row.status
                  /\ row.status # "SUSPENDED" => (Holds(h) <=> row.status \in AlwaysReserving)
            /\ row.status \in AlwaysReserving \cup {"SUSPENDED"} => held[p] # {}
            /\ row.status = "DRAFT" => held[p] = {}

\* Of the revisions of an allocation at most one is still alive.
OneLiveRevision ==
    \A p, q \in Saved \ met :
        /\ path[p].group = path[q].group
        /\ path[p].status \notin Terminal /\ path[q].status \notin Terminal
        => p = q

\* ON_AIR holds its spectrum.
OnAirHoldsSpectrum ==
    \A p \in Saved : path[p].status = "ON_AIR" => held[p] # {}
=============================================================================
