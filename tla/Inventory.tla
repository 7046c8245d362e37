----------------------------- MODULE Inventory -----------------------------
(***************************************************************************)
(* The inventory: src/inventory/services.py, versioning.py, dependencies.py*)
(* and the views that call them.                                           *)
(*                                                                         *)
(* Every write is a request of several steps: a form is rendered, checked  *)
(* against the rows of one moment, and written at a later one.  What other *)
(* modules hold rows by is registered with dependencies.register; it comes *)
(* in as the parameter above, the rows held so, and coming, the rows that  *)
(* are about to be.                                                        *)
(*                                                                         *)
(* Everybody here may manage the inventory: policy.require is the first    *)
(* statement of every service.  Codes are left out, so no request fails on *)
(* a code that is taken.                                                   *)
(***************************************************************************)
EXTENDS InventoryRecords

CONSTANTS
    Request,
    InitialRows,   \* what was entered before: a sequence of rows
    Submitted,     \* what is typed into forms: [kind, body, from, until, polarizations]
    MaxTime,       \* periods lie in 0 .. MaxTime
    MaxRows,       \* bound on the rows
    MaxRequests    \* bound on the requests

VARIABLES
    rows,      \* every row there is, by its number; none is ever deleted
    request,   \* the requests in progress
    started,   \* how many requests there have been
    allowed,   \* the rows of band_polarization
    late       \* history: rows checked while something was made to use them

inventoryVars == <<rows, request, started, allowed, late>>

Open == MaxTime + 1   \* effective_until is NULL
Time == 0 .. MaxTime

AnyRecord ==
    Satellite \cup Band \cup Gateway \cup Hub \cup EquipmentProfile \cup GuardPolicy
    \cup FrequencyWindow \cup PayloadPath \cup SpectrumResource

\* polarizations are the boxes ticked on the form of a Band, which no other has.
Values == [kind : Kind, body : AnyRecord, from : Time, until : Time \cup {Open},
           polarizations : SUBSET PolarizationType]

\* A row of any kind; version is its record_version.
Row ==
    [kind : Kind, body : AnyRecord, from : Time, until : Time \cup {Open}, group : Nat,
     number : Nat, active : BOOLEAN, version : Nat]

IsRow(rs, i, kind) == i \in DOMAIN rs /\ rs[i].kind = kind

\* The foreign keys: a reference is to a row of its kind.
References(rs, body, kind) ==
    \A field \in ReferenceFields(kind) :
        body[field] # None => IsRow(rs, body[field], Target(field))

Idle == [step |-> "idle"]

\* full_clean and the constraints of the tables, on all rows at once.
PeriodsDisjoint(p, q) == p.until <= q.from \/ q.until <= p.from

\* excl_*_version_overlap.
OneActiveVersion(rs) ==
    \A i, j \in DOMAIN rs :
        i # j /\ rs[i].group = rs[j].group /\ rs[i].active /\ rs[j].active
            => PeriodsDisjoint(rs[i], rs[j])

\* uq_*_group_version.
NumbersUnique(rs) ==
    \A i, j \in DOMAIN rs :
        rs[i].group = rs[j].group /\ rs[i].number = rs[j].number => i = j

\* Mutant of SidesPinned: no composite key.
SidesUnpinned(rs) == TRUE

\* fk_path_uplink_window_side, fk_path_downlink_window_side.
SidesPinned(rs) ==
    \A i \in DOMAIN rs :
        rs[i].kind = "PayloadPath" =>
            LET path == rs[i].body
            IN  /\ rs[path.uplink].body.side = path.uplink_side
                /\ rs[path.downlink].body.side = path.downlink_side

Constraints(rs) ==
    /\ \A i \in DOMAIN rs : Sound(rs[i].kind, rs[i].body) /\ rs[i].from < rs[i].until
    /\ OneActiveVersion(rs) /\ NumbersUnique(rs) /\ SidesPinned(rs)

\* What was entered before is what the program lets one enter.
ASSUME EnteredAssumption ==
    /\ None \notin Nat /\ MaxTime \in Nat
    /\ Submitted \subseteq {v \in Values : v.body \in Record(v.kind)}
    /\ InitialRows \in Seq(Row) /\ Constraints(InitialRows)
    /\ \A i \in DOMAIN InitialRows :
           LET row == InitialRows[i]
           IN  /\ row.body \in Record(row.kind) /\ References(InitialRows, row.body, row.kind)
               /\ \A j \in Named(row.body, OfferedFields(row.kind)) : InitialRows[j].active
-----------------------------------------------------------------------------
(***************************************************************************)
(* dependencies.py                                                         *)
(***************************************************************************)
\* The rows that use row i, active or not, as registered.
Dependents(i) ==
    {j \in DOMAIN rows :
        /\ <<rows[i].kind, rows[j].kind>> \in Registered
        /\ i \in Named(rows[j].body, ReferenceFields(rows[j].kind))}

\* blocking_dependencies.
IsInUse(i, above) == Dependents(i) # {} \/ i \in above
-----------------------------------------------------------------------------
(***************************************************************************)
(* forms.py                                                                *)
(***************************************************************************)
\* The choices of a field are rows of one kind.
Offered(values) ==
    /\ References(rows, values.body, values.kind)
    /\ \A i \in Named(values.body, OfferedFields(values.kind)) : rows[i].active

PathFormValid(p) ==
    LET uplink == rows[p.uplink].body
        downlink == rows[p.downlink].body
    IN  /\ uplink.side = UplinkSide(p.direction) /\ downlink.side = DownlinkSide(p.direction)
        /\ p.uplink_side = uplink.side /\ p.downlink_side = downlink.side
        /\ p.uplink # p.downlink /\ uplink.satellite = downlink.satellite

EquipmentFormValid(e) ==
    /\ ConversionAgrees(e)
    /\ e.hub # None /\ e.gateway # None => rows[e.hub].body.gateway = e.gateway

BandFormValid(b) == b.rf_min < b.rf_max

GuardPolicyFormValid(g) == \A field \in Needs(g.mode) : g[field] # None

FrequencyWindowFormValid(w) == w.rf_start < w.rf_end

FormValid(values) ==
    /\ Offered(values)
    /\ CASE values.kind = "Band" -> BandFormValid(values.body)
         [] values.kind = "EquipmentProfile" -> EquipmentFormValid(values.body)
         [] values.kind = "GuardPolicy" -> GuardPolicyFormValid(values.body)
         [] values.kind = "FrequencyWindow" -> FrequencyWindowFormValid(values.body)
         [] values.kind = "PayloadPath" -> PathFormValid(values.body)
         [] OTHER -> TRUE
-----------------------------------------------------------------------------
(***************************************************************************)
(* Who is checking what while something comes to use it.                   *)
(***************************************************************************)
Uses(r) ==
    IF request[r].step \in {"creating", "checked", "superseding"}
    THEN Named(request[r].values.body, ReferenceFields(request[r].values.kind)) ELSE {}

Checks(r) ==
    IF request[r].step \in {"checked", "deactivating"} THEN {request[r].row} ELSE {}

Checking == UNION {Checks(r) : r \in Request}

Met == Checking \cap UNION {Uses(r) : r \in Request}

Steps(r, now) == request' = [request EXCEPT ![r] = now]

Ends(r) == Steps(r, Idle) /\ UNCHANGED started

Begins == started < MaxRequests /\ started' = started + 1
-----------------------------------------------------------------------------
(***************************************************************************)
(* InventoryEditView and services.create.                                  *)
(***************************************************************************)
AskCreate(r, values) ==
    /\ request[r] = Idle /\ Begins /\ Len(rows) < MaxRows /\ FormValid(values)
    /\ Steps(r, [step |-> "creating", values |-> values])
    /\ UNCHANGED rows

\* A new row is its own group, and version 1 of it.
NewRow(values, group, number, active) ==
    [kind |-> values.kind, body |-> values.body, from |-> values.from, until |-> values.until,
     group |-> group, number |-> number, active |-> active, version |-> 1]

\* services.create or update has committed.  Only a Band is not done with then.
Saved(r, i) ==
    LET values == request[r].values
    IN  /\ Steps(r, IF values.kind # "Band" THEN Idle
                    ELSE [step |-> "pruning", row |-> i, selected |-> values.polarizations,
                          version |-> rows'[i].version])
        /\ UNCHANGED started

Create(r) ==
    /\ request[r].step = "creating" /\ Len(rows) < MaxRows
    /\ rows' = Append(rows, NewRow(request[r].values, Len(rows) + 1, 1, TRUE))
    /\ Constraints(rows') /\ Saved(r, Len(rows) + 1)
-----------------------------------------------------------------------------
(***************************************************************************)
(* _sync_band_polarizations, after the Band is saved: no transaction spans *)
(* the statements, and no version is compared.                             *)
(***************************************************************************)
Allows(band, polarization) == [band |-> band, polarization |-> polarization]

\* What is not selected is deleted.
Prune(r) ==
    LET me == request[r]
    IN  /\ me.step = "pruning"
        /\ allowed' = {a \in allowed : a.band = me.row => a.polarization \in me.selected}
        /\ Steps(r, [me EXCEPT !.step = "looking"])
        /\ UNCHANGED <<rows, started>>

\* From here on, selected is what was found missing.
Look(r) ==
    LET me == request[r]
    IN  /\ me.step = "looking"
        /\ Steps(r, [me EXCEPT !.step = "adding",
                               !.selected = {p \in @ : Allows(me.row, p) \notin allowed}])
        /\ UNCHANGED <<rows, started, allowed>>

\* uq_band_polarization: all of it is inserted, or nothing, which is a request given up.
Add(r) ==
    LET me   == request[r]
        more == {Allows(me.row, p) : p \in me.selected}
    IN  /\ me.step = "adding"
        /\ more \cap allowed = {}
        /\ allowed' = allowed \cup more
        /\ Ends(r)
        /\ UNCHANGED rows
-----------------------------------------------------------------------------
(***************************************************************************)
(* services.update: the form shows a row and carries its record_version;   *)
(* on submission the row is read again and judged; then it is written.     *)
(***************************************************************************)
OpenForm(r, i) ==
    /\ request[r] = Idle /\ Begins /\ rows[i].kind \in {values.kind : values \in Submitted}
    /\ Steps(r, [step |-> "form", row |-> i, shown |-> rows[i]])
    /\ UNCHANGED rows

\* Mutant of AssertEditable: a window's upper edge is not engineering.
AssertEditableButEnd(i, body, above) ==
    (\E field \in EngineeringFields(rows[i].kind) \ {"rf_end"} :
        rows[i].body[field] # body[field]) => ~IsInUse(i, above)

\* versioning.assert_editable.
AssertEditable(i, body, above) ==
    (\E field \in EngineeringFields(rows[i].kind) : rows[i].body[field] # body[field])
        => ~IsInUse(i, above)

Submit(r, values, above) ==
    /\ request[r].step = "form" /\ values.kind = request[r].shown.kind
    /\ FormValid(values) /\ AssertEditable(request[r].row, values.body, above)
    /\ Steps(r, [step |-> "checked", row |-> request[r].row, shown |-> request[r].shown,
                 values |-> values])
    /\ UNCHANGED <<rows, started>>

\* Mutant of Fresh: the version the form carries is not compared.
AnyVersion(i, shown) == TRUE

\* UPDATE ... WHERE record_version = the one of the form; else StaleRecordError.
Fresh(i, shown) == rows[i].version = shown.version

Update(r) ==
    LET me == request[r]
        i  == me.row
    IN  /\ me.step = "checked" /\ Fresh(i, me.shown)
        /\ rows' = [rows EXCEPT ![i] = [@ EXCEPT !.body = me.values.body, !.from = me.values.from,
                                                 !.until = me.values.until,
                                                 !.version = me.shown.version + 1]]
        /\ Constraints(rows') /\ Saved(r, i)
-----------------------------------------------------------------------------
(***************************************************************************)
(* versioning.supersede: judged on the row as it was read, closed as it is.*)
(***************************************************************************)
AskSupersede(r, i, values) ==
    /\ request[r] = Idle /\ Begins /\ Len(rows) < MaxRows
    /\ rows[i].kind \in Versioned /\ values.kind = rows[i].kind /\ FormValid(values)
    /\ rows[i].until = Open /\ values.from > rows[i].from
    /\ Steps(r, [step |-> "superseding", row |-> i, values |-> values])
    /\ UNCHANGED rows

\* The predecessor is closed first, and keeps its record_version.
Closed(i, at) == [rows EXCEPT ![i].until = at]

Supersede(r) ==
    LET me == request[r]
        i  == me.row
    IN  /\ me.step = "superseding" /\ Len(rows) < MaxRows
        /\ rows[i].from < me.values.from
        /\ rows' = Append(Closed(i, me.values.from),
                          [NewRow(me.values, rows[i].group, rows[i].number + 1, rows[i].active)
                              EXCEPT !.until = Open])
        /\ Constraints(rows') /\ Ends(r)
-----------------------------------------------------------------------------
(***************************************************************************)
(* services.set_active: only is_active is written, and no version counted. *)
(***************************************************************************)
\* Mutant of MayDeactivate: what is in use may be deactivated.
MayAlwaysDeactivate(i, above) == TRUE

MayDeactivate(i, above) == ~IsInUse(i, above)

AskDeactivate(r, i, above) ==
    /\ request[r] = Idle /\ Begins /\ rows[i].active /\ MayDeactivate(i, above)
    /\ Steps(r, [step |-> "deactivating", row |-> i])
    /\ UNCHANGED rows

Deactivate(r) ==
    /\ request[r].step = "deactivating"
    /\ rows' = [rows EXCEPT ![request[r].row].active = FALSE]
    /\ Ends(r)

Reactivate(i) ==
    /\ ~rows[i].active /\ rows' = [rows EXCEPT ![i].active = TRUE]
    /\ Constraints(rows') /\ Begins
    /\ UNCHANGED request

\* A refusal by one of the guards, an IntegrityError or a closed tab.
GiveUp(r) ==
    /\ request[r] # Idle /\ Ends(r) /\ UNCHANGED rows
-----------------------------------------------------------------------------
InventoryNext(above, coming) ==
    /\ \/ /\ \/ \E r \in Request, values \in Submitted :
                   AskCreate(r, values) \/ Submit(r, values, above)
             \/ \E r \in Request, i \in DOMAIN rows :
                   \/ OpenForm(r, i) \/ AskDeactivate(r, i, above)
                   \/ \E values \in Submitted : AskSupersede(r, i, values)
             \/ \E r \in Request :
                   Create(r) \/ Update(r) \/ Supersede(r) \/ Deactivate(r) \/ GiveUp(r)
             \/ \E i \in DOMAIN rows : Reactivate(i)
          /\ UNCHANGED allowed
       \/ \E r \in Request : Prune(r) \/ Look(r) \/ Add(r)
    /\ late' = late \cup (Met \cup (Checking \cap coming))'

InventoryInit ==
    /\ rows = InitialRows /\ request = [r \in Request |-> Idle]
    /\ started = 0 /\ late = {}
    /\ allowed = {}   \* "No Band ships with any polarization preselected"
=============================================================================
