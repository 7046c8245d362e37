---------------------------- MODULE Beams_proofs ----------------------------
(***************************************************************************)
(* The inventory and a Beam over it, for any number of rows, requests and  *)
(* administrators.                                                         *)
(***************************************************************************)
EXTENDS Beams, TLAPS

(***************************************************************************)
(* The types of the inventory.                                             *)
(***************************************************************************)
RequestRecord ==
    {Idle} \cup [step : {"creating"}, values : Submitted]
    \cup [step : {"form"}, row : Nat, shown : Row]
    \cup [step : {"checked"}, row : Nat, shown : Row, values : Submitted]
    \cup [step : {"superseding"}, row : Nat, values : Submitted]
    \cup [step : {"deactivating"}, row : Nat]
    \cup [step : {"pruning", "looking", "adding"}, row : Nat, version : Nat,
          selected : SUBSET PolarizationType]

\* The steps of a request that is done with the rows of the inventory.
Over == {"idle", "pruning", "looking", "adding"}

\* A request about a row, and one that is about to write values.
AboutRow(r) == request[r].step \in {"form", "checked", "superseding", "deactivating"}
Writes(r)   == request[r].step \in {"creating", "checked", "superseding"}

RowsOK ==
    /\ rows \in Seq(Row)
    /\ \A i \in DOMAIN rows : /\ rows[i].body \in Record(rows[i].kind)
                              /\ References(rows, rows[i].body, rows[i].kind)

RequestOK(r) ==
    /\ AboutRow(r) => request[r].row \in DOMAIN rows
    /\ request[r].step \in {"form", "checked"} =>
           request[r].shown.kind = rows[request[r].row].kind
    /\ request[r].step \in {"checked", "superseding"} =>
           request[r].values.kind = rows[request[r].row].kind
    /\ Writes(r) => References(rows, request[r].values.body, request[r].values.kind)

InventoryType ==
    /\ RowsOK /\ request \in [Request -> RequestRecord] /\ \A r \in Request : RequestOK(r)

\* Rows stay, and stay of their kind.
RowsStay ==
    /\ DOMAIN rows \subseteq DOMAIN rows'
    /\ \A i \in DOMAIN rows : rows'[i].kind = rows[i].kind

\* What is typed in is of its kind.
LEMMA ValuesType ==
    ASSUME NEW v \in Submitted
    PROVE  /\ v.kind \in Kind /\ v.body \in AnyRecord /\ v.body \in Record(v.kind)
           /\ v.from \in Time /\ v.until \in Time \cup {Open}
           /\ v.polarizations \in SUBSET PolarizationType
  <1>1. v \in Values /\ v.body \in Record(v.kind)
    BY EnteredAssumption
  <1> QED BY <1>1 DEF Values

\* The fields of a row.
LEMMA RowType ==
    ASSUME NEW row \in Row
    PROVE  /\ row.kind \in Kind /\ row.body \in AnyRecord /\ row.from \in Time
           /\ row.until \in Time \cup {Open} /\ row.group \in Nat /\ row.number \in Nat
           /\ row.active \in BOOLEAN /\ row.version \in Nat
  BY DEF Row

\* What a request carries at each of its steps.
LEMMA RequestType ==
    ASSUME InventoryType, NEW r \in Request
    PROVE  /\ request[r].step \in {"creating", "form", "checked", "superseding",
                                   "deactivating"} \cup Over
           /\ request[r].step = "idle" <=> request[r] = Idle
           /\ Writes(r) => request[r].values \in Submitted
           /\ AboutRow(r) => request[r].row \in DOMAIN rows
           /\ request[r].step \in {"form", "checked"} => request[r].shown \in Row
  <1>1. request[r] \in RequestRecord /\ RequestOK(r)
    BY DEF InventoryType
  <1> QED BY <1>1 DEF RequestRecord, RequestOK, AboutRow, Writes, Idle, Over

\* References stay good when rows stay.
LEMMA ReferencesStay ==
    ASSUME RowsStay, NEW body, NEW kind, References(rows, body, kind)
    PROVE  References(rows', body, kind)
  BY DEF RowsStay, References, IsRow
-----------------------------------------------------------------------------
(***************************************************************************)
(* What each write does to the rows.                                       *)
(***************************************************************************)
\* A row put in the place of one of its kind keeps the types of the rows.
LEMMA RowReplaced ==
    ASSUME RowsOK, NEW i \in DOMAIN rows, NEW row \in Row, row.kind = rows[i].kind,
           row.body \in Record(row.kind), References(rows, row.body, row.kind),
           rows' = [rows EXCEPT ![i] = row]
    PROVE  /\ RowsOK' /\ RowsStay /\ DOMAIN rows' = DOMAIN rows /\ rows'[i] = row
           /\ \A j \in DOMAIN rows \ {i} : rows'[j] = rows[j]
  <1>1. rows \in Seq(Row)
    BY DEF RowsOK
  <1>2. /\ rows' \in Seq(Row) /\ DOMAIN rows' = DOMAIN rows /\ rows'[i] = row
        /\ \A j \in DOMAIN rows \ {i} : rows'[j] = rows[j]
    BY <1>1
  <1>3. RowsStay
    BY <1>2 DEF RowsStay
  <1>4. \A j \in DOMAIN rows' : /\ rows'[j].body \in Record(rows'[j].kind)
                                /\ References(rows', rows'[j].body, rows'[j].kind)
    <2> TAKE j \in DOMAIN rows'
    <2>1. /\ rows'[j].body \in Record(rows'[j].kind)
          /\ References(rows, rows'[j].body, rows'[j].kind)
      BY <1>2 DEF RowsOK
    <2> QED BY <1>3, <2>1, ReferencesStay
  <1> QED BY <1>2, <1>3, <1>4 DEF RowsOK

\* So does a row that is added.
LEMMA RowAppended ==
    ASSUME NEW rs \in Seq(Row), NEW row \in Row, rows' = Append(rs, row),
           RowsOK, DOMAIN rs = DOMAIN rows,
           \A j \in DOMAIN rows : rs[j].kind = rows[j].kind /\ rs[j].body = rows[j].body,
           row.body \in Record(row.kind), References(rows, row.body, row.kind)
    PROVE  /\ RowsOK' /\ RowsStay /\ Len(rs) = Len(rows)
           /\ DOMAIN rows' = DOMAIN rows \cup {Len(rows) + 1}
           /\ Len(rows) + 1 \notin DOMAIN rows /\ rows'[Len(rows) + 1] = row
           /\ \A j \in DOMAIN rows : rows'[j] = rs[j]
  <1>1. rows \in Seq(Row)
    BY DEF RowsOK
  <1>2. /\ rows' \in Seq(Row) /\ DOMAIN rows' = DOMAIN rows \cup {Len(rows) + 1}
        /\ Len(rows) + 1 \notin DOMAIN rows /\ rows'[Len(rows) + 1] = row
        /\ \A j \in DOMAIN rows : rows'[j] = rs[j]
        /\ Len(rs) = Len(rows)
    <2>1. Len(rs) = Len(rows)
      BY <1>1
    <2> QED BY <1>1, <2>1
  <1>3. RowsStay
    BY <1>2 DEF RowsStay
  <1>4. \A j \in DOMAIN rows' : /\ rows'[j].body \in Record(rows'[j].kind)
                                /\ References(rows', rows'[j].body, rows'[j].kind)
    <2> TAKE j \in DOMAIN rows'
    <2>1. /\ rows'[j].body \in Record(rows'[j].kind)
          /\ References(rows, rows'[j].body, rows'[j].kind)
      BY <1>2 DEF RowsOK
    <2> QED BY <1>3, <2>1, ReferencesStay
  <1> QED BY <1>2, <1>3, <1>4 DEF RowsOK

\* A new row of typed-in values is a row.
LEMMA NewRowType ==
    ASSUME NEW v \in Submitted, NEW group \in Nat, NEW number \in Nat, NEW active \in BOOLEAN
    PROVE  NewRow(v, group, number, active) \in Row
  BY ValuesType DEF NewRow, Row
-----------------------------------------------------------------------------
\* The rows after each write, row by row.
CreatedRow(r) == NewRow(request[r].values, Len(rows) + 1, 1, TRUE)

LEMMA CreateFacts ==
    ASSUME InventoryType, NEW r \in Request, Create(r)
    PROVE  /\ RowsOK' /\ RowsStay /\ DOMAIN rows' = DOMAIN rows \cup {Len(rows) + 1}
           /\ Len(rows) + 1 \notin DOMAIN rows /\ rows'[Len(rows) + 1] = CreatedRow(r)
           /\ \A j \in DOMAIN rows : rows'[j] = rows[j]
           /\ Constraints(rows') /\ request[r].values \in Submitted
  <1>1. request[r].values \in Submitted /\ RequestOK(r) /\ RowsOK /\ Writes(r)
    BY RequestType DEF Create, Writes, InventoryType
  <1>2. /\ rows \in Seq(Row) /\ Len(rows) \in Nat
        /\ rows' = Append(rows, CreatedRow(r)) /\ Constraints(rows')
    BY <1>1 DEF RowsOK, Create, CreatedRow
  <1>3. CreatedRow(r) \in Row
    BY <1>1, <1>2, ValuesType DEF CreatedRow, NewRow, Row
  <1>4. /\ CreatedRow(r).body = request[r].values.body
        /\ CreatedRow(r).kind = request[r].values.kind
    BY DEF CreatedRow, NewRow
  <1>5. /\ CreatedRow(r).body \in Record(CreatedRow(r).kind)
        /\ References(rows, CreatedRow(r).body, CreatedRow(r).kind)
    BY <1>1, <1>4, ValuesType DEF RequestOK
  <1> QED BY <1>1, <1>2, <1>3, <1>5, RowAppended

UpdatedRow(r) ==
    [rows[request[r].row] EXCEPT !.body = request[r].values.body,
                                 !.from = request[r].values.from,
                                 !.until = request[r].values.until,
                                 !.version = request[r].shown.version + 1]

LEMMA UpdateFacts ==
    ASSUME InventoryType, NEW r \in Request, Update(r)
    PROVE  LET i == request[r].row
           IN  /\ RowsOK' /\ RowsStay /\ DOMAIN rows' = DOMAIN rows /\ i \in DOMAIN rows
               /\ request[r].values \in Submitted /\ request[r].shown \in Row
               /\ request[r].values.kind = rows[i].kind
               /\ rows[i].version = request[r].shown.version
               /\ rows'[i].body = request[r].values.body
               /\ rows'[i].from = request[r].values.from
               /\ rows'[i].until = request[r].values.until
               /\ rows'[i].version = request[r].shown.version + 1
               /\ rows'[i].kind = rows[i].kind /\ rows'[i].active = rows[i].active
               /\ rows'[i].group = rows[i].group /\ rows'[i].number = rows[i].number
               /\ \A j \in DOMAIN rows \ {i} : rows'[j] = rows[j]
               /\ Constraints(rows')
  <1> DEFINE i == request[r].row
  <1>1. request[r].step = "checked"
    BY DEF Update
  <1>2. /\ request[r].values \in Submitted /\ i \in DOMAIN rows /\ request[r].shown \in Row
        /\ RequestOK(r) /\ RowsOK
    BY <1>1, RequestType DEF Writes, AboutRow, InventoryType
  <1>3. /\ request[r].values.kind = rows[i].kind
        /\ References(rows, request[r].values.body, request[r].values.kind)
    BY <1>1, <1>2 DEF RequestOK, Writes
  <1>4. /\ rows' = [rows EXCEPT ![i] = UpdatedRow(r)] /\ Constraints(rows')
        /\ rows[i].version = request[r].shown.version
    BY DEF Update, UpdatedRow, Fresh
  <1>5. rows[i] \in Row
    BY <1>2 DEF RowsOK
  <1>6. request[r].shown.version + 1 \in Nat
    BY <1>2, RowType
  <1>7. /\ UpdatedRow(r) \in Row /\ UpdatedRow(r).body = request[r].values.body
        /\ UpdatedRow(r).from = request[r].values.from
        /\ UpdatedRow(r).until = request[r].values.until
        /\ UpdatedRow(r).version = request[r].shown.version + 1
        /\ UpdatedRow(r).kind = rows[i].kind /\ UpdatedRow(r).active = rows[i].active
        /\ UpdatedRow(r).group = rows[i].group /\ UpdatedRow(r).number = rows[i].number
    BY <1>2, <1>5, <1>6, ValuesType DEF UpdatedRow, Row
  <1>8. /\ UpdatedRow(r).body \in Record(UpdatedRow(r).kind)
        /\ References(rows, UpdatedRow(r).body, UpdatedRow(r).kind)
    BY <1>2, <1>3, <1>7, ValuesType
  <1>9. /\ RowsOK' /\ RowsStay /\ DOMAIN rows' = DOMAIN rows /\ rows'[i] = UpdatedRow(r)
        /\ \A j \in DOMAIN rows \ {i} : rows'[j] = rows[j]
    BY <1>2, <1>4, <1>7, <1>8, RowReplaced
  <1> QED BY <1>2, <1>3, <1>4, <1>7, <1>9

SuccessorRow(r) ==
    [NewRow(request[r].values, rows[request[r].row].group, rows[request[r].row].number + 1,
            rows[request[r].row].active) EXCEPT !.until = Open]

LEMMA SupersedeFacts ==
    ASSUME InventoryType, NEW r \in Request, Supersede(r)
    PROVE  LET i == request[r].row
               n == Len(rows) + 1
           IN  /\ RowsOK' /\ RowsStay /\ DOMAIN rows' = DOMAIN rows \cup {n}
               /\ n \notin DOMAIN rows /\ i \in DOMAIN rows
               /\ request[r].values \in Submitted /\ request[r].values.kind = rows[i].kind
               /\ rows'[n].body = request[r].values.body
               /\ rows'[n].kind = request[r].values.kind
               /\ rows'[n].group = rows[i].group /\ rows'[n].number = rows[i].number + 1
               /\ \A j \in DOMAIN rows :
                     /\ rows'[j].body = rows[j].body /\ rows'[j].kind = rows[j].kind
                     /\ rows'[j].from = rows[j].from /\ rows'[j].active = rows[j].active
                     /\ rows'[j].version = rows[j].version
                     /\ rows'[j].group = rows[j].group /\ rows'[j].number = rows[j].number
               /\ \A j \in DOMAIN rows \ {i} : rows'[j] = rows[j]
               /\ Constraints(rows')
  <1> DEFINE i == request[r].row
             at == request[r].values.from
             n == Len(rows) + 1
  <1>1. request[r].step = "superseding"
    BY DEF Supersede
  <1>2. /\ request[r].values \in Submitted /\ i \in DOMAIN rows /\ RequestOK(r) /\ RowsOK
    BY <1>1, RequestType DEF Writes, AboutRow, InventoryType
  <1>3. /\ request[r].values.kind = rows[i].kind
        /\ References(rows, request[r].values.body, request[r].values.kind)
    BY <1>1, <1>2 DEF RequestOK, Writes
  <1>4. rows \in Seq(Row) /\ rows[i] \in Row
    BY <1>2 DEF RowsOK
  <1>5. at \in Time \cup {Open} /\ Open \in Time \cup {Open}
    BY <1>2, ValuesType
  <1> DEFINE closed == [rows[i] EXCEPT !.until = at]
  <1>6. /\ closed \in Row /\ closed.body = rows[i].body /\ closed.kind = rows[i].kind
        /\ closed.from = rows[i].from /\ closed.active = rows[i].active
        /\ closed.version = rows[i].version /\ closed.group = rows[i].group
        /\ closed.number = rows[i].number
    BY <1>4, <1>5 DEF Row
  <1> HIDE DEF closed
  <1> DEFINE rs == [rows EXCEPT ![i] = closed]
  <1>7. /\ rs \in Seq(Row) /\ DOMAIN rs = DOMAIN rows /\ rs[i] = closed
        /\ \A j \in DOMAIN rows \ {i} : rs[j] = rows[j]
    BY <1>2, <1>4, <1>6
  <1>8. rs = Closed(i, at)
    BY DEF Closed, closed
  <1>9. rows' = Append(rs, SuccessorRow(r)) /\ Constraints(rows')
    BY <1>8 DEF Supersede, SuccessorRow
  <1> HIDE DEF rs
  <1>10. /\ SuccessorRow(r) \in Row /\ SuccessorRow(r).body = request[r].values.body
         /\ SuccessorRow(r).kind = request[r].values.kind
         /\ SuccessorRow(r).group = rows[i].group
         /\ SuccessorRow(r).number = rows[i].number + 1
    <2>1. /\ rows[i].group \in Nat /\ rows[i].number + 1 \in Nat /\ rows[i].active \in BOOLEAN
      BY <1>4, RowType
    <2> DEFINE new == NewRow(request[r].values, rows[i].group, rows[i].number + 1, rows[i].active)
    <2>2. new \in Row
      BY <1>2, <2>1, NewRowType
    <2>3. /\ new.body = request[r].values.body /\ new.kind = request[r].values.kind
          /\ new.group = rows[i].group /\ new.number = rows[i].number + 1
      BY DEF NewRow
    <2>4. SuccessorRow(r) = [new EXCEPT !.until = Open]
      BY DEF SuccessorRow
    <2> HIDE DEF new
    <2> QED BY <1>5, <2>2, <2>3, <2>4 DEF Row
  <1>11. /\ SuccessorRow(r).body \in Record(SuccessorRow(r).kind)
         /\ References(rows, SuccessorRow(r).body, SuccessorRow(r).kind)
    BY <1>2, <1>3, <1>10, ValuesType
  <1>12. \A j \in DOMAIN rows : rs[j].kind = rows[j].kind /\ rs[j].body = rows[j].body
    BY <1>6, <1>7
  <1>13. /\ RowsOK' /\ RowsStay /\ DOMAIN rows' = DOMAIN rows \cup {n}
         /\ n \notin DOMAIN rows /\ rows'[n] = SuccessorRow(r)
         /\ \A j \in DOMAIN rows : rows'[j] = rs[j]
    BY <1>2, <1>7, <1>9, <1>10, <1>11, <1>12, RowAppended
  <1>14. \A j \in DOMAIN rows :
             /\ rows'[j].body = rows[j].body /\ rows'[j].kind = rows[j].kind
             /\ rows'[j].from = rows[j].from /\ rows'[j].active = rows[j].active
             /\ rows'[j].version = rows[j].version
             /\ rows'[j].group = rows[j].group /\ rows'[j].number = rows[j].number
    BY <1>6, <1>7, <1>13
  <1> HIDE DEF n
  <1> QED BY <1>2, <1>3, <1>7, <1>9, <1>10, <1>13, <1>14 DEF n

LEMMA ActiveFacts ==
    ASSUME RowsOK, NEW i \in DOMAIN rows, NEW active \in BOOLEAN,
           rows' = [rows EXCEPT ![i].active = active]
    PROVE  /\ RowsOK' /\ RowsStay /\ DOMAIN rows' = DOMAIN rows
           /\ rows'[i].active = active
           /\ \A j \in DOMAIN rows :
                 /\ rows'[j].body = rows[j].body /\ rows'[j].kind = rows[j].kind
                 /\ rows'[j].from = rows[j].from /\ rows'[j].until = rows[j].until
                 /\ rows'[j].version = rows[j].version
                 /\ rows'[j].group = rows[j].group /\ rows'[j].number = rows[j].number
           /\ \A j \in DOMAIN rows \ {i} : rows'[j] = rows[j]
  <1> DEFINE row == [rows[i] EXCEPT !.active = active]
  <1>1. rows[i] \in Row /\ rows[i].body \in Record(rows[i].kind)
          /\ References(rows, rows[i].body, rows[i].kind)
    BY DEF RowsOK
  <1>2. /\ row \in Row /\ row.active = active /\ row.body = rows[i].body
        /\ row.kind = rows[i].kind /\ row.from = rows[i].from /\ row.until = rows[i].until
        /\ row.version = rows[i].version /\ row.group = rows[i].group
        /\ row.number = rows[i].number
    BY <1>1 DEF Row
  <1>3. rows' = [rows EXCEPT ![i] = row]
    OBVIOUS
  <1> HIDE DEF row
  <1>4. /\ RowsOK' /\ RowsStay /\ DOMAIN rows' = DOMAIN rows /\ rows'[i] = row
        /\ \A j \in DOMAIN rows \ {i} : rows'[j] = rows[j]
    BY <1>1, <1>2, <1>3, RowReplaced
  <1> QED BY <1>2, <1>4
-----------------------------------------------------------------------------
(***************************************************************************)
(* The types hold.                                                         *)
(***************************************************************************)
\* A request that is not served keeps its types.
LEMMA RequestKept ==
    ASSUME RowsStay, NEW q \in Request, RequestOK(q), request'[q] = request[q]
    PROVE  RequestOK(q)'
  <1>1. /\ (AboutRow(q)' <=> AboutRow(q)) /\ (Writes(q)' <=> Writes(q))
    BY DEF AboutRow, Writes
  <1>2. Writes(q)' => References(rows', request'[q].values.body, request'[q].values.kind)
    BY <1>1, ReferencesStay DEF RequestOK
  <1>3. AboutRow(q) => /\ request[q].row \in DOMAIN rows' 
                       /\ rows'[request[q].row].kind = rows[request[q].row].kind
    BY DEF RequestOK, RowsStay
  <1> QED BY <1>1, <1>2, <1>3 DEF RequestOK, AboutRow

LEMMA RequestMoves ==
    ASSUME InventoryType, RowsOK', RowsStay, NEW r \in Request, NEW now \in RequestRecord,
           Steps(r, now), RequestOK(r)'
    PROVE  InventoryType'
  <1>1. /\ request' \in [Request -> RequestRecord]
        /\ \A q \in Request \ {r} : request'[q] = request[q]
    BY DEF InventoryType, Steps
  <1>2. \A q \in Request \ {r} : RequestOK(q)'
    BY <1>1, RequestKept DEF InventoryType
  <1> QED BY <1>1, <1>2 DEF InventoryType

LEMMA RequestEnds ==
    ASSUME InventoryType, RowsOK', RowsStay, NEW r \in Request, NEW now \in RequestRecord,
           Steps(r, now), now.step \in Over
    PROVE  InventoryType'
  <1>1. request'[r] = now
    BY DEF InventoryType, Steps
  <1>2. RequestOK(r)'
    BY <1>1 DEF RequestOK, AboutRow, Writes, Over
  <1> QED BY <1>2, RequestMoves

\* A form that is asked for, or submitted.
LEMMA AskingKeepsTypes ==
    ASSUME InventoryType, NEW r \in Request, NEW now \in RequestRecord, Steps(r, now),
           UNCHANGED rows,
           now.step \in {"form", "checked", "superseding", "deactivating"}
               => now.row \in DOMAIN rows,
           now.step \in {"form", "checked"} => now.shown.kind = rows[now.row].kind,
           now.step \in {"checked", "superseding"} => now.values.kind = rows[now.row].kind,
           now.step \in {"creating", "checked", "superseding"}
               => References(rows, now.values.body, now.values.kind)
    PROVE  InventoryType'
  <1>1. RowsOK' /\ RowsStay
    BY DEF InventoryType, RowsOK, RowsStay, References, IsRow
  <1>2. request'[r] = now
    BY DEF InventoryType, Steps
  <1>3. RequestOK(r)'
    BY <1>2 DEF RequestOK, AboutRow, Writes, References, IsRow
  <1> QED BY <1>1, <1>3, RequestMoves

LEMMA AskCreateTypes ==
    ASSUME InventoryType, NEW r \in Request, NEW values \in Submitted, AskCreate(r, values)
    PROVE  InventoryType' /\ RowsStay
  <1> DEFINE now == [step |-> "creating", values |-> values]
  <1>1. Steps(r, now) /\ UNCHANGED rows /\ References(rows, values.body, values.kind)
    BY DEF AskCreate, FormValid, Offered
  <1>2. now \in RequestRecord
    BY DEF RequestRecord
  <1>3. now.step = "creating" /\ now.values = values
    OBVIOUS
  <1>4. RowsStay
    BY <1>1 DEF RowsStay
  <1> HIDE DEF now
  <1> QED BY <1>1, <1>2, <1>3, <1>4, AskingKeepsTypes

LEMMA OpenFormTypes ==
    ASSUME InventoryType, NEW r \in Request, NEW i \in DOMAIN rows, OpenForm(r, i)
    PROVE  InventoryType' /\ RowsStay
  <1> DEFINE now == [step |-> "form", row |-> i, shown |-> rows[i]]
  <1>1. Steps(r, now) /\ UNCHANGED rows
    BY DEF OpenForm
  <1>2. rows[i] \in Row /\ i \in Nat
    BY DEF InventoryType, RowsOK
  <1>3. now \in RequestRecord
    BY <1>2 DEF RequestRecord
  <1>4. now.step = "form" /\ now.row = i /\ now.shown = rows[i]
    OBVIOUS
  <1>5. RowsStay
    BY <1>1 DEF RowsStay
  <1> HIDE DEF now
  <1> QED BY <1>1, <1>3, <1>4, <1>5, AskingKeepsTypes

LEMMA SubmitTypes ==
    ASSUME InventoryType, NEW r \in Request, NEW values \in Submitted, NEW above,
           Submit(r, values, above)
    PROVE  InventoryType' /\ RowsStay
  <1> DEFINE now == [step |-> "checked", row |-> request[r].row, shown |-> request[r].shown,
                     values |-> values]
  <1>1. /\ Steps(r, now) /\ UNCHANGED rows /\ References(rows, values.body, values.kind)
        /\ request[r].step = "form" /\ values.kind = request[r].shown.kind
    BY DEF Submit, FormValid, Offered
  <1>2. /\ request[r].row \in DOMAIN rows /\ request[r].shown \in Row
        /\ request[r].shown.kind = rows[request[r].row].kind
    BY <1>1, RequestType DEF AboutRow, InventoryType, RequestOK
  <1>3. request[r].row \in Nat
    BY <1>2 DEF InventoryType, RowsOK
  <1>4. now \in RequestRecord
    BY <1>2, <1>3 DEF RequestRecord
  <1>5. /\ now.step = "checked" /\ now.row = request[r].row /\ now.shown = request[r].shown
        /\ now.values = values
    OBVIOUS
  <1>6. RowsStay
    BY <1>1 DEF RowsStay
  <1> HIDE DEF now
  <1> QED BY <1>1, <1>2, <1>4, <1>5, <1>6, AskingKeepsTypes

LEMMA AskSupersedeTypes ==
    ASSUME InventoryType, NEW r \in Request, NEW i \in DOMAIN rows, NEW values \in Submitted,
           AskSupersede(r, i, values)
    PROVE  InventoryType' /\ RowsStay
  <1> DEFINE now == [step |-> "superseding", row |-> i, values |-> values]
  <1>1. /\ Steps(r, now) /\ UNCHANGED rows /\ References(rows, values.body, values.kind)
        /\ values.kind = rows[i].kind
    BY DEF AskSupersede, FormValid, Offered
  <1>2. now \in RequestRecord
    BY DEF RequestRecord, InventoryType, RowsOK
  <1>3. now.step = "superseding" /\ now.row = i /\ now.values = values
    OBVIOUS
  <1>4. RowsStay
    BY <1>1 DEF RowsStay
  <1> HIDE DEF now
  <1> QED BY <1>1, <1>2, <1>3, <1>4, AskingKeepsTypes

LEMMA AskDeactivateTypes ==
    ASSUME InventoryType, NEW r \in Request, NEW i \in DOMAIN rows, NEW above,
           AskDeactivate(r, i, above)
    PROVE  InventoryType' /\ RowsStay
  <1> DEFINE now == [step |-> "deactivating", row |-> i]
  <1>1. Steps(r, now) /\ UNCHANGED rows
    BY DEF AskDeactivate
  <1>2. now \in RequestRecord
    BY DEF RequestRecord, InventoryType, RowsOK
  <1>3. now.step = "deactivating" /\ now.row = i
    OBVIOUS
  <1>4. RowsStay
    BY <1>1 DEF RowsStay
  <1> HIDE DEF now
  <1> QED BY <1>1, <1>2, <1>3, <1>4, AskingKeepsTypes

\* A request that has written its row is over, or goes on with the polarizations.
LEMMA SavedFacts ==
    ASSUME InventoryType, RowsOK', NEW r \in Request, NEW i \in DOMAIN rows', Saved(r, i),
           request[r].values \in Submitted
    PROVE  \E now \in RequestRecord : Steps(r, now) /\ now.step \in Over
  <1> DEFINE more == [step |-> "pruning", row |-> i,
                      selected |-> request[r].values.polarizations,
                      version |-> rows'[i].version]
  <1>1. i \in Nat /\ rows'[i].version \in Nat
    BY RowType DEF RowsOK
  <1>2. more \in RequestRecord
    BY <1>1, ValuesType DEF RequestRecord
  <1>3. Idle \in RequestRecord /\ Idle.step \in Over /\ more.step \in Over
    BY DEF RequestRecord, Idle, Over
  <1>4. Steps(r, Idle) \/ Steps(r, more)
    BY DEF Saved
  <1> HIDE DEF more
  <1> QED BY <1>2, <1>3, <1>4

\* Writing polarizations writes no row.
LEMMA SyncFacts ==
    ASSUME InventoryType, NEW r \in Request, Prune(r) \/ Look(r) \/ Add(r)
    PROVE  /\ UNCHANGED rows
           /\ \E now \in RequestRecord : Steps(r, now) /\ now.step \in Over
  <1>1. request[r] \in RequestRecord
    BY DEF InventoryType
  <1>2. CASE Prune(r)
    <2> DEFINE now == [request[r] EXCEPT !.step = "looking"]
    <2>1. Steps(r, now) /\ UNCHANGED rows /\ request[r].step = "pruning"
      BY <1>2 DEF Prune
    <2>2. now \in RequestRecord /\ now.step = "looking"
      BY <1>1, <2>1 DEF RequestRecord, Idle
    <2> HIDE DEF now
    <2> QED BY <2>1, <2>2 DEF Over
  <1>3. CASE Look(r)
    <2> DEFINE missing == {p \in request[r].selected : Allows(request[r].row, p) \notin allowed}
               now == [request[r] EXCEPT !.step = "adding", !.selected = missing]
    <2>1. Steps(r, now) /\ UNCHANGED rows /\ request[r].step = "looking"
      BY <1>3 DEF Look
    <2>2. missing \subseteq request[r].selected
      OBVIOUS
    <2> HIDE DEF missing
    <2>3. request[r] \in [step : {"pruning", "looking", "adding"}, row : Nat, version : Nat,
                          selected : SUBSET PolarizationType]
      BY <1>1, <2>1 DEF RequestRecord, Idle
    <2>4. now \in RequestRecord /\ now.step = "adding"
      BY <2>2, <2>3 DEF RequestRecord
    <2> HIDE DEF now
    <2> QED BY <2>1, <2>4 DEF Over
  <1>4. CASE Add(r)
    BY <1>4 DEF Add, Ends, RequestRecord, Idle, Over
  <1> QED BY <1>2, <1>3, <1>4

\* What a request deactivates is a row.
LEMMA DeactivateFacts ==
    ASSUME InventoryType, NEW r \in Request, Deactivate(r)
    PROVE  /\ request[r].row \in DOMAIN rows /\ Steps(r, Idle)
           /\ rows' = [rows EXCEPT ![request[r].row].active = FALSE]
  BY RequestType DEF Deactivate, Ends, AboutRow

\* The steps after which a request waits for no row.
Served(r) ==
    \/ Create(r) \/ Update(r) \/ Supersede(r) \/ Deactivate(r) \/ GiveUp(r)
    \/ Prune(r) \/ Look(r) \/ Add(r)

LEMMA ServedFacts ==
    ASSUME InventoryType, NEW r \in Request, Served(r)
    PROVE  /\ RowsOK' /\ RowsStay
           /\ \E now \in RequestRecord : Steps(r, now) /\ now.step \in Over
  <1>1. Idle \in RequestRecord /\ Idle.step \in Over
    BY DEF RequestRecord, Idle, Over
  <1>2. CASE Create(r)
    BY <1>2, CreateFacts, SavedFacts DEF Create
  <1>3. CASE Update(r)
    BY <1>3, UpdateFacts, SavedFacts DEF Update
  <1>4. CASE Supersede(r)
    BY <1>1, <1>4, SupersedeFacts DEF Supersede, Ends
  <1>5. CASE Deactivate(r)
    BY <1>1, <1>5, DeactivateFacts, ActiveFacts DEF InventoryType
  <1>6. ASSUME UNCHANGED rows PROVE RowsOK' /\ RowsStay
    BY <1>6 DEF InventoryType, RowsOK, RowsStay, References, IsRow
  <1>7. CASE GiveUp(r)
    BY <1>1, <1>6, <1>7 DEF GiveUp, Ends
  <1>8. CASE Prune(r) \/ Look(r) \/ Add(r)
    BY <1>6, <1>8, SyncFacts
  <1> QED BY <1>2, <1>3, <1>4, <1>5, <1>7, <1>8 DEF Served

LEMMA InventoryTypes ==
    ASSUME InventoryType, InventoryStep
    PROVE  InventoryType' /\ RowsStay
  <1>1. ASSUME NEW r \in Request, NEW values \in Submitted,
               AskCreate(r, values) \/ Submit(r, values, HeldByBeams)
        PROVE  InventoryType' /\ RowsStay
    BY <1>1, AskCreateTypes, SubmitTypes
  <1>2. ASSUME NEW r \in Request, NEW i \in DOMAIN rows,
               \/ OpenForm(r, i) \/ AskDeactivate(r, i, HeldByBeams)
               \/ \E values \in Submitted : AskSupersede(r, i, values)
        PROVE  InventoryType' /\ RowsStay
    BY <1>2, OpenFormTypes, AskDeactivateTypes, AskSupersedeTypes
  <1>3. ASSUME NEW r \in Request, Served(r)
        PROVE  InventoryType' /\ RowsStay
    <2>1. /\ RowsOK' /\ RowsStay
          /\ \E now \in RequestRecord : Steps(r, now) /\ now.step \in Over
      BY <1>3, ServedFacts
    <2> QED BY <2>1, RequestEnds
  <1>6. ASSUME NEW i \in DOMAIN rows, Reactivate(i)
        PROVE  InventoryType' /\ RowsStay
    <2>1. RowsOK' /\ RowsStay /\ UNCHANGED request
      BY <1>6, ActiveFacts DEF InventoryType, Reactivate
    <2>2. \A q \in Request : RequestOK(q)'
      BY <2>1, RequestKept DEF InventoryType
    <2> QED BY <2>1, <2>2 DEF InventoryType
  <1> QED BY <1>1, <1>2, <1>3, <1>6 DEF InventoryStep, InventoryNext, Served

\* The database keeps to its constraints.
LEMMA ConstraintsHold ==
    ASSUME InventoryType, Constraints(rows), InventoryStep
    PROVE  Constraints(rows')
  <1>1. ASSUME UNCHANGED rows PROVE Constraints(rows')
    BY <1>1
  <1>2. ASSUME NEW r \in Request, Deactivate(r) PROVE Constraints(rows')
    <2> DEFINE i == request[r].row
    <2>1. /\ i \in DOMAIN rows /\ DOMAIN rows' = DOMAIN rows /\ rows'[i].active = FALSE
          /\ \A j \in DOMAIN rows :
                 /\ rows'[j].body = rows[j].body /\ rows'[j].kind = rows[j].kind
                 /\ rows'[j].from = rows[j].from /\ rows'[j].until = rows[j].until
                 /\ rows'[j].group = rows[j].group /\ rows'[j].number = rows[j].number
          /\ \A j \in DOMAIN rows \ {i} : rows'[j] = rows[j]
      BY <1>2, DeactivateFacts, ActiveFacts DEF InventoryType
    <2> HIDE DEF i
    <2>2. /\ \A j \in DOMAIN rows' : Sound(rows'[j].kind, rows'[j].body)
          /\ \A j \in DOMAIN rows' : rows'[j].from < rows'[j].until
      BY <2>1 DEF Constraints
    <2>3. OneActiveVersion(rows')
      BY <2>1 DEF Constraints, OneActiveVersion, PeriodsDisjoint
    <2>4. NumbersUnique(rows')
      BY <2>1 DEF Constraints, NumbersUnique
    <2>5. SidesPinned(rows')
      <3> SUFFICES ASSUME NEW p \in DOMAIN rows, rows[p].kind = "PayloadPath"
                   PROVE  LET path == rows'[p].body
                          IN  /\ rows'[path.uplink].body.side = path.uplink_side
                              /\ rows'[path.downlink].body.side = path.downlink_side
        BY <2>1 DEF SidesPinned
      <3> DEFINE path == rows[p].body
      <3>1. /\ rows[path.uplink].body.side = path.uplink_side
            /\ rows[path.downlink].body.side = path.downlink_side
        BY DEF Constraints, SidesPinned
      <3>2. path \in PayloadPath /\ References(rows, path, "PayloadPath")
        BY DEF InventoryType, RowsOK, Record
      <3>3. path.uplink \in DOMAIN rows /\ path.downlink \in DOMAIN rows
        <4>1. path.uplink # None /\ path.downlink # None
          BY <3>2, EnteredAssumption DEF PayloadPath
        <4> QED BY <3>2, <4>1 DEF References, ReferenceFields, OfferedFields, IsRow
      <3> QED BY <2>1, <3>1, <3>3
    <2> QED BY <2>2, <2>3, <2>4, <2>5 DEF Constraints
  <1>3. ASSUME NEW r \in Request, Create(r) \/ Update(r) \/ Supersede(r)
        PROVE  Constraints(rows')
    BY <1>3 DEF Create, Update, Supersede
  <1>4. ASSUME NEW i \in DOMAIN rows, Reactivate(i) PROVE Constraints(rows')
    BY <1>4 DEF Reactivate
  <1>5. ASSUME NEW r \in Request, GiveUp(r) PROVE UNCHANGED rows
    BY <1>5 DEF GiveUp
  <1> QED BY <1>1, <1>2, <1>3, <1>4, <1>5
          DEF InventoryStep, InventoryNext, AskCreate, Submit, OpenForm, AskDeactivate,
              AskSupersede, Prune, Look, Add

\* The Beam changes neither rows nor requests.
LEMMA BuilderLeavesRows ==
    ASSUME NEW a \in Admin, BuilderStep(a)
    PROVE  UNCHANGED <<rows, request, shaken>>
  BY DEF BuilderStep, SubmitDirection, Judge, CommitDirection, Load, ValidateBeam, Clear, Block,
         Activate, DeactivateBeam, BuilderGivesUp, BuilderAt

LEMMA InventoryUnchanged ==
    ASSUME UNCHANGED <<rows, request>>
    PROVE  /\ InventoryType => InventoryType'
           /\ RowsStay
           /\ \A r : RequestOK(r)' <=> RequestOK(r)
  BY DEF InventoryType, RowsOK, RowsStay, RequestOK, AboutRow, Writes, References, IsRow

\* Of the inventory: types, foreign keys and constraints.
InventoryInv == InventoryType /\ Constraints(rows)

LEMMA InventoryInitially ==
    ASSUME Init
    PROVE  InventoryInv
  <1>1. rows = InitialRows /\ request = [r \in Request |-> Idle]
    BY DEF Init, InventoryInit
  <1>2. RowsOK /\ Constraints(rows)
    BY <1>1, EnteredAssumption DEF RowsOK
  <1>3. \A r \in Request : RequestOK(r)
    BY <1>1 DEF RequestOK, AboutRow, Writes, Idle
  <1>4. request \in [Request -> RequestRecord]
    BY <1>1 DEF RequestRecord
  <1> QED BY <1>2, <1>3, <1>4 DEF InventoryInv, InventoryType

LEMMA InventoryKept ==
    ASSUME InventoryInv, [Next]_vars
    PROVE  InventoryInv' /\ RowsStay
  <1>1. CASE InventoryStep
    BY <1>1, InventoryTypes, ConstraintsHold DEF InventoryInv
  <1>2. CASE UNCHANGED <<rows, request>>
    BY <1>2, InventoryUnchanged DEF InventoryInv
  <1>3. UNCHANGED vars => UNCHANGED <<rows, request>>
    BY DEF vars, inventoryVars
  <1> QED BY <1>1, <1>2, <1>3, BuilderLeavesRows DEF Next

\* Every payload path runs from an uplink to a downlink of its own direction, by
\* what its windows say now: the composite keys see to it whatever is edited,
\* superseded or written late (fk_path_uplink_window_side and its like).
THEOREM PathsStayOneWay == Spec => []PathsRunTheirWay
  <1>1. InventoryInv => PathsRunTheirWay
    <2> SUFFICES ASSUME InventoryInv, NEW i \in DOMAIN rows, rows[i].kind = "PayloadPath"
                 PROVE  LET path == rows[i].body
                        IN  /\ rows[path.uplink].body.side = UplinkSide(path.direction)
                            /\ rows[path.downlink].body.side = DownlinkSide(path.direction)
      BY DEF PathsRunTheirWay
    <2>1. Sound("PayloadPath", rows[i].body) /\ SidesPinned(rows)
      BY DEF InventoryInv, Constraints
    <2>2. PathSound(rows[i].body)
      BY <2>1 DEF Sound
    <2> QED BY <2>1, <2>2 DEF PathSound, SidesPinned
  <1>2. Init => InventoryInv
    BY InventoryInitially
  <1>3. InventoryInv /\ [Next]_vars => InventoryInv'
    BY InventoryKept
  <1> QED BY <1>1, <1>2, <1>3, PTL DEF Spec
-----------------------------------------------------------------------------
(***************************************************************************)
(* The types of the Beam.                                                  *)
(***************************************************************************)
FormRecord ==
    [enabled : BOOLEAN, path : Nat \cup {None}, uplink : Nat \cup {None},
     downlink : Nat \cup {None}, leg : SpectrumLeg \cup {None},
     polarizations : (PolarizationType \X PolarizationType) \cup {None},
     equipment : SUBSET Nat, resources : {None}]

BuilderRecord ==
    {Idle}
    \cup [step : {"submitted"}, direction : Direction, form : FormRecord,
          seen : ConfigurationState]
    \cup [step : {"judged"}, direction : Direction, chain : BeamDirectionConfig,
          state : ConfigurationState, saves : BOOLEAN]
    \cup [step : {"loaded"}, task : {"validate", "activate", "deactivate"},
          seen : ConfigurationState, activated_at : BOOLEAN]
    \cup [step : {"validated"}] \cup [step : {"cleared"}]

\* A chain refers to rows that are there.
ChainOK(chain) ==
    /\ HoldsRows(rows, chain)
    /\ \A s \in chain.resources : IsRow(rows, s, "SpectrumResource")

BuilderOK(a) ==
    /\ builder[a].step = "submitted" => HoldsRows(rows, builder[a].form)
    /\ builder[a].step = "judged" => ChainOK(builder[a].chain)

BeamType ==
    /\ beam \in Beam /\ chains \in [Direction -> BeamDirectionConfig]
    /\ \A d \in Direction : ChainOK(chains[d])
    /\ builder \in [Admin -> BuilderRecord] /\ \A a \in Admin : BuilderOK(a)

\* The state that validation finds is one there is.
LEMMA ValidateType ==
    ASSUME NEW rs, NEW b, NEW cs
    PROVE  Validate(rs, b, cs) \in ConfigurationState
  <1>1. CASE \/ Enabled(cs) = {}
             \/ \E d \in Enabled(cs) : ~IsConfigured(cs[d])
    BY <1>1 DEF Validate, StateFor, ConfigurationState
  <1>2. CASE Enabled(cs) # {} /\ \A d \in Enabled(cs) : IsConfigured(cs[d])
    BY <1>2 DEF Validate, StateFor, ConfigurationState
  <1> QED BY <1>1, <1>2

\* What a request of the builder carries at each of its steps.
LEMMA BuilderType ==
    ASSUME BeamType, NEW a \in Admin
    PROVE  /\ builder[a].step \in {"idle", "submitted", "judged", "loaded", "validated", "cleared"}
           /\ builder[a].step = "idle" <=> builder[a] = Idle
           /\ builder[a].step \in {"submitted", "judged"} => builder[a].direction \in Direction
           /\ builder[a].step = "submitted" => builder[a].form \in FormRecord
           /\ builder[a].step \in {"submitted", "loaded"} => builder[a].seen \in ConfigurationState
           /\ builder[a].step = "judged" => /\ builder[a].chain \in BeamDirectionConfig
                                            /\ builder[a].state \in ConfigurationState
                                            /\ builder[a].saves \in BOOLEAN
           /\ builder[a].step = "loaded" => /\ builder[a].task \in {"validate", "activate", "deactivate"}
                                            /\ builder[a].activated_at \in BOOLEAN
  <1>1. builder[a] \in BuilderRecord
    BY DEF BeamType
  <1> QED BY <1>1 DEF BuilderRecord, Idle

LEMMA HoldsRowsStay ==
    ASSUME RowsStay, NEW chain, HoldsRows(rows, chain)
    PROVE  HoldsRows(rows', chain)
  BY DEF RowsStay, HoldsRows, IsRow

LEMMA ChainStays ==
    ASSUME RowsStay, NEW chain, ChainOK(chain)
    PROVE  /\ HoldsRows(rows', chain)
           /\ \A s \in chain.resources : IsRow(rows', s, "SpectrumResource")
  BY HoldsRowsStay DEF RowsStay, ChainOK, IsRow

\* Rows come, and the Beam stays as it is.
LEMMA BeamStays ==
    ASSUME BeamType, RowsStay, UNCHANGED <<beam, chains, builder>>
    PROVE  BeamType'
  <1>1. \A d \in Direction : ChainOK(chains[d])'
    BY ChainStays DEF BeamType, ChainOK
  <1>2. \A a \in Admin : BuilderOK(a)'
    BY ChainStays, HoldsRowsStay DEF BeamType, BuilderOK, ChainOK
  <1> QED BY <1>1, <1>2 DEF BeamType

LEMMA BuilderMoves ==
    ASSUME BeamType, NEW a \in Admin, NEW now \in BuilderRecord, BuilderAt(a, now),
           beam' \in Beam, chains' \in [Direction -> BeamDirectionConfig],
           \A d \in Direction : ChainOK(chains'[d]),
           now.step = "submitted" => HoldsRows(rows, now.form),
           now.step = "judged" => ChainOK(now.chain)
    PROVE  BeamType'
  <1>1. /\ builder' = [builder EXCEPT ![a] = now] /\ UNCHANGED rows
        /\ builder \in [Admin -> BuilderRecord]
    BY DEF BuilderAt, BeamType
  <1>2. /\ builder' \in [Admin -> BuilderRecord] /\ builder'[a] = now
        /\ \A b \in Admin \ {a} : builder'[b] = builder[b]
    BY <1>1
  <1>3. \A chain : ChainOK(chain)' <=> ChainOK(chain')
    BY <1>1 DEF ChainOK
  <1>4. \A b \in Admin : BuilderOK(b)'
    BY <1>1, <1>2 DEF BeamType, BuilderOK, ChainOK
  <1>5. \A d \in Direction : ChainOK(chains[d])'
    BY <1>1 DEF ChainOK
  <1> QED BY <1>2, <1>4, <1>5 DEF BeamType

\* A request that carries nothing on, or is over.
LEMMA BuilderWaits ==
    ASSUME BeamType, NEW a \in Admin, NEW now, BuilderAt(a, now), beam' \in Beam,
           UNCHANGED chains,
           now \in {Idle, [step |-> "validated"], [step |-> "cleared"]}
    PROVE  BeamType'
  <1>1. now \in BuilderRecord /\ now.step \in {"idle", "validated", "cleared"}
    BY DEF BuilderRecord, Idle
  <1>2. chains' \in [Direction -> BeamDirectionConfig] /\ \A d \in Direction : ChainOK(chains'[d])
    BY DEF BeamType
  <1> QED BY <1>1, <1>2, BuilderMoves

\* The state of the Beam, stored.
LEMMA StateStored ==
    ASSUME beam \in Beam, NEW state \in ConfigurationState
    PROVE  /\ [beam EXCEPT !.state = state] \in Beam
           /\ [beam EXCEPT !.state = state].state = state
           /\ [beam EXCEPT !.state = state].active = beam.active
           /\ [beam EXCEPT !.state = state].activated_at = beam.activated_at
           /\ [beam EXCEPT !.state = state].satellite = beam.satellite
           /\ [beam EXCEPT !.state = state].band = beam.band
           /\ [beam EXCEPT !.state = state].permitted = beam.permitted
  BY DEF Beam

\* The direction as it was edited, with the assignments it still lacks.
LEMMA ConfiguredType ==
    ASSUME InventoryType, NEW chain \in BeamDirectionConfig, ChainOK(chain),
           NEW form \in FormRecord, HoldsRows(rows, form)
    PROVE  LET new == Configured(chain, form)
           IN  /\ new \in BeamDirectionConfig /\ ChainOK(new)
               /\ new.path = form.path /\ new.uplink = form.uplink
               /\ new.downlink = form.downlink /\ new.equipment = form.equipment
               /\ new.resources = chain.resources
  <1> DEFINE set == [chain EXCEPT !.enabled = form.enabled, !.path = form.path,
                                  !.uplink = form.uplink, !.downlink = form.downlink,
                                  !.leg = form.leg, !.polarizations = form.polarizations,
                                  !.equipment = form.equipment,
                                  !.resources = chain.resources]
             new == [set EXCEPT !.assignments = @ \cup DefaultAssignments(set)]
  <1>1. form.resources = None
    BY DEF FormRecord
  <1>2. /\ set \in BeamDirectionConfig /\ set.path = form.path /\ set.uplink = form.uplink
        /\ set.downlink = form.downlink /\ set.equipment = form.equipment
        /\ set.resources = chain.resources
    <2>1. /\ form.enabled \in BOOLEAN /\ form.path \in Nat \cup {None}
          /\ form.uplink \in Nat \cup {None} /\ form.downlink \in Nat \cup {None}
          /\ form.leg \in SpectrumLeg \cup {None} /\ form.equipment \in SUBSET Nat
          /\ form.polarizations \in (PolarizationType \X PolarizationType) \cup {None}
      BY DEF FormRecord
    <2> QED BY <2>1 DEF BeamDirectionConfig
  <1> HIDE DEF set
  <1>3. DefaultAssignments(set) \subseteq BeamSpectrumAssignment
    <2>1. CASE ~IsConfigured(set)
      BY <2>1 DEF DefaultAssignments
    <2>2. CASE IsConfigured(set)
      <3>1. set.path \in Nat /\ set.uplink \in Nat /\ set.downlink \in Nat
        BY <1>2, <2>2 DEF IsConfigured, BeamDirectionConfig
      <3>2. ASSUME NEW w \in {set.uplink, set.downlink}
            PROVE  [window |-> w, path |-> set.path, active |-> TRUE,
                    edges |-> <<rows[w].body.rf_start, rows[w].body.rf_end>>]
                       \in BeamSpectrumAssignment
        <4>1. IsRow(rows, w, "FrequencyWindow")
          <5>1. w # None
            BY <2>2, <3>2 DEF IsConfigured
          <5> QED BY <1>2, <3>2, <5>1 DEF HoldsRows
        <4>2. rows[w].body \in Record(rows[w].kind) /\ rows[w].kind = "FrequencyWindow"
          BY <4>1 DEF IsRow, InventoryType, RowsOK
        <4>3. rows[w].body \in FrequencyWindow
          BY <4>2 DEF Record
        <4>4. rows[w].body.rf_start \in Int /\ rows[w].body.rf_end \in Int /\ w \in Nat
          BY <3>1, <3>2, <4>3 DEF FrequencyWindow
        <4> QED BY <3>1, <4>4 DEF BeamSpectrumAssignment
      <3> QED BY <2>2, <3>2 DEF DefaultAssignments
    <2> QED BY <2>1, <2>2
  <1>4. /\ new \in BeamDirectionConfig /\ new.path = form.path /\ new.uplink = form.uplink
        /\ new.downlink = form.downlink /\ new.equipment = form.equipment
        /\ new.resources = chain.resources
    BY <1>2, <1>3 DEF BeamDirectionConfig
  <1>5. Configured(chain, form) = new
    BY <1>1 DEF Configured, set
  <1> HIDE DEF new
  <1>6. ChainOK(new)
    BY <1>4 DEF ChainOK, HoldsRows
  <1> QED BY <1>4, <1>5, <1>6

\* A payload path is between windows that are there.
LEMMA PathWindows ==
    ASSUME InventoryType, NEW i, IsRow(rows, i, "PayloadPath")
    PROVE  /\ rows[i].body \in PayloadPath
           /\ IsRow(rows, rows[i].body.uplink, "FrequencyWindow")
           /\ IsRow(rows, rows[i].body.downlink, "FrequencyWindow")
           /\ rows[i].body.uplink # None /\ rows[i].body.downlink # None
  <1>1. /\ i \in DOMAIN rows /\ rows[i].body \in Record("PayloadPath")
        /\ References(rows, rows[i].body, "PayloadPath")
    BY DEF IsRow, InventoryType, RowsOK
  <1>2. rows[i].body \in PayloadPath
    BY <1>1 DEF Record
  <1>3. rows[i].body.uplink # None /\ rows[i].body.downlink # None
    BY <1>2, EnteredAssumption DEF PayloadPath
  <1>4. {"uplink", "downlink"} \subseteq ReferenceFields("PayloadPath")
    BY DEF ReferenceFields, OfferedFields
  <1>5. Target("uplink") = "FrequencyWindow" /\ Target("downlink") = "FrequencyWindow"
    BY DEF Target
  <1> QED BY <1>1, <1>2, <1>3, <1>4, <1>5 DEF References

LEMMA WithWindowsType ==
    ASSUME InventoryType, NEW d \in Direction, NEW form \in DirectionForm,
           DirectionFormValid(d, form)
    PROVE  /\ WithWindows(form) \in FormRecord /\ HoldsRows(rows, WithWindows(form))
           /\ WithWindows(form).path = form.path /\ WithWindows(form).equipment = form.equipment
  <1> DEFINE new == WithWindows(form)
             up   == IF form.path = None THEN None ELSE rows[form.path].body.uplink
             down == IF form.path = None THEN None ELSE rows[form.path].body.downlink
  <1>1. /\ form.enabled \in BOOLEAN /\ form.path \in Nat \cup {None}
        /\ form.leg \in SpectrumLeg \cup {None} /\ form.equipment \in SUBSET Nat
        /\ form.polarizations \in (PolarizationType \X PolarizationType) \cup {None}
        /\ form.resources \in {None}
    BY FormAssumption
  <1>2. form.path # None => IsRow(rows, form.path, "PayloadPath")
    BY DEF DirectionFormValid, PathOffered
  <1>3. /\ \A e \in form.equipment : IsRow(rows, e, "EquipmentProfile")
    BY DEF DirectionFormValid
  <1>4. up \in Nat \cup {None} /\ down \in Nat \cup {None}
    BY <1>2, PathWindows DEF PayloadPath
  <1>5. \A w \in {up, down} \ {None} : IsRow(rows, w, "FrequencyWindow")
    BY <1>2, PathWindows
  <1> HIDE DEF up, down
  <1>6. new = [form EXCEPT !.uplink = up, !.downlink = down]
    BY DEF WithWindows, up, down
  <1> HIDE DEF new
  <1>7. /\ new \in FormRecord /\ new.path = form.path /\ new.uplink = up /\ new.downlink = down
        /\ new.equipment = form.equipment
    BY <1>1, <1>4, <1>6, FormAssumption DEF FormRecord
  <1>8. HoldsRows(rows, new)
    BY <1>2, <1>3, <1>5, <1>7 DEF HoldsRows
  <1> QED BY <1>7, <1>8 DEF new

LEMMA SubmitDirectionTypes ==
    ASSUME InventoryType, BeamType, NEW a \in Admin, NEW d \in Direction,
           NEW form \in DirectionForm, SubmitDirection(a, d, form)
    PROVE  BeamType'
  <1> DEFINE now == [step |-> "submitted", direction |-> d, form |-> WithWindows(form),
                     seen |-> beam.state]
  <1>1. BuilderAt(a, now) /\ UNCHANGED <<beam, chains>> /\ DirectionFormValid(d, form)
    BY DEF SubmitDirection
  <1>2. WithWindows(form) \in FormRecord /\ HoldsRows(rows, WithWindows(form))
    BY <1>1, WithWindowsType
  <1>3. beam.state \in ConfigurationState
    BY DEF BeamType, Beam
  <1>4. now \in BuilderRecord
    BY <1>2, <1>3 DEF BuilderRecord
  <1>5. now.step = "submitted" /\ now.form = WithWindows(form)
    OBVIOUS
  <1>6. /\ beam' \in Beam /\ chains' \in [Direction -> BeamDirectionConfig]
        /\ \A c \in Direction : ChainOK(chains'[c])
    BY <1>1 DEF BeamType
  <1> HIDE DEF now
  <1> QED BY <1>1, <1>2, <1>4, <1>5, <1>6, BuilderMoves

JudgedChain(a) == Configured(chains[builder[a].direction], builder[a].form)

JudgedState(a) == Validate(rows, beam, JudgedChains(builder[a].direction, JudgedChain(a)))

JudgedNow(a) ==
    [step |-> "judged", direction |-> builder[a].direction, chain |-> JudgedChain(a),
     state |-> JudgedState(a), saves |-> JudgedState(a) # builder[a].seen]

LEMMA JudgeTypes ==
    ASSUME InventoryType, BeamType, NEW a \in Admin, Judge(a)
    PROVE  /\ BeamType' /\ BuilderAt(a, JudgedNow(a)) /\ UNCHANGED <<beam, chains, justified>>
           /\ builder[a].step = "submitted" /\ builder'[a] = JudgedNow(a)
           /\ JudgedChain(a) \in BeamDirectionConfig
           /\ JudgedChain(a).resources = chains[builder[a].direction].resources
           /\ JudgedChain(a).equipment = builder[a].form.equipment
           /\ JudgedChain(a).path = builder[a].form.path
           /\ ChainOK(JudgedChain(a))
  <1>1. /\ builder[a].step = "submitted" /\ BuilderAt(a, JudgedNow(a))
        /\ UNCHANGED <<beam, chains, justified>>
    BY DEF Judge, JudgedNow, JudgedChain, JudgedState
  <1>2. /\ builder[a].direction \in Direction /\ builder[a].form \in FormRecord
        /\ HoldsRows(rows, builder[a].form)
    BY <1>1, BuilderType DEF BeamType, BuilderOK
  <1>3. /\ chains[builder[a].direction] \in BeamDirectionConfig
        /\ ChainOK(chains[builder[a].direction])
    BY <1>2 DEF BeamType
  <1>4. /\ JudgedChain(a) \in BeamDirectionConfig /\ ChainOK(JudgedChain(a))
        /\ JudgedChain(a).resources = chains[builder[a].direction].resources
        /\ JudgedChain(a).equipment = builder[a].form.equipment
        /\ JudgedChain(a).path = builder[a].form.path
    BY <1>2, <1>3, ConfiguredType DEF JudgedChain
  <1>5. JudgedState(a) \in ConfigurationState
    BY ValidateType DEF JudgedState
  <1>6. JudgedNow(a) \in BuilderRecord
    BY <1>2, <1>4, <1>5 DEF BuilderRecord, JudgedNow
  <1>7. JudgedNow(a).step = "judged" /\ JudgedNow(a).chain = JudgedChain(a)
    BY DEF JudgedNow
  <1>8. /\ beam' \in Beam /\ chains' \in [Direction -> BeamDirectionConfig]
        /\ \A c \in Direction : ChainOK(chains'[c])
    BY <1>1 DEF BeamType
  <1>9. BeamType'
    BY <1>1, <1>4, <1>6, <1>7, <1>8, BuilderMoves
  <1>10. builder'[a] = JudgedNow(a)
    BY <1>1 DEF BuilderAt, BeamType
  <1> QED BY <1>1, <1>4, <1>9, <1>10

LEMMA CommitDirectionTypes ==
    ASSUME BeamType, NEW a \in Admin, CommitDirection(a)
    PROVE  /\ BeamType' /\ builder[a].step = "judged" /\ BuilderAt(a, Idle)
           /\ builder[a].direction \in Direction
           /\ chains' = [chains EXCEPT ![builder[a].direction] = builder[a].chain]
           /\ beam'.active = beam.active /\ beam'.activated_at = beam.activated_at
           /\ beam'.satellite = beam.satellite /\ beam'.band = beam.band
           /\ beam'.permitted = beam.permitted
  <1>1. /\ builder[a].step = "judged" /\ BuilderAt(a, Idle)
        /\ chains' = [chains EXCEPT ![builder[a].direction] = builder[a].chain]
        /\ beam' = IF builder[a].saves THEN [beam EXCEPT !.state = builder[a].state] ELSE beam
    BY DEF CommitDirection
  <1>2. /\ builder[a].direction \in Direction /\ builder[a].chain \in BeamDirectionConfig
        /\ builder[a].state \in ConfigurationState /\ ChainOK(builder[a].chain)
    BY <1>1, BuilderType DEF BeamType, BuilderOK
  <1>3. /\ chains' \in [Direction -> BeamDirectionConfig]
        /\ \A c \in Direction : ChainOK(chains'[c])
    BY <1>1, <1>2 DEF BeamType
  <1>4. beam \in Beam
    BY DEF BeamType
  <1>5. /\ beam' \in Beam /\ beam'.active = beam.active /\ beam'.activated_at = beam.activated_at
        /\ beam'.satellite = beam.satellite /\ beam'.band = beam.band
        /\ beam'.permitted = beam.permitted
    BY <1>1, <1>2, <1>4, StateStored
  <1>6. Idle \in BuilderRecord /\ Idle.step = "idle"
    BY DEF BuilderRecord, Idle
  <1>7. BeamType'
    BY <1>1, <1>3, <1>5, <1>6, BuilderMoves
  <1> QED BY <1>1, <1>2, <1>5, <1>7

\* The steps that validate, activate and deactivate leave the chains.
LEMMA OtherBuilderTypes ==
    ASSUME BeamType, NEW a \in Admin,
           \/ \E task \in {"validate", "activate", "deactivate"} : Load(a, task)
           \/ ValidateBeam(a) \/ Clear(a) \/ Block(a) \/ Activate(a) \/ DeactivateBeam(a)
           \/ BuilderGivesUp(a)
    PROVE  /\ BeamType' /\ UNCHANGED chains
           /\ beam'.satellite = beam.satellite /\ beam'.band = beam.band
           /\ beam'.permitted = beam.permitted
  <1>0. beam \in Beam /\ UNCHANGED chains
    BY DEF BeamType, Load, ValidateBeam, Clear, Block, Activate, DeactivateBeam, BuilderGivesUp
  <1>1. ASSUME NEW task \in {"validate", "activate", "deactivate"}, Load(a, task)
        PROVE  BeamType' /\ UNCHANGED beam
    <2> DEFINE now == [step |-> "loaded", task |-> task, seen |-> beam.state,
                       activated_at |-> beam.activated_at]
    <2>1. BuilderAt(a, now) /\ UNCHANGED beam
      BY <1>1 DEF Load
    <2>2. now \in BuilderRecord
      BY <1>0 DEF BuilderRecord, Beam
    <2>3. now.step = "loaded"
      OBVIOUS
    <2>4. /\ beam' \in Beam /\ chains' \in [Direction -> BeamDirectionConfig]
          /\ \A c \in Direction : ChainOK(chains'[c])
      BY <1>0, <2>1 DEF BeamType
    <2> HIDE DEF now
    <2> QED BY <2>1, <2>2, <2>3, <2>4, BuilderMoves
  <1>2. ASSUME ValidateBeam(a)
        PROVE  /\ BeamType' /\ beam'.satellite = beam.satellite /\ beam'.band = beam.band
               /\ beam'.permitted = beam.permitted
    <2> DEFINE state == Validate(rows, beam, chains)
    <2>1. state \in ConfigurationState
      BY ValidateType
    <2>2. beam' = Stored(builder[a].seen, state)
      BY <1>2 DEF ValidateBeam
    <2>3. BuilderAt(a, IF builder[a].task = "activate" THEN [step |-> "validated"] ELSE Idle)
      BY <1>2 DEF ValidateBeam
    <2> HIDE DEF state
    <2>4. /\ beam' \in Beam /\ beam'.satellite = beam.satellite /\ beam'.band = beam.band
          /\ beam'.permitted = beam.permitted
      BY <1>0, <2>1, <2>2, StateStored DEF Stored
    <2> QED BY <1>0, <2>3, <2>4, BuilderWaits
  <1>3. ASSUME Clear(a) \/ Block(a) \/ BuilderGivesUp(a) PROVE BeamType' /\ UNCHANGED beam
    <2>1. BuilderAt(a, [step |-> "cleared"]) \/ BuilderAt(a, Idle)
      BY <1>3 DEF Clear, Block, BuilderGivesUp
    <2>2. UNCHANGED beam
      BY <1>3 DEF Clear, Block, BuilderGivesUp
    <2> QED BY <1>0, <2>1, <2>2, BuilderWaits
  <1>4. ASSUME Activate(a)
        PROVE  /\ BeamType' /\ beam'.satellite = beam.satellite /\ beam'.band = beam.band
               /\ beam'.permitted = beam.permitted
    <2>1. BuilderAt(a, Idle) /\ beam' = [beam EXCEPT !.active = TRUE, !.activated_at = TRUE]
      BY <1>4 DEF Activate
    <2>2. /\ beam' \in Beam /\ beam'.satellite = beam.satellite /\ beam'.band = beam.band
          /\ beam'.permitted = beam.permitted
      BY <1>0, <2>1 DEF Beam
    <2> QED BY <1>0, <2>1, <2>2, BuilderWaits
  <1>5. ASSUME DeactivateBeam(a)
        PROVE  /\ BeamType' /\ beam'.satellite = beam.satellite /\ beam'.band = beam.band
               /\ beam'.permitted = beam.permitted
    <2>1. /\ BuilderAt(a, Idle) /\ builder[a].step = "loaded"
          /\ beam' = [beam EXCEPT !.active = FALSE, !.activated_at = builder[a].activated_at]
      BY <1>5 DEF DeactivateBeam, Deactivated
    <2>2. builder[a].activated_at \in BOOLEAN
      BY <2>1, BuilderType
    <2>3. /\ beam' \in Beam /\ beam'.satellite = beam.satellite /\ beam'.band = beam.band
          /\ beam'.permitted = beam.permitted
      BY <1>0, <2>1, <2>2 DEF Beam
    <2> QED BY <1>0, <2>1, <2>3, BuilderWaits
  <1> QED BY <1>0, <1>1, <1>2, <1>3, <1>4, <1>5

\* All that the types say.
TypeInv == InventoryInv /\ BeamType

LEMMA ChainsInitially ==
    ASSUME Init
    PROVE  /\ chains \in [Direction -> BeamDirectionConfig]
           /\ \A d \in Direction : ChainOK(chains[d])
           /\ \A d \in Direction : \A e \in chains[d].equipment : rows[e].active
  <1>1. rows = InitialRows /\ chains \in {NewChains, InitialChains}
    BY DEF Init, InventoryInit
  <1>2. CASE chains = InitialChains
    BY <1>1, <1>2, ConfiguredAssumption DEF ChainOK
  <1>3. CASE chains = NewChains
    <2>1. \A d \in Direction : /\ Unconfigured(d) \in BeamDirectionConfig
                               /\ Unconfigured(d).path = None /\ Unconfigured(d).uplink = None
                               /\ Unconfigured(d).downlink = None
                               /\ Unconfigured(d).equipment = {}
                               /\ Unconfigured(d).resources = {}
      <3> TAKE d \in Direction
      <3>1. CanonicalLegDefault(d) \in SpectrumLeg
        BY DEF CanonicalLegDefault, SpectrumLeg
      <3> QED BY <3>1 DEF Unconfigured, BeamDirectionConfig
    <2>2. chains \in [Direction -> BeamDirectionConfig]
      BY <1>3, <2>1 DEF NewChains
    <2>3. \A d \in Direction : chains[d] = Unconfigured(d)
      BY <1>3 DEF NewChains
    <2> QED BY <2>1, <2>2, <2>3 DEF ChainOK, HoldsRows
  <1> QED BY <1>1, <1>2, <1>3

LEMMA BeamInitially ==
    ASSUME Init
    PROVE  /\ beam \in Beam /\ beam.state = Validate(rows, InitialBeam, chains)
           /\ beam.satellite = InitialBeam.satellite /\ beam.band = InitialBeam.band
           /\ beam.permitted = InitialBeam.permitted
           /\ beam.active = FALSE /\ beam.activated_at = FALSE
  <1> DEFINE state == Validate(rows, InitialBeam, chains)
             new == NewBeam(InitialBeam.satellite, InitialBeam.band, InitialBeam.permitted)
  <1>1. beam = [new EXCEPT !.state = state]
    BY DEF Init
  <1>2. state \in ConfigurationState
    BY ValidateType
  <1>3. /\ new \in Beam /\ new.satellite = InitialBeam.satellite /\ new.band = InitialBeam.band
        /\ new.permitted = InitialBeam.permitted /\ new.active = FALSE
        /\ new.activated_at = FALSE
    BY ConfiguredAssumption DEF NewBeam, Beam, ConfigurationState
  <1> HIDE DEF state, new
  <1>4. /\ beam \in Beam /\ beam.state = state
        /\ beam.satellite = InitialBeam.satellite /\ beam.band = InitialBeam.band
        /\ beam.permitted = InitialBeam.permitted
        /\ beam.active = FALSE /\ beam.activated_at = FALSE
    BY <1>1, <1>2, <1>3 DEF Beam
  <1> QED BY <1>4 DEF state

LEMMA TypesInitially ==
    ASSUME Init
    PROVE  TypeInv
  <1>1. builder = [a \in Admin |-> Idle]
    BY DEF Init
  <1>2. builder \in [Admin -> BuilderRecord] /\ \A a \in Admin : BuilderOK(a)
    BY <1>1 DEF BuilderRecord, BuilderOK, Idle
  <1> QED BY <1>2, InventoryInitially, ChainsInitially, BeamInitially DEF TypeInv, BeamType

LEMMA TypesKept ==
    ASSUME TypeInv, [Next]_vars
    PROVE  TypeInv' /\ RowsStay
  <1>0. InventoryType /\ BeamType
    BY DEF TypeInv, InventoryInv
  <1>1. InventoryInv' /\ RowsStay
    BY InventoryKept DEF TypeInv
  <1>2. CASE InventoryStep
    BY <1>0, <1>1, <1>2, BeamStays DEF InventoryStep, TypeInv
  <1>3. ASSUME NEW a \in Admin, BuilderStep(a) PROVE BeamType'
    BY <1>0, <1>3, SubmitDirectionTypes, JudgeTypes, CommitDirectionTypes, OtherBuilderTypes
       DEF BuilderStep
  <1>4. CASE UNCHANGED vars
    BY <1>0, <1>1, <1>4, BeamStays DEF vars, beamVars, TypeInv
  <1> QED BY <1>1, <1>2, <1>3, <1>4 DEF Next, TypeInv

LEMMA TypesHold == Spec => []TypeInv
  <1>1. TypeInv /\ [Next]_vars => TypeInv'
    BY TypesKept
  <1> QED BY <1>1, TypesInitially, PTL DEF Spec

\* Rows are of their kinds, and the Beam and its chains are what the tables hold.
THEOREM TypeCorrect == Spec => []TypeOK
  <1>1. TypeInv => TypeOK
    <2> SUFFICES ASSUME TypeInv PROVE TypeOK
      OBVIOUS
    <2>1. \A i \in DOMAIN rows : rows[i] \in Row /\ rows[i].body \in Record(rows[i].kind)
      BY DEF TypeInv, InventoryInv, InventoryType, RowsOK
    <2> QED BY <2>1, RowType DEF TypeOK, TypeInv, BeamType
  <1> QED BY <1>1, TypesHold, PTL
-----------------------------------------------------------------------------
(***************************************************************************)
(* The evidence of an activation.                                          *)
(***************************************************************************)
\* A Beam that is, or is about to be, active has a justification; and a
\* request that loaded a Beam before it was activated has overlapped since.
EvidenceInv ==
    /\ beam.active => justified # None
    /\ \A a \in Admin : builder[a].step = "cleared" => justified # None
    /\ \A a \in Admin : builder[a].step = "loaded" /\ beam.activated_at =>
           builder[a].activated_at \/ overlapped

LEMMA OthersWait ==
    ASSUME BeamType, NEW a \in Admin, NEW now, BuilderAt(a, now)
    PROVE  /\ builder'[a] = now /\ \A b \in Admin \ {a} : builder'[b] = builder[b]
           /\ overlapped => overlapped'
           /\ \A b \in Admin \ {a} : builder[b].step # "idle" => overlapped'
  <1>1. \A b \in Admin : builder[b].step # "idle" => builder[b] # Idle
    BY BuilderType
  <1> QED BY <1>1 DEF BuilderAt, BeamType

\* A step after which a Beam is active, recorded, and asked about as before.
LEMMA EvidenceUndisturbed ==
    ASSUME BeamType, EvidenceInv, NEW a \in Admin, NEW now, BuilderAt(a, now),
           now.step \notin {"cleared", "loaded"}, UNCHANGED justified,
           beam'.active => beam.active, beam'.activated_at => beam.activated_at
    PROVE  EvidenceInv'
  <1>1. /\ builder'[a] = now /\ \A b \in Admin \ {a} : builder'[b] = builder[b]
        /\ overlapped => overlapped'
    BY OthersWait
  <1>2. \A b \in Admin : builder'[b].step \in {"cleared", "loaded"} => builder'[b] = builder[b]
    BY <1>1
  <1> QED BY <1>1, <1>2 DEF EvidenceInv

\* What a step does to the evidence.
Evident ==
    /\ beam'.active => justified' # None
    /\ beam.activated_at /\ ~beam'.activated_at => overlapped'

LEMMA EvidenceSteps ==
    ASSUME TypeInv, EvidenceInv, NEW a \in Admin, BuilderStep(a)
    PROVE  EvidenceInv' /\ Evident
  <1>0. BeamType /\ beam \in Beam /\ InventoryType
    BY DEF TypeInv, BeamType, InventoryInv
  <1>1. ASSUME NEW d \in Direction, NEW form \in DirectionForm, SubmitDirection(a, d, form)
        PROVE  EvidenceInv' /\ Evident
    <2> DEFINE now == [step |-> "submitted", direction |-> d, form |-> WithWindows(form),
                       seen |-> beam.state]
    <2>1. BuilderAt(a, now) /\ UNCHANGED <<beam, chains, justified>>
      BY <1>1 DEF SubmitDirection
    <2>2. now.step \notin {"cleared", "loaded"}
      OBVIOUS
    <2> HIDE DEF now
    <2> QED BY <1>0, <2>1, <2>2, EvidenceUndisturbed DEF Evident, EvidenceInv
  <1>2. CASE Judge(a)
    <2>1. BuilderAt(a, JudgedNow(a)) /\ UNCHANGED <<beam, chains, justified>>
      BY <1>0, <1>2, JudgeTypes
    <2>2. JudgedNow(a).step \notin {"cleared", "loaded"}
      BY DEF JudgedNow
    <2> QED BY <1>0, <2>1, <2>2, EvidenceUndisturbed DEF Evident, EvidenceInv
  <1>3. CASE CommitDirection(a)
    <2>1. /\ BuilderAt(a, Idle) /\ beam'.active = beam.active
          /\ beam'.activated_at = beam.activated_at
      BY <1>0, <1>3, CommitDirectionTypes
    <2>2. UNCHANGED justified
      BY <1>3 DEF CommitDirection
    <2>3. Idle.step \notin {"cleared", "loaded"}
      BY DEF Idle
    <2> QED BY <1>0, <2>1, <2>2, <2>3, EvidenceUndisturbed DEF Evident, EvidenceInv
  <1>4. ASSUME NEW task \in {"validate", "activate", "deactivate"}, Load(a, task)
        PROVE  EvidenceInv' /\ Evident
    <2> DEFINE now == [step |-> "loaded", task |-> task, seen |-> beam.state,
                       activated_at |-> beam.activated_at]
    <2>1. BuilderAt(a, now) /\ UNCHANGED <<beam, justified>>
      BY <1>4 DEF Load
    <2>2. /\ builder'[a] = now /\ \A b \in Admin \ {a} : builder'[b] = builder[b]
          /\ overlapped => overlapped'
      BY <1>0, <2>1, OthersWait
    <2>3. now.step = "loaded" /\ now.activated_at = beam.activated_at
      OBVIOUS
    <2> HIDE DEF now
    <2> QED BY <2>1, <2>2, <2>3 DEF EvidenceInv, Evident
  <1>5. CASE ValidateBeam(a)
    <2> DEFINE state == Validate(rows, beam, chains)
               now == IF builder[a].task = "activate" THEN [step |-> "validated"] ELSE Idle
    <2>1. /\ beam' = Stored(builder[a].seen, state) /\ BuilderAt(a, now) /\ UNCHANGED justified
      BY <1>5 DEF ValidateBeam
    <2>2. state \in ConfigurationState
      BY ValidateType
    <2>3. now.step \notin {"cleared", "loaded"}
      BY DEF Idle
    <2> HIDE DEF state, now
    <2>4. beam'.active = beam.active /\ beam'.activated_at = beam.activated_at
      BY <1>0, <2>1, <2>2, StateStored DEF Stored
    <2> QED BY <1>0, <2>1, <2>3, <2>4, EvidenceUndisturbed DEF Evident, EvidenceInv
  <1>6. CASE Clear(a)
    <2> DEFINE now == [step |-> "cleared"]
    <2>1. /\ BuilderAt(a, now) /\ UNCHANGED beam /\ justified' = Outcome(rows, beam, chains)
      BY <1>6 DEF Clear
    <2>2. justified' # None
      BY <2>1, NoneAssumption DEF Outcome
    <2>3. /\ builder'[a] = now /\ \A b \in Admin \ {a} : builder'[b] = builder[b]
          /\ overlapped => overlapped'
      BY <1>0, <2>1, OthersWait
    <2> QED BY <2>1, <2>2, <2>3 DEF EvidenceInv, Evident
  <1>7. CASE Block(a) \/ BuilderGivesUp(a)
    <2>1. BuilderAt(a, Idle) /\ UNCHANGED <<beam, justified>>
      BY <1>7 DEF Block, BuilderGivesUp
    <2>2. Idle.step \notin {"cleared", "loaded"}
      BY DEF Idle
    <2> QED BY <1>0, <2>1, <2>2, EvidenceUndisturbed DEF Evident, EvidenceInv
  <1>8. CASE Activate(a)
    <2>1. /\ BuilderAt(a, Idle) /\ builder[a].step = "cleared" /\ UNCHANGED justified
          /\ beam' = [beam EXCEPT !.active = TRUE, !.activated_at = TRUE]
      BY <1>8 DEF Activate
    <2>2. justified # None
      BY <2>1 DEF EvidenceInv
    <2>3. /\ builder'[a] = Idle /\ \A b \in Admin \ {a} : builder'[b] = builder[b]
          /\ \A b \in Admin \ {a} : builder[b].step # "idle" => overlapped'
      BY <1>0, <2>1, OthersWait
    <2>4. beam'.activated_at = TRUE
      BY <1>0, <2>1 DEF Beam
    <2> QED BY <2>1, <2>2, <2>3, <2>4 DEF EvidenceInv, Evident, Idle
  <1>9. CASE DeactivateBeam(a)
    <2>1. /\ BuilderAt(a, Idle) /\ builder[a].step = "loaded" /\ UNCHANGED justified
          /\ beam' = [beam EXCEPT !.active = FALSE, !.activated_at = builder[a].activated_at]
      BY <1>9 DEF DeactivateBeam, Deactivated
    <2>2. /\ builder'[a] = Idle /\ \A b \in Admin \ {a} : builder'[b] = builder[b]
          /\ overlapped => overlapped'
          /\ \A b \in Admin \ {a} : builder[b].step # "idle" => overlapped'
      BY <1>0, <2>1, OthersWait
    <2>3. beam'.active = FALSE /\ beam'.activated_at = builder[a].activated_at
      BY <1>0, <2>1 DEF Beam
    <2> QED BY <2>1, <2>2, <2>3 DEF EvidenceInv, Evident, Idle
  <1> QED BY <1>1, <1>2, <1>3, <1>4, <1>5, <1>6, <1>7, <1>8, <1>9 DEF BuilderStep

LEMMA EvidenceKept ==
    ASSUME TypeInv, EvidenceInv, [Next]_vars
    PROVE  EvidenceInv' /\ [Evident]_vars
  <1>1. CASE UNCHANGED <<beam, builder, justified, overlapped>>
    BY <1>1 DEF EvidenceInv, Evident
  <1>2. InventoryStep \/ UNCHANGED vars => UNCHANGED <<beam, builder, justified, overlapped>>
    BY DEF InventoryStep, vars, beamVars
  <1> QED BY <1>1, <1>2, EvidenceSteps DEF Next

\* No Beam is active without a validation run kept as its justification, and only
\* a deactivation that overlapped with an activation loses the record of it
\* (set_active, ck_beam_active_has_activation_record).
THEOREM EvidenceRemains == Spec => EvidenceStays
  <1>1. Init => EvidenceInv
    <2> SUFFICES ASSUME Init PROVE EvidenceInv
      OBVIOUS
    <2>1. \A a \in Admin : builder[a].step = "idle"
      BY DEF Init, Idle
    <2>2. beam.active = FALSE /\ beam.activated_at = FALSE
      BY BeamInitially
    <2> QED BY <2>1, <2>2 DEF EvidenceInv
  <1>2. TypeInv /\ EvidenceInv /\ [Next]_vars => EvidenceInv' /\ [Evident]_vars
    BY EvidenceKept
  <1> QED BY <1>1, <1>2, TypesHold, PTL DEF Spec, EvidenceStays, Evident
-----------------------------------------------------------------------------
(***************************************************************************)
(* What becomes of a row, and of what a form shows.                        *)
(***************************************************************************)
Succeeded(i) ==
    \E j \in DOMAIN rows : rows[j].group = rows[i].group /\ rows[j].number = rows[i].number + 1

\* A row that no edit is written to.
Kept(i) ==
    /\ rows'[i].version = rows[i].version /\ rows'[i].body = rows[i].body
    /\ rows'[i].from = rows[i].from
    /\ rows'[i].until # rows[i].until => Succeeded(i)'

Edited(i) == \E r \in Request : Update(r) /\ request[r].row = i

LEMMA RowFate ==
    ASSUME InventoryType, InventoryStep, NEW i \in DOMAIN rows
    PROVE  /\ rows'[i].kind = rows[i].kind /\ rows'[i].group = rows[i].group
           /\ rows'[i].number = rows[i].number
           /\ Kept(i) \/ Edited(i)
  <1>1. CASE UNCHANGED rows
    BY <1>1 DEF Kept
  <1>2. ASSUME NEW r \in Request, Create(r)
        PROVE  rows'[i] = rows[i]
    BY <1>2, CreateFacts
  <1>3. ASSUME NEW r \in Request, Update(r)
        PROVE  /\ rows'[i].kind = rows[i].kind /\ rows'[i].group = rows[i].group
               /\ rows'[i].number = rows[i].number
               /\ rows'[i] = rows[i] \/ request[r].row = i
    BY <1>3, UpdateFacts
  <1>4. ASSUME NEW r \in Request, Supersede(r)
        PROVE  /\ rows'[i].kind = rows[i].kind /\ rows'[i].group = rows[i].group
               /\ rows'[i].number = rows[i].number /\ Kept(i)
    <2>1. /\ rows'[i].kind = rows[i].kind /\ rows'[i].group = rows[i].group
          /\ rows'[i].number = rows[i].number /\ rows'[i].version = rows[i].version
          /\ rows'[i].body = rows[i].body /\ rows'[i].from = rows[i].from
          /\ i # request[r].row => rows'[i] = rows[i]
      BY <1>4, SupersedeFacts
    <2>2. /\ Len(rows) + 1 \in DOMAIN rows'
          /\ rows'[Len(rows) + 1].group = rows[request[r].row].group
          /\ rows'[Len(rows) + 1].number = rows[request[r].row].number + 1
      BY <1>4, SupersedeFacts
    <2>3. i = request[r].row => Succeeded(i)'
      BY <2>1, <2>2 DEF Succeeded
    <2> QED BY <2>1, <2>3 DEF Kept
  <1>5. ASSUME NEW r \in Request, Deactivate(r)
        PROVE  /\ rows'[i].kind = rows[i].kind /\ rows'[i].group = rows[i].group
               /\ rows'[i].number = rows[i].number /\ Kept(i)
    BY <1>5, DeactivateFacts, ActiveFacts DEF Kept, InventoryType
  <1>6. ASSUME NEW j \in DOMAIN rows, Reactivate(j)
        PROVE  /\ rows'[i].kind = rows[i].kind /\ rows'[i].group = rows[i].group
               /\ rows'[i].number = rows[i].number /\ Kept(i)
    <2>1. rows' = [rows EXCEPT ![j].active = TRUE]
      BY <1>6 DEF Reactivate
    <2> QED BY <2>1, ActiveFacts DEF Kept, InventoryType
  <1>7. rows'[i] = rows[i] => Kept(i)
    BY DEF Kept
  <1> QED BY <1>1, <1>2, <1>3, <1>4, <1>5, <1>6, <1>7
          DEF InventoryStep, InventoryNext, AskCreate, Submit, OpenForm, AskDeactivate,
              AskSupersede, GiveUp, Prune, Look, Add, Edited

\* A form that is open shows what it showed, or has just been opened.
Shows(q) == request[q].step \in {"form", "checked"}

ShownAsBefore(q) ==
    Shows(q)' => \/ /\ Shows(q) /\ request'[q].row = request[q].row
                    /\ request'[q].shown = request[q].shown
                 \/ request'[q].shown = rows[request'[q].row] /\ UNCHANGED rows

LEMMA ShownFate ==
    ASSUME InventoryType, InventoryStep, NEW q \in Request
    PROVE  ShownAsBefore(q)
  <1>1. ASSUME NEW r \in Request, NEW now, Steps(r, now),
               now.step \notin {"form", "checked"}
        PROVE  ShownAsBefore(q)
    BY <1>1 DEF ShownAsBefore, Shows, Steps, InventoryType
  <1>2. CASE UNCHANGED request
    BY <1>2 DEF ShownAsBefore, Shows
  <1>3. ASSUME NEW r \in Request, NEW values \in Submitted, Submit(r, values, HeldByBeams)
        PROVE  ShownAsBefore(q)
    <2> DEFINE now == [step |-> "checked", row |-> request[r].row, shown |-> request[r].shown,
                       values |-> values]
    <2>1. request' = [request EXCEPT ![r] = now] /\ request[r].step = "form"
      BY <1>3 DEF Submit, Steps
    <2>2. now.row = request[r].row /\ now.shown = request[r].shown
      OBVIOUS
    <2> HIDE DEF now
    <2> QED BY <2>1, <2>2 DEF ShownAsBefore, Shows, InventoryType
  <1>4. ASSUME NEW r \in Request, NEW i \in DOMAIN rows, OpenForm(r, i)
        PROVE  ShownAsBefore(q)
    <2> DEFINE now == [step |-> "form", row |-> i, shown |-> rows[i]]
    <2>1. request' = [request EXCEPT ![r] = now] /\ UNCHANGED rows
      BY <1>4 DEF OpenForm, Steps
    <2>2. now.row = i /\ now.shown = rows[i]
      OBVIOUS
    <2> HIDE DEF now
    <2> QED BY <2>1, <2>2 DEF ShownAsBefore, Shows, InventoryType
  <1>5. ASSUME NEW r \in Request, NEW values \in Submitted, AskCreate(r, values)
        PROVE  ShownAsBefore(q)
    BY <1>1, <1>5 DEF AskCreate
  <1>6. ASSUME NEW r \in Request, NEW i \in DOMAIN rows, AskDeactivate(r, i, HeldByBeams)
        PROVE  ShownAsBefore(q)
    BY <1>1, <1>6 DEF AskDeactivate
  <1>7. ASSUME NEW r \in Request, NEW i \in DOMAIN rows, NEW values \in Submitted,
               AskSupersede(r, i, values)
        PROVE  ShownAsBefore(q)
    BY <1>1, <1>7 DEF AskSupersede
  <1>8. ASSUME NEW r \in Request, Served(r)
        PROVE  ShownAsBefore(q)
    BY <1>1, <1>8, ServedFacts DEF Over
  <1>9. ASSUME NEW i \in DOMAIN rows, Reactivate(i) PROVE UNCHANGED request
    BY <1>9 DEF Reactivate
  <1> QED BY <1>2, <1>3, <1>4, <1>5, <1>6, <1>7, <1>8, <1>9
          DEF InventoryStep, InventoryNext, Served

\* What a form shows is older than the row, or is the row but for the end of its
\* period, which is moved when the row is superseded.
FormOK(r) ==
    LET i == request[r].row
        shown == request[r].shown
    IN  Shows(r) =>
            /\ shown.version <= rows[i].version
            /\ shown.version = rows[i].version =>
                   /\ shown.body = rows[i].body /\ shown.from = rows[i].from
                   /\ shown.until # rows[i].until => Succeeded(i)

FormsInv == \A r \in Request : FormOK(r)

LEMMA SucceededStays ==
    ASSUME InventoryType, InventoryStep, RowsStay, NEW i \in DOMAIN rows, Succeeded(i)
    PROVE  Succeeded(i)'
  <1>1. PICK j \in DOMAIN rows :
            rows[j].group = rows[i].group /\ rows[j].number = rows[i].number + 1
    BY DEF Succeeded
  <1>2. /\ rows'[i].group = rows[i].group /\ rows'[i].number = rows[i].number
        /\ rows'[j].group = rows[j].group /\ rows'[j].number = rows[j].number
        /\ j \in DOMAIN rows'
    BY <1>1, RowFate DEF RowsStay
  <1> QED BY <1>1, <1>2 DEF Succeeded

LEMMA FormsKept ==
    ASSUME TypeInv, FormsInv, [Next]_vars
    PROVE  FormsInv'
  <1>0. InventoryType /\ RowsStay /\ TypeInv'
    BY TypesKept DEF TypeInv, InventoryInv
  <1>1. CASE UNCHANGED <<rows, request>>
    BY <1>1 DEF FormsInv, FormOK, Shows, Succeeded
  <1>2. CASE InventoryStep
    <2> SUFFICES ASSUME NEW q \in Request, Shows(q)' PROVE FormOK(q)'
      BY DEF FormsInv, FormOK
    <2> DEFINE i == request'[q].row
               shown == request'[q].shown
    <2>1. CASE shown = rows[i] /\ UNCHANGED rows
      <3>1. RequestOK(q)' /\ RowsOK'
        BY <1>0 DEF TypeInv, InventoryInv, InventoryType
      <3>2. i \in DOMAIN rows'
        BY <3>1 DEF RequestOK, AboutRow, Shows
      <3>3. rows'[i] \in Row
        BY <3>1, <3>2 DEF RowsOK
      <3>4. rows'[i].version \in Nat
        BY <3>3, RowType
      <3>5. shown = rows'[i]
        BY <2>1
      <3> HIDE DEF i, shown
      <3>6. shown.version <= rows'[i].version
        BY <3>4, <3>5
      <3> QED BY <3>5, <3>6 DEF FormOK, i, shown
    <2>2. CASE Shows(q) /\ i = request[q].row /\ shown = request[q].shown
      <3>1. i \in DOMAIN rows /\ shown \in Row
        BY <1>0, <2>2, RequestType DEF AboutRow, Shows
      <3> HIDE DEF i, shown
      <3>2. PICK k \in DOMAIN rows : k = i
        BY <3>1
      <3>3. rows[k] \in Row
        BY <1>0 DEF InventoryType, RowsOK
      <3>4. rows[k].version \in Nat /\ shown.version \in Nat
        BY <3>1, <3>3, RowType
      <3>5. /\ shown.version <= rows[k].version
            /\ shown.version = rows[k].version =>
                   /\ shown.body = rows[k].body /\ shown.from = rows[k].from
                   /\ shown.until # rows[k].until => Succeeded(k)
        BY <2>2, <3>2 DEF FormsInv, FormOK, i, shown
      <3>6. CASE Kept(k)
        <4>1. Succeeded(k) => Succeeded(k)'
          BY <1>0, <1>2, SucceededStays
        <4>2. /\ shown.version <= rows'[k].version
              /\ shown.version = rows'[k].version =>
                     /\ shown.body = rows'[k].body /\ shown.from = rows'[k].from
                     /\ shown.until # rows'[k].until => Succeeded(k)'
          BY <3>5, <3>6, <4>1 DEF Kept
        <4> QED BY <3>2, <4>2 DEF FormOK, Succeeded, i, shown
      <3>7. CASE Edited(k)
        <4>1. PICK r \in Request : Update(r) /\ request[r].row = k
          BY <3>7 DEF Edited
        <4>2. rows'[k].version = request[r].shown.version + 1
              /\ rows[k].version = request[r].shown.version
          BY <1>0, <4>1, UpdateFacts
        <4>3. shown.version <= rows'[k].version /\ shown.version # rows'[k].version
          BY <3>4, <3>5, <4>2
        <4> QED BY <3>2, <4>3 DEF FormOK, i, shown
      <3> QED BY <1>0, <1>2, <3>6, <3>7, RowFate
    <2> QED BY <1>0, <1>2, <2>1, <2>2, ShownFate DEF ShownAsBefore
  <1>3. UNCHANGED vars => UNCHANGED <<rows, request>>
    BY DEF vars, inventoryVars
  <1> QED BY <1>1, <1>2, <1>3, BuilderLeavesRows DEF Next

\* What the step of an edit overwrites, its form showed.
Seen(i) ==
    \E r \in Request :
        /\ request[r].step = "checked" /\ request'[r].step # "checked"
        /\ LET shown == request[r].shown
           IN  /\ shown.body = rows[i].body /\ shown.from = rows[i].from
               /\ shown.until # rows[i].until =>
                      \E j \in DOMAIN rows : /\ rows[j].group = rows[i].group
                                             /\ rows[j].number = rows[i].number + 1

LEMMA EditsAreSeen ==
    ASSUME TypeInv, FormsInv, [Next]_vars
    PROVE  [\A i \in DOMAIN rows : rows'[i].version # rows[i].version => Seen(i)]_vars
  <1> SUFFICES ASSUME InventoryStep, NEW i \in DOMAIN rows, rows'[i].version # rows[i].version
               PROVE  Seen(i)
    BY BuilderLeavesRows DEF Next
  <1>0. InventoryType
    BY DEF TypeInv, InventoryInv
  <1>1. PICK r \in Request : Update(r) /\ request[r].row = i
    BY <1>0, RowFate DEF Kept, Edited
  <1>2. request[r].step = "checked"
    BY <1>1 DEF Update
  <1>3. request'[r].step # "checked"
    BY <1>0, <1>1, ServedFacts DEF Served, Steps, Over, InventoryType
  <1>4. request[r].shown.version = rows[i].version
    BY <1>0, <1>1, UpdateFacts
  <1>5. FormOK(r) /\ Shows(r)
    BY <1>2 DEF FormsInv, Shows
  <1>6. /\ request[r].shown.body = rows[i].body /\ request[r].shown.from = rows[i].from
        /\ request[r].shown.until # rows[i].until => Succeeded(i)
    BY <1>1, <1>4, <1>5 DEF FormOK
  <1> QED BY <1>2, <1>3, <1>6 DEF Seen, Succeeded

\* NothingOverwrittenUnseen: whatever requests are open, an edit that is
\* written overwrites the values its form showed; only the end of the period
\* may have moved meanwhile, and then the row has a successor.
THEOREM NothingLost == Spec => NothingOverwrittenUnseen
  <1>1. Init => FormsInv
    <2> SUFFICES ASSUME Init, NEW r \in Request PROVE ~Shows(r)
      BY DEF FormsInv, FormOK
    <2> QED BY DEF Init, InventoryInit, Shows, Idle
  <1>2. TypeInv /\ FormsInv /\ [Next]_vars
            => FormsInv' /\ [\A i \in DOMAIN rows :
                                 rows'[i].version # rows[i].version => Seen(i)]_vars
    BY FormsKept, EditsAreSeen
  <1> QED BY <1>1, <1>2, TypesHold, PTL DEF Spec, NothingOverwrittenUnseen, Seen
-----------------------------------------------------------------------------
(***************************************************************************)
(* Who checks a row while something comes to use it: late keeps all of it. *)
(***************************************************************************)
MetInv == Met \subseteq late /\ Checking \cap AboutToHold \subseteq late

LEMMA MetKept ==
    ASSUME MetInv, [Next]_vars
    PROVE  MetInv' /\ late \subseteq late'
  <1>1. CASE InventoryStep
    <2>1. late' = late \cup (Met \cup (Checking \cap AboutToHold))'
      BY <1>1 DEF InventoryStep, InventoryNext
    <2> QED BY <2>1 DEF MetInv
  <1>2. ASSUME NEW a \in Admin, BuilderStep(a)
        PROVE  MetInv' /\ late \subseteq late'
    <2>1. UNCHANGED request
      BY <1>2, BuilderLeavesRows
    <2>2. late' = late \cup (Checking \cap AboutToHold')
      BY <1>2 DEF BuilderStep, SubmitDirection, Judge, CommitDirection, Load, ValidateBeam,
                  Clear, Block, Activate, DeactivateBeam, BuilderGivesUp, BuilderAt
    <2>3. Met' = Met /\ Checking' = Checking
      BY <2>1 DEF Met, Checking, Checks, Uses
    <2> QED BY <2>2, <2>3 DEF MetInv
  <1>3. CASE UNCHANGED vars
    BY <1>3 DEF vars, inventoryVars, beamVars, MetInv, Met, Checking, Checks, Uses, AboutToHold,
                Held
  <1> QED BY <1>1, <1>2, <1>3 DEF Next

LEMMA MetInitially == Init => MetInv
  BY DEF Init, InventoryInit, MetInv, Met, Checking, Checks, Idle

\* What a field offers is of a kind whose rows are counted when it is in use.
LEMMA OfferedIsRegistered ==
    ASSUME NEW kind \in Kind, NEW field \in OfferedFields(kind)
    PROVE  <<Target(field), kind>> \in Registered
  BY DEF Kind, OfferedFields, Target, Registered

LEMMA OfferedIsReference ==
    ASSUME NEW kind, NEW body
    PROVE  Named(body, OfferedFields(kind)) \subseteq Named(body, ReferenceFields(kind))
  BY DEF Named, ReferenceFields

LEMMA OfferedIsUsed ==
    ASSUME InventoryType, NEW i \in DOMAIN rows,
           NEW j \in Named(rows[i].body, OfferedFields(rows[i].kind))
    PROVE  j \in DOMAIN rows /\ i \in Dependents(j)
  <1>1. PICK field \in OfferedFields(rows[i].kind) :
            rows[i].body[field] = j /\ rows[i].body[field] # None
    BY DEF Named
  <1>2. rows[i] \in Row /\ References(rows, rows[i].body, rows[i].kind)
    BY DEF InventoryType, RowsOK
  <1>3. field \in ReferenceFields(rows[i].kind)
    BY <1>1 DEF ReferenceFields
  <1>4. IsRow(rows, j, Target(field))
    BY <1>1, <1>2, <1>3 DEF References
  <1>5. <<Target(field), rows[i].kind>> \in Registered
    BY <1>1, <1>2, RowType, OfferedIsRegistered
  <1>6. j \in Named(rows[i].body, ReferenceFields(rows[i].kind))
    BY OfferedIsReference
  <1> QED BY <1>4, <1>5, <1>6 DEF IsRow, Dependents
-----------------------------------------------------------------------------
(***************************************************************************)
(* What a step makes of the rows and the requests, for all steps at once.  *)
(***************************************************************************)
\* What a row says after a step it said before, or a request had it written.
Written(i, r) ==
    /\ Writes(r) /\ rows'[i].body = request[r].values.body
    /\ rows'[i].kind = request[r].values.kind

BodyIsOld(i) ==
    \/ /\ i \in DOMAIN rows /\ rows'[i].body = rows[i].body /\ rows'[i].kind = rows[i].kind
    \/ \E r \in Request : Written(i, r)

LEMMA BodyFate ==
    ASSUME InventoryType, InventoryStep, NEW i \in DOMAIN rows'
    PROVE  BodyIsOld(i)
  <1>1. CASE UNCHANGED rows
    BY <1>1 DEF BodyIsOld
  <1>2. ASSUME NEW r \in Request, Create(r)
        PROVE  BodyIsOld(i)
    <2>1. /\ CreatedRow(r).body = request[r].values.body
          /\ CreatedRow(r).kind = request[r].values.kind /\ Writes(r)
      BY <1>2 DEF CreatedRow, NewRow, Create, Writes
    <2>2. CASE i \in DOMAIN rows
      BY <1>2, <2>2, CreateFacts DEF BodyIsOld
    <2>3. CASE i = Len(rows) + 1
      BY <1>2, <2>1, <2>3, CreateFacts DEF BodyIsOld, Written
    <2> QED BY <1>2, <2>2, <2>3, CreateFacts
  <1>3. ASSUME NEW r \in Request, Update(r)
        PROVE  BodyIsOld(i)
    <2>1. Writes(r)
      BY <1>3 DEF Update, Writes
    <2>2. CASE i = request[r].row
      BY <1>3, <2>1, <2>2, UpdateFacts DEF BodyIsOld, Written
    <2>3. CASE i # request[r].row
      BY <1>3, <2>3, UpdateFacts DEF BodyIsOld
    <2> QED BY <2>2, <2>3
  <1>4. ASSUME NEW r \in Request, Supersede(r)
        PROVE  BodyIsOld(i)
    <2>1. Writes(r)
      BY <1>4 DEF Supersede, Writes
    <2>2. CASE i \in DOMAIN rows
      BY <1>4, <2>2, SupersedeFacts DEF BodyIsOld
    <2>3. CASE i = Len(rows) + 1
      BY <1>4, <2>1, <2>3, SupersedeFacts DEF BodyIsOld, Written
    <2> QED BY <1>4, <2>2, <2>3, SupersedeFacts
  <1>5. ASSUME NEW r \in Request, Deactivate(r)
        PROVE  BodyIsOld(i)
    BY <1>5, DeactivateFacts, ActiveFacts DEF BodyIsOld, InventoryType
  <1>6. ASSUME NEW j \in DOMAIN rows, Reactivate(j)
        PROVE  BodyIsOld(i)
    <2>1. rows' = [rows EXCEPT ![j].active = TRUE]
      BY <1>6 DEF Reactivate
    <2> QED BY <2>1, ActiveFacts DEF BodyIsOld, InventoryType
  <1> QED BY <1>1, <1>2, <1>3, <1>4, <1>5, <1>6
          DEF InventoryStep, InventoryNext, AskCreate, Submit, OpenForm, AskDeactivate,
              AskSupersede, GiveUp, Prune, Look, Add

\* An active row stays active, but for the one a deactivation is about.
LEMMA ActiveFate ==
    ASSUME InventoryType, InventoryStep, NEW i \in DOMAIN rows, rows[i].active
    PROVE  \/ rows'[i].active
           \/ \E r \in Request : request[r].step = "deactivating" /\ request[r].row = i
  <1>1. CASE UNCHANGED rows
    BY <1>1
  <1>2. ASSUME NEW r \in Request, Create(r)
        PROVE  rows'[i].active
    BY <1>2, CreateFacts
  <1>3. ASSUME NEW r \in Request, Update(r)
        PROVE  rows'[i].active
    BY <1>3, UpdateFacts
  <1>4. ASSUME NEW r \in Request, Supersede(r)
        PROVE  rows'[i].active
    BY <1>4, SupersedeFacts
  <1>5. ASSUME NEW r \in Request, Deactivate(r), request[r].row # i
        PROVE  rows'[i].active
    BY <1>5, DeactivateFacts, ActiveFacts DEF InventoryType
  <1>6. ASSUME NEW j \in DOMAIN rows, Reactivate(j)
        PROVE  rows'[i].active
    <2>1. rows' = [rows EXCEPT ![j].active = TRUE]
      BY <1>6 DEF Reactivate
    <2> QED BY <2>1, ActiveFacts DEF InventoryType
  <1> QED BY <1>1, <1>2, <1>3, <1>4, <1>5, <1>6
          DEF InventoryStep, InventoryNext, AskCreate, Submit, OpenForm, AskDeactivate,
              AskSupersede, GiveUp, Prune, Look, Add, Deactivate

\* What a request carries after a step it carried before, or was judged for now.
Judged(now) ==
    /\ now.step \in {"creating", "checked", "superseding"} => Offered(now.values)
    /\ now.step = "deactivating" => ~IsInUse(now.row, HeldByBeams)
    /\ now.step = "checked" => AssertEditable(now.row, now.values.body, HeldByBeams)

AskedBefore(q) == request'[q] = request[q] \/ (UNCHANGED rows /\ Judged(request'[q]))
                  \/ request'[q].step \in Over

LEMMA RequestFate ==
    ASSUME InventoryType, InventoryStep, NEW q \in Request
    PROVE  AskedBefore(q)
  <1>1. ASSUME NEW r \in Request, NEW now, Steps(r, now), UNCHANGED rows, Judged(now)
        PROVE  AskedBefore(q)
    BY <1>1 DEF AskedBefore, Steps, InventoryType
  <1>2. CASE UNCHANGED request
    BY <1>2 DEF AskedBefore
  <1>3. ASSUME NEW r \in Request, NEW values \in Submitted, Submit(r, values, HeldByBeams)
        PROVE  AskedBefore(q)
    <2> DEFINE now == [step |-> "checked", row |-> request[r].row, shown |-> request[r].shown,
                       values |-> values]
    <2>1. /\ Steps(r, now) /\ UNCHANGED rows /\ Offered(values)
          /\ AssertEditable(request[r].row, values.body, HeldByBeams)
      BY <1>3 DEF Submit, FormValid
    <2>2. now.step = "checked" /\ now.row = request[r].row /\ now.values = values
      OBVIOUS
    <2> HIDE DEF now
    <2> QED BY <1>1, <2>1, <2>2 DEF Judged
  <1>4. ASSUME NEW r \in Request, NEW i \in DOMAIN rows, OpenForm(r, i)
        PROVE  AskedBefore(q)
    <2> DEFINE now == [step |-> "form", row |-> i, shown |-> rows[i]]
    <2>1. Steps(r, now) /\ UNCHANGED rows
      BY <1>4 DEF OpenForm
    <2>2. now.step = "form"
      OBVIOUS
    <2> HIDE DEF now
    <2> QED BY <1>1, <2>1, <2>2 DEF Judged
  <1>5. ASSUME NEW r \in Request, NEW values \in Submitted, AskCreate(r, values)
        PROVE  AskedBefore(q)
    <2> DEFINE now == [step |-> "creating", values |-> values]
    <2>1. Steps(r, now) /\ UNCHANGED rows /\ Offered(values)
      BY <1>5 DEF AskCreate, FormValid
    <2>2. now.step = "creating" /\ now.values = values
      OBVIOUS
    <2> HIDE DEF now
    <2> QED BY <1>1, <2>1, <2>2 DEF Judged
  <1>6. ASSUME NEW r \in Request, NEW i \in DOMAIN rows, AskDeactivate(r, i, HeldByBeams)
        PROVE  AskedBefore(q)
    <2> DEFINE now == [step |-> "deactivating", row |-> i]
    <2>1. Steps(r, now) /\ UNCHANGED rows /\ ~IsInUse(i, HeldByBeams)
      BY <1>6 DEF AskDeactivate, MayDeactivate
    <2>2. now.step = "deactivating" /\ now.row = i
      OBVIOUS
    <2> HIDE DEF now
    <2> QED BY <1>1, <2>1, <2>2 DEF Judged
  <1>7. ASSUME NEW r \in Request, NEW i \in DOMAIN rows, NEW values \in Submitted,
               AskSupersede(r, i, values)
        PROVE  AskedBefore(q)
    <2> DEFINE now == [step |-> "superseding", row |-> i, values |-> values]
    <2>1. Steps(r, now) /\ UNCHANGED rows /\ Offered(values)
      BY <1>7 DEF AskSupersede, FormValid
    <2>2. now.step = "superseding" /\ now.values = values
      OBVIOUS
    <2> HIDE DEF now
    <2> QED BY <1>1, <2>1, <2>2 DEF Judged
  <1>8. ASSUME NEW r \in Request, Served(r)
        PROVE  AskedBefore(q)
    BY <1>8, ServedFacts DEF Steps, AskedBefore, InventoryType
  <1>9. ASSUME NEW i \in DOMAIN rows, Reactivate(i) PROVE UNCHANGED request
    BY <1>9 DEF Reactivate
  <1> QED BY <1>2, <1>3, <1>4, <1>5, <1>6, <1>7, <1>8, <1>9
          DEF InventoryStep, InventoryNext, Served

\* A row that is being checked does not come to be used unnoticed: not by a row.
LEMMA UseIsMet ==
    ASSUME TypeInv, MetInv, InventoryStep, NEW i \in Checking, i \notin late, i \in DOMAIN rows,
           IsInUse(i, HeldByBeams)'
    PROVE  IsInUse(i, HeldByBeams)
  <1>0. InventoryType /\ RowsStay
    BY TypesKept DEF TypeInv, InventoryInv, Next
  <1>1. HeldByBeams' = HeldByBeams
    BY DEF InventoryStep, HeldByBeams, Held
  <1>2. ASSUME NEW j \in DOMAIN rows', j \in Dependents(i)'
        PROVE  j \in Dependents(i)
    <2>1. /\ <<rows'[i].kind, rows'[j].kind>> \in Registered
          /\ i \in Named(rows'[j].body, ReferenceFields(rows'[j].kind))
      BY <1>2 DEF Dependents
    <2>2. rows'[i].kind = rows[i].kind
      BY <1>0 DEF RowsStay
    <2>3. ASSUME NEW r \in Request, Written(j, r) PROVE FALSE
      <3>1. i \in Uses(r)
        BY <2>1, <2>3 DEF Written, Writes, Uses
      <3>2. i \in Met
        BY <3>1 DEF Met
      <3> QED BY <3>2 DEF MetInv
    <2>4. BodyIsOld(j)
      BY <1>0, BodyFate
    <2>5. j \in DOMAIN rows /\ rows'[j].body = rows[j].body /\ rows'[j].kind = rows[j].kind
      BY <2>3, <2>4 DEF BodyIsOld
    <2> QED BY <2>1, <2>2, <2>5 DEF Dependents
  <1>3. Dependents(i)' \subseteq DOMAIN rows'
    BY DEF Dependents
  <1> QED BY <1>1, <1>2, <1>3 DEF IsInUse

\* And not by the Beam.
LEMMA HoldIsMet ==
    ASSUME TypeInv, MetInv, NEW a \in Admin, BuilderStep(a), NEW i \in Checking, i \notin late,
           IsInUse(i, HeldByBeams)'
    PROVE  IsInUse(i, HeldByBeams)
  <1>0. BeamType
    BY DEF TypeInv
  <1>1. Dependents(i)' = Dependents(i)
    BY BuilderLeavesRows DEF Dependents
  <1>2. CASE UNCHANGED chains /\ beam'.satellite = beam.satellite
    BY <1>1, <1>2 DEF IsInUse, HeldByBeams, Held
  <1>3. CASE CommitDirection(a)
    <2>1. /\ beam'.satellite = beam.satellite /\ builder[a].step = "judged"
          /\ chains' = [chains EXCEPT ![builder[a].direction] = builder[a].chain]
          /\ builder[a].direction \in Direction /\ chains \in [Direction -> BeamDirectionConfig]
      BY <1>0, <1>3, CommitDirectionTypes DEF BeamType
    <2>2. Held(builder[a].chain) \subseteq AboutToHold
      BY <2>1 DEF AboutToHold
    <2>3. ASSUME i \in HeldByBeams' PROVE i \in HeldByBeams
      <3>1. CASE i = beam'.satellite
        BY <2>1, <3>1 DEF HeldByBeams
      <3>2. ASSUME NEW d \in Direction, i \in Held(chains'[d]) PROVE i \in HeldByBeams
        <4>1. CASE d = builder[a].direction
          <5>1. i \in AboutToHold
            BY <2>1, <2>2, <3>2, <4>1
          <5> QED BY <5>1 DEF MetInv
        <4>2. CASE d # builder[a].direction
          <5>1. chains'[d] = chains[d]
            BY <2>1, <4>2
          <5> QED BY <3>2, <5>1 DEF HeldByBeams
        <4> QED BY <4>1, <4>2
      <3>3. i = beam'.satellite \/ \E d \in Direction : i \in Held(chains'[d])
        BY <2>3 DEF HeldByBeams, Held
      <3> QED BY <3>1, <3>2, <3>3
    <2> QED BY <1>1, <2>3 DEF IsInUse
  <1>4. CASE \/ \E d \in Direction, form \in DirectionForm : SubmitDirection(a, d, form)
             \/ Judge(a)
    BY <1>2, <1>4 DEF SubmitDirection, Judge
  <1> QED BY <1>0, <1>2, <1>3, <1>4, OtherBuilderTypes DEF BuilderStep
-----------------------------------------------------------------------------
(***************************************************************************)
(* Rows rest on active rows, and what is in use keeps its values.          *)
(***************************************************************************)
Rests == \A i \in DOMAIN rows :
             \A j \in Named(rows[i].body, OfferedFields(rows[i].kind)) \ late : rows[j].active

\* What is about to be written rests on active rows.
WillRest(r) ==
    Writes(r) =>
        \A j \in Named(request[r].values.body, OfferedFields(request[r].values.kind)) \ late :
            rows[j].active

\* What is about to be deactivated is still not in use.
StillUnused(r) ==
    request[r].step = "deactivating" =>
        request[r].row \in late \/ ~IsInUse(request[r].row, HeldByBeams)

Redesigned(i, body) ==
    \E field \in EngineeringFields(rows[i].kind) : rows[i].body[field] # body[field]

\* What is about to be written to another engineering value is still not in
\* use, or it has been written by others and the write will be refused.
StillEditable(r) ==
    LET i == request[r].row
    IN  /\ request[r].step = "checked" /\ Fresh(i, request[r].shown)
        /\ Redesigned(i, request[r].values.body)
        => i \in late \/ ~IsInUse(i, HeldByBeams)

RequestsInv == \A r \in Request : WillRest(r) /\ StillUnused(r) /\ StillEditable(r)

UseInv == MetInv /\ FormsInv /\ Rests /\ RequestsInv

LEMMA UsedIsThere ==
    ASSUME InventoryType, NEW r \in Request, Writes(r),
           NEW j \in Named(request[r].values.body, OfferedFields(request[r].values.kind))
    PROVE  j \in DOMAIN rows /\ j \in Uses(r)
  <1>1. PICK field \in OfferedFields(request[r].values.kind) :
            request[r].values.body[field] = j /\ request[r].values.body[field] # None
    BY DEF Named
  <1>2. References(rows, request[r].values.body, request[r].values.kind)
    BY DEF InventoryType, RequestOK
  <1>3. field \in ReferenceFields(request[r].values.kind)
    BY <1>1 DEF ReferenceFields
  <1>4. j \in DOMAIN rows
    BY <1>1, <1>2, <1>3 DEF References, IsRow
  <1>5. j \in Named(request[r].values.body, ReferenceFields(request[r].values.kind))
    BY OfferedIsReference
  <1> QED BY <1>4, <1>5 DEF Uses, Writes

\* What something rests on, or is about to, is not deactivated.
LEMMA StaysActive ==
    ASSUME TypeInv, UseInv, InventoryStep, NEW j \in DOMAIN rows \ late, rows[j].active,
           Dependents(j) # {} \/ \E q \in Request : j \in Uses(q)
    PROVE  rows'[j].active
  <1> SUFFICES ASSUME ~rows'[j].active PROVE FALSE
    OBVIOUS
  <1>1. PICK r \in Request : request[r].step = "deactivating" /\ request[r].row = j
    BY ActiveFate DEF TypeInv, InventoryInv
  <1>2. Dependents(j) = {}
    BY <1>1 DEF UseInv, RequestsInv, StillUnused, IsInUse
  <1>3. j \in Checking
    BY <1>1 DEF Checking, Checks
  <1>4. ASSUME NEW q \in Request, j \in Uses(q) PROVE FALSE
    <2>1. j \in Met
      BY <1>3, <1>4 DEF Met
    <2> QED BY <2>1 DEF UseInv, MetInv
  <1> QED BY <1>2, <1>4

LEMMA RestsKept ==
    ASSUME TypeInv, UseInv, InventoryStep
    PROVE  Rests'
  <1>0. InventoryType /\ late \subseteq late'
    BY MetKept DEF TypeInv, InventoryInv, UseInv, Next
  <1> SUFFICES ASSUME NEW i \in DOMAIN rows',
                      NEW j \in Named(rows'[i].body, OfferedFields(rows'[i].kind)) \ late'
               PROVE  rows'[j].active
    BY DEF Rests
  <1>1. j \notin late
    BY <1>0
  <1>2. CASE i \in DOMAIN rows /\ rows'[i].body = rows[i].body /\ rows'[i].kind = rows[i].kind
    <2>1. j \in DOMAIN rows /\ Dependents(j) # {}
      BY <1>0, <1>2, OfferedIsUsed
    <2>2. rows[j].active
      BY <1>1, <1>2 DEF UseInv, Rests
    <2> QED BY <1>1, <2>1, <2>2, StaysActive
  <1>3. ASSUME NEW r \in Request, Written(i, r)
        PROVE  rows'[j].active
    <2>1. j \in DOMAIN rows /\ j \in Uses(r)
      BY <1>0, <1>3, UsedIsThere DEF Written
    <2>2. rows[j].active
      BY <1>1, <1>3 DEF UseInv, RequestsInv, WillRest, Written
    <2> QED BY <1>1, <2>1, <2>2, StaysActive
  <1> QED BY <1>0, <1>2, <1>3, BodyFate DEF BodyIsOld

LEMMA WillRestKept ==
    ASSUME TypeInv, UseInv, InventoryStep, NEW q \in Request
    PROVE  WillRest(q)'
  <1>0. InventoryType /\ late \subseteq late'
    BY MetKept DEF TypeInv, InventoryInv, UseInv, Next
  <1> DEFINE v == request'[q].values
  <1> SUFFICES ASSUME Writes(q)', NEW j \in Named(v.body, OfferedFields(v.kind)) \ late'
               PROVE  rows'[j].active
    BY DEF WillRest
  <1>1. j \notin late
    BY <1>0
  <1>2. CASE request'[q] = request[q]
    <2>1. Writes(q) /\ j \in Named(request[q].values.body, OfferedFields(request[q].values.kind))
      BY <1>2 DEF Writes
    <2>2. j \in DOMAIN rows /\ j \in Uses(q)
      BY <1>0, <2>1, UsedIsThere
    <2>3. rows[j].active
      BY <1>1, <2>1 DEF UseInv, RequestsInv, WillRest
    <2> QED BY <1>1, <2>2, <2>3, StaysActive
  <1>3. CASE UNCHANGED rows /\ Judged(request'[q])
    <2>1. Offered(v)
      BY <1>3 DEF Judged, Writes
    <2> QED BY <1>3, <2>1 DEF Offered
  <1>4. request'[q].step \notin Over
    BY DEF Writes, Over
  <1> QED BY <1>0, <1>2, <1>3, <1>4, RequestFate DEF AskedBefore

LEMMA StillUnusedKept ==
    ASSUME TypeInv, UseInv, InventoryStep, NEW q \in Request
    PROVE  StillUnused(q)'
  <1>0. InventoryType /\ InventoryType' /\ late \subseteq late'
    BY TypesKept, MetKept DEF TypeInv, InventoryInv, UseInv, Next
  <1> SUFFICES ASSUME request'[q].step = "deactivating"
               PROVE  StillUnused(q)'
    BY DEF StillUnused
  <1>1. PICK k \in DOMAIN rows' : k = request'[q].row
    BY <1>0 DEF InventoryType, RequestOK, AboutRow
  <1>2. CASE request'[q] = request[q]
    <2>1. k \in Checking /\ k \in DOMAIN rows
      BY <1>0, <1>1, <1>2 DEF Checking, Checks, InventoryType, RequestOK, AboutRow
    <2>2. k \in late \/ ~IsInUse(k, HeldByBeams)
      BY <1>1, <1>2 DEF UseInv, RequestsInv, StillUnused
    <2>3. k \in late' \/ ~IsInUse(k, HeldByBeams)'
      BY <1>0, <2>1, <2>2, UseIsMet DEF UseInv
    <2> QED BY <1>1, <2>3 DEF StillUnused, IsInUse, Dependents
  <1>3. CASE UNCHANGED rows /\ Judged(request'[q])
    <2>1. ~IsInUse(k, HeldByBeams)
      BY <1>1, <1>3 DEF Judged
    <2>2. HeldByBeams' = HeldByBeams
      BY DEF InventoryStep, HeldByBeams, Held
    <2>3. ~IsInUse(k, HeldByBeams)'
      BY <1>3, <2>1, <2>2 DEF IsInUse, Dependents
    <2> QED BY <1>1, <2>3 DEF StillUnused, IsInUse, Dependents
  <1>4. request'[q].step \notin Over
    BY DEF Over
  <1> QED BY <1>0, <1>2, <1>3, <1>4, RequestFate DEF AskedBefore

LEMMA StillEditableKept ==
    ASSUME TypeInv, UseInv, InventoryStep, NEW q \in Request
    PROVE  StillEditable(q)'
  <1>0. InventoryType /\ InventoryType' /\ late \subseteq late'
    BY TypesKept, MetKept DEF TypeInv, InventoryInv, UseInv, Next
  <1> SUFFICES ASSUME request'[q].step = "checked"
               PROVE  StillEditable(q)'
    BY DEF StillEditable
  <1>1. PICK k \in DOMAIN rows' : k = request'[q].row
    BY <1>0 DEF InventoryType, RequestOK, AboutRow
  <1> SUFFICES ASSUME Fresh(k, request[q].shown)', Redesigned(k, request[q].values.body)'
               PROVE  k \in late' \/ ~IsInUse(k, HeldByBeams)'
    BY <1>1 DEF StillEditable, Fresh, Redesigned, IsInUse, Dependents
  <1>2. CASE request'[q] = request[q]
    <2>1. k \in Checking /\ k \in DOMAIN rows
      BY <1>0, <1>1, <1>2 DEF Checking, Checks, InventoryType, RequestOK, AboutRow
    <2>2. CASE Kept(k)
      <3>1. rows'[k].kind = rows[k].kind
        BY <1>0, <2>1, RowFate
      <3>2. Fresh(k, request[q].shown) /\ Redesigned(k, request[q].values.body)
        BY <1>2, <2>2, <3>1 DEF Fresh, Redesigned, Kept
      <3>3. k \in late \/ ~IsInUse(k, HeldByBeams)
        BY <1>1, <1>2, <3>2 DEF UseInv, RequestsInv, StillEditable
      <3> QED BY <1>0, <2>1, <3>3, UseIsMet DEF UseInv
    <2>3. CASE Edited(k)
      <3>1. PICK r \in Request : Update(r) /\ request[r].row = k
        BY <2>3 DEF Edited
      <3>2. /\ rows'[k].version = request[r].shown.version + 1
            /\ rows[k].version = request[r].shown.version /\ request[r].shown \in Row
        BY <1>0, <3>1, UpdateFacts
      <3>3. Shows(q) /\ FormOK(q) /\ request[q].row = k
        BY <1>1, <1>2 DEF Shows, UseInv, FormsInv
      <3>4. request[q].shown.version <= rows[k].version
        BY <3>3 DEF FormOK
      <3>5. request[q].shown \in Row
        BY <1>0, <3>3, RequestType DEF Shows
      <3>6. request[q].shown.version \in Nat /\ request[r].shown.version \in Nat
        BY <3>2, <3>5, RowType
      <3>7. rows'[k].version # request[q].shown.version
        BY <3>2, <3>4, <3>6
      <3> QED BY <1>2, <3>7 DEF Fresh
    <2> QED BY <1>0, <2>1, <2>2, <2>3, RowFate
  <1>3. CASE UNCHANGED rows /\ Judged(request'[q])
    <2>1. AssertEditable(k, request'[q].values.body, HeldByBeams)
      BY <1>1, <1>3 DEF Judged
    <2>2. Redesigned(k, request[q].values.body)'
      OBVIOUS
    <2>3. \E field \in EngineeringFields(rows[k].kind) :
              rows[k].body[field] # request'[q].values.body[field]
      BY <1>3, <2>2 DEF Redesigned
    <2>4. ~IsInUse(k, HeldByBeams)
      BY <2>1, <2>3 DEF AssertEditable
    <2>5. HeldByBeams' = HeldByBeams
      BY DEF InventoryStep, HeldByBeams, Held
    <2> QED BY <1>3, <2>4, <2>5 DEF IsInUse, Dependents
  <1>4. request'[q].step \notin Over
    BY DEF Over
  <1> QED BY <1>0, <1>2, <1>3, <1>4, RequestFate DEF AskedBefore

LEMMA UseKept ==
    ASSUME TypeInv, UseInv, [Next]_vars
    PROVE  UseInv'
  <1>0. /\ MetInv' /\ late \subseteq late' /\ FormsInv' /\ InventoryType
    BY MetKept, FormsKept DEF UseInv, TypeInv, InventoryInv
  <1>1. CASE InventoryStep
    BY <1>0, <1>1, RestsKept, WillRestKept, StillUnusedKept, StillEditableKept
       DEF UseInv, RequestsInv
  <1>2. ASSUME NEW a \in Admin, BuilderStep(a)
        PROVE  UseInv'
    <2>1. UNCHANGED <<rows, request>>
      BY <1>2, BuilderLeavesRows
    <2>2. Rests'
      BY <1>0, <2>1 DEF UseInv, Rests
    <2> SUFFICES ASSUME NEW q \in Request
                 PROVE  (WillRest(q) /\ StillUnused(q) /\ StillEditable(q))'
      BY <1>0, <2>2 DEF UseInv, RequestsInv
    <2>3. WillRest(q) /\ StillUnused(q) /\ StillEditable(q)
      BY DEF UseInv, RequestsInv
    <2>4. WillRest(q)'
      BY <1>0, <2>1, <2>3 DEF WillRest, Writes
    <2>5. ASSUME request[q].step \in {"checked", "deactivating"}
          PROVE  \/ request[q].row \in late'
                 \/ IsInUse(request[q].row, HeldByBeams)
                 \/ ~IsInUse(request[q].row, HeldByBeams)'
      <3>1. PICK k \in DOMAIN rows : k = request[q].row
        BY <1>0, <2>5 DEF InventoryType, RequestOK, AboutRow
      <3>2. k \in Checking
        BY <2>5, <3>1 DEF Checking, Checks
      <3>3. k \in late \/ IsInUse(k, HeldByBeams) \/ ~IsInUse(k, HeldByBeams)'
        BY <1>2, <3>2, HoldIsMet DEF UseInv
      <3> QED BY <1>0, <2>1, <3>1, <3>3 DEF IsInUse, Dependents
    <2>6. StillUnused(q)'
      BY <1>0, <2>1, <2>3, <2>5 DEF StillUnused, IsInUse, Dependents
    <2>7. StillEditable(q)'
      BY <1>0, <2>1, <2>3, <2>5 DEF StillEditable, Fresh, Redesigned, IsInUse, Dependents
    <2> QED BY <2>4, <2>6, <2>7
  <1>3. CASE UNCHANGED vars
    BY <1>0, <1>3 DEF vars, inventoryVars, beamVars, UseInv, Rests, RequestsInv, WillRest, Writes,
       StillUnused, StillEditable, Fresh, Redesigned, IsInUse, Dependents, HeldByBeams, Held
  <1> QED BY <1>1, <1>2, <1>3 DEF Next

LEMMA UseInitially ==
    ASSUME Init
    PROVE  UseInv
  <1>1. rows = InitialRows /\ \A r \in Request : request[r].step = "idle"
    BY DEF Init, InventoryInit, Idle
  <1>2. Rests
    BY <1>1, EnteredAssumption DEF Rests
  <1>3. FormsInv
    BY <1>1 DEF FormsInv, FormOK, Shows
  <1>4. RequestsInv
    BY <1>1 DEF RequestsInv, WillRest, Writes, StillUnused, StillEditable
  <1> QED BY <1>2, <1>3, <1>4, MetInitially DEF UseInv

LEMMA UsesHold == Spec => []UseInv
  BY UseInitially, UseKept, TypesHold, PTL DEF Spec

\* RestsOnActive: whatever is edited, superseded and deactivated meanwhile, what
\* a row was built on is active as long as nobody came to use it in the very
\* moment it was being deactivated.
THEOREM WhatIsUsedStaysActive == Spec => []RestsOnActive
  <1>1. UseInv => RestsOnActive
    BY DEF UseInv, Rests, RestsOnActive
  <1> QED BY <1>1, UsesHold, PTL

\* InUseKeepsItsValues: no write changes an engineering value of a version that
\* a row or the Beam uses, however long ago its edit was judged, unless they
\* came to use it while it was judged.
THEOREM InUseIsImmutable == Spec => InUseKeepsItsValues
  <1>1. TypeInv /\ UseInv /\ [Next]_vars
            => [\A i \in DOMAIN rows :
                    IsInUse(i, HeldByBeams) /\ Engineering(i)' # Engineering(i)
                        => i \in late]_vars
    <2> SUFFICES ASSUME TypeInv, UseInv, Next, NEW i \in DOMAIN rows, IsInUse(i, HeldByBeams),
                        Engineering(i)' # Engineering(i)
                 PROVE  i \in late
      OBVIOUS
    <2>0. InventoryType
      BY DEF TypeInv, InventoryInv
    <2>1. InventoryStep
      BY BuilderLeavesRows DEF Next, Engineering
    <2>2. rows'[i].kind = rows[i].kind /\ (Kept(i) \/ Edited(i))
      BY <2>0, <2>1, RowFate
    <2>3. rows'[i].body # rows[i].body
      BY <2>2 DEF Engineering
    <2>4. PICK r \in Request : Update(r) /\ request[r].row = i
      BY <2>2, <2>3 DEF Kept, Edited
    <2>5. /\ request[r].step = "checked" /\ Fresh(i, request[r].shown)
          /\ rows'[i].body = request[r].values.body
      BY <2>0, <2>4, UpdateFacts DEF Update
    <2>6. Redesigned(i, request[r].values.body)
      BY <2>2, <2>5 DEF Engineering, Redesigned
    <2> QED BY <2>4, <2>5, <2>6 DEF UseInv, RequestsInv, StillEditable
  <1> QED BY <1>1, TypesHold, UsesHold, PTL DEF Spec, InUseKeepsItsValues
-----------------------------------------------------------------------------
(***************************************************************************)
(* What validation looks at.                                               *)
(***************************************************************************)
\* Of the rows of a chain, what validation looks at is as it was.
LooksTheSame(chain) ==
    /\ chain.path # None =>
           LET now == rows'[chain.path].body
               old == rows[chain.path].body
           IN  /\ now.satellite = old.satellite /\ now.direction = old.direction
               /\ now.uplink = old.uplink /\ now.downlink = old.downlink
               /\ now.uplink_side = old.uplink_side /\ now.downlink_side = old.downlink_side
    /\ \A e \in chain.equipment : /\ rows'[e].body.band = rows[e].body.band
                                  /\ rows'[e].active = rows[e].active
    /\ \A s \in chain.resources : rows'[s] = rows[s]

LEMMA DirectionLooksTheSame ==
    ASSUME NEW chain, LooksTheSame(chain), NEW b, NEW d
    PROVE  CheckDirection(rows', b, d, chain) = CheckDirection(rows, b, d, chain)
  <1>1. CASE ~IsConfigured(chain)
    BY <1>1 DEF CheckDirection
  <1>2. CASE IsConfigured(chain)
    <2>1. chain.path # None
      BY <1>2 DEF IsConfigured
    <2>2. CheckWindowIdentity(rows', chain) = CheckWindowIdentity(rows, chain)
      BY <2>1 DEF CheckWindowIdentity, LooksTheSame
    <2>3. CheckDirectionSides(rows', d, chain) = CheckDirectionSides(rows, d, chain)
      BY <2>1 DEF CheckDirectionSides, LooksTheSame
    <2>4. LegsOf(rows', chain) = LegsOf(rows, chain)
      BY <2>1 DEF LegsOf, LooksTheSame
    <2>5. CheckCanonicalLeg(rows', chain) = CheckCanonicalLeg(rows, chain)
      BY <2>4 DEF CheckCanonicalLeg
    <2>6. CheckEquipment(rows', chain, b.band) = CheckEquipment(rows, chain, b.band)
      BY DEF CheckEquipment, LooksTheSame
    <2>7. CheckSpectrumResources(rows', chain, b.satellite)
              = CheckSpectrumResources(rows, chain, b.satellite)
      <3> DEFINE mapped(rs) == {rs[s].body.leg : s \in chain.resources}
                 wrong(rs) == UNION {IF rs[s].body.satellite # b.satellite
                                     THEN {"SPECTRUM_RESOURCE_WRONG_SATELLITE"}
                                     ELSE When(~rs[s].active, "SPECTRUM_RESOURCE_DEACTIVATED")
                                        : s \in chain.resources}
      <3>1. mapped(rows') = mapped(rows)
        BY DEF LooksTheSame
      <3>2. wrong(rows') = wrong(rows)
        BY DEF LooksTheSame
      <3>3. \A rs : CheckSpectrumResources(rs, chain, b.satellite)
                        = When(~(LegsOf(rs, chain) \subseteq mapped(rs)),
                               "LEG_HAS_NO_SPECTRUM_RESOURCE") \cup wrong(rs)
        BY DEF CheckSpectrumResources
      <3> HIDE DEF mapped, wrong
      <3> QED BY <2>4, <3>1, <3>2, <3>3
    <2> QED BY <2>2, <2>3, <2>5, <2>6, <2>7 DEF CheckDirection
  <1> QED BY <1>1, <1>2

\* Validation of what looks the same comes to the same.
LEMMA ValidateStays ==
    ASSUME NEW cs, NEW b, \A d \in DOMAIN cs : LooksTheSame(cs[d])
    PROVE  Validate(rows', b, cs) = Validate(rows, b, cs)
  <1>1. CheckBeamShape(rows', b, cs) = CheckBeamShape(rows, b, cs)
    <2>1. (\E d \in DOMAIN cs : cs[d].path # None /\ rows'[cs[d].path].body.satellite # b.satellite)
          <=> (\E d \in DOMAIN cs : cs[d].path # None /\ rows[cs[d].path].body.satellite # b.satellite)
      BY DEF LooksTheSame
    <2> QED BY <2>1 DEF CheckBeamShape, When
  <1>2. \A d \in Enabled(cs) :
            CheckDirection(rows', b, d, cs[d]) = CheckDirection(rows, b, d, cs[d])
    BY DirectionLooksTheSame DEF Enabled
  <1>3. UNION {CheckDirection(rows', b, d, cs[d]) : d \in Enabled(cs)}
            = UNION {CheckDirection(rows, b, d, cs[d]) : d \in Enabled(cs)}
    BY <1>2
  <1>4. Findings(rows', b, cs) = Findings(rows, b, cs)
    BY <1>1, <1>3 DEF Findings
  <1> QED BY <1>4 DEF Validate

\* Of the Beam it looks at its satellite, its band and its polarizations.
LEMMA ValidateLooksAt ==
    ASSUME NEW b, NEW c, b.satellite = c.satellite, b.band = c.band, b.permitted = c.permitted,
           NEW rs, NEW cs
    PROVE  Validate(rs, b, cs) = Validate(rs, c, cs)
  <1>1. CheckBeamShape(rs, b, cs) = CheckBeamShape(rs, c, cs)
    BY DEF CheckBeamShape
  <1>2. \A d, chain : CheckDirection(rs, b, d, chain) = CheckDirection(rs, c, d, chain)
    BY DEF CheckDirection
  <1>3. Findings(rs, b, cs) = Findings(rs, c, cs)
    BY <1>1, <1>2 DEF Findings
  <1> QED BY <1>3 DEF Validate
-----------------------------------------------------------------------------
(***************************************************************************)
(* What the Beam holds, or is about to hold, is active and stays as it is. *)
(***************************************************************************)
LEMMA HeldStays ==
    ASSUME TypeInv, UseInv, InventoryStep, NEW k \in DOMAIN rows, k \notin late',
           k \in HeldByBeams \cup AboutToHold
    PROVE  /\ rows'[k].kind = rows[k].kind
           /\ \A field \in EngineeringFields(rows[k].kind) :
                  rows'[k].body[field] = rows[k].body[field]
           /\ rows[k].active => rows'[k].active
  <1>0. InventoryType /\ MetInv /\ late \subseteq late'
    BY MetKept DEF TypeInv, InventoryInv, UseInv, Next
  <1>1. k \in Checking => IsInUse(k, HeldByBeams)
    BY <1>0 DEF MetInv, IsInUse
  <1>2. ASSUME Edited(k), NEW field \in EngineeringFields(rows[k].kind)
        PROVE  rows'[k].body[field] = rows[k].body[field]
    <2>1. PICK r \in Request : Update(r) /\ request[r].row = k
      BY <1>2 DEF Edited
    <2>2. /\ request[r].step = "checked" /\ Fresh(k, request[r].shown)
          /\ rows'[k].body = request[r].values.body
      BY <1>0, <2>1, UpdateFacts DEF Update
    <2>3. k \in Checking
      BY <2>1, <2>2 DEF Checking, Checks
    <2>4. ~Redesigned(k, request[r].values.body)
      BY <1>0, <1>1, <2>1, <2>2, <2>3 DEF UseInv, RequestsInv, StillEditable
    <2> QED BY <2>2, <2>4 DEF Redesigned
  <1>3. rows'[k].kind = rows[k].kind /\ (Kept(k) \/ Edited(k))
    BY <1>0, RowFate
  <1>4. \A field \in EngineeringFields(rows[k].kind) :
            rows'[k].body[field] = rows[k].body[field]
    BY <1>2, <1>3 DEF Kept
  <1>5. ASSUME rows[k].active, ~rows'[k].active PROVE FALSE
    <2>1. PICK r \in Request : request[r].step = "deactivating" /\ request[r].row = k
      BY <1>0, <1>5, ActiveFate
    <2>2. k \in Checking
      BY <2>1 DEF Checking, Checks
    <2> QED BY <1>0, <1>1, <2>1, <2>2 DEF UseInv, RequestsInv, StillUnused
  <1> QED BY <1>3, <1>4, <1>5

HeldActive(chain) == \A e \in chain.equipment \ late : rows[e].active

HoldOK(a) ==
    /\ builder[a].step = "submitted" => HeldActive(builder[a].form)
    /\ builder[a].step = "judged" =>
           /\ HeldActive(builder[a].chain)
           /\ builder[a].chain.resources = chains[builder[a].direction].resources

HoldInv ==
    /\ \A d \in Direction : HeldActive(chains[d])
    /\ \A a \in Admin : HoldOK(a)

LEMMA HeldIsThere ==
    ASSUME TypeInv
    PROVE  /\ \A d \in Direction : chains[d].equipment \subseteq DOMAIN rows \cap HeldByBeams
           /\ \A a \in Admin :
                  /\ builder[a].step = "submitted" =>
                         builder[a].form.equipment \subseteq DOMAIN rows \cap AboutToHold
                  /\ builder[a].step = "judged" =>
                         builder[a].chain.equipment \subseteq DOMAIN rows \cap AboutToHold
  <1>1. ASSUME NEW d \in Direction
        PROVE  chains[d].equipment \subseteq DOMAIN rows \cap HeldByBeams
    BY DEF TypeInv, BeamType, ChainOK, HoldsRows, IsRow, HeldByBeams, Held
  <1>2. ASSUME NEW a \in Admin, builder[a].step = "submitted"
        PROVE  builder[a].form.equipment \subseteq DOMAIN rows \cap AboutToHold
    <2>1. HoldsRows(rows, builder[a].form)
      BY <1>2 DEF TypeInv, BeamType, BuilderOK
    <2>2. Held(builder[a].form) \subseteq AboutToHold
      BY <1>2 DEF AboutToHold
    <2> QED BY <2>1, <2>2 DEF HoldsRows, IsRow, Held
  <1>3. ASSUME NEW a \in Admin, builder[a].step = "judged"
        PROVE  builder[a].chain.equipment \subseteq DOMAIN rows \cap AboutToHold
    <2>1. HoldsRows(rows, builder[a].chain)
      BY <1>3 DEF TypeInv, BeamType, BuilderOK, ChainOK
    <2>2. Held(builder[a].chain) \subseteq AboutToHold
      BY <1>3 DEF AboutToHold
    <2> QED BY <2>1, <2>2 DEF HoldsRows, IsRow, Held
  <1> QED BY <1>1, <1>2, <1>3

LEMMA HoldKeptByInventory ==
    ASSUME TypeInv, UseInv, HoldInv, InventoryStep
    PROVE  HoldInv'
  <1>0. late \subseteq late' /\ UNCHANGED <<chains, builder>>
    BY MetKept DEF UseInv, Next, InventoryStep
  <1>1. \A k \in (DOMAIN rows \cap (HeldByBeams \cup AboutToHold)) \ late' :
            rows[k].active => rows'[k].active
    BY HeldStays
  <1>2. ASSUME NEW chain, HeldActive(chain),
               chain.equipment \subseteq DOMAIN rows \cap (HeldByBeams \cup AboutToHold)
        PROVE  \A e \in chain.equipment \ late' : rows'[e].active
    BY <1>0, <1>1, <1>2 DEF HeldActive
  <1>3. ASSUME NEW d \in Direction PROVE HeldActive(chains[d])'
    <2>1. \A e \in chains[d].equipment \ late' : rows'[e].active
      BY <1>2, HeldIsThere DEF HoldInv
    <2> QED BY <1>0, <2>1 DEF HeldActive
  <1>4. ASSUME NEW a \in Admin PROVE HoldOK(a)'
    <2>1. builder[a].step = "submitted" =>
              \A e \in builder[a].form.equipment \ late' : rows'[e].active
      BY <1>2, HeldIsThere DEF HoldInv, HoldOK
    <2>2. builder[a].step = "judged" =>
              \A e \in builder[a].chain.equipment \ late' : rows'[e].active
      BY <1>2, HeldIsThere DEF HoldInv, HoldOK
    <2> QED BY <1>0, <2>1, <2>2 DEF HoldInv, HoldOK, HeldActive
  <1> QED BY <1>3, <1>4 DEF HoldInv

\* A step of the builder after which a request is the only one that moved.
LEMMA HoldMoves ==
    ASSUME BeamType, HoldInv, MetInv, NEW a \in Admin, BuilderStep(a), NEW now, BuilderAt(a, now),
           HoldOK(a)', \A d \in Direction : HeldActive(chains[d])',
           \A d \in Direction : chains'[d].resources = chains[d].resources
    PROVE  HoldInv'
  <1>1. /\ UNCHANGED rows /\ late \subseteq late'
        /\ \A b \in Admin \ {a} : builder'[b] = builder[b]
    BY BuilderLeavesRows, MetKept, OthersWait DEF Next
  <1>2. ASSUME NEW b \in Admin \ {a} PROVE HoldOK(b)'
    <2>1. HoldOK(b)
      BY DEF HoldInv
    <2>2. builder[b].step = "judged" => builder[b].direction \in Direction
      BY BuilderType
    <2> QED BY <1>1, <2>1, <2>2 DEF HoldOK, HeldActive
  <1> QED BY <1>2 DEF HoldInv

LEMMA HoldKept ==
    ASSUME TypeInv, UseInv, HoldInv, [Next]_vars
    PROVE  HoldInv'
  <1>0. BeamType /\ InventoryType /\ MetInv /\ late \subseteq late'
    BY MetKept DEF TypeInv, InventoryInv, UseInv
  <1>1. CASE InventoryStep
    BY <1>1, HoldKeptByInventory
  <1>2. ASSUME NEW a \in Admin, BuilderStep(a)
        PROVE  HoldInv'
    <2>0. UNCHANGED rows
      BY <1>2, BuilderLeavesRows
    <2>1. ASSUME NEW now, BuilderAt(a, now), UNCHANGED chains,
                 now.step \notin {"submitted", "judged"}
          PROVE  HoldInv'
      <3>1. HoldOK(a)'
        BY <1>0, <2>1, OthersWait DEF HoldOK
      <3>2. \A d \in Direction : HeldActive(chains[d])'
        BY <1>0, <2>0, <2>1 DEF HoldInv, HeldActive
      <3> QED BY <1>0, <1>2, <2>1, <3>1, <3>2, HoldMoves
    <2>2. ASSUME NEW d \in Direction, NEW form \in DirectionForm, SubmitDirection(a, d, form)
          PROVE  HoldInv'
      <3> DEFINE now == [step |-> "submitted", direction |-> d, form |-> WithWindows(form),
                         seen |-> beam.state]
      <3>1. BuilderAt(a, now) /\ UNCHANGED chains /\ DirectionFormValid(d, form)
        BY <2>2 DEF SubmitDirection
      <3>2. now.step = "submitted" /\ now.form = WithWindows(form)
        OBVIOUS
      <3> HIDE DEF now
      <3>3. WithWindows(form).equipment = form.equipment
        BY <1>0, <3>1, WithWindowsType
      <3>4. \A e \in form.equipment : rows[e].active
        BY <3>1 DEF DirectionFormValid
      <3>5. builder'[a] = now
        BY <1>0, <3>1, OthersWait
      <3>6. HoldOK(a)'
        BY <2>0, <3>2, <3>3, <3>4, <3>5 DEF HoldOK, HeldActive
      <3>7. \A c \in Direction : HeldActive(chains[c])'
        BY <1>0, <2>0, <3>1 DEF HoldInv, HeldActive
      <3> QED BY <1>0, <1>2, <3>1, <3>6, <3>7, HoldMoves
    <2>3. CASE Judge(a)
      <3>1. /\ BuilderAt(a, JudgedNow(a)) /\ UNCHANGED chains /\ builder'[a] = JudgedNow(a)
            /\ JudgedChain(a).resources = chains[builder[a].direction].resources
            /\ JudgedChain(a).equipment = builder[a].form.equipment
            /\ builder[a].step = "submitted"
        BY <1>0, <2>3, JudgeTypes
      <3>2. /\ JudgedNow(a).step = "judged" /\ JudgedNow(a).chain = JudgedChain(a)
            /\ JudgedNow(a).direction = builder[a].direction
        BY DEF JudgedNow
      <3>3. HeldActive(builder[a].form)
        BY <3>1 DEF HoldInv, HoldOK
      <3>4. \A e \in builder'[a].chain.equipment \ late' : rows'[e].active
        BY <1>0, <2>0, <3>1, <3>2, <3>3 DEF HeldActive
      <3>5. HoldOK(a)'
        BY <3>1, <3>2, <3>4 DEF HoldOK, HeldActive
      <3>6. \A d \in Direction : HeldActive(chains[d])'
        BY <1>0, <2>0, <3>1 DEF HoldInv, HeldActive
      <3> QED BY <1>0, <1>2, <3>1, <3>5, <3>6, HoldMoves
    <2>4. CASE CommitDirection(a)
      <3>1. /\ builder[a].step = "judged" /\ BuilderAt(a, Idle)
            /\ builder[a].direction \in Direction
            /\ chains' = [chains EXCEPT ![builder[a].direction] = builder[a].chain]
        BY <1>0, <2>4, CommitDirectionTypes
      <3>2. HoldOK(a)
        BY DEF HoldInv
      <3>3. \A d \in Direction : \/ chains'[d] = chains[d]
                                 \/ chains'[d] = builder[a].chain /\ d = builder[a].direction
        BY <1>0, <3>1 DEF BeamType
      <3>4. \A d \in Direction : chains'[d].resources = chains[d].resources
        BY <3>1, <3>2, <3>3 DEF HoldOK
      <3>5. ASSUME NEW d \in Direction PROVE HeldActive(chains[d])'
        <4>1. HeldActive(chains[d]) /\ HeldActive(builder[a].chain)
          BY <3>1, <3>2 DEF HoldInv, HoldOK
        <4> QED BY <1>0, <2>0, <3>3, <4>1 DEF HeldActive
      <3>6. HoldOK(a)'
        BY <1>0, <3>1, OthersWait DEF HoldOK, Idle
      <3> QED BY <1>0, <1>2, <3>1, <3>4, <3>5, <3>6, HoldMoves
    <2>5. CASE \/ \E task \in {"validate", "activate", "deactivate"} : Load(a, task)
               \/ ValidateBeam(a) \/ Clear(a) \/ Block(a) \/ Activate(a) \/ DeactivateBeam(a)
               \/ BuilderGivesUp(a)
      <3>1. UNCHANGED chains
        BY <1>0, <2>5, OtherBuilderTypes
      <3>2. Idle.step \notin {"submitted", "judged"}
        BY DEF Idle
      <3>3. ASSUME NEW task \in {"validate", "activate", "deactivate"}, Load(a, task)
            PROVE  HoldInv'
        <4> DEFINE now == [step |-> "loaded", task |-> task, seen |-> beam.state,
                           activated_at |-> beam.activated_at]
        <4>1. BuilderAt(a, now) /\ now.step = "loaded"
          BY <3>3 DEF Load
        <4> HIDE DEF now
        <4> QED BY <2>1, <3>1, <4>1
      <3>4. CASE ValidateBeam(a)
        <4> DEFINE now == IF builder[a].task = "activate" THEN [step |-> "validated"] ELSE Idle
        <4>1. BuilderAt(a, now) /\ now.step \notin {"submitted", "judged"}
          BY <3>2, <3>4 DEF ValidateBeam
        <4> HIDE DEF now
        <4> QED BY <2>1, <3>1, <4>1
      <3>5. CASE Clear(a)
        <4> DEFINE now == [step |-> "cleared"]
        <4>1. BuilderAt(a, now) /\ now.step = "cleared"
          BY <3>5 DEF Clear
        <4> HIDE DEF now
        <4> QED BY <2>1, <3>1, <4>1
      <3>6. CASE Block(a) \/ Activate(a) \/ DeactivateBeam(a) \/ BuilderGivesUp(a)
        <4>1. BuilderAt(a, Idle)
          BY <3>6 DEF Block, Activate, DeactivateBeam, BuilderGivesUp
        <4> QED BY <2>1, <3>1, <3>2, <4>1
      <3> QED BY <2>5, <3>3, <3>4, <3>5, <3>6
    <2> QED BY <1>2, <2>2, <2>3, <2>4, <2>5 DEF BuilderStep
  <1>3. CASE UNCHANGED vars
    BY <1>3 DEF vars, inventoryVars, beamVars, HoldInv, HoldOK, HeldActive
  <1> QED BY <1>1, <1>2, <1>3 DEF Next

LEMMA HoldInitially ==
    ASSUME Init
    PROVE  HoldInv
  <1>1. \A d \in Direction : HeldActive(chains[d])
    BY ChainsInitially DEF HeldActive
  <1>2. \A a \in Admin : builder[a].step = "idle"
    BY DEF Init, Idle
  <1> QED BY <1>1, <1>2 DEF HoldInv, HoldOK

LEMMA HoldsHold == Spec => []HoldInv
  BY HoldInitially, HoldKept, TypesHold, UsesHold, PTL DEF Spec
-----------------------------------------------------------------------------
(***************************************************************************)
(* The badge of the Beam.                                                  *)
(***************************************************************************)
\* The chains of the Beam if the direction being written is committed now.
WouldBe(a) == JudgedChains(builder[a].direction, builder[a].chain)

HeldWith(cs) == {beam.satellite} \cup UNION {Held(cs[d]) : d \in Direction}

\* Requests that did not overlap know the state that is stored.
KnowsState(a) ==
    /\ builder[a].step \in {"submitted", "loaded"} => builder[a].seen = beam.state
    /\ builder[a].step = "judged" => (builder[a].saves <=> builder[a].state # beam.state)

\* What was judged is true of the chains as they would be.
JudgedTrue(a) ==
    builder[a].step = "judged" /\ late \cap HeldWith(WouldBe(a)) = {} =>
        builder[a].state = Validate(rows, beam, WouldBe(a))

StateTrue == late \cap HeldByBeams = {} => beam.state = Validate(rows, beam, chains)

BadgeInv ==
    /\ ~overlapped => \A a \in Admin : KnowsState(a)
    /\ ~overlapped /\ shaken = {} => StateTrue /\ \A a \in Admin : JudgedTrue(a)

\* A chain none of whose rows was met late looks as it did after any write to
\* the inventory.
LEMMA ChainLooksTheSame ==
    ASSUME TypeInv, UseInv, InventoryStep, NEW chain \in BeamDirectionConfig, ChainOK(chain),
           Held(chain) \subseteq HeldByBeams \cup AboutToHold, Held(chain) \cap late' = {},
           HeldActive(chain), \A s \in chain.resources : rows'[s] = rows[s]
    PROVE  LooksTheSame(chain)
  <1>0. /\ InventoryInv /\ InventoryInv' /\ RowsOK /\ RowsOK' /\ RowsStay /\ late \subseteq late'
        /\ HoldsRows(rows, chain)
    BY TypesKept, MetKept DEF TypeInv, InventoryInv, InventoryType, UseInv, Next, ChainOK
  <1>1. \A k \in DOMAIN rows \cap Held(chain) :
            /\ \A field \in EngineeringFields(rows[k].kind) :
                   rows'[k].body[field] = rows[k].body[field]
            /\ rows[k].active => rows'[k].active
    BY <1>0, HeldStays
  <1>2. ASSUME chain.path # None
        PROVE  LET now == rows'[chain.path].body
                   old == rows[chain.path].body
               IN  /\ now.satellite = old.satellite /\ now.direction = old.direction
                   /\ now.uplink = old.uplink /\ now.downlink = old.downlink
                   /\ now.uplink_side = old.uplink_side /\ now.downlink_side = old.downlink_side
    <2> DEFINE k == chain.path
    <2>1. k \in DOMAIN rows \cap Held(chain) /\ rows[k].kind = "PayloadPath"
      BY <1>0, <1>2 DEF HoldsRows, IsRow, Held
    <2>2. k \in DOMAIN rows' /\ rows'[k].kind = "PayloadPath"
      BY <1>0, <2>1 DEF RowsStay
    <2>3. Sound("PayloadPath", rows[k].body)
      BY <1>0, <2>1 DEF InventoryInv, Constraints
    <2>4. Sound("PayloadPath", rows'[k].body)
      BY <1>0, <2>2 DEF InventoryInv, Constraints
    <2>5. PathSound(rows[k].body) /\ PathSound(rows'[k].body)
      BY <2>3, <2>4 DEF Sound
    <2>6. {"satellite", "direction", "uplink", "downlink"} \subseteq EngineeringFields("PayloadPath")
      BY DEF EngineeringFields
    <2>7. \A field \in EngineeringFields("PayloadPath") :
              rows'[k].body[field] = rows[k].body[field]
      BY <1>1, <2>1
    <2>8. /\ rows'[k].body["satellite"] = rows[k].body["satellite"]
          /\ rows'[k].body["direction"] = rows[k].body["direction"]
          /\ rows'[k].body["uplink"] = rows[k].body["uplink"]
          /\ rows'[k].body["downlink"] = rows[k].body["downlink"]
      BY <2>6, <2>7
    <2> QED BY <2>5, <2>8 DEF PathSound
  <1>3. ASSUME NEW e \in chain.equipment
        PROVE  rows'[e].body.band = rows[e].body.band /\ rows'[e].active = rows[e].active
    <2>1. e \in DOMAIN rows \cap Held(chain) /\ rows[e].kind = "EquipmentProfile"
      BY <1>0 DEF HoldsRows, IsRow, Held
    <2>2. e \in DOMAIN rows' /\ rows[e] \in Row /\ rows'[e] \in Row
      BY <1>0, <2>1 DEF RowsStay, RowsOK
    <2>3. "band" \in EngineeringFields("EquipmentProfile")
      BY DEF EngineeringFields
    <2>4. rows'[e].body["band"] = rows[e].body["band"]
      BY <1>1, <2>1, <2>3
    <2>5. rows[e].active /\ rows'[e].active
      BY <1>0, <1>1, <2>1 DEF HeldActive
    <2>6. rows'[e].active = rows[e].active
      BY <2>2, <2>5, RowType
    <2> QED BY <2>4, <2>6
  <1> QED BY <1>2, <1>3 DEF LooksTheSame

LEMMA WouldBeIs ==
    ASSUME BeamType, NEW a \in Admin, builder[a].step = "judged"
    PROVE  /\ WouldBe(a) \in [Direction -> BeamDirectionConfig]
           /\ WouldBe(a)[builder[a].direction] = builder[a].chain
           /\ \A d \in Direction \ {builder[a].direction} : WouldBe(a)[d] = chains[d]
           /\ builder[a].direction \in Direction
  BY BuilderType DEF WouldBe, JudgedChains, BeamType

LEMMA BadgeKeptByInventory ==
    ASSUME TypeInv, UseInv, HoldInv, BadgeInv, InventoryStep
    PROVE  BadgeInv'
  <1>0. /\ UNCHANGED <<beam, chains, builder, overlapped>> /\ BeamType
        /\ shaken' = shaken \cup {s \in Resources : rows'[s] # rows[s]}
    BY DEF InventoryStep, TypeInv
  <1>1. ~overlapped' => \A a \in Admin : KnowsState(a)'
    BY <1>0 DEF BadgeInv, KnowsState
  <1> SUFFICES ASSUME ~overlapped', shaken' = {}
               PROVE  StateTrue' /\ \A a \in Admin : JudgedTrue(a)'
    BY <1>1 DEF BadgeInv
  <1>2. /\ ~overlapped /\ shaken = {} /\ late \subseteq late'
        /\ \A d \in Direction : \A s \in chains[d].resources : rows'[s] = rows[s]
    BY <1>0, MetKept DEF Resources, UseInv, Next
  <1>3. ASSUME late' \cap HeldByBeams = {}
        PROVE  beam.state = Validate(rows', beam, chains)
    <2>1. ASSUME NEW d \in Direction PROVE LooksTheSame(chains[d])
      <3>1. chains[d] \in BeamDirectionConfig /\ ChainOK(chains[d])
        BY <1>0 DEF BeamType
      <3>2. Held(chains[d]) \subseteq HeldByBeams
        BY DEF HeldByBeams
      <3>3. HeldActive(chains[d])
        BY DEF HoldInv
      <3>4. \A s \in chains[d].resources : rows'[s] = rows[s]
        BY <1>2
      <3> QED BY <1>3, <3>1, <3>2, <3>3, <3>4, ChainLooksTheSame
    <2>2. DOMAIN chains = Direction
      BY <1>0 DEF BeamType
    <2>3. Validate(rows', beam, chains) = Validate(rows, beam, chains)
      BY <2>1, <2>2, ValidateStays
    <2> QED BY <1>2, <1>3, <2>3 DEF BadgeInv, StateTrue
  <1>4. ASSUME NEW a \in Admin, builder[a].step = "judged",
               late' \cap HeldWith(WouldBe(a)) = {}
        PROVE  builder[a].state = Validate(rows', beam, WouldBe(a))
    <2>1. ASSUME NEW d \in Direction PROVE LooksTheSame(WouldBe(a)[d])
      <3>1. Held(WouldBe(a)[d]) \cap late' = {}
        BY <1>4 DEF HeldWith
      <3>2. CASE d # builder[a].direction
        <4>1. WouldBe(a)[d] = chains[d]
          BY <1>0, <1>4, <3>2, WouldBeIs
        <4>2. chains[d] \in BeamDirectionConfig /\ ChainOK(chains[d])
          BY <1>0 DEF BeamType
        <4>3. Held(chains[d]) \subseteq HeldByBeams
          BY DEF HeldByBeams
        <4>4. HeldActive(chains[d])
          BY DEF HoldInv
        <4>5. \A s \in chains[d].resources : rows'[s] = rows[s]
          BY <1>2
        <4> QED BY <3>1, <4>1, <4>2, <4>3, <4>4, <4>5, ChainLooksTheSame
      <3>3. CASE d = builder[a].direction
        <4> DEFINE chain == builder[a].chain
        <4>1. WouldBe(a)[d] = chain
          BY <1>0, <1>4, <3>3, WouldBeIs
        <4>2. chain \in BeamDirectionConfig /\ ChainOK(chain)
          BY <1>0, <1>4, BuilderType DEF BeamType, BuilderOK
        <4>3. Held(chain) \subseteq AboutToHold
          BY <1>4 DEF AboutToHold
        <4>4. HeldActive(chain) /\ chain.resources = chains[d].resources
          BY <1>4, <3>3 DEF HoldInv, HoldOK
        <4>5. \A s \in chain.resources : rows'[s] = rows[s]
          BY <1>2, <4>4
        <4> HIDE DEF chain
        <4> QED BY <3>1, <4>1, <4>2, <4>3, <4>4, <4>5, ChainLooksTheSame
      <3> QED BY <3>2, <3>3
    <2>2. DOMAIN WouldBe(a) = Direction
      BY <1>0, <1>4, WouldBeIs
    <2>3. Validate(rows', beam, WouldBe(a)) = Validate(rows, beam, WouldBe(a))
      BY <2>1, <2>2, ValidateStays
    <2>4. JudgedTrue(a)
      BY <1>2 DEF BadgeInv
    <2> QED BY <1>2, <1>4, <2>3, <2>4 DEF JudgedTrue
  <1>5. StateTrue'
    BY <1>0, <1>3 DEF StateTrue, HeldByBeams, Held
  <1>6. ASSUME NEW a \in Admin PROVE JudgedTrue(a)'
    BY <1>0, <1>4 DEF JudgedTrue, HeldWith, WouldBe, JudgedChains, Held
  <1> QED BY <1>5, <1>6

\* After a step of the builder that did not overlap, nobody else is at work:
\* the badge depends on the one who took it.
LEMMA BadgeMoves ==
    ASSUME BeamType, BadgeInv, NEW a \in Admin, NEW now, BuilderAt(a, now),
           ~overlapped' => KnowsState(a)',
           ~overlapped' /\ shaken = {} => StateTrue' /\ JudgedTrue(a)'
    PROVE  BadgeInv'
  <1>1. \A b \in Admin \ {a} : ~overlapped' => builder'[b].step = "idle"
    BY BuilderType, OthersWait
  <1>2. \A b \in Admin : ~overlapped' => KnowsState(b)'
    BY <1>1 DEF KnowsState
  <1>3. \A b \in Admin : ~overlapped' /\ shaken = {} => JudgedTrue(b)'
    BY <1>1 DEF JudgedTrue
  <1>4. shaken' = shaken
    BY DEF BuilderAt
  <1> QED BY <1>2, <1>3, <1>4 DEF BadgeInv

\* A step that leaves what validation looks at leaves the truth of the badge.
LEMMA StateTrueStays ==
    ASSUME UNCHANGED <<rows, chains>>, late \subseteq late', StateTrue, beam'.state = beam.state,
           beam'.satellite = beam.satellite, beam'.band = beam.band,
           beam'.permitted = beam.permitted
    PROVE  StateTrue'
  <1>1. HeldByBeams' = HeldByBeams
    BY DEF HeldByBeams, Held
  <1>2. Validate(rows, beam', chains) = Validate(rows, beam, chains)
    BY ValidateLooksAt
  <1> QED BY <1>1, <1>2 DEF StateTrue

LEMMA BadgeKeptByCommit ==
    ASSUME TypeInv, UseInv, BadgeInv, NEW a \in Admin, CommitDirection(a)
    PROVE  BadgeInv'
  <1>0. BeamType /\ late \subseteq late' /\ BuilderStep(a) /\ UNCHANGED <<rows, shaken>>
    BY MetKept, BuilderLeavesRows DEF TypeInv, UseInv, Next, BuilderStep
  <1>1. /\ builder[a].step = "judged" /\ BuilderAt(a, Idle) /\ builder[a].direction \in Direction
        /\ chains' = [chains EXCEPT ![builder[a].direction] = builder[a].chain]
        /\ beam'.satellite = beam.satellite /\ beam'.band = beam.band
        /\ beam'.permitted = beam.permitted
    BY <1>0, CommitDirectionTypes
  <1>2. beam' = IF builder[a].saves THEN [beam EXCEPT !.state = builder[a].state] ELSE beam
    BY DEF CommitDirection
  <1>3. builder'[a] = Idle /\ (overlapped => overlapped')
    BY <1>0, <1>1, OthersWait
  <1>4. KnowsState(a)' /\ JudgedTrue(a)'
    BY <1>3 DEF KnowsState, JudgedTrue, Idle
  <1>5. ASSUME ~overlapped', shaken = {} PROVE StateTrue'
    <2>1. KnowsState(a) /\ JudgedTrue(a)
      BY <1>3, <1>5 DEF BadgeInv
    <2>2. [beam EXCEPT !.state = builder[a].state].state = builder[a].state
      BY <1>0, <1>1, BuilderType, StateStored DEF BeamType
    <2>3. beam'.state = builder[a].state
      BY <1>1, <1>2, <2>1, <2>2 DEF KnowsState
    <2>4. chains' = WouldBe(a)
      BY <1>1 DEF WouldBe, JudgedChains
    <2>5. HeldByBeams' = HeldWith(WouldBe(a))
      BY <1>1, <2>4 DEF HeldByBeams, HeldWith, Held
    <2>6. Validate(rows, beam', WouldBe(a)) = Validate(rows, beam, WouldBe(a))
      BY <1>1, ValidateLooksAt
    <2>7. late' \cap HeldByBeams' = {} => late \cap HeldWith(WouldBe(a)) = {}
      BY <1>0, <2>5
    <2> QED BY <1>0, <1>1, <2>1, <2>3, <2>4, <2>6, <2>7 DEF StateTrue, JudgedTrue
  <1> QED BY <1>0, <1>1, <1>4, <1>5, BadgeMoves

LEMMA BadgeKeptByForm ==
    ASSUME TypeInv, UseInv, BadgeInv, NEW a \in Admin,
           \/ \E d \in Direction, form \in DirectionForm : SubmitDirection(a, d, form)
           \/ Judge(a)
    PROVE  BadgeInv'
  <1>0. /\ BeamType /\ InventoryType /\ late \subseteq late' /\ BuilderStep(a)
        /\ UNCHANGED <<rows, shaken, beam, chains>>
    BY MetKept, BuilderLeavesRows
       DEF TypeInv, InventoryInv, UseInv, Next, BuilderStep, SubmitDirection, Judge
  <1>1. ASSUME overlapped => overlapped', ~overlapped', shaken = {} PROVE StateTrue'
    BY <1>0, <1>1, StateTrueStays DEF BadgeInv
  <1>2. ASSUME NEW d \in Direction, NEW form \in DirectionForm, SubmitDirection(a, d, form)
        PROVE  BadgeInv'
    <2> DEFINE now == [step |-> "submitted", direction |-> d, form |-> WithWindows(form),
                       seen |-> beam.state]
    <2>1. BuilderAt(a, now)
      BY <1>2 DEF SubmitDirection
    <2>2. now.step = "submitted" /\ now.seen = beam.state
      OBVIOUS
    <2> HIDE DEF now
    <2>3. builder'[a] = now /\ (overlapped => overlapped')
      BY <1>0, <2>1, OthersWait
    <2>4. KnowsState(a)' /\ JudgedTrue(a)'
      BY <1>0, <2>2, <2>3 DEF KnowsState, JudgedTrue
    <2> QED BY <1>0, <1>1, <2>1, <2>3, <2>4, BadgeMoves
  <1>3. CASE Judge(a)
    <2>1. /\ BuilderAt(a, JudgedNow(a)) /\ builder'[a] = JudgedNow(a)
          /\ builder[a].step = "submitted"
      BY <1>0, <1>3, JudgeTypes
    <2>2. overlapped => overlapped'
      BY <1>0, <2>1, OthersWait
    <2>3. /\ JudgedNow(a).step = "judged" /\ JudgedNow(a).state = JudgedState(a)
          /\ JudgedNow(a).saves = (JudgedState(a) # builder[a].seen)
          /\ JudgedNow(a).direction = builder[a].direction
          /\ JudgedNow(a).chain = JudgedChain(a)
      BY DEF JudgedNow
    <2>4. ASSUME ~overlapped' PROVE KnowsState(a)'
      <3>1. builder[a].seen = beam.state
        BY <2>1, <2>2, <2>4 DEF BadgeInv, KnowsState
      <3> QED BY <1>0, <2>1, <2>3, <3>1 DEF KnowsState
    <2>5. WouldBe(a)' = JudgedChains(builder[a].direction, JudgedChain(a))
      BY <1>0, <2>1, <2>3 DEF WouldBe, JudgedChains
    <2>6. JudgedTrue(a)'
      BY <1>0, <2>1, <2>3, <2>5 DEF JudgedTrue, JudgedState
    <2> QED BY <1>0, <1>1, <2>1, <2>2, <2>4, <2>6, BadgeMoves
  <1> QED BY <1>2, <1>3

LEMMA BadgeKeptByOthers ==
    ASSUME TypeInv, UseInv, BadgeInv, NEW a \in Admin,
           \/ \E task \in {"validate", "activate", "deactivate"} : Load(a, task)
           \/ ValidateBeam(a) \/ Clear(a) \/ Block(a) \/ Activate(a) \/ DeactivateBeam(a)
           \/ BuilderGivesUp(a)
    PROVE  BadgeInv'
  <1>0. /\ BeamType /\ late \subseteq late' /\ BuilderStep(a) /\ UNCHANGED <<rows, shaken>>
    BY MetKept, BuilderLeavesRows DEF TypeInv, UseInv, Next, BuilderStep
  <1>1. /\ UNCHANGED chains /\ beam'.satellite = beam.satellite /\ beam'.band = beam.band
        /\ beam'.permitted = beam.permitted
    BY <1>0, OtherBuilderTypes
  <1>2. ASSUME NEW now, BuilderAt(a, now), beam'.state = beam.state,
               now.step \notin {"submitted", "judged"},
               now.step = "loaded" => now.seen = beam'.state
        PROVE  BadgeInv'
    <2>1. builder'[a] = now /\ (overlapped => overlapped')
      BY <1>0, <1>2, OthersWait
    <2>2. KnowsState(a)' /\ JudgedTrue(a)'
      BY <1>2, <2>1 DEF KnowsState, JudgedTrue
    <2>3. ~overlapped' /\ shaken = {} => StateTrue'
      BY <1>0, <1>1, <1>2, <2>1, StateTrueStays DEF BadgeInv
    <2> QED BY <1>0, <1>2, <2>2, <2>3, BadgeMoves
  <1>3. Idle.step = "idle"
    BY DEF Idle
  <1>4. ASSUME NEW task \in {"validate", "activate", "deactivate"}, Load(a, task)
        PROVE  BadgeInv'
    <2> DEFINE now == [step |-> "loaded", task |-> task, seen |-> beam.state,
                       activated_at |-> beam.activated_at]
    <2>1. /\ BuilderAt(a, now) /\ now.step = "loaded" /\ now.seen = beam.state
          /\ beam'.state = beam.state
      BY <1>4 DEF Load
    <2> HIDE DEF now
    <2> QED BY <1>2, <2>1
  <1>5. CASE Clear(a)
    <2> DEFINE now == [step |-> "cleared"]
    <2>1. BuilderAt(a, now) /\ now.step = "cleared" /\ beam'.state = beam.state
      BY <1>5 DEF Clear
    <2> HIDE DEF now
    <2> QED BY <1>2, <2>1
  <1>6. CASE Block(a) \/ Activate(a) \/ DeactivateBeam(a) \/ BuilderGivesUp(a)
    <2>1. BuilderAt(a, Idle)
      BY <1>6 DEF Block, Activate, DeactivateBeam, BuilderGivesUp
    <2>2. beam'.state = beam.state
      BY <1>0, <1>6 DEF Block, Activate, DeactivateBeam, Deactivated, BuilderGivesUp, BeamType, Beam
    <2> QED BY <1>2, <1>3, <2>1, <2>2
  <1>7. CASE ValidateBeam(a)
    <2> DEFINE now == IF builder[a].task = "activate" THEN [step |-> "validated"] ELSE Idle
               found == Validate(rows, beam, chains)
    <2>1. /\ BuilderAt(a, now) /\ now.step \notin {"submitted", "judged", "loaded"}
          /\ beam' = Stored(builder[a].seen, found) /\ builder[a].step = "loaded"
      BY <1>3, <1>7 DEF ValidateBeam
    <2> HIDE DEF now
    <2>2. builder'[a] = now /\ (overlapped => overlapped')
      BY <1>0, <2>1, OthersWait
    <2>3. KnowsState(a)' /\ JudgedTrue(a)'
      BY <2>1, <2>2 DEF KnowsState, JudgedTrue
    <2>4. ASSUME ~overlapped' PROVE StateTrue'
      <3>1. builder[a].seen = beam.state
        BY <2>1, <2>2, <2>4 DEF BadgeInv, KnowsState
      <3>2. found \in ConfigurationState /\ beam \in Beam
        BY <1>0, ValidateType DEF BeamType
      <3>3. Validate(rows, beam', chains) = found
        BY <1>1, ValidateLooksAt
      <3> HIDE DEF found
      <3>4. beam'.state = found
        BY <2>1, <3>1, <3>2, StateStored DEF Stored
      <3> QED BY <1>0, <1>1, <3>3, <3>4 DEF StateTrue
    <2> QED BY <1>0, <2>1, <2>3, <2>4, BadgeMoves
  <1> QED BY <1>4, <1>5, <1>6, <1>7

LEMMA BadgeKept ==
    ASSUME TypeInv, UseInv, HoldInv, BadgeInv, [Next]_vars
    PROVE  BadgeInv'
  <1>1. CASE UNCHANGED vars
    BY <1>1 DEF vars, inventoryVars, beamVars, BadgeInv, KnowsState, StateTrue, JudgedTrue,
       HeldByBeams, HeldWith, WouldBe, JudgedChains, Held
  <1> QED BY <1>1, BadgeKeptByInventory, BadgeKeptByForm, BadgeKeptByCommit, BadgeKeptByOthers
          DEF Next, BuilderStep

LEMMA BadgeInitially ==
    ASSUME Init
    PROVE  BadgeInv
  <1>1. \A a \in Admin : builder[a].step = "idle"
    BY DEF Init, Idle
  <1>2. Validate(rows, InitialBeam, chains) = Validate(rows, beam, chains)
    BY BeamInitially, ValidateLooksAt
  <1>3. StateTrue
    BY <1>2, BeamInitially DEF StateTrue
  <1> QED BY <1>1, <1>3 DEF BadgeInv, KnowsState, JudgedTrue

\* BadgeIsTrue: whatever is validated, edited, superseded, deactivated and
\* configured, in any order, the stored state is the one validation finds now,
\* unless requests of the builder overlapped, a resource was changed, or a row
\* was met late.
THEOREM BadgeStaysTrue == Spec => []BadgeIsTrue
  <1>1. BadgeInv => BadgeIsTrue
    BY DEF BadgeInv, StateTrue, BadgeIsTrue
  <1> QED BY <1>1, BadgeInitially, BadgeKept, TypesHold, UsesHold, HoldsHold, PTL DEF Spec
=============================================================================
