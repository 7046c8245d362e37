------------------------ MODULE PathLifecycle_proofs ------------------------
(***************************************************************************)
(* Proofs about PathLifecycle, for any number of paths, users, requests    *)
(* and revisions.                                                          *)
(***************************************************************************)
EXTENDS PathLifecycle, Integers, Sequences, TLAPS

\* What no write ever changes.
SameKin(a, b) ==
    /\ a.author = b.author /\ a.group = b.group
    /\ a.revision = b.revision /\ a.supersedes = b.supersedes

Approved(p) ==
    \E d \in decisions :
        /\ d.path = p /\ d.action = "approve"
        /\ RequireSeparateApprover => d.by # path[p].author
        /\ p \notin overwritten => d.content = path[p].content

(***************************************************************************)
(* A request in progress was let through on a copy of its path that may be *)
(* stale, but whose author and place in its chain are those of the path,   *)
(* and its content as well unless an edit was saved meanwhile.             *)
(***************************************************************************)
RequestOK(r) ==
    /\ request[r].path \in Saved
    /\ SameKin(request[r].seen, path[request[r].path])
    /\ Legal(request[r].action, request[r].seen)
    /\ SeparateApprover(request[r].action, request[r].by, request[r].seen)
    /\ request[r].path \notin overwritten =>
          request[r].seen.content = path[request[r].path].content
    /\ request[r].seen.status \in OnAir /\ request[r].path \notin unasked =>
          Approved(request[r].path)
    /\ request[r].seen.version <= arrived

\* Where requests do not meet, the copy is the path.
AloneOK(r) ==
    request[r].path \notin met =>
        /\ request[r].seen = path[request[r].path]
        /\ request[r].stage = "released" => request[r].gone = held[request[r].path]
        /\ \A q \in InProgress : request[q].path = request[r].path => q = r

\* A chain begins with the path its group is named after, and every other
\* revision supersedes the one before it.
LinkOK(p) ==
    /\ path[p].group \in Saved
    /\ path[p].revision = 1 => path[p].group = p /\ path[p].supersedes = None
    /\ path[p].revision # 1 =>
          /\ path[p].supersedes \in Saved
          /\ path[path[p].supersedes].group = path[p].group
          /\ path[path[p].supersedes].revision + 1 = path[p].revision

Chains ==
    /\ \A p \in Saved : LinkOK(p)
    /\ ChainNeverBranches
    /\ \A p, q \in Saved :
          path[p].group = path[q].group /\ path[p].revision < path[q].revision => Superseded(p)

IInv ==
    /\ TypeOK
    /\ \A p \in Saved : path[p].version <= arrived + 1
    /\ \A r \in InProgress : RequestOK(r) /\ AloneOK(r)
    /\ Chains
    /\ \A p \in Saved \ met : Superseded(p) => path[p].status \in Terminal
    /\ NoDoubleHolding /\ TerminalHoldsNothing /\ OnAirAsApproved /\ HoldsWhatItSays

\* HoldsWhatItSays, of one row.
Says(row, rows) ==
    /\ \A h \in rows :
          /\ h.content = row.content /\ h.status = row.status
          /\ row.status # "SUSPENDED" => (Holds(h) <=> row.status \in AlwaysReserving)
    /\ row.status \in AlwaysReserving \cup {"SUSPENDED"} => rows # {}
    /\ row.status = "DRAFT" => rows = {}

\* Rows with the path's content and status say what it says.
LEMMA SaysSo ==
    ASSUME NEW row, NEW rows, rows # {}, row.status # "DRAFT",
           \A h \in rows :
               /\ h.content = row.content /\ h.status = row.status
               /\ row.status # "SUSPENDED" => (Holds(h) <=> row.status \in AlwaysReserving)
    PROVE  Says(row, rows)
BY DEF Says

\* What is inserted for a path with this content, in this status.
LEMMA PlacedFacts ==
    ASSUME NEW c \in Content, NEW s \in PathStatus
    PROVE  /\ Placed(c, s) \in Holding
           /\ Placed(c, s).content = c /\ Placed(c, s).status = s
           /\ s # "SUSPENDED" => (Holds(Placed(c, s)) <=> s \in AlwaysReserving)
BY DEF Placed, Holding, Holds, ReservesSpectrum

\* What set_status makes of a path's rows.
LEMMA RestatusFacts ==
    ASSUME NEW rows \in SUBSET Holding, NEW s \in PathStatus
    PROVE  /\ Restatus(rows, s) \in SUBSET Holding
           /\ \A h \in Restatus(rows, s) :
                 /\ h.status = s /\ \E g \in rows : h.content = g.content
                 /\ s # "SUSPENDED" => (Holds(h) <=> s \in AlwaysReserving)
           /\ rows # {} => Restatus(rows, s) # {}
<1>1. \A h \in Restatus(rows, s) : \E g \in rows :
          h = [g EXCEPT !.status = s, !.holds = ReservesSpectrum(s, SuspendedRetains)]
  BY DEF Restatus
<1>2. ReservesSpectrum(s, SuspendedRetains) \in BOOLEAN
  BY DEF ReservesSpectrum
<1>3. ASSUME NEW g \in rows,
             NEW h, h = [g EXCEPT !.status = s, !.holds = ReservesSpectrum(s, SuspendedRetains)]
      PROVE  /\ h \in Holding /\ h.status = s /\ h.content = g.content
             /\ h.holds = ReservesSpectrum(s, SuspendedRetains)
  BY <1>2, <1>3 DEF Holding
<1>4. s # "SUSPENDED" => (ReservesSpectrum(s, SuspendedRetains) <=> s \in AlwaysReserving)
  BY DEF ReservesSpectrum
<1>5. rows # {} => Restatus(rows, s) # {}
  BY DEF Restatus
<1>6. \A h \in Restatus(rows, s) :
          /\ h \in Holding /\ h.status = s /\ \E g \in rows : h.content = g.content
          /\ h.holds = ReservesSpectrum(s, SuspendedRetains)
  BY <1>1, <1>3
<1> QED BY <1>4, <1>5, <1>6 DEF Holds

\* What the table TRANSITIONS says of every entry.
LEMMA TransitionFacts ==
    \A tr \in Transitions :
        /\ tr.to \in PathStatus /\ tr.from \notin Terminal /\ tr.action \notin {"edit", "revise"}
        /\ tr.spectrum \in {"reserve", "restatus", "release"}
        /\ tr.to \in Terminal <=> tr.spectrum = "release"
        /\ tr.spectrum = "reserve" => tr.from = "DRAFT" /\ tr.to = "PLANNED"
        /\ tr.spectrum = "restatus" => /\ tr.from \in AlwaysReserving \cup {"SUSPENDED"}
                                       /\ tr.to \in AlwaysReserving \cup {"SUSPENDED"}
        /\ tr.to \in OnAir => tr.action = "approve" \/ tr.from \in OnAir
BY DEF Transitions, Transition, PathStatus, AlwaysReserving, NeverReserving, Terminal, OnAir

\* With no path and no request there is nothing to contradict.
LEMMA Initially == Init => IInv
<1> SUFFICES ASSUME Init PROVE IInv
  OBVIOUS
<1>1. TypeOK
  BY SettingsAssumption DEF Init, TypeOK
<1>2. Saved = {} /\ InProgress = {}
  BY DEF Init, Saved, InProgress
<1>3. NoDoubleHolding
  BY DEF Init, NoDoubleHolding
<1> QED BY <1>1, <1>2, <1>3 DEF IInv, Chains, ChainNeverBranches, TerminalHoldsNothing,
                                OnAirAsApproved, HoldsWhatItSays

\* What the types say of a request in progress and of a path that is saved.
LEMMA RequestType ==
    ASSUME IInv, NEW r \in InProgress
    PROVE  /\ r \in Request /\ request[r] \in RequestRecord /\ request[r].path \in Saved
           /\ RequestOK(r) /\ AloneOK(r)
BY DEF IInv, TypeOK, InProgress, RequestOK

\* A path that is saved has a row.
LEMMA RowType ==
    ASSUME TypeOK, NEW p \in Saved PROVE p \in Path /\ path[p] \in PathRow
BY DEF TypeOK, Saved

\* Two live revisions would need one that is superseded and alive.
LEMMA OneLive == ASSUME IInv PROVE OneLiveRevision
<1> SUFFICES ASSUME NEW p \in Saved \ met, NEW q \in Saved \ met,
                    path[p].group = path[q].group,
                    path[p].status \notin Terminal, path[q].status \notin Terminal, p # q
             PROVE  FALSE
  BY DEF OneLiveRevision
<1>1. path[p].revision # path[q].revision
  BY DEF IInv, Chains, ChainNeverBranches
<1>2. path[p].revision \in Nat /\ path[q].revision \in Nat
  BY RowType DEF IInv, PathRow, Revision
<1>3. Superseded(p) \/ Superseded(q)
  BY <1>1, <1>2 DEF IInv, Chains
<1> QED BY <1>3 DEF IInv

(***************************************************************************)
(* Chains stay what they are when the same paths are saved with the same   *)
(* kin.                                                                    *)
(***************************************************************************)
LEMMA ChainsKept ==
    ASSUME Chains, Saved' = Saved, \A p \in Saved : SameKin(path'[p], path[p])
    PROVE  Chains' /\ \A p : Superseded(p)' <=> Superseded(p)
<1>1. \A p : Superseded(p)' <=> Superseded(p)
  BY DEF Superseded, SameKin
<1>2. ASSUME NEW p \in Saved PROVE LinkOK(p)'
  BY <1>2 DEF Chains, LinkOK, SameKin
<1>3. ChainNeverBranches'
  BY DEF Chains, ChainNeverBranches, SameKin
<1>4. ASSUME NEW p \in Saved, NEW q \in Saved,
             path'[p].group = path'[q].group, path'[p].revision < path'[q].revision
      PROVE  Superseded(p)'
  BY <1>1, <1>4 DEF Chains, SameKin
<1> QED BY <1>1, <1>2, <1>3, <1>4 DEF Chains

(***************************************************************************)
(* The reservations of one path change to what the constraint lets in.     *)
(***************************************************************************)
LEMMA HeldStep ==
    ASSUME NoDoubleHolding, held \in [Path -> SUBSET Holding], NEW p \in Path,
           NEW rows \in SUBSET Holding, Fits(p, rows), held' = [held EXCEPT ![p] = rows]
    PROVE  NoDoubleHolding'
<1> SUFFICES ASSUME NEW a \in Path, NEW b \in Path, NEW g \in held'[a], NEW h \in held'[b],
                    Holds(g), Holds(h), g.content = h.content
             PROVE  a = b /\ g = h
  BY DEF NoDoubleHolding, Holds
<1>1. held'[p] = rows /\ \A q \in Path \ {p} : held'[q] = held[q]
  OBVIOUS
<1>2. CASE a = p /\ b = p
  BY <1>1, <1>2 DEF Fits
<1>3. CASE a = p /\ b # p
  BY <1>1, <1>3 DEF Fits
<1>4. CASE a # p /\ b = p
  BY <1>1, <1>4 DEF Fits
<1>5. CASE a # p /\ b # p
  BY <1>1, <1>5 DEF NoDoubleHolding
<1> QED BY <1>2, <1>3, <1>4, <1>5

\* What a write of p by r leaves in the memory of the other requests.
OthersKeep(r, p) ==
    \A q \in InProgress' :
        /\ q \in InProgress \ {r}
        /\ request'[q].path = request[q].path /\ request'[q].action = request[q].action
        /\ request'[q].by = request[q].by /\ request'[q].seen = request[q].seen
        /\ request'[q].stage = request[q].stage
        /\ request[q].path # p => request'[q].gone = request[q].gone

(***************************************************************************)
(* A request writes its path's row and its reservations, and is done; what *)
(* the others have in memory of the path stays as they read it.            *)
(***************************************************************************)
LEMMA WriteStep ==
    ASSUME IInv, NEW r \in InProgress, NEW p, p = request[r].path,
           NEW row \in PathRow, NEW rows \in SUBSET Holding,
           path' = [path EXCEPT ![p] = row], held' = [held EXCEPT ![p] = rows],
           arrived' = arrived, met' = met, unasked' = unasked, TypeOK',
           decisions \subseteq decisions',
           \A q : q # p => (q \in overwritten' <=> q \in overwritten),
           overwritten \subseteq overwritten',
           p \in overwritten' \/ row.content = path[p].content
               \/ \A q \in InProgress \ {r} : request[q].path # p,
           SameKin(row, path[p]), row.version <= arrived + 1,
           request[r].seen.status \notin Terminal,
           Fits(p, rows), row.status \in Terminal => rows = {},
           p \notin met => Says(row, rows),
           row.status \in OnAir /\ p \notin unasked =>
               \E d \in decisions' :
                   /\ d.path = p /\ d.action = "approve"
                   /\ RequireSeparateApprover => d.by # row.author
                   /\ p \notin overwritten' => d.content = row.content,
           OthersKeep(r, p)
    PROVE  IInv'
<1>1. p \in Saved /\ p \in Path /\ row # None /\ path[p] \in PathRow
  BY RequestType, RowType, NoneAssumption DEF IInv, TypeOK
<1>2. /\ path'[p] = row /\ held'[p] = rows
      /\ \A q \in Path \ {p} : path'[q] = path[q] /\ held'[q] = held[q]
  BY <1>1 DEF IInv, TypeOK
<1>3. Saved' = Saved
  BY <1>1, <1>2 DEF Saved
<1>4. \A q \in Saved : SameKin(path'[q], path[q])
  BY <1>2 DEF SameKin, Saved
<1>5. Chains' /\ \A q : Superseded(q)' <=> Superseded(q)
  BY <1>3, <1>4, ChainsKept DEF IInv
<1>6. \A q \in Saved' : path'[q].version <= arrived' + 1
  BY <1>2, <1>3 DEF IInv, Saved
<1>7. ASSUME NEW q \in InProgress' PROVE RequestOK(q)'
  <2> DEFINE o == request[q].path
  <2>1. /\ q \in InProgress /\ o \in Saved /\ request'[q].path = o
        /\ request'[q].action = request[q].action /\ request'[q].by = request[q].by
        /\ request'[q].seen = request[q].seen /\ RequestOK(q)
    BY <1>7, RequestType DEF OthersKeep
  <2>2. SameKin(request'[q].seen, path'[o])
    BY <1>4, <2>1 DEF RequestOK, SameKin
  <2>3. o \notin overwritten' => path'[o].content = path[o].content /\ o \notin overwritten
    <3>1. q # r
      BY <1>7 DEF OthersKeep
    <3>2. CASE o = p
      BY <1>2, <2>1, <3>1, <3>2
    <3>3. CASE o # p
      BY <1>2, <2>1, <3>3 DEF Saved
    <3> QED BY <3>2, <3>3
  <2>4. Approved(o) => Approved(o)'
    BY <1>4, <2>1, <2>3 DEF Approved, SameKin
  <2>5. o \notin overwritten' => request[q].seen.content = path'[o].content
    BY <2>1, <2>3 DEF RequestOK
  <2> QED BY <1>3, <2>1, <2>2, <2>4, <2>5 DEF RequestOK
<1>8. ASSUME NEW q \in InProgress' PROVE AloneOK(q)'
  <2>1. CASE request[q].path \in met
    BY <1>8, <2>1 DEF AloneOK, OthersKeep
  <2>2. CASE request[q].path \notin met
    <3>1. q \in InProgress /\ AloneOK(q) /\ request[q].path \in Saved /\ q # r
      BY <1>8, RequestType DEF OthersKeep
    <3>2. request[q].path # p
      BY <2>2, <3>1 DEF AloneOK
    <3>3. /\ path'[request[q].path] = path[request[q].path]
          /\ held'[request[q].path] = held[request[q].path]
      BY <1>2, <3>1, <3>2 DEF Saved
    <3> QED BY <1>8, <2>2, <3>1, <3>2, <3>3 DEF AloneOK, OthersKeep
  <2> QED BY <2>1, <2>2
<1>9. ASSUME NEW q \in (Saved \ met)', Superseded(q)' PROVE path'[q].status \in Terminal
  <2>1. q # p
    BY <1>3, <1>5, <1>9, RequestType DEF IInv, AloneOK
  <2> QED BY <1>2, <1>3, <1>5, <1>9, <2>1 DEF IInv, Saved
<1>10. NoDoubleHolding'
  BY <1>1, HeldStep DEF IInv, TypeOK
<1>11. TerminalHoldsNothing'
  BY <1>2, <1>3 DEF IInv, TerminalHoldsNothing, Saved
<1>12. OnAirAsApproved'
  <2> SUFFICES ASSUME NEW q \in Saved \ unasked, path'[q].status \in OnAir
               PROVE  \E d \in decisions' :
                          /\ d.path = q /\ d.action = "approve"
                          /\ RequireSeparateApprover => d.by # path'[q].author
                          /\ q \notin overwritten' => d.content = path'[q].content
    BY <1>3 DEF OnAirAsApproved, OnAir
  <2>1. CASE q = p
    BY <1>2, <2>1
  <2>2. CASE q # p
    BY <1>2, <2>2 DEF IInv, OnAirAsApproved, OnAir, Saved
  <2> QED BY <2>1, <2>2
<1>13. HoldsWhatItSays'
  <2> SUFFICES ASSUME NEW q \in Saved \ met PROVE Says(path'[q], held'[q])
    BY <1>3 DEF HoldsWhatItSays, Says, Holds
  <2>1. CASE q = p
    BY <1>2, <2>1
  <2>2. CASE q # p
    <3>1. Says(path[q], held[q])
      BY DEF IInv, HoldsWhatItSays, Says
    <3> QED BY <1>2, <2>2, <3>1 DEF Saved
  <2> QED BY <2>1, <2>2
<1>14. (\A q \in InProgress : RequestOK(q) /\ AloneOK(q))'
  BY <1>7, <1>8
<1>15. (\A q \in Saved \ met : Superseded(q) => path[q].status \in Terminal)'
  BY <1>9
<1> QED BY <1>5, <1>6, <1>10, <1>11, <1>12, <1>13, <1>14, <1>15 DEF IInv

(***************************************************************************)
(* transition and decide.                                                  *)
(***************************************************************************)
LEMMA MoveStep ==
    ASSUME IInv, NEW r \in Request, Move(r)
    PROVE  IInv'
<1> DEFINE p == request[r].path
           seen == request[r].seen
<1>1. r \in InProgress
  BY DEF Move, InProgress
<1>2. /\ request[r] \in RequestRecord /\ p \in Saved /\ RequestOK(r) /\ AloneOK(r)
      /\ p \in Path /\ path[p] \in PathRow
  BY <1>1, RequestType, RowType DEF IInv
<1>3. seen \in PathRow /\ request[r].by \in User
  BY <1>2 DEF RequestRecord
<1>4. PICK tr \in Transitions :
          /\ tr.from = seen.status /\ tr.action = request[r].action
          /\ Fits(p, Moved(p, tr, seen))
          /\ path' = [path EXCEPT ![p].status = tr.to, ![p].version = Bumped(seen)]
          /\ held' = [held EXCEPT ![p] = Moved(p, tr, seen)]
          /\ decisions' = decisions \cup DecisionBy(r)
  BY DEF Move
<1>5. /\ request' = [request EXCEPT ![r] = None] /\ arrived' = arrived /\ met' = met
      /\ overwritten' = overwritten /\ unasked' = unasked
  BY DEF Move, Done
<1> DEFINE row == [path[p] EXCEPT !.status = tr.to, !.version = Bumped(seen)]
           rows == Moved(p, tr, seen)
<1>6. path' = [path EXCEPT ![p] = row] /\ held' = [held EXCEPT ![p] = rows]
  BY <1>2, <1>4 DEF IInv, TypeOK
<1>7. Bumped(seen) \in Version /\ Bumped(seen) <= arrived + 1
  BY <1>2, <1>3, SettingsAssumption DEF RequestOK, Bumped, PathRow, Version, IInv, TypeOK
<1>8. /\ row \in PathRow /\ row.status = tr.to /\ row.version = Bumped(seen)
      /\ row.content = path[p].content /\ row.author = path[p].author /\ SameKin(row, path[p])
  BY <1>2, <1>7, TransitionFacts DEF PathRow, SameKin
<1>9. rows \in SUBSET Holding
  <2>1. held[p] \in SUBSET Holding
    BY <1>2 DEF IInv, TypeOK
  <2>2. Placed(seen.content, tr.to) \in Holding
    BY <1>3, PlacedFacts, TransitionFacts DEF PathRow
  <2>3. Restatus(held[p], tr.to) \in SUBSET Holding
    BY <2>1, RestatusFacts, TransitionFacts
  <2> QED BY <2>1, <2>2, <2>3, TransitionFacts DEF Moved
<1>10. DecisionBy(r) \subseteq Decision
  BY <1>2, <1>3 DEF DecisionBy, Decision, PathRow
<1>11. TypeOK'
  BY <1>4, <1>5, <1>6, <1>8, <1>9, <1>10 DEF IInv, TypeOK
<1>12. seen.status \notin Terminal
  BY <1>4, TransitionFacts
<1>13. row.status \in Terminal => rows = {}
  BY <1>8, TransitionFacts DEF Moved
<1>14. p \notin met => Says(row, rows)
  <2> SUFFICES ASSUME p \notin met PROVE Says(row, rows)
    OBVIOUS
  <2>1. seen = path[p] /\ Says(path[p], held[p])
    BY <1>2 DEF AloneOK, IInv, HoldsWhatItSays, Says
  <2>2. CASE tr.spectrum = "reserve"
    <3>1. tr.from = "DRAFT" /\ tr.to = "PLANNED"
      BY <2>2, TransitionFacts
    <3>2. held[p] = {}
      BY <1>4, <2>1, <3>1 DEF Says
    <3>3. rows = {Placed(path[p].content, "PLANNED")}
      BY <2>1, <2>2, <3>1, <3>2 DEF Moved
    <3>4. path[p].content \in Content /\ "PLANNED" \in PathStatus
      BY <1>2 DEF PathRow, PathStatus, AlwaysReserving
    <3> QED BY <1>8, <3>1, <3>3, <3>4, PlacedFacts DEF Says
  <2>3. CASE tr.spectrum = "restatus"
    <3>1. /\ held[p] \in SUBSET Holding /\ held[p] # {}
          /\ \A h \in held[p] : h.content = path[p].content
      BY <1>2, <1>4, <2>1, <2>3, TransitionFacts DEF Says, IInv, TypeOK
    <3>2. rows = Restatus(held[p], tr.to)
      BY <2>3 DEF Moved
    <3>3. tr.to \in PathStatus /\ tr.to # "DRAFT"
      BY <2>3, TransitionFacts DEF AlwaysReserving
    <3>4. /\ rows # {}
          /\ \A h \in rows :
                /\ h.content = path[p].content /\ h.status = tr.to
                /\ tr.to # "SUSPENDED" => (Holds(h) <=> tr.to \in AlwaysReserving)
      BY <3>1, <3>2, <3>3, RestatusFacts
    <3>5. row.content = path[p].content /\ row.status = tr.to
      BY <1>8
    <3> HIDE DEF row, rows
    <3> QED BY <3>3, <3>4, <3>5, SaysSo
  <2>4. CASE tr.spectrum = "release"
    <3>1. tr.to \in Terminal
      BY <2>4, TransitionFacts
    <3> QED BY <1>8, <2>4, <3>1 DEF Moved, Says, Terminal, AlwaysReserving
  <2> QED BY <2>2, <2>3, <2>4, TransitionFacts
<1>15. row.status \in OnAir /\ p \notin unasked =>
          \E d \in decisions' :
              /\ d.path = p /\ d.action = "approve"
              /\ RequireSeparateApprover => d.by # row.author
              /\ p \notin overwritten' => d.content = row.content
  <2> SUFFICES ASSUME tr.to \in OnAir, p \notin unasked
               PROVE  \E d \in decisions' :
                          /\ d.path = p /\ d.action = "approve"
                          /\ RequireSeparateApprover => d.by # path[p].author
                          /\ p \notin overwritten => d.content = path[p].content
    BY <1>5, <1>8
  <2>1. CASE tr.action = "approve"
    <3> DEFINE d == [path |-> p, action |-> "approve", by |-> request[r].by,
                     content |-> seen.content]
    <3>1. d \in decisions'
      BY <1>4, <2>1 DEF DecisionBy, Approval
    <3>2. RequireSeparateApprover => request[r].by # path[p].author
      BY <1>2, <1>4, <2>1 DEF RequestOK, SeparateApprover, Approval, SameKin
    <3>3. p \notin overwritten => seen.content = path[p].content
      BY <1>2 DEF RequestOK
    <3> QED BY <3>1, <3>2, <3>3
  <2>2. CASE tr.from \in OnAir
    BY <1>2, <1>4, <2>2 DEF RequestOK, Approved
  <2> QED BY <2>1, <2>2, TransitionFacts
<1>16. OthersKeep(r, p)
  BY <1>5 DEF OthersKeep, InProgress, IInv, TypeOK
<1>17. decisions \subseteq decisions' /\ Fits(p, rows)
  BY <1>4
<1> HIDE DEF row, rows, p, seen
<1>18. p = request[r].path /\ request[r].seen.status \notin Terminal
  BY <1>12 DEF p, seen
<1>19. row.version <= arrived + 1 /\ row.content = path[p].content
  BY <1>7, <1>8
<1>20. row.status \in Terminal => rows = {}
  BY <1>13
<1> QED BY <1>1, <1>5, <1>6, <1>8, <1>9, <1>11, <1>14, <1>15, <1>16, <1>17, <1>18, <1>19, <1>20,
           WriteStep

(***************************************************************************)
(* edit: the last of its steps writes.                                     *)
(***************************************************************************)
LEMMA RewriteSavesStep ==
    ASSUME IInv, NEW r \in Request, RewriteSaves(r)
    PROVE  IInv'
<1> DEFINE p == request[r].path
           seen == request[r].seen
           row == [seen EXCEPT !.content = request[r].content, !.version = Bumped(seen)]
           kept == held[p] \ request[r].gone
           new  == Placed(row.content, row.status)
           rows == IF IsOperational(row.status) THEN kept \cup {new} ELSE kept
<1>1. r \in InProgress
  BY DEF RewriteSaves, Editing, InProgress
<1>2. /\ request[r] \in RequestRecord /\ p \in Saved /\ RequestOK(r) /\ AloneOK(r)
      /\ p \in Path /\ path[p] \in PathRow
  BY <1>1, RequestType, RowType DEF IInv
<1>3. seen \in PathRow /\ request[r].content \in Content /\ request[r].stage = "released"
  BY <1>2 DEF RequestRecord, RewriteSaves, Editing
<1>4. seen.status \in Editable
  BY <1>2 DEF RequestOK, Legal, RewriteSaves, Editing
<1>5. Bumped(seen) \in Version /\ Bumped(seen) <= arrived + 1
  BY <1>2, <1>3, SettingsAssumption DEF RequestOK, Bumped, PathRow, Version, IInv, TypeOK
<1>6. /\ row \in PathRow /\ row.status = seen.status /\ row.version = Bumped(seen)
      /\ row.content = request[r].content /\ SameKin(row, path[p])
  BY <1>2, <1>3, <1>5 DEF PathRow, SameKin, RequestOK
<1> HIDE DEF row
<1>7. /\ row.content \in Content /\ row.status \in PathStatus
      /\ new \in Holding /\ new.content = row.content /\ new.status = row.status
      /\ row.status # "SUSPENDED" => (Holds(new) <=> row.status \in AlwaysReserving)
  BY <1>6, PlacedFacts DEF PathRow
<1>8. rows \in SUBSET Holding
  BY <1>2, <1>7 DEF IInv, TypeOK
<1>9. /\ Fits(p, rows) /\ path' = [path EXCEPT ![p] = row] /\ held' = [held EXCEPT ![p] = rows]
      /\ request' = [q \in Request |->
            IF q = r THEN None
            ELSE IF q \in InProgress /\ request[q].path = p
                 THEN [request[q] EXCEPT !.gone = @ \ (request[r].gone \cup rows)]
                 ELSE request[q]]
      /\ overwritten' = IF \E q \in InProgress \ {r} : request[q].path = p
                        THEN overwritten \cup {p} ELSE overwritten
      /\ UNCHANGED <<decisions, arrived, met, unasked>>
  BY DEF RewriteSaves, row
<1> HIDE DEF rows, kept, new
<1>10. \A q \in InProgress :
          [request[q] EXCEPT !.gone = @ \ (request[r].gone \cup rows)] \in RequestRecord
  BY RequestType DEF RequestRecord
<1>11. TypeOK'
  BY <1>2, <1>6, <1>8, <1>9, <1>10 DEF IInv, TypeOK
<1>12. row.status \notin Terminal /\ row.status \notin OnAir /\ seen.status \notin Terminal
  BY <1>4, <1>6 DEF Editable, Terminal, OnAir
<1>13. p \notin met => Says(row, rows)
  <2> SUFFICES ASSUME p \notin met PROVE Says(row, rows)
    OBVIOUS
  <2>1. kept = {}
    BY <1>2, <1>3 DEF AloneOK, kept
  <2>2. CASE row.status = "DRAFT"
    BY <2>1, <2>2 DEF rows, IsOperational, Says, AlwaysReserving
  <2>3. CASE row.status = "PLANNED"
    BY <1>7, <2>1, <2>3 DEF rows, IsOperational, Says, AlwaysReserving
  <2> QED BY <1>4, <1>6, <2>2, <2>3 DEF Editable
<1>14. OthersKeep(r, p)
  <2> SUFFICES ASSUME NEW q \in InProgress'
               PROVE  /\ q \in InProgress \ {r}
                      /\ request'[q].path = request[q].path
                      /\ request'[q].action = request[q].action
                      /\ request'[q].by = request[q].by /\ request'[q].seen = request[q].seen
                      /\ request'[q].stage = request[q].stage
                      /\ request[q].path # p => request'[q].gone = request[q].gone
    BY DEF OthersKeep
  <2>1. q \in Request /\ q # r /\ q \in InProgress
    BY <1>9 DEF InProgress
  <2>2. request[q] \in RequestRecord
    BY <2>1, RequestType
  <2> QED BY <1>9, <2>1, <2>2 DEF RequestRecord
<1> HIDE DEF p, seen
<1>15. p = request[r].path /\ request[r].seen.status \notin Terminal
  BY <1>12 DEF p, seen
<1>16. row.version <= arrived + 1
  BY <1>5, <1>6
<1>17. /\ arrived' = arrived /\ met' = met /\ unasked' = unasked /\ decisions \subseteq decisions'
       /\ \A q : q # p => (q \in overwritten' <=> q \in overwritten)
       /\ overwritten \subseteq overwritten'
       /\ p \in overwritten' \/ \A q \in InProgress \ {r} : request[q].path # p
  BY <1>9
<1>18. /\ Fits(p, rows) /\ path' = [path EXCEPT ![p] = row] /\ held' = [held EXCEPT ![p] = rows]
       /\ row \in PathRow /\ SameKin(row, path[p])
  BY <1>6, <1>9
<1>19. row.status \in Terminal => rows = {}
  BY <1>12
<1>20. row.status \in OnAir /\ p \notin unasked =>
          \E d \in decisions' :
              /\ d.path = p /\ d.action = "approve"
              /\ RequireSeparateApprover => d.by # row.author
              /\ p \notin overwritten' => d.content = row.content
  BY <1>12
<1> QED BY <1>1, <1>8, <1>11, <1>13, <1>14, <1>15, <1>16, <1>17, <1>18, <1>19, <1>20, WriteStep

(***************************************************************************)
(* The steps that only touch what a request has in memory.                 *)
(***************************************************************************)
OthersStay ==
    \A q \in InProgress' :
        /\ q \in InProgress
        /\ request'[q].path = request[q].path /\ request'[q].action = request[q].action
        /\ request'[q].by = request[q].by /\ request'[q].seen = request[q].seen
        /\ request[q].path \notin met /\ request'[q].stage = "released" =>
              request'[q].gone = held[request[q].path]

\* A step that writes no table keeps the invariant if the copies stay.
LEMMA MemoryStep ==
    ASSUME IInv, TypeOK', OthersStay, UNCHANGED <<path, held, decisions, arrived, met, overwritten, unasked>>
    PROVE  IInv'
<1>1. Saved' = Saved /\ \A p : (Superseded(p))' <=> Superseded(p)
  BY DEF Saved, Superseded
<1>2. Chains'
  BY ChainsKept, <1>1 DEF IInv, SameKin
<1>3. ASSUME NEW q \in InProgress' PROVE RequestOK(q)'
  <2>1. q \in InProgress /\ RequestOK(q)
    BY <1>3, RequestType DEF OthersStay
  <2> QED BY <1>1, <1>3, <2>1 DEF RequestOK, OthersStay, Approved
<1>4. ASSUME NEW q \in InProgress' PROVE AloneOK(q)'
  <2>1. q \in InProgress /\ AloneOK(q)
    BY <1>4, RequestType DEF OthersStay
  <2> QED BY <1>4, <2>1 DEF AloneOK, OthersStay
<1>5. (\A q \in InProgress : RequestOK(q) /\ AloneOK(q))'
  BY <1>3, <1>4
<1>6. (\A p \in Saved \ met : Superseded(p) => path[p].status \in Terminal)'
  BY <1>1 DEF IInv
<1>7. (\A p \in Saved : path[p].version <= arrived + 1)'
  BY <1>1 DEF IInv
<1>8. NoDoubleHolding'
  BY DEF IInv, NoDoubleHolding, Holds
<1>9. TerminalHoldsNothing' /\ OnAirAsApproved'
  BY <1>1 DEF IInv, TerminalHoldsNothing, OnAirAsApproved, Holds
<1>10. HoldsWhatItSays'
  BY <1>1 DEF IInv, HoldsWhatItSays, Holds
<1> QED BY <1>2, <1>5, <1>6, <1>7, <1>8, <1>9, <1>10 DEF IInv

\* edit: the version is compared.
LEMMA CheckEditVersionStep ==
    ASSUME IInv, NEW r \in Request, CheckEditVersion(r) PROVE IInv'
<1>1. r \in InProgress /\ request[r] \in RequestRecord
  BY RequestType DEF CheckEditVersion, Editing, InProgress
<1>2. request' = [request EXCEPT ![r] = [request[r] EXCEPT !.stage = "checked"]]
  BY <1>1 DEF CheckEditVersion, IInv, TypeOK
<1>3. [request[r] EXCEPT !.stage = "checked"] \in RequestRecord
  BY <1>1 DEF RequestRecord
<1>4. TypeOK'
  BY <1>2, <1>3 DEF CheckEditVersion, IInv, TypeOK
<1>5. ASSUME NEW q \in InProgress', q # r
      PROVE  q \in InProgress /\ request'[q] = request[q] /\ AloneOK(q)
  BY <1>2, <1>5, RequestType DEF InProgress
<1>6. OthersStay
  <2> SUFFICES ASSUME NEW q \in InProgress'
               PROVE  /\ q \in InProgress
                      /\ request'[q].path = request[q].path
                      /\ request'[q].action = request[q].action
                      /\ request'[q].by = request[q].by /\ request'[q].seen = request[q].seen
                      /\ request[q].path \notin met /\ request'[q].stage = "released" =>
                            request'[q].gone = held[request[q].path]
    BY DEF OthersStay
  <2>1. CASE q = r
    BY <1>1, <1>2, <2>1 DEF RequestRecord, IInv, TypeOK
  <2>2. CASE q # r
    BY <1>5, <2>2 DEF AloneOK
  <2> QED BY <2>1, <2>2
<1> QED BY <1>4, <1>6, MemoryStep DEF CheckEditVersion

\* edit: what is deleted is what is there.
LEMMA RewriteReleasesStep ==
    ASSUME IInv, NEW r \in Request, RewriteReleases(r) PROVE IInv'
<1> DEFINE p == request[r].path
<1>1. r \in InProgress /\ request[r] \in RequestRecord /\ p \in Path /\ held[p] \subseteq Holding
  BY RequestType DEF RewriteReleases, Editing, InProgress, RequestRecord, IInv, TypeOK
<1>2. request' = [request EXCEPT ![r] = [request[r] EXCEPT !.stage = "released", !.gone = held[p]]]
  BY <1>1 DEF RewriteReleases, IInv, TypeOK
<1>3. [request[r] EXCEPT !.stage = "released", !.gone = held[p]] \in RequestRecord
  BY <1>1 DEF RequestRecord
<1>4. TypeOK'
  BY <1>2, <1>3 DEF RewriteReleases, IInv, TypeOK
<1>5. ASSUME NEW q \in InProgress', q # r
      PROVE  q \in InProgress /\ request'[q] = request[q] /\ AloneOK(q)
  BY <1>2, <1>5, RequestType DEF InProgress
<1>6. OthersStay
  <2> SUFFICES ASSUME NEW q \in InProgress'
               PROVE  /\ q \in InProgress
                      /\ request'[q].path = request[q].path
                      /\ request'[q].action = request[q].action
                      /\ request'[q].by = request[q].by /\ request'[q].seen = request[q].seen
                      /\ request[q].path \notin met /\ request'[q].stage = "released" =>
                            request'[q].gone = held[request[q].path]
    BY DEF OthersStay
  <2>1. CASE q = r
    BY <1>1, <1>2, <2>1 DEF RequestRecord, IInv, TypeOK
  <2>2. CASE q # r
    BY <1>5, <2>2 DEF AloneOK
  <2> QED BY <2>1, <2>2
<1> QED BY <1>4, <1>6, MemoryStep DEF RewriteReleases

\* A request that ends without a trace.
LEMMA FailStep ==
    ASSUME IInv, NEW r \in Request, Fail(r) PROVE IInv'
<1>1. /\ request' = [request EXCEPT ![r] = None]
      /\ UNCHANGED <<path, held, decisions, arrived, met, overwritten, unasked>>
  BY DEF Fail, Done
<1>2. TypeOK'
  BY <1>1 DEF IInv, TypeOK
<1>3. ASSUME NEW q \in InProgress'
      PROVE  q \in InProgress /\ request'[q] = request[q] /\ AloneOK(q)
  BY <1>1, RequestType DEF InProgress, IInv, TypeOK
<1>4. OthersStay
  BY <1>3 DEF OthersStay, AloneOK
<1> QED BY <1>1, <1>2, <1>4, MemoryStep

(***************************************************************************)
(* A request arrives.  The version it reads was written by one of the      *)
(* requests that arrived before it, and if another request is on the path, *)
(* the two have met.                                                       *)
(***************************************************************************)
LEMMA LoadStep ==
    ASSUME IInv, NEW r \in Request, NEW u \in User, NEW p \in Path, NEW a \in Actions,
           NEW c \in Content, Load(r, u, p, a, c)
    PROVE  IInv'
<1> DEFINE new == [action |-> a, by |-> u, path |-> p, seen |-> path[p], content |-> c,
                   stage |-> "loaded", gone |-> {}]
<1>1. /\ request[r] = None /\ p \in Saved /\ arrived < MaxRequests /\ arrived' = arrived + 1
      /\ Legal(a, path[p]) /\ SeparateApprover(a, u, path[p])
      /\ request' = [request EXCEPT ![r] = new]
      /\ met' = IF \E q \in InProgress : request[q].path = p THEN met \cup {p} ELSE met
      /\ UNCHANGED <<path, held, decisions, overwritten, unasked>>
  BY DEF Load, Another
<1>2. path[p] \in PathRow /\ new \in RequestRecord /\ new # None
  BY <1>1, RowType, NoneAssumption DEF IInv, RequestRecord
<1>3. arrived \in Nat /\ arrived' \in 0 .. MaxRequests
  BY <1>1, SettingsAssumption DEF IInv, TypeOK
<1>4. TypeOK'
  BY <1>1, <1>2, <1>3 DEF IInv, TypeOK
<1>5. Saved' = Saved /\ met \subseteq met'
  BY <1>1 DEF Saved
<1>6. Chains' /\ \A q : Superseded(q)' <=> Superseded(q)
  BY <1>1, <1>5, ChainsKept DEF IInv, SameKin
<1>7. \A q \in Saved : path[q].version \in Nat /\ path[q].version <= arrived + 1
  BY RowType DEF IInv, PathRow, Version
<1>8. r \in InProgress' /\ request'[r] = new
  BY <1>1, <1>2 DEF InProgress, IInv, TypeOK
<1>9. ASSUME NEW q \in InProgress', q # r
      PROVE  q \in InProgress /\ request'[q] = request[q] /\ RequestOK(q) /\ AloneOK(q)
  BY <1>1, <1>9, RequestType DEF InProgress
<1> HIDE DEF new
<1>10. new.path = p /\ new.action = a /\ new.by = u /\ new.seen = path[p] /\ new.stage = "loaded"
  BY DEF new
<1>11. ASSUME NEW q \in InProgress' PROVE RequestOK(q)'
  <2>1. CASE q = r
    <3>1. path[p].status \in OnAir /\ p \notin unasked => Approved(p)
      BY <1>1 DEF IInv, OnAirAsApproved, OnAir, Approved
    <3>2. path[p].version <= arrived'
      BY <1>1, <1>7
    <3> QED BY <1>1, <1>5, <1>8, <1>10, <2>1, <3>1, <3>2 DEF RequestOK, SameKin, Approved
  <2>2. CASE q # r
    <3>1. request[q].seen.version \in Nat
      BY <1>9, <2>2, RequestType DEF RequestRecord, PathRow, Version
    <3> QED BY <1>1, <1>3, <1>5, <1>9, <2>2, <3>1 DEF RequestOK, Approved
  <2> QED BY <2>1, <2>2
<1>12. ASSUME NEW q \in InProgress' PROVE AloneOK(q)'
  <2> SUFFICES ASSUME request'[q].path \notin met'
               PROVE  /\ request'[q].seen = path[request'[q].path]
                      /\ request'[q].stage = "released" =>
                            request'[q].gone = held[request'[q].path]
                      /\ \A o \in InProgress' : request'[o].path = request'[q].path => o = q
    BY <1>1 DEF AloneOK
  <2>1. CASE q = r
    <3>1. \A o \in InProgress : request[o].path # p
      BY <1>1, <1>8, <1>10, <2>1
    <3>2. \A o \in InProgress' : request'[o].path = p => o = r
      BY <1>9, <3>1
    <3> QED BY <1>8, <1>10, <2>1, <3>2
  <2>2. CASE q # r
    <3>1. q \in InProgress /\ request'[q] = request[q] /\ AloneOK(q)
      BY <1>9, <2>2
    <3>2. request[q].path # p
      BY <1>1, <3>1
    <3>3. \A o \in InProgress' : request'[o].path = request'[q].path => o = q
      BY <1>5, <1>8, <1>9, <1>10, <3>1, <3>2 DEF AloneOK
    <3> QED BY <1>5, <3>1, <3>3 DEF AloneOK
  <2> QED BY <2>1, <2>2
<1>13. (\A q \in InProgress : RequestOK(q) /\ AloneOK(q))'
  BY <1>11, <1>12
<1>14. (\A q \in Saved \ met : Superseded(q) => path[q].status \in Terminal)'
  BY <1>1, <1>5, <1>6 DEF IInv
<1>15. (\A q \in Saved : path[q].version <= arrived + 1)'
  BY <1>1, <1>3, <1>5, <1>7
<1>16. NoDoubleHolding'
  BY <1>1 DEF IInv, NoDoubleHolding
<1>17. TerminalHoldsNothing' /\ OnAirAsApproved'
  BY <1>1, <1>5 DEF IInv, TerminalHoldsNothing, OnAirAsApproved
<1>18. HoldsWhatItSays'
  BY <1>1, <1>5 DEF IInv, HoldsWhatItSays
<1> QED BY <1>4, <1>6, <1>13, <1>14, <1>15, <1>16, <1>17, <1>18 DEF IInv

(***************************************************************************)
(* A chain grows at its end only: a new path starts one, or supersedes a   *)
(* revision nothing superseded before.                                     *)
(***************************************************************************)
Begins(q, new) == new.group = q /\ new.revision = 1 /\ new.supersedes = None

Follows(p, new) ==
    /\ p \in Saved /\ ~Superseded(p)
    /\ new.group = path[p].group /\ new.revision = path[p].revision + 1
    /\ new.supersedes = p

\* The row of a path that is new joins the chains.
LEMMA ChainsGrow ==
    ASSUME Chains, TypeOK, NEW q \in Path, q \notin Saved, NEW new,
           Saved' = Saved \cup {q}, path'[q] = new,
           \A o \in Saved : SameKin(path'[o], path[o]),
           Begins(q, new) \/ \E p : Follows(p, new)
    PROVE  /\ Chains'
           /\ \A o \in Saved : Superseded(o)' <=> Superseded(o) \/ o = new.supersedes
           /\ ~(Superseded(q))'
<1>1. \A o \in Saved : path[o] \in PathRow /\ path[o].revision \in Nat \ {0}
  BY RowType DEF PathRow, Revision
<1>2. \A o \in Saved : Superseded(o)' <=> Superseded(o) \/ o = new.supersedes
  BY DEF Superseded, SameKin
<1>3. \A o \in Saved : path[o].supersedes \in Saved \cup {None}
  BY DEF Chains, LinkOK
<1>4. None \notin Path
  BY NoneAssumption
<1>5. ~(Superseded(q))'
  BY <1>3, <1>4 DEF Superseded, SameKin, Begins, Follows
<1>6. ASSUME NEW o \in Saved PROVE LinkOK(o)'
  BY <1>6 DEF Chains, LinkOK, SameKin
<1>7. CASE Begins(q, new)
  <2>1. LinkOK(q)'
    BY <1>7 DEF LinkOK, Begins
  <2>2. \A o \in Saved : path'[o].group # q
    BY DEF Chains, LinkOK, SameKin
  <2>3. ChainNeverBranches'
    BY <1>7, <2>2 DEF Chains, ChainNeverBranches, SameKin, Begins
  <2>4. (\A a, b \in Saved : path[a].group = path[b].group /\ path[a].revision < path[b].revision
                                => Superseded(a))'
    BY <1>2, <1>7, <2>2 DEF Chains, SameKin, Begins
  <2> QED BY <1>2, <1>5, <1>6, <2>1, <2>3, <2>4 DEF Chains
<1>8. CASE \E p : Follows(p, new)
  <2>1. PICK p : Follows(p, new)
    BY <1>8
  <2>2. LinkOK(q)'
    BY <1>1, <2>1 DEF LinkOK, Follows, SameKin, Chains
  <2>3. \A o \in Saved : path[o].group = path[p].group => path[o].revision <= path[p].revision
    BY <1>1, <2>1 DEF Chains, Follows
  <2>4. ASSUME NEW o \in Saved
        PROVE  /\ path'[o].supersedes # p
               /\ ~(path'[o].group = new.group /\ path'[o].revision = new.revision)
               /\ ~(path'[o].group = new.group /\ new.revision < path'[o].revision)
    BY <1>1, <2>1, <2>3 DEF Follows, Superseded, SameKin
  <2>5. ChainNeverBranches'
    BY <2>1, <2>4 DEF Chains, ChainNeverBranches, SameKin, Follows
  <2>6. ASSUME NEW a \in Saved', NEW b \in Saved', path'[a].group = path'[b].group,
               path'[a].revision < path'[b].revision
        PROVE  Superseded(a)'
    <3>1. CASE a = q
      BY <1>1, <2>1, <2>4, <2>6, <3>1 DEF Follows
    <3>2. CASE a # q /\ b = q
      <4>1. a \in Saved /\ path[a].group = path[p].group /\ path[a].revision <= path[p].revision
        BY <2>1, <2>3, <2>6, <3>2 DEF Follows, SameKin
      <4>2. CASE path[a].revision = path[p].revision
        BY <1>2, <2>1, <4>1, <4>2 DEF Chains, ChainNeverBranches, Follows
      <4>3. CASE path[a].revision < path[p].revision
        BY <1>2, <2>1, <4>1, <4>3 DEF Chains, Follows
      <4> QED BY <1>1, <2>1, <4>1, <4>2, <4>3 DEF Follows
    <3>3. CASE a # q /\ b # q
      BY <1>2, <2>6, <3>3 DEF Chains, SameKin
    <3> QED BY <3>1, <3>2, <3>3
  <2> QED BY <1>2, <1>5, <1>6, <2>2, <2>5, <2>6 DEF Chains
<1> QED BY <1>7, <1>8

\* create: a new path begins a chain of its own.
LEMMA CreateStep ==
    ASSUME IInv, NEW u \in User, NEW q \in Path, NEW c \in Content, NEW s \in Posted,
           Create(u, q, c, s)
    PROVE  IInv'
<1> DEFINE new == NewPath(s, c, u, q, 1, None)
           rows == IF IsOperational(s) THEN {Placed(c, s)} ELSE {}
<1>1. /\ path[q] = None /\ arrived < MaxRequests /\ arrived' = arrived + 1
      /\ Fits(q, rows)
      /\ path' = [path EXCEPT ![q] = new] /\ held' = [held EXCEPT ![q] = rows]
      /\ unasked' = IF s \in OnAir THEN unasked \cup {q} ELSE unasked
      /\ UNCHANGED <<decisions, request, met, overwritten>>
  BY DEF Create, Another
<1>2. arrived \in Nat /\ arrived' \in 0 .. MaxRequests /\ 1 \in Version /\ 1 \in Revision
  BY <1>1, SettingsAssumption DEF IInv, TypeOK, Version, Revision
<1>3. s \in PathStatus /\ new \in PathRow /\ rows \in SUBSET Holding
  BY <1>2, SettingsAssumption, PlacedFacts DEF NewPath, PathRow
<1>4. Begins(q, new) /\ new.status = s /\ new.version = 1
  BY DEF NewPath, Begins
<1>5. Says(new, rows) /\ (s \in Terminal => \A h \in rows : ~Holds(h))
  BY <1>3, PlacedFacts DEF NewPath, Says, IsOperational, AlwaysReserving, Terminal
<1>6. TypeOK'
  BY <1>1, <1>2, <1>3 DEF IInv, TypeOK
<1> HIDE DEF new, rows
<1>7. new # None
  BY <1>3, NoneAssumption
<1>8. /\ path'[q] = new /\ held'[q] = rows
      /\ \A o \in Path \ {q} : path'[o] = path[o] /\ held'[o] = held[o]
  BY <1>1 DEF IInv, TypeOK
<1>9. q \notin Saved /\ Saved' = Saved \cup {q}
  BY <1>1, <1>7, <1>8 DEF Saved
<1>10. \A o \in Saved : path'[o] = path[o] /\ held'[o] = held[o]
  BY <1>8, <1>9 DEF Saved
<1>11. /\ Chains' /\ ~(Superseded(q))'
       /\ \A o \in Saved : Superseded(o)' <=> Superseded(o) \/ o = new.supersedes
  BY <1>4, <1>8, <1>9, <1>10, ChainsGrow DEF IInv, SameKin
<1>12. new.supersedes \notin Saved
  BY <1>4, NoneAssumption DEF Begins, Saved
<1>13. ASSUME NEW r \in InProgress' PROVE RequestOK(r)' /\ AloneOK(r)'
  <2>1. r \in InProgress /\ RequestOK(r) /\ AloneOK(r) /\ request[r].path \in Saved
    BY <1>1, <1>13, RequestType DEF InProgress
  <2>2. request[r].seen.version \in Nat
    BY <2>1, RequestType DEF RequestRecord, PathRow, Version
  <2>3. RequestOK(r)'
    BY <1>1, <1>2, <1>9, <1>10, <2>1, <2>2 DEF RequestOK, Approved
  <2>4. AloneOK(r)'
    BY <1>1, <1>10, <2>1 DEF AloneOK, InProgress
  <2> QED BY <2>3, <2>4
<1>14. (\A r \in InProgress : RequestOK(r) /\ AloneOK(r))'
  BY <1>13
<1>15. (\A o \in Saved \ met : Superseded(o) => path[o].status \in Terminal)'
  BY <1>1, <1>9, <1>10, <1>11, <1>12 DEF IInv
<1>16. (\A o \in Saved : path[o].version <= arrived + 1)'
  <2>1. \A o \in Saved : path[o].version \in Nat
    BY RowType DEF IInv, PathRow, Version
  <2> QED BY <1>1, <1>2, <1>4, <1>8, <1>9, <1>10, <2>1 DEF IInv
<1>17. NoDoubleHolding'
  BY <1>1, <1>3, HeldStep DEF IInv, TypeOK
<1>18. TerminalHoldsNothing'
  BY <1>4, <1>5, <1>8, <1>9, <1>10 DEF IInv, TerminalHoldsNothing, Holds
<1>19. OnAirAsApproved'
  BY <1>1, <1>4, <1>8, <1>9, <1>10 DEF IInv, OnAirAsApproved
<1>20. HoldsWhatItSays'
  <2>1. \A o \in Saved \ met : Says(path[o], held[o])
    BY DEF IInv, HoldsWhatItSays, Says
  <2>2. \A o \in (Saved \ met)' : Says(path'[o], held'[o])
    BY <1>1, <1>5, <1>8, <1>9, <1>10, <2>1
  <2> QED BY <2>2 DEF HoldsWhatItSays, Says, Holds
<1> QED BY <1>6, <1>11, <1>14, <1>15, <1>16, <1>17, <1>18, <1>19, <1>20 DEF IInv

(***************************************************************************)
(* revise: the predecessor is retired and holds nothing, the successor     *)
(* continues its chain.                                                    *)
(***************************************************************************)
LEMMA ReviseStep ==
    ASSUME IInv, NEW r \in Request, NEW q \in Path, Revise(r, q)
    PROVE  IInv'
<1> DEFINE p == request[r].path
           seen == request[r].seen
           new == NewPath(SuccessorStatus(seen.status), request[r].content, request[r].by,
                          seen.group, seen.revision + 1, p)
           closed == Closed(p, seen)
           rows == {Placed(new.content, new.status)}
           freed == [held EXCEPT ![p] = {}]
<1>1. /\ r \in InProgress /\ path[q] = None /\ ~Superseded(p) /\ seen.revision < MaxRevision
      /\ \A o \in Path : \A g \in freed[o] : Holds(g) => g.content # new.content
      /\ path' = [path EXCEPT ![p] = closed, ![q] = new] /\ held' = [freed EXCEPT ![q] = rows]
      /\ request' = [request EXCEPT ![r] = None]
      /\ UNCHANGED <<decisions, arrived, met, overwritten, unasked>>
  BY DEF Revise, Done, InProgress
<1>2. /\ decisions' = decisions /\ arrived' = arrived /\ met' = met
      /\ overwritten' = overwritten /\ unasked' = unasked
  BY <1>1
<1>3. /\ request[r] \in RequestRecord /\ p \in Saved /\ RequestOK(r) /\ AloneOK(r)
      /\ p \in Path /\ path[p] \in PathRow
  BY <1>1, RequestType, RowType DEF IInv
<1>4. /\ seen \in PathRow /\ request[r].content \in Content /\ request[r].by \in User
      /\ SameKin(seen, path[p])
  BY <1>3 DEF RequestRecord, RequestOK
<1>5. Bumped(seen) \in Version /\ Bumped(seen) <= arrived + 1 /\ 1 \in Version
  BY <1>3, <1>4, SettingsAssumption DEF RequestOK, Bumped, PathRow, Version, IInv, TypeOK
<1>6. /\ closed \in PathRow /\ closed.status = "RETIRED" /\ closed.version = Bumped(seen)
      /\ closed.content = path[p].content /\ SameKin(closed, path[p])
  BY <1>3, <1>5 DEF Closed, PathRow, SameKin, PathStatus, NeverReserving
<1>7. SuccessorStatus(seen.status) \in {"PENDING_APPROVAL", "PLANNED"}
  BY DEF SuccessorStatus
<1>8. seen.revision + 1 \in Revision
  BY <1>1, <1>4, SettingsAssumption DEF PathRow, Revision
<1>9. /\ new \in PathRow /\ new.status \in {"PENDING_APPROVAL", "PLANNED"} /\ new.version = 1
      /\ new.group = seen.group /\ new.revision = seen.revision + 1 /\ new.supersedes = p
  BY <1>3, <1>4, <1>5, <1>7, <1>8 DEF NewPath, PathRow, PathStatus, AlwaysReserving
<1> HIDE DEF new, closed
<1>10. /\ rows \in SUBSET Holding /\ Says(new, rows)
       /\ \A h \in rows : h.content = new.content
  BY <1>9, PlacedFacts DEF PathRow, Says, AlwaysReserving
<1>11. new # None /\ closed # None /\ q # p /\ q \notin Saved
  BY <1>1, <1>3, <1>6, <1>9, NoneAssumption DEF Saved
<1>12. TypeOK'
  BY <1>1, <1>6, <1>9, <1>10 DEF IInv, TypeOK
<1>13. /\ path'[q] = new /\ held'[q] = rows /\ path'[p] = closed /\ held'[p] = {}
       /\ \A o \in Path \ {p, q} : path'[o] = path[o] /\ held'[o] = held[o]
  BY <1>1, <1>3, <1>11 DEF IInv, TypeOK
<1> HIDE DEF rows, p, seen, freed
<1>14. Saved' = Saved \cup {q}
  BY <1>3, <1>11, <1>13 DEF Saved
<1>15. \A o \in Saved \ {p} : path'[o] = path[o] /\ held'[o] = held[o]
  BY <1>11, <1>13 DEF Saved
<1>16. \A o \in Saved : SameKin(path'[o], path[o])
  BY <1>6, <1>13, <1>15 DEF SameKin
<1>17. Follows(p, new)
  BY <1>1, <1>3, <1>4, <1>9 DEF Follows, SameKin
<1>18. /\ Chains' /\ ~(Superseded(q))'
       /\ \A o \in Saved : Superseded(o)' <=> Superseded(o) \/ o = new.supersedes
  BY <1>11, <1>13, <1>14, <1>16, <1>17, ChainsGrow DEF IInv
<1>19. ASSUME NEW o \in InProgress' PROVE RequestOK(o)' /\ AloneOK(o)'
  <2>1. /\ o \in InProgress /\ o # r /\ request'[o] = request[o]
        /\ RequestOK(o) /\ AloneOK(o) /\ request[o].path \in Saved
    BY <1>1, <1>19, RequestType DEF InProgress, IInv, TypeOK
  <2>2. SameKin(request'[o].seen, path'[request[o].path])
    BY <1>16, <2>1 DEF RequestOK, SameKin
  <2>3. path'[request[o].path].content = path[request[o].path].content
    BY <1>6, <1>13, <1>15, <2>1
  <2>4. Approved(request[o].path) => Approved(request[o].path)'
    BY <1>2, <1>16, <2>1, <2>3 DEF Approved, SameKin
  <2>6. RequestOK(o)'
    BY <1>2, <1>14, <2>1, <2>2, <2>3, <2>4 DEF RequestOK
  <2>5. AloneOK(o)'
    <3> SUFFICES ASSUME request[o].path \notin met PROVE AloneOK(o)'
      BY <1>2, <2>1 DEF AloneOK
    <3>1. request[o].path # p
      BY <1>1, <2>1 DEF AloneOK, p
    <3>2. /\ path'[request[o].path] = path[request[o].path]
          /\ held'[request[o].path] = held[request[o].path]
      BY <1>15, <2>1, <3>1
    <3>3. InProgress' \subseteq InProgress /\ \A i \in InProgress' : request'[i] = request[i]
      BY <1>1 DEF InProgress, IInv, TypeOK
    <3> QED BY <1>2, <2>1, <3>2, <3>3 DEF AloneOK
  <2> QED BY <2>5, <2>6
<1>20. (\A o \in InProgress : RequestOK(o) /\ AloneOK(o))'
  BY <1>19
<1>21. (\A o \in Saved \ met : Superseded(o) => path[o].status \in Terminal)'
  <2>1. closed.status \in Terminal
    BY <1>6 DEF Terminal
  <2> QED BY <1>2, <1>9, <1>13, <1>14, <1>15, <1>18, <2>1 DEF IInv
<1>22. (\A o \in Saved : path[o].version <= arrived + 1)'
  <2>1. arrived \in Nat
    BY DEF IInv, TypeOK
  <2>2. \A o \in Saved : path[o].version <= arrived + 1
    BY DEF IInv
  <2>3. path'[p].version <= arrived + 1 /\ path'[q].version <= arrived + 1
    BY <1>5, <1>6, <1>9, <1>13, <2>1
  <2> QED BY <1>2, <1>14, <1>15, <2>2, <2>3
<1>23. NoDoubleHolding'
  <2> SUFFICES ASSUME NEW a \in Path, NEW b \in Path, NEW g \in held'[a], NEW h \in held'[b],
                      Holds(g), Holds(h), g.content = h.content
               PROVE  a = b /\ g = h
    BY DEF NoDoubleHolding, Holds
  <2>1. \A o \in Path \ {q} : held'[o] = freed[o] /\ freed[o] \subseteq held[o]
    BY <1>1, <1>3 DEF IInv, TypeOK, freed
  <2>2. \A i \in rows : i = Placed(new.content, new.status) /\ i.content = new.content
    BY <1>10 DEF rows
  <2>3. CASE a = q /\ b = q
    BY <1>13, <2>2, <2>3
  <2>4. CASE a = q /\ b # q
    BY <1>1, <1>13, <2>1, <2>2, <2>4
  <2>5. CASE a # q /\ b = q
    BY <1>1, <1>13, <2>1, <2>2, <2>5
  <2>6. CASE a # q /\ b # q
    BY <2>1, <2>6 DEF IInv, NoDoubleHolding
  <2> QED BY <2>3, <2>4, <2>5, <2>6
<1>24. TerminalHoldsNothing'
  BY <1>9, <1>13, <1>14, <1>15 DEF IInv, TerminalHoldsNothing, Terminal
<1>25. OnAirAsApproved'
  <2>1. \A o \in Saved' : path'[o].status \in OnAir => o \in Saved /\ path'[o] = path[o]
    BY <1>6, <1>9, <1>13, <1>14, <1>15 DEF OnAir
  <2> QED BY <1>2, <2>1 DEF IInv, OnAirAsApproved, OnAir
<1>26. HoldsWhatItSays'
  <2>1. Says(closed, {})
    BY <1>6 DEF Says, AlwaysReserving
  <2>2. \A o \in Saved \ met : Says(path[o], held[o])
    BY DEF IInv, HoldsWhatItSays, Says
  <2>3. \A o \in (Saved \ met)' : Says(path'[o], held'[o])
    BY <1>2, <1>10, <1>13, <1>14, <1>15, <2>1, <2>2
  <2> QED BY <2>3 DEF HoldsWhatItSays, Says, Holds
<1> QED BY <1>12, <1>18, <1>20, <1>21, <1>22, <1>23, <1>24, <1>25, <1>26 DEF IInv

\* No step breaks the invariant.
LEMMA NextStep == ASSUME IInv, [Next]_vars PROVE IInv'
<1>1. ASSUME NEW u \in User, NEW p \in Path, NEW c \in Content, NEW s \in Posted,
             Create(u, p, c, s)
      PROVE  IInv'
  BY <1>1, CreateStep
<1>2. ASSUME NEW r \in Request, NEW u \in User, NEW p \in Path, NEW a \in Actions,
             NEW c \in Content, Load(r, u, p, a, c)
      PROVE  IInv'
  BY <1>2, LoadStep
<1>3. ASSUME NEW r \in Request, Move(r) PROVE IInv'
  BY <1>3, MoveStep
<1>4. ASSUME NEW r \in Request, CheckEditVersion(r) PROVE IInv'
  BY <1>4, CheckEditVersionStep
<1>5. ASSUME NEW r \in Request, RewriteReleases(r) PROVE IInv'
  BY <1>5, RewriteReleasesStep
<1>6. ASSUME NEW r \in Request, RewriteSaves(r) PROVE IInv'
  BY <1>6, RewriteSavesStep
<1>7. ASSUME NEW r \in Request, NEW q \in Path, Revise(r, q) PROVE IInv'
  BY <1>7, ReviseStep
<1>8. ASSUME NEW r \in Request, Fail(r) PROVE IInv'
  BY <1>8, FailStep
<1>9. CASE UNCHANGED vars
  <2> USE <1>9 DEF vars
  <2>1. TypeOK'
    BY DEF IInv, TypeOK
  <2>2. OthersStay
    BY RequestType DEF OthersStay, InProgress, AloneOK
  <2> QED BY <2>1, <2>2, MemoryStep
<1> QED BY <1>1, <1>2, <1>3, <1>4, <1>5, <1>6, <1>7, <1>8, <1>9 DEF Next, Arrive, Write

\* The invariant the theorems below are read off.
THEOREM Invariant == Spec => []IInv
<1>1. Init => IInv
  BY Initially
<1>2. IInv /\ [Next]_vars => IInv'
  BY NextStep
<1> QED BY <1>1, <1>2, PTL DEF Spec

\* The rows of the tables and what requests hold in memory have their types: a
\* record_version never runs past the requests that arrived.
THEOREM TypeCorrect == Spec => []TypeOK
<1>1. IInv => TypeOK
  BY DEF IInv
<1> QED BY <1>1, Invariant, PTL

\* However the requests of a service interleave, no two paths hold the same
\* spectrum: every write of reservations passes the exclusion constraint.
THEOREM SpectrumHeldOnce == Spec => []NoDoubleHolding
<1>1. IInv => NoDoubleHolding
  BY DEF IInv
<1> QED BY <1>1, Invariant, PTL

\* A cancelled or retired path holds nothing, although the request that ended
\* it may have worked from a stale copy and an edit may have been under way.
THEOREM TerminalReleases == Spec => []TerminalHoldsNothing
<1>1. IInv => TerminalHoldsNothing
  BY DEF IInv
<1> QED BY <1>1, Invariant, PTL

\* The revisions of an allocation are one chain: two requests that revise the
\* same path at once never both succeed.
THEOREM OneChain == Spec => []ChainNeverBranches
<1>1. IInv => ChainNeverBranches
  BY DEF IInv, Chains
<1> QED BY <1>1, Invariant, PTL

\* Nothing that was not created on air gets there without the approval of
\* somebody else, and what is on air is what was approved, however requests
\* meet on the path, unless one of them was an edit saved meanwhile.
THEOREM ApprovedBeforeOnAir == Spec => []OnAirAsApproved
<1>1. IInv => OnAirAsApproved
  BY DEF IInv
<1> QED BY <1>1, Invariant, PTL

\* The reservations of a path are those its row calls for, wherever no two
\* requests met on the path.
THEOREM RowsFollowThePath == Spec => []HoldsWhatItSays
<1>1. IInv => HoldsWhatItSays
  BY DEF IInv
<1> QED BY <1>1, Invariant, PTL

\* Of the revisions of an allocation at most one is alive, wherever no two
\* requests met on either.
THEOREM OneAlive == Spec => []OneLiveRevision
<1>1. IInv => OneLiveRevision
  BY OneLive
<1> QED BY <1>1, Invariant, PTL
-----------------------------------------------------------------------------
(***************************************************************************)
(* The periods of one chain of revisions: RevisionPeriods, for chains of   *)
(* any length and any moments.                                             *)
(***************************************************************************)
CONSTANTS Moment, Kept
VARIABLES periods, asked

Chain == INSTANCE RevisionPeriods WITH chain <- periods, request <- asked

\* What a request works from: the row itself, or what its own form wrote.
WorksFrom(q) ==
    /\ q.caller = "service" => q.instance = periods[q.revision]
    /\ q.caller = "screen" => q.instance.start = q.start

PeriodsInv ==
    /\ Chain!TypeOK
    /\ Chain!ChainIsContiguous
    /\ asked # None => WorksFrom(asked)

\* A chain begins with nothing.
LEMMA PeriodsInitially == Chain!Init => PeriodsInv
BY DEF Chain!Init, PeriodsInv, Chain!TypeOK, Chain!ChainIsContiguous

\* Asking changes no chain.
LEMMA PeriodsAsked ==
    ASSUME PeriodsInv, NEW caller \in Chain!Caller, NEW revision \in DOMAIN periods,
           NEW start \in Moment, NEW end \in Moment \cup {Chain!NoEnd, Kept},
           NEW instance \in Chain!PeriodsOver(Moment),
           caller = "service" => instance = periods[revision],
           caller = "screen" => instance.start = start,
           Chain!Asked(caller, revision, start, end, instance)
    PROVE  PeriodsInv'
<1>1. asked' \in Chain!RequestRecord /\ periods' = periods
  BY DEF Chain!Asked, Chain!RequestRecord
<1>2. WorksFrom(asked)'
  BY DEF Chain!Asked, WorksFrom
<1> QED BY <1>1, <1>2 DEF PeriodsInv, Chain!TypeOK, Chain!ChainIsContiguous, Chain!RequestRecord

\* The screen's request is refused: its moment is compared with itself.
LEMMA ScreenRefused ==
    ASSUME Moment \subseteq Int, PeriodsInv, asked # None, asked.caller = "screen"
    PROVE  ~Chain!Accepted
BY DEF PeriodsInv, Chain!TypeOK, Chain!RequestRecord, WorksFrom, Chain!Accepted

\* What Append makes of a sequence.
LEMMA Appended ==
    ASSUME NEW S, NEW s \in Seq(S), NEW p \in S
    PROVE  /\ Append(s, p) \in Seq(S) /\ Len(Append(s, p)) = Len(s) + 1
           /\ \A i \in 1 .. Len(s) : Append(s, p)[i] = s[i]
           /\ Append(s, p)[Len(s) + 1] = p
OBVIOUS

\* A revision that is accepted continues the chain where it ends.
LEMMA PeriodsRevised ==
    ASSUME Moment \subseteq Int, PeriodsInv, Chain!Revise
    PROVE  PeriodsInv'
<1> DEFINE last == Len(periods)
           start == asked.start
           e == Chain!SuccessorEnd([asked.instance EXCEPT !.end = asked.start])
           closed == [periods EXCEPT ![last].end = start]
<1>1. asked \in Chain!RequestRecord /\ WorksFrom(asked) /\ Chain!Accepted
  BY DEF Chain!Revise, PeriodsInv, Chain!TypeOK
<1>2. asked.caller = "service"
  BY <1>1, ScreenRefused DEF Chain!RequestRecord, Chain!Caller, Chain!Revise
<1>3. /\ asked.revision = last /\ last \in DOMAIN periods /\ start \in Moment
      /\ asked.instance = periods[last] /\ periods[last] \in Chain!PeriodsOver(Moment)
      /\ periods[last].start < start
  BY <1>1, <1>2 DEF Chain!RequestRecord, WorksFrom, Chain!Accepted, PeriodsInv, Chain!TypeOK
<1>4. e \in Moment \cup {Chain!NoEnd} /\ Chain!Runs(start, e)
  BY <1>1, <1>3 DEF Chain!Accepted, Chain!SuccessorEnd, Chain!RequestRecord, Chain!PeriodsOver
<1> HIDE DEF e
<1>5. Chain!Period(start, e) \in Chain!PeriodsOver(Moment)
  BY <1>3, <1>4 DEF Chain!Period, Chain!PeriodsOver, Chain!Runs
<1>6. [periods[last] EXCEPT !.end = start] \in Chain!PeriodsOver(Moment)
  BY <1>3 DEF Chain!PeriodsOver
<1>7. closed \in Seq(Chain!PeriodsOver(Moment)) /\ Len(closed) = last
  BY <1>3, <1>6 DEF PeriodsInv, Chain!TypeOK
<1>8. periods' = Append(closed, Chain!Period(start, e)) /\ asked' = None
  BY <1>3 DEF Chain!Revise, e
<1>9. /\ periods' \in Seq(Chain!PeriodsOver(Moment)) /\ Len(periods') = last + 1
      /\ \A i \in 1 .. last : periods'[i] = closed[i]
      /\ periods'[last + 1] = Chain!Period(start, e)
  <2> HIDE DEF closed, start, last
  <2> QED BY <1>5, <1>7, <1>8, Appended
<1>10. /\ \A i \in 1 .. last - 1 : closed[i] = periods[i]
       /\ closed[last].start = periods[last].start /\ closed[last].end = start
  BY <1>3 DEF PeriodsInv, Chain!TypeOK, Chain!PeriodsOver
<1>11. \A i \in DOMAIN periods' : Chain!Runs(periods'[i].start, periods'[i].end)
  BY <1>9 DEF Chain!Runs, Chain!PeriodsOver
<1>12. \A i \in 1 .. Len(periods') - 1 : periods'[i].end = periods'[i + 1].start
  <2> SUFFICES ASSUME NEW i \in 1 .. last PROVE periods'[i].end = periods'[i + 1].start
    BY <1>9
  <2>0. last \in Nat
    BY DEF PeriodsInv, Chain!TypeOK
  <2>1. CASE i = last
    BY <2>1, <1>3, <1>9, <1>10 DEF Chain!Period
  <2>2. CASE i # last
    <3>1. i \in 1 .. last - 1 /\ i + 1 \in 1 .. last
      BY <2>0, <2>2
    <3>2. periods[i].end = periods[i + 1].start
      BY <3>1 DEF PeriodsInv, Chain!TypeOK, Chain!ChainIsContiguous
    <3>3. closed[i + 1].start = periods[i + 1].start
      BY <2>0, <3>1, <1>10
    <3> QED BY <3>1, <3>2, <3>3, <1>9, <1>10
  <2> QED BY <2>1, <2>2
<1> QED BY <1>8, <1>9, <1>11, <1>12 DEF PeriodsInv, Chain!TypeOK, Chain!ChainIsContiguous

\* Every step keeps a chain in order.
LEMMA PeriodsStep ==
    ASSUME Moment \subseteq Int, PeriodsInv, [Chain!Next]_<<periods, asked>>
    PROVE  PeriodsInv'
<1>1. ASSUME NEW period \in Chain!PeriodsOver(Moment), Chain!Create(period) PROVE PeriodsInv'
  BY <1>1 DEF Chain!Create, PeriodsInv, Chain!TypeOK, Chain!ChainIsContiguous, Chain!PeriodsOver,
              Chain!Runs, Chain!RequestRecord
<1>2. ASSUME NEW revision \in DOMAIN periods, NEW period \in Chain!PeriodsOver(Moment),
             Chain!Post(revision, period)
      PROVE  PeriodsInv'
  <2>1. /\ "screen" \in Chain!Caller /\ period.start \in Moment
        /\ period.end \in Moment \cup {Chain!NoEnd, Kept}
    BY DEF Chain!Caller, Chain!PeriodsOver
  <2> QED BY <1>2, <2>1, PeriodsAsked DEF Chain!Post
<1>3. ASSUME NEW revision \in DOMAIN periods, NEW start \in Moment,
             NEW end \in Moment \cup {Chain!NoEnd, Kept}, Chain!Call(revision, start, end)
      PROVE  PeriodsInv'
  <2>1. "service" \in Chain!Caller /\ periods[revision] \in Chain!PeriodsOver(Moment)
    BY DEF Chain!Caller, PeriodsInv, Chain!TypeOK
  <2> QED BY <1>3, <2>1, PeriodsAsked DEF Chain!Call
<1>4. CASE Chain!Refuse
  BY <1>4 DEF Chain!Refuse, PeriodsInv, Chain!TypeOK, Chain!ChainIsContiguous
<1>5. CASE UNCHANGED Chain!vars
  BY <1>5 DEF Chain!vars, PeriodsInv, Chain!TypeOK, Chain!ChainIsContiguous, Chain!RequestRecord,
              WorksFrom
<1> QED BY <1>1, <1>2, <1>3, <1>4, <1>5, PeriodsRevised DEF Chain!Next, Chain!vars

\* Whatever is asked for, in whatever order, each revision of a path ends
\* where the next begins, and its period runs forwards.
THEOREM ChainStaysContiguous ==
    ASSUME Moment \subseteq Int
    PROVE  Chain!Spec => []Chain!ChainIsContiguous
<1>1. PeriodsInv => Chain!ChainIsContiguous
  BY DEF PeriodsInv
<1> QED BY <1>1, PeriodsInitially, PeriodsStep, PTL DEF Chain!Spec, Chain!vars

\* The revision screen never revises anything: the form has written the moment
\* that was asked for onto the path revise compares it with.
THEOREM ScreenNeverRevises ==
    ASSUME Moment \subseteq Int
    PROVE  Chain!Spec =>
              [][asked # None /\ asked.caller = "screen" => periods' = periods]_<<periods, asked>>
<1>1. ASSUME PeriodsInv, [Chain!Next]_<<periods, asked>>, asked # None, asked.caller = "screen"
      PROVE  periods' = periods
  <2>1. ~Chain!Accepted
    BY <1>1, ScreenRefused
  <2>2. periods # <<>>
    BY <1>1 DEF PeriodsInv, Chain!TypeOK, Chain!RequestRecord
  <2>3. ~\E period \in Chain!PeriodsOver(Moment) : Chain!Create(period)
    BY <2>2 DEF Chain!Create
  <2> QED BY <1>1, <2>1, <2>3 DEF Chain!Next, Chain!vars, Chain!Post, Chain!Call, Chain!Asked,
                                  Chain!Revise, Chain!Refuse
<1>2. PeriodsInv /\ [Chain!Next]_<<periods, asked>> =>
          [asked # None /\ asked.caller = "screen" => periods' = periods]_<<periods, asked>>
  BY <1>1
<1> QED BY <1>2, PeriodsInitially, PeriodsStep, PTL DEF Chain!Spec, Chain!vars
=============================================================================
