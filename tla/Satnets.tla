------------------------------ MODULE Satnets -------------------------------
(***************************************************************************)
(* Who may change a Satnet, and what overlapping changes leave behind:     *)
(* src/satnets/services.py, scope.py, views.py and forms.py, with the      *)
(* roles of src/accounts (policy.py, services.py, constants.py) and the    *)
(* scope grants of src/inventory/scope.py they are judged by.              *)
(*                                                                         *)
(* A request asks for the capabilities of its user once, when it arrives   *)
(* (Django keeps them on request.user), reads the row it is about, reads   *)
(* the grants after that, and then writes.  Each of these is a step.       *)
(* Nothing in the write looks at the row again: Satnets carry a            *)
(* record_version that no service compares.                                *)
(*                                                                         *)
(* update has no caller but the edit screen, and that fails before it gets *)
(* there: SatnetEditForm, given its actor, looks for the fields it leaves  *)
(* out.  An edit is here a call of the service, with a row it has read.    *)
(*                                                                         *)
(* One Beam and one Hub: what a grant is for is told apart by its kind.    *)
(* Of the four roles those are kept that may write what is modelled;       *)
(* nobody is a superuser.                                                  *)
(***************************************************************************)
EXTENDS Naturals, FiniteSets

CONSTANTS
    User,
    Satnet,       \* identifiers, used or not yet
    Gateway,      \* sites the Hub may be at
    Code,
    Request,      \* requests being served at once
    None,
    InitialRoles, \* of each user
    MaxChanges    \* bound: requests that arrive, grants changed and Hubs moved

VARIABLES
    groups,       \* the role groups of each user
    grants,       \* their UserBeamScope, UserHubScope and UserGatewayScope rows
    hub,          \* the Hub's Gateway
    satnet,       \* the table satnet
    request,      \* each request in progress, or None
    changes

vars == <<groups, grants, hub, satnet, request, changes>>

Role == {"admin", "operator"}
Scope == {"beam", "hub"} \cup Gateway

SatnetRow == [code : Code, gateway : Gateway, active : BOOLEAN]

Kind == {"create", "edit", "deactivate", "reactivate", "roles"}

ServedStage == {"arrived", "loaded", "allowed"}

\* What is left of a request that was answered.
Answer(outcome) == [stage |-> outcome]

Answers == {Answer(outcome) : outcome \in {"saved", "refused", "invalid"}}

ServedRequest ==
    [kind : Kind, by : User, roles : SUBSET Role, subject : User \cup Satnet,
     asked : Code \cup {None} \cup (SUBSET Role),
     seen : Gateway \cup SatnetRow \cup {None} \cup (SUBSET Role),
     disturbed : BOOLEAN, crossed : BOOLEAN, stage : ServedStage]

ASSUME NoneAssumption == None \notin Request \cup SatnetRow \cup Answers \cup ServedRequest

ASSUME RolesAssumption == InitialRoles \in [User -> SUBSET Role]

\* Roles, grants, rows and requests are what their tables may hold; a request
\* that was answered keeps nothing but its answer.
TypeOK ==
    /\ groups \in [User -> SUBSET Role] /\ grants \in [User -> SUBSET Scope] /\ hub \in Gateway
    /\ satnet \in [Satnet -> SatnetRow \cup {None}]
    /\ request \in [Request -> ServedRequest \cup Answers \cup {None}]
    /\ changes \in Nat

Init ==
    /\ groups = InitialRoles
    /\ grants = [u \in User |-> {}]
    /\ hub \in Gateway
    /\ satnet = [s \in Satnet |-> None]
    /\ request = [r \in Request |-> None]
    /\ changes = 0

Saved == {s \in Satnet : satnet[s] # None}

Served == {r \in Request : request[r] # None /\ request[r].stage \in ServedStage}

More == changes < MaxChanges /\ changes' = changes + 1
-----------------------------------------------------------------------------
(***************************************************************************)
(* What the roles may do and where.                                        *)
(***************************************************************************)
\* CAPABILITY_MATRIX, as the migrations write it into the groups.
CAPABILITY_MATRIX ==
    [manage_users |-> {"admin"}, manage_scopes |-> {"admin"},
     manage_satnets |-> {"admin", "operator"}]

HasPerm(roles, capability) == roles \cap CAPABILITY_MATRIX[capability] # {}

\* effective_hub_ids: granted directly or through its Gateway.
EffectiveHub(u) == "hub" \in grants[u] \/ hub \in grants[u]

\* Mutant of MayActOn: either grant is enough.
EitherGrant(u, roles) ==
    HasPerm(roles, "manage_scopes") \/ "beam" \in grants[u] \/ EffectiveHub(u)

\* may_act_on: conjunctive, and bypassed by whoever manages scopes.
MayActOn(u, roles) ==
    HasPerm(roles, "manage_scopes") \/ ("beam" \in grants[u] /\ EffectiveHub(u))

Needed(kind) == IF kind = "roles" THEN "manage_users" ELSE "manage_satnets"

Admitted(kind, roles) == HasPerm(roles, Needed(kind))

(***************************************************************************)
(* A request arrives; its permissions are looked up and kept.  A user      *)
(* without the capability is refused by the view or by policy.require.     *)
(***************************************************************************)
Advance(r, change) == request' = [request EXCEPT ![r] = change]

Arrive(r, u, kind, subject, asked) ==
    /\ request[r] = None /\ More
    /\ Advance(r, IF Admitted(kind, groups[u])
                  THEN [kind |-> kind, by |-> u, roles |-> groups[u], subject |-> subject,
                        asked |-> asked, seen |-> None, disturbed |-> FALSE, crossed |-> FALSE,
                        stage |-> "arrived"]
                  ELSE Answer("refused"))
    /\ UNCHANGED <<groups, grants, hub, satnet>>

CodesUnique(s, code) == \A t \in Saved \ {s} : satnet[t].code # code

Stage(r, kinds, stage) ==
    request[r] # None /\ request[r].stage = stage /\ request[r].kind \in kinds

\* The choices of a new Satnet are narrowed to what its user was granted, and
\* the Hub is read with them.
ValidateNew(r) ==
    /\ Stage(r, {"create"}, "arrived")
    /\ Advance(r, IF /\ MayActOn(request[r].by, request[r].roles)
                     /\ CodesUnique(request[r].subject, request[r].asked)
                  THEN [request[r] EXCEPT !.stage = "loaded", !.seen = hub]
                  ELSE Answer("invalid"))
    /\ UNCHANGED <<groups, grants, hub, satnet, changes>>

LoadSatnet(r) ==
    /\ Stage(r, {"edit", "deactivate", "reactivate"}, "arrived")
    /\ Advance(r, [request[r] EXCEPT !.stage = "loaded", !.seen = satnet[request[r].subject]])
    /\ UNCHANGED <<groups, grants, hub, satnet, changes>>

\* Roles have no scope to check; groups.set reads the ones there are.
ReadRoles(r) ==
    /\ Stage(r, {"roles"}, "arrived")
    /\ Advance(r, [request[r] EXCEPT !.stage = "allowed", !.seen = groups[request[r].subject]])
    /\ UNCHANGED <<groups, grants, hub, satnet, changes>>

\* check_scope, with the denial it records.
CheckScope(r) ==
    /\ Stage(r, {"create", "edit", "deactivate", "reactivate"}, "loaded")
    /\ Advance(r, IF MayActOn(request[r].by, request[r].roles)
                  THEN [request[r] EXCEPT !.stage = "allowed"] ELSE Answer("refused"))
    /\ UNCHANGED <<groups, grants, hub, satnet, changes>>
-----------------------------------------------------------------------------
(***************************************************************************)
(* The writes, and the requests that each of them overtakes.               *)
(***************************************************************************)
\* Every request about the subject has read what is written now; those of the
\* users in the set were judged by what is changed now.
Overtake(done, subject, users) ==
    request' = [q \in Request |->
        IF q = done THEN Answer("saved")
        ELSE IF q \notin Served THEN request[q]
        ELSE [request[q] EXCEPT
                 !.crossed = @ \/ (request[q].subject = subject /\ request[q].stage # "arrived"),
                 !.disturbed = @ \/ request[q].by \in users]]

NewSatnet(r) ==
    [code |-> request[r].asked, gateway |-> request[r].seen, active |-> TRUE]

\* The unique constraint and the composite foreign key to the Hub.
Constraints(s, row) == CodesUnique(s, row.code) /\ row.gateway = hub

CreateSatnet(r) ==
    /\ Stage(r, {"create"}, "allowed") /\ satnet[request[r].subject] = None
    /\ Constraints(request[r].subject, NewSatnet(r))
    /\ satnet' = [satnet EXCEPT ![request[r].subject] = NewSatnet(r)]
    /\ Overtake(r, request[r].subject, {})
    /\ UNCHANGED <<groups, grants, hub, changes>>

\* Mutant of Edited: the form brings the row back into service.
EditedAndActive(r) ==
    [request[r].seen EXCEPT !.code = request[r].asked, !.active = TRUE]

\* _update saves every field of the row it read.
Edited(r) == [request[r].seen EXCEPT !.code = request[r].asked]

UpdateSatnet(r) ==
    /\ Stage(r, {"edit"}, "allowed") /\ Constraints(request[r].subject, Edited(r))
    /\ satnet' = [satnet EXCEPT ![request[r].subject] = Edited(r)]
    /\ Overtake(r, request[r].subject, {})
    /\ UNCHANGED <<groups, grants, hub, changes>>

\* _set_active saves is_active alone; allocations do not stand in its way.
SetActive(r) ==
    /\ Stage(r, {"deactivate", "reactivate"}, "allowed")
    /\ satnet' = [satnet EXCEPT ![request[r].subject].active = (request[r].kind = "reactivate")]
    /\ Overtake(r, request[r].subject, {})
    /\ UNCHANGED <<groups, grants, hub, changes>>

\* Mutant of SetGroups: roles are added, never taken away.
AddGroups(held, seen, asked) == held \cup asked

\* groups.set deletes and inserts what differs from what it read.
SetGroups(held, seen, asked) == (held \ (seen \ asked)) \cup (asked \ seen)

ApplyUserRoles(r) ==
    /\ Stage(r, {"roles"}, "allowed")
    /\ groups' = [groups EXCEPT ![request[r].subject] =
                     SetGroups(@, request[r].seen, request[r].asked)]
    /\ Overtake(r, request[r].subject, {request[r].subject})
    /\ UNCHANGED <<grants, hub, satnet, changes>>

\* The response is sent; or the constraints refuse the write, or the worker
\* is lost.
Respond(r) ==
    /\ request[r] # None
    /\ Advance(r, None)
    /\ UNCHANGED <<groups, grants, hub, satnet, changes>>

\* Scope grants have no screen: rows come and go.
ChangeGrant(u, scope) ==
    /\ More
    /\ \/ grants' = [grants EXCEPT ![u] = @ \cup {scope}]
       \/ grants' = [grants EXCEPT ![u] = @ \ {scope}]
    /\ Overtake(None, None, {u})
    /\ UNCHANGED <<groups, hub, satnet>>

\* The inventory edits the Hub's site, which the foreign key allows while no
\* Satnet is served from it.
MoveHub(site) ==
    /\ More /\ Saved = {}
    /\ hub' = site
    /\ Overtake(None, None, User)
    /\ UNCHANGED <<groups, grants, satnet>>
-----------------------------------------------------------------------------
NextRequest(r) ==
    \/ \E u \in User :
          \/ \E subject \in User, asked \in SUBSET Role : Arrive(r, u, "roles", subject, asked)
          \/ \E s \in Satnet \ Saved, code \in Code : Arrive(r, u, "create", s, code)
          \/ \E s \in Saved, code \in Code : Arrive(r, u, "edit", s, code)
          \/ \E s \in Saved, kind \in {"deactivate", "reactivate"} : Arrive(r, u, kind, s, None)
    \/ ValidateNew(r) \/ LoadSatnet(r) \/ ReadRoles(r) \/ CheckScope(r)
    \/ CreateSatnet(r) \/ UpdateSatnet(r) \/ SetActive(r) \/ ApplyUserRoles(r)
    \/ Respond(r)

Next ==
    \/ \E r \in Request : NextRequest(r)
    \/ \E u \in User, scope \in Scope : ChangeGrant(u, scope)
    \/ \E site \in Gateway : MoveHub(site)

Spec == Init /\ [][Next]_vars
-----------------------------------------------------------------------------
Ends(r, outcome) ==
    request[r] # None /\ request[r].stage # outcome
        /\ request'[r] # None /\ request'[r].stage = outcome

\* What A-17 asks for: the role, and both grants unless the user administers.
Entitled(u, kind) ==
    IF kind = "roles" THEN "admin" \in groups[u]
    ELSE \/ "admin" \in groups[u]
         \/ /\ "operator" \in groups[u] /\ "beam" \in grants[u]
            /\ {"hub", hub} \cap grants[u] # {}

\* A change is saved for somebody who is entitled to it and refused to
\* somebody who is not, whatever was read when; only a role or grant that
\* changes while the request is served lets the older answer stand.
JudgedByItsGrants ==
    [][\A r \in Request :
          /\ Ends(r, "saved") /\ ~request[r].disturbed =>
                 Entitled(request[r].by, request[r].kind)
          /\ Ends(r, "refused") /\ ~request[r].disturbed =>
                 ~Entitled(request[r].by, request[r].kind)]_vars

\* A deactivated Satnet comes back only when somebody asks for that, or when
\* an edit was being served as it was deactivated: _update writes the whole
\* row back as it read it.
ClosedStaysClosed ==
    [][\A s \in Saved : ~satnet[s].active /\ satnet'[s].active =>
          \E r \in Served :
              /\ Ends(r, "saved") /\ request[r].subject = s
              /\ \/ request[r].kind = "reactivate"
                 \/ request[r].kind = "edit" /\ request[r].crossed]_vars

\* The roles of a user are those an administrator chose for them, unless two
\* choices were applied at once: each deletes and adds what it saw missing.
RolesAsChosen ==
    [][\A r \in Served : Ends(r, "saved") /\ request[r].kind = "roles" =>
          groups'[request[r].subject] = request[r].asked \/ request[r].crossed]_vars

\* A Satnet is at the Gateway its Hub is at, though it copies it from a Hub
\* that was read before and may have moved since.
GatewayIsTheHubs == \A s \in Saved : satnet[s].gateway = hub
=============================================================================
