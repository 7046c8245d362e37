--------------------------- MODULE Satnets_proofs ---------------------------
(***************************************************************************)
(* Proofs about Satnets, for any number of users, Satnets, Gateways and    *)
(* requests at once.                                                       *)
(***************************************************************************)
EXTENDS Satnets, TLAPS

(***************************************************************************)
(* The inductive invariant.  A served request is about a Satnet that is    *)
(* there, or about a user; what it has read is what is written now unless  *)
(* it was crossed, and what it was judged by is what holds now unless it   *)
(* was disturbed.                                                          *)
(***************************************************************************)
Loading == {"edit", "deactivate", "reactivate"}

WellFormed(q) ==
    /\ q.kind = "roles" => q.subject \in User /\ q.asked \in SUBSET Role
    /\ q.kind # "roles" => q.subject \in Satnet
    /\ q.kind \in {"create", "edit"} => q.asked \in Code
    /\ q.kind = "create" /\ q.stage # "arrived" => q.seen \in Gateway
    /\ q.kind \in Loading =>
          satnet[q.subject] # None /\ (q.stage # "arrived" => q.seen \in SatnetRow)
    /\ q.kind = "roles" /\ q.stage # "arrived" => q.stage = "allowed" /\ q.seen \in SUBSET Role

ReadIsCurrent(q) ==
    q.stage # "arrived" /\ ~q.crossed =>
        /\ q.kind = "edit" => q.seen = satnet[q.subject]
        /\ q.kind = "roles" => q.seen = groups[q.subject]

JudgementIsCurrent(q) ==
    /\ Admitted(q.kind, q.roles)
    /\ ~q.disturbed =>
          /\ q.roles = groups[q.by]
          /\ q.kind # "roles" /\ q.stage = "allowed" => MayActOn(q.by, q.roles)

RequestOK(q) == WellFormed(q) /\ ReadIsCurrent(q) /\ JudgementIsCurrent(q)

IInv ==
    /\ TypeOK
    /\ GatewayIsTheHubs
    /\ \A r \in Served : RequestOK(request[r])

\* Nothing is being served at the start.
LEMMA Initially == Init => IInv
<1> SUFFICES ASSUME Init PROVE IInv
  OBVIOUS
<1>1. TypeOK
  BY RolesAssumption DEF Init, TypeOK, Scope
<1>2. Saved = {} /\ Served = {}
  BY DEF Init, Saved, Served
<1> QED BY <1>1, <1>2 DEF IInv, GatewayIsTheHubs

\* A served request is not None and not an answer.
LEMMA ServedType ==
    ASSUME TypeOK, NEW r \in Served
    PROVE  request[r] \in ServedRequest /\ r \in Request
<1>1. r \in Request /\ request[r] # None /\ request[r].stage \in ServedStage
  BY DEF Served
<1>2. request[r] \notin Answers
  BY <1>1 DEF Answers, Answer, ServedStage
<1> QED BY <1>1, <1>2 DEF TypeOK

\* A request that is at some stage is a served one.
LEMMA StageServed ==
    ASSUME TypeOK, NEW r \in Request, NEW kinds, NEW stage \in ServedStage,
           Stage(r, kinds, stage)
    PROVE  r \in Served /\ request[r].kind \in kinds /\ request[r].stage = stage
BY DEF Stage, Served

\* A record is neither None nor an answer.
LEMMA NoneApart ==
    /\ None \notin SatnetRow /\ None \notin Request
    /\ \A outcome \in {"saved", "refused", "invalid"} : Answer(outcome) # None
BY NoneAssumption DEF Answers

(***************************************************************************)
(* Steps that change nothing but the request that makes them.              *)
(***************************************************************************)
LEMMA OwnStep ==
    ASSUME IInv, NEW r \in Request, NEW change \in ServedRequest \cup Answers \cup {None},
           Advance(r, change), UNCHANGED <<groups, grants, hub, satnet>>, changes' \in Nat,
           change \in ServedRequest => RequestOK(change)
    PROVE  IInv'
<1>1. TypeOK'
  BY DEF IInv, TypeOK, Advance
<1>2. GatewayIsTheHubs'
  BY DEF IInv, GatewayIsTheHubs, Saved
<1>3. ASSUME NEW q \in Served' PROVE RequestOK(request[q])'
  <2>1. request'[q] \in ServedRequest /\ q \in Request
    <3>1. request'[q] # None /\ request'[q].stage \in ServedStage /\ q \in Request
      BY <1>3 DEF Served
    <3>2. request'[q] \notin Answers
      BY <3>1 DEF Answers, Answer, ServedStage
    <3> QED BY <1>1, <3>1, <3>2 DEF TypeOK
  <2>2. RequestOK(request'[q])
    <3>1. CASE q = r
      BY <3>1, <2>1 DEF Advance, IInv, TypeOK
    <3>2. CASE q # r
      BY <3>2, <1>3, <2>1 DEF Advance, IInv, TypeOK, Served
    <3> QED BY <3>1, <3>2
  <2> QED BY <2>2 DEF RequestOK, WellFormed, ReadIsCurrent, JudgementIsCurrent, MayActOn,
                      EffectiveHub
<1> QED BY <1>1, <1>2, <1>3 DEF IInv

\* A request arrives.
LEMMA ArriveStep ==
    ASSUME IInv, NEW r \in Request, NEW u \in User, NEW kind \in Kind,
           NEW subject \in User \cup Satnet, NEW asked \in Code \cup {None} \cup (SUBSET Role),
           kind = "roles" => subject \in User /\ asked \in SUBSET Role,
           kind # "roles" => subject \in Satnet,
           kind \in {"create", "edit"} => asked \in Code,
           kind \in Loading => satnet[subject] # None,
           Arrive(r, u, kind, subject, asked)
    PROVE  IInv'
<1> DEFINE new == [kind |-> kind, by |-> u, roles |-> groups[u], subject |-> subject,
                   asked |-> asked, seen |-> None, disturbed |-> FALSE, crossed |-> FALSE,
                   stage |-> "arrived"]
<1>1. /\ Advance(r, IF Admitted(kind, groups[u]) THEN new ELSE Answer("refused"))
      /\ UNCHANGED <<groups, grants, hub, satnet>> /\ changes' \in Nat
  BY DEF Arrive, More, IInv, TypeOK
<1>2. new \in ServedRequest
  <2>1. groups[u] \in SUBSET Role
    BY DEF IInv, TypeOK
  <2> QED BY <2>1 DEF ServedRequest, ServedStage
<1>7. Answer("refused") \in Answers
  BY DEF Answers
<1>3. Admitted(kind, groups[u]) => RequestOK(new)
  BY DEF RequestOK, WellFormed, ReadIsCurrent, JudgementIsCurrent, Loading
<1>4. Answer("refused") \notin ServedRequest
  BY DEF Answer, ServedRequest, ServedStage
<1> HIDE DEF new
<1>5. CASE Admitted(kind, groups[u])
  BY <1>1, <1>2, <1>3, <1>5, OwnStep
<1>6. CASE ~Admitted(kind, groups[u])
  BY <1>1, <1>4, <1>6, <1>7, OwnStep
<1> QED BY <1>5, <1>6

\* A new Satnet is validated.
LEMMA ValidateNewStep ==
    ASSUME IInv, NEW r \in Request, ValidateNew(r) PROVE IInv'
<1> DEFINE new == [request[r] EXCEPT !.stage = "loaded", !.seen = hub]
<1>1. r \in Served /\ request[r] \in ServedRequest /\ request[r].stage = "arrived"
      /\ request[r].kind = "create" /\ RequestOK(request[r]) /\ hub \in Gateway
  BY ServedType, StageServed DEF ValidateNew, IInv, TypeOK, ServedStage
<1>2. new \in ServedRequest /\ RequestOK(new)
  BY <1>1 DEF ServedRequest, ServedStage, RequestOK, WellFormed, ReadIsCurrent,
              JudgementIsCurrent, Loading
<1>3. Answer("invalid") \in Answers /\ Answer("invalid") \notin ServedRequest
  BY DEF Answers, Answer, ServedRequest, ServedStage
<1>4. Advance(r, new) \/ Advance(r, Answer("invalid"))
  BY DEF ValidateNew
<1>5. UNCHANGED <<groups, grants, hub, satnet>> /\ changes' \in Nat
  BY DEF ValidateNew, IInv, TypeOK
<1> HIDE DEF new
<1> QED BY <1>2, <1>3, <1>4, <1>5, OwnStep

\* A request loads its Satnet.
LEMMA LoadSatnetStep ==
    ASSUME IInv, NEW r \in Request, LoadSatnet(r) PROVE IInv'
<1> DEFINE new == [request[r] EXCEPT !.stage = "loaded", !.seen = satnet[request[r].subject]]
<1>1. r \in Served /\ request[r] \in ServedRequest /\ request[r].stage = "arrived"
      /\ request[r].kind \in Loading /\ RequestOK(request[r])
  BY ServedType, StageServed DEF LoadSatnet, IInv, ServedStage, Loading
<1>2. request[r].subject \in Satnet /\ satnet[request[r].subject] \in SatnetRow
  BY <1>1 DEF RequestOK, WellFormed, IInv, TypeOK, Loading
<1>3. new \in ServedRequest /\ RequestOK(new)
  BY <1>1, <1>2 DEF ServedRequest, ServedStage, RequestOK, WellFormed, ReadIsCurrent,
                    JudgementIsCurrent, Loading
<1>4. Advance(r, new) /\ UNCHANGED <<groups, grants, hub, satnet>> /\ changes' \in Nat
  BY DEF LoadSatnet, IInv, TypeOK
<1> HIDE DEF new
<1> QED BY <1>3, <1>4, OwnStep

\* A request reads the roles.
LEMMA ReadRolesStep ==
    ASSUME IInv, NEW r \in Request, ReadRoles(r) PROVE IInv'
<1> DEFINE new == [request[r] EXCEPT !.stage = "allowed", !.seen = groups[request[r].subject]]
<1>1. r \in Served /\ request[r] \in ServedRequest /\ request[r].stage = "arrived"
      /\ request[r].kind = "roles" /\ RequestOK(request[r])
  BY ServedType, StageServed DEF ReadRoles, IInv, ServedStage
<1>2. groups[request[r].subject] \in SUBSET Role
  BY <1>1 DEF RequestOK, WellFormed, IInv, TypeOK
<1>3. new \in ServedRequest /\ RequestOK(new)
  BY <1>1, <1>2 DEF ServedRequest, ServedStage, RequestOK, WellFormed, ReadIsCurrent,
                    JudgementIsCurrent, Loading
<1>4. Advance(r, new) /\ UNCHANGED <<groups, grants, hub, satnet>> /\ changes' \in Nat
  BY DEF ReadRoles, IInv, TypeOK
<1> HIDE DEF new
<1> QED BY <1>3, <1>4, OwnStep

\* A request is judged by its grants.
LEMMA CheckScopeStep ==
    ASSUME IInv, NEW r \in Request, CheckScope(r) PROVE IInv'
<1> DEFINE new == [request[r] EXCEPT !.stage = "allowed"]
<1>1. r \in Served /\ request[r] \in ServedRequest /\ request[r].stage = "loaded"
      /\ request[r].kind # "roles" /\ RequestOK(request[r])
  BY ServedType, StageServed DEF CheckScope, IInv, ServedStage
<1>2. new \in ServedRequest
  BY <1>1 DEF ServedRequest, ServedStage
<1>3. MayActOn(request[r].by, request[r].roles) => RequestOK(new)
  BY <1>1 DEF ServedRequest, ServedStage, RequestOK, WellFormed, ReadIsCurrent,
              JudgementIsCurrent, Loading
<1>4. Answer("refused") \in Answers /\ Answer("refused") \notin ServedRequest
  BY DEF Answers, Answer, ServedRequest, ServedStage
<1>5. \/ MayActOn(request[r].by, request[r].roles) /\ Advance(r, new)
      \/ Advance(r, Answer("refused"))
  BY DEF CheckScope
<1>6. UNCHANGED <<groups, grants, hub, satnet>> /\ changes' \in Nat
  BY DEF CheckScope, IInv, TypeOK
<1> HIDE DEF new
<1> QED BY <1>2, <1>3, <1>4, <1>5, <1>6, OwnStep

\* A request is answered.
LEMMA RespondStep ==
    ASSUME IInv, NEW r \in Request, Respond(r) PROVE IInv'
<1>1. Advance(r, None) /\ UNCHANGED <<groups, grants, hub, satnet>> /\ changes' \in Nat
  BY DEF Respond, IInv, TypeOK
<1>2. None \notin ServedRequest
  BY NoneAssumption
<1> QED BY <1>1, <1>2, OwnStep

(***************************************************************************)
(* Steps that others overtake.                                             *)
(***************************************************************************)
Overtaken(q, subject, users) ==
    [request[q] EXCEPT
        !.crossed = @ \/ (request[q].subject = subject /\ request[q].stage # "arrived"),
        !.disturbed = @ \/ request[q].by \in users]

\* Who is served after such a step was served before it, and only its
\* marks have changed.
LEMMA OvertakeServed ==
    ASSUME IInv, NEW done, NEW subject, NEW users, Overtake(done, subject, users)
    PROVE  /\ request' \in [Request -> ServedRequest \cup Answers \cup {None}]
           /\ \A q \in Served' :
                 /\ q \in Served /\ q # done
                 /\ request'[q] = Overtaken(q, subject, users)
                 /\ request[q] \in ServedRequest /\ request'[q] \in ServedRequest
<1>1. Answer("saved") \in Answers /\ Answer("saved").stage \notin ServedStage
  BY DEF Answers, Answer, ServedStage
<1>2. \A q \in Served : request[q] \in ServedRequest /\ q \in Request
  BY ServedType DEF IInv
<1>3. \A q \in Served : Overtaken(q, subject, users) \in ServedRequest
  BY <1>2 DEF Overtaken, ServedRequest
<1>4. request' = [q \in Request |->
                     IF q = done THEN Answer("saved")
                     ELSE IF q \notin Served THEN request[q]
                     ELSE Overtaken(q, subject, users)]
  BY DEF Overtake, Overtaken
<1>5. request' \in [Request -> ServedRequest \cup Answers \cup {None}]
  BY <1>1, <1>3, <1>4 DEF IInv, TypeOK
<1>6. ASSUME NEW q \in Served'
      PROVE  q \in Served /\ q # done /\ request'[q] = Overtaken(q, subject, users)
  <2>1. q \in Request /\ request'[q] # None /\ request'[q].stage \in ServedStage
    BY <1>6 DEF Served
  <2>2. q # done
    BY <1>1, <1>4, <2>1
  <2>3. q \in Served
    BY <1>4, <2>1, <2>2 DEF Served
  <2> QED BY <1>4, <2>1, <2>2, <2>3
<1> QED BY <1>2, <1>3, <1>5, <1>6

\* What the marks leave as it was.
LEMMA OvertakenFields ==
    ASSUME NEW q, NEW subject, NEW users, request[q] \in ServedRequest
    PROVE  LET now == Overtaken(q, subject, users) IN
           /\ now.kind = request[q].kind /\ now.by = request[q].by
           /\ now.roles = request[q].roles /\ now.subject = request[q].subject
           /\ now.asked = request[q].asked /\ now.seen = request[q].seen
           /\ now.stage = request[q].stage
           /\ ~now.crossed => /\ ~request[q].crossed
                              /\ request[q].subject = subject => request[q].stage = "arrived"
           /\ ~now.disturbed => ~request[q].disturbed /\ request[q].by \notin users
BY DEF Overtaken, ServedRequest

(***************************************************************************)
(* A step that overtakes keeps the invariant when the rows of others than  *)
(* its subject and the judgement of others than its users stay.            *)
(***************************************************************************)
LEMMA OvertakingStep ==
    ASSUME IInv, NEW done, NEW subject, NEW users, Overtake(done, subject, users),
           groups' \in [User -> SUBSET Role], grants' \in [User -> SUBSET Scope],
           hub' \in Gateway, satnet' \in [Satnet -> SatnetRow \cup {None}], changes' \in Nat,
           GatewayIsTheHubs',
           \A s \in Satnet : satnet[s] # None => satnet'[s] # None,
           \A s \in Satnet : s # subject => satnet'[s] = satnet[s],
           \A u \in User : u # subject => groups'[u] = groups[u],
           \A u \in User : u \notin users =>
               groups'[u] = groups[u] /\ grants'[u] = grants[u] /\ hub' = hub
    PROVE  IInv'
<1>1. TypeOK'
  BY OvertakeServed DEF TypeOK
<1>2. ASSUME NEW q \in Served' PROVE RequestOK(request[q])'
  <2>1. q \in Served /\ request[q] \in ServedRequest /\ request'[q] \in ServedRequest
        /\ request'[q] = Overtaken(q, subject, users) /\ RequestOK(request[q])
    BY <1>2, OvertakeServed DEF IInv
  <2>2. /\ request'[q].kind = request[q].kind /\ request'[q].by = request[q].by
        /\ request'[q].roles = request[q].roles /\ request'[q].subject = request[q].subject
        /\ request'[q].asked = request[q].asked /\ request'[q].seen = request[q].seen
        /\ request'[q].stage = request[q].stage
        /\ ~request'[q].crossed =>
              /\ ~request[q].crossed
              /\ request[q].subject = subject => request[q].stage = "arrived"
        /\ ~request'[q].disturbed => ~request[q].disturbed /\ request[q].by \notin users
    BY <2>1, OvertakenFields
  <2>3. request[q].by \in User /\ request[q].kind \in Kind
    BY <2>1 DEF ServedRequest
  <2>4. WellFormed(request[q])'
    BY <2>1, <2>2 DEF RequestOK, WellFormed, Loading
  <2>5. ReadIsCurrent(request[q])'
    BY <2>1, <2>2, <2>3 DEF RequestOK, WellFormed, ReadIsCurrent, Loading
  <2>6. JudgementIsCurrent(request[q])'
    BY <2>1, <2>2, <2>3 DEF RequestOK, JudgementIsCurrent, MayActOn, EffectiveHub, Admitted, Needed
  <2> QED BY <2>4, <2>5, <2>6 DEF RequestOK
<1> QED BY <1>1, <1>2 DEF IInv

\* The requests that are about to write, and what they are.
LEMMA Allowed ==
    ASSUME IInv, NEW r \in Request, NEW kinds \in SUBSET Kind, Stage(r, kinds, "allowed")
    PROVE  /\ r \in Served /\ request[r] \in ServedRequest /\ RequestOK(request[r])
           /\ request[r].kind \in kinds /\ request[r].stage = "allowed"
BY ServedType, StageServed DEF IInv, ServedStage

\* A Satnet is created.
LEMMA CreateSatnetStep ==
    ASSUME IInv, NEW r \in Request, CreateSatnet(r) PROVE IInv'
<1> DEFINE s == request[r].subject
           row == NewSatnet(r)
<1>1. Stage(r, {"create"}, "allowed") /\ {"create"} \in SUBSET Kind
  BY DEF CreateSatnet, Kind
<1>2. r \in Served /\ request[r] \in ServedRequest /\ RequestOK(request[r])
      /\ request[r].kind = "create" /\ request[r].stage = "allowed"
  BY <1>1, Allowed
<1>3. s \in Satnet /\ row \in SatnetRow /\ row.gateway = hub
  BY <1>2 DEF RequestOK, WellFormed, SatnetRow, NewSatnet, CreateSatnet, Constraints
<1>4. /\ satnet' = [satnet EXCEPT ![s] = row] /\ Overtake(r, s, {})
      /\ UNCHANGED <<groups, grants, hub, changes>>
  BY DEF CreateSatnet
<1> HIDE DEF s, row
<1>5. /\ satnet' \in [Satnet -> SatnetRow \cup {None}]
      /\ \A t \in Satnet : satnet[t] # None => satnet'[t] # None
      /\ \A t \in Satnet : t # s => satnet'[t] = satnet[t]
  BY <1>3, <1>4, NoneApart DEF IInv, TypeOK
<1>6. GatewayIsTheHubs'
  BY <1>3, <1>4 DEF GatewayIsTheHubs, Saved, IInv, TypeOK
<1> QED BY <1>4, <1>5, <1>6, OvertakingStep DEF IInv, TypeOK

\* A Satnet is updated.
LEMMA UpdateSatnetStep ==
    ASSUME IInv, NEW r \in Request, UpdateSatnet(r) PROVE IInv'
<1> DEFINE s == request[r].subject
           row == Edited(r)
<1>1. Stage(r, {"edit"}, "allowed") /\ {"edit"} \in SUBSET Kind
  BY DEF UpdateSatnet, Kind
<1>2. r \in Served /\ request[r] \in ServedRequest /\ RequestOK(request[r])
      /\ request[r].kind = "edit" /\ request[r].stage = "allowed"
  BY <1>1, Allowed
<1>3. s \in Satnet /\ row \in SatnetRow /\ row.gateway = hub
  BY <1>2 DEF RequestOK, WellFormed, Loading, SatnetRow, Edited, UpdateSatnet, Constraints
<1>4. /\ satnet' = [satnet EXCEPT ![s] = row] /\ Overtake(r, s, {})
      /\ UNCHANGED <<groups, grants, hub, changes>>
  BY DEF UpdateSatnet
<1> HIDE DEF s, row
<1>5. /\ satnet' \in [Satnet -> SatnetRow \cup {None}]
      /\ \A t \in Satnet : satnet[t] # None => satnet'[t] # None
      /\ \A t \in Satnet : t # s => satnet'[t] = satnet[t]
  BY <1>3, <1>4, NoneApart DEF IInv, TypeOK
<1>6. GatewayIsTheHubs'
  BY <1>3, <1>4 DEF GatewayIsTheHubs, Saved, IInv, TypeOK
<1> QED BY <1>4, <1>5, <1>6, OvertakingStep DEF IInv, TypeOK

\* A Satnet is closed or opened.
LEMMA SetActiveStep ==
    ASSUME IInv, NEW r \in Request, SetActive(r) PROVE IInv'
<1> DEFINE s == request[r].subject
           row == [satnet[s] EXCEPT !.active = (request[r].kind = "reactivate")]
<1>1. Stage(r, {"deactivate", "reactivate"}, "allowed")
      /\ {"deactivate", "reactivate"} \in SUBSET Kind
  BY DEF SetActive, Kind
<1>2. r \in Served /\ request[r] \in ServedRequest /\ RequestOK(request[r])
      /\ request[r].kind \in {"deactivate", "reactivate"} /\ request[r].stage = "allowed"
  BY <1>1, Allowed
<1>3. s \in Satnet /\ satnet[s] \in SatnetRow /\ satnet[s] # None
  BY <1>2 DEF RequestOK, WellFormed, Loading, IInv, TypeOK
<1>4. row \in SatnetRow /\ row.gateway = hub
  BY <1>3 DEF SatnetRow, IInv, GatewayIsTheHubs, Saved
<1>5. /\ satnet' = [satnet EXCEPT ![s] = row] /\ Overtake(r, s, {})
      /\ UNCHANGED <<groups, grants, hub, changes>>
  BY DEF SetActive
<1> HIDE DEF s, row
<1>6. /\ satnet' \in [Satnet -> SatnetRow \cup {None}]
      /\ \A t \in Satnet : satnet[t] # None => satnet'[t] # None
      /\ \A t \in Satnet : t # s => satnet'[t] = satnet[t]
  BY <1>3, <1>4, <1>5, NoneApart DEF IInv, TypeOK
<1>7. GatewayIsTheHubs'
  BY <1>3, <1>4, <1>5 DEF GatewayIsTheHubs, Saved, IInv, TypeOK
<1> QED BY <1>5, <1>6, <1>7, OvertakingStep DEF IInv, TypeOK

\* The roles of a user are set.
LEMMA ApplyUserRolesStep ==
    ASSUME IInv, NEW r \in Request, ApplyUserRoles(r) PROVE IInv'
<1> DEFINE u == request[r].subject
<1>1. Stage(r, {"roles"}, "allowed") /\ {"roles"} \in SUBSET Kind
  BY DEF ApplyUserRoles, Kind
<1>2. r \in Served /\ request[r] \in ServedRequest /\ RequestOK(request[r])
      /\ request[r].kind = "roles" /\ request[r].stage = "allowed"
  BY <1>1, Allowed
<1>3. u \in User /\ request[r].asked \in SUBSET Role /\ request[r].seen \in SUBSET Role
  BY <1>2 DEF RequestOK, WellFormed
<1>4. /\ groups' = [groups EXCEPT ![u] = SetGroups(@, request[r].seen, request[r].asked)]
      /\ Overtake(r, u, {u}) /\ UNCHANGED <<grants, hub, satnet, changes>>
  BY DEF ApplyUserRoles
<1>5. SetGroups(groups[u], request[r].seen, request[r].asked) \in SUBSET Role
  BY <1>3 DEF SetGroups, IInv, TypeOK
<1> HIDE DEF u
<1>6. /\ groups' \in [User -> SUBSET Role]
      /\ \A v \in User : v # u => groups'[v] = groups[v]
  BY <1>3, <1>4, <1>5 DEF IInv, TypeOK
<1>7. GatewayIsTheHubs'
  BY <1>4 DEF GatewayIsTheHubs, Saved, IInv
<1> QED BY <1>4, <1>6, <1>7, OvertakingStep DEF IInv, TypeOK

\* A grant changes.
LEMMA ChangeGrantStep ==
    ASSUME IInv, NEW u \in User, NEW scope \in Scope, ChangeGrant(u, scope) PROVE IInv'
<1>1. /\ grants' \in [User -> SUBSET Scope] /\ \A v \in User : v # u => grants'[v] = grants[v]
      /\ changes' \in Nat
  BY DEF ChangeGrant, More, IInv, TypeOK
<1>2. Overtake(None, None, {u}) /\ UNCHANGED <<groups, hub, satnet>>
  BY DEF ChangeGrant
<1>3. GatewayIsTheHubs'
  BY <1>2 DEF GatewayIsTheHubs, Saved, IInv
<1> QED BY <1>1, <1>2, <1>3, OvertakingStep DEF IInv, TypeOK

\* A hub moves.
LEMMA MoveHubStep ==
    ASSUME IInv, NEW site \in Gateway, MoveHub(site) PROVE IInv'
<1>1. /\ hub' = site /\ changes' \in Nat /\ Overtake(None, None, User)
      /\ UNCHANGED <<groups, grants, satnet>> /\ Saved' = {}
  BY DEF MoveHub, More, IInv, TypeOK, Saved
<1>2. GatewayIsTheHubs'
  BY <1>1 DEF GatewayIsTheHubs
<1> QED BY <1>1, <1>2, OvertakingStep DEF IInv, TypeOK

\* What arrives is in order.
LEMMA ArrivesWell ==
    ASSUME IInv, NEW r \in Request, NEW u \in User,
           \/ \E subject \in User, asked \in SUBSET Role : Arrive(r, u, "roles", subject, asked)
           \/ \E s \in Satnet \ Saved, code \in Code : Arrive(r, u, "create", s, code)
           \/ \E s \in Saved, code \in Code : Arrive(r, u, "edit", s, code)
           \/ \E s \in Saved, kind \in {"deactivate", "reactivate"} : Arrive(r, u, kind, s, None)
    PROVE  IInv'
<1>1. CASE \E subject \in User, asked \in SUBSET Role : Arrive(r, u, "roles", subject, asked)
  <2>1. PICK subject \in User, asked \in SUBSET Role : Arrive(r, u, "roles", subject, asked)
    BY <1>1
  <2>2. "roles" \in Kind /\ "roles" \notin Loading
    BY DEF Kind, Loading
  <2> QED BY <2>1, <2>2, ArriveStep
<1>2. CASE \E s \in Satnet \ Saved, code \in Code : Arrive(r, u, "create", s, code)
  <2>1. PICK s \in Satnet \ Saved, code \in Code : Arrive(r, u, "create", s, code)
    BY <1>2
  <2>2. "create" \in Kind /\ "create" \notin Loading
    BY DEF Kind, Loading
  <2> QED BY <2>1, <2>2, ArriveStep
<1>3. CASE \E s \in Saved, code \in Code : Arrive(r, u, "edit", s, code)
  <2>1. PICK s \in Saved, code \in Code : Arrive(r, u, "edit", s, code)
    BY <1>3
  <2>2. "edit" \in Kind /\ s \in Satnet /\ satnet[s] # None
    BY DEF Kind, Saved
  <2> QED BY <2>1, <2>2, ArriveStep
<1>4. CASE \E s \in Saved, kind \in {"deactivate", "reactivate"} : Arrive(r, u, kind, s, None)
  <2>1. PICK s \in Saved, kind \in {"deactivate", "reactivate"} : Arrive(r, u, kind, s, None)
    BY <1>4
  <2>2. kind \in Kind /\ kind \notin {"roles", "create", "edit"} /\ s \in Satnet /\ satnet[s] # None
    BY DEF Kind, Saved
  <2> QED BY <2>1, <2>2, ArriveStep
<1> QED BY <1>1, <1>2, <1>3, <1>4

\* Every step keeps the invariant.
LEMMA NextStep == ASSUME IInv, [Next]_vars PROVE IInv'
<1>1. ASSUME NEW r \in Request, NextRequest(r) PROVE IInv'
  <2>1. CASE \E u \in User :
                \/ \E subject \in User, asked \in SUBSET Role :
                      Arrive(r, u, "roles", subject, asked)
                \/ \E s \in Satnet \ Saved, code \in Code : Arrive(r, u, "create", s, code)
                \/ \E s \in Saved, code \in Code : Arrive(r, u, "edit", s, code)
                \/ \E s \in Saved, kind \in {"deactivate", "reactivate"} :
                      Arrive(r, u, kind, s, None)
    BY <2>1, ArrivesWell
  <2>2. CASE ValidateNew(r) \/ LoadSatnet(r) \/ ReadRoles(r) \/ CheckScope(r) \/ Respond(r)
    BY <2>2, ValidateNewStep, LoadSatnetStep, ReadRolesStep, CheckScopeStep, RespondStep
  <2>3. CASE CreateSatnet(r) \/ UpdateSatnet(r) \/ SetActive(r) \/ ApplyUserRoles(r)
    BY <2>3, CreateSatnetStep, UpdateSatnetStep, SetActiveStep, ApplyUserRolesStep
  <2> QED BY <1>1, <2>1, <2>2, <2>3 DEF NextRequest
<1>2. CASE UNCHANGED vars
  BY <1>2 DEF vars, IInv, TypeOK, GatewayIsTheHubs, Saved, Served, RequestOK, WellFormed,
              ReadIsCurrent, JudgementIsCurrent, MayActOn, EffectiveHub
<1> QED BY <1>1, <1>2, ChangeGrantStep, MoveHubStep DEF Next

\* In every reachable state, roles, grants, rows and requests are what the
\* tables of accounts, inventory and satnets may hold.
THEOREM TypeCorrect == Spec => []TypeOK
<1>1. IInv => TypeOK
  BY DEF IInv
<1> QED BY <1>1, Initially, NextStep, PTL DEF Spec

\* However requests and Hub moves interleave, a Satnet is at its Hub's
\* Gateway: the composite key, and no move under a Satnet, are enough.
THEOREM GatewayKept == Spec => []GatewayIsTheHubs
<1>1. IInv => GatewayIsTheHubs
  BY DEF IInv
<1> QED BY <1>1, Initially, NextStep, PTL DEF Spec

(***************************************************************************)
(* Which step an answer comes from.                                        *)
(***************************************************************************)
\* A step that overtakes answers nobody but the request that makes it.
LEMMA OvertakingEnds ==
    ASSUME IInv, NEW done, NEW subject, NEW users, Overtake(done, subject, users),
           NEW r \in Request, NEW outcome, Ends(r, outcome)
    PROVE  r = done /\ outcome = "saved"
<1>1. /\ r \in Served => request[r] \in ServedRequest
      /\ request'[r] = IF r = done THEN Answer("saved")
                       ELSE IF r \notin Served THEN request[r]
                       ELSE Overtaken(r, subject, users)
  BY ServedType DEF Overtake, Overtaken, IInv
<1>2. r = done
  BY <1>1, OvertakenFields DEF Ends
<1> QED BY <1>1, <1>2 DEF Ends, Answer

\* A step of one request's own answers that request alone.
LEMMA AdvancingEnds ==
    ASSUME IInv, NEW q \in Request, NEW change, Advance(q, change),
           NEW r \in Request, NEW outcome, Ends(r, outcome)
    PROVE  r = q /\ change # None /\ change.stage = outcome
BY DEF Ends, Advance, IInv, TypeOK

\* What a request makes of itself before it writes.
LEMMA OwnSteps ==
    ASSUME IInv, NEW q \in Request, ValidateNew(q) \/ LoadSatnet(q) \/ ReadRoles(q)
    PROVE  \E change : Advance(q, change) /\ change.stage \in {"loaded", "allowed", "invalid"}
<1>1. request[q] \in ServedRequest
  BY ServedType, StageServed DEF ValidateNew, LoadSatnet, ReadRoles, ServedStage, IInv
<1>2. CASE ValidateNew(q)
  <2> DEFINE new == [request[q] EXCEPT !.stage = "loaded", !.seen = hub]
  <2>1. Advance(q, new) \/ Advance(q, Answer("invalid"))
    BY <1>2 DEF ValidateNew
  <2>2. new.stage = "loaded" /\ Answer("invalid").stage = "invalid"
    BY <1>1 DEF ServedRequest, Answer
  <2> QED BY <2>1, <2>2
<1>3. CASE LoadSatnet(q)
  <2> DEFINE new == [request[q] EXCEPT !.stage = "loaded", !.seen = satnet[request[q].subject]]
  <2>1. Advance(q, new)
    BY <1>3 DEF LoadSatnet
  <2>2. new.stage = "loaded"
    BY <1>1 DEF ServedRequest
  <2> QED BY <2>1, <2>2
<1>4. CASE ReadRoles(q)
  <2> DEFINE new == [request[q] EXCEPT !.stage = "allowed", !.seen = groups[request[q].subject]]
  <2>1. Advance(q, new)
    BY <1>4 DEF ReadRoles
  <2>2. new.stage = "allowed"
    BY <1>1 DEF ServedRequest
  <2> QED BY <2>1, <2>2
<1> QED BY <1>2, <1>3, <1>4

\* check_scope lets a request go on, or refuses it.
LEMMA ScopeStep ==
    ASSUME IInv, NEW q \in Request, CheckScope(q)
    PROVE  /\ MayActOn(request[q].by, request[q].roles) =>
                  \E change : Advance(q, change) /\ change.stage = "allowed"
           /\ \E change : Advance(q, change) /\ change.stage \in {"allowed", "refused"}
<1> DEFINE new == [request[q] EXCEPT !.stage = "allowed"]
<1>1. request[q] \in ServedRequest
  BY ServedType, StageServed DEF CheckScope, ServedStage, IInv
<1>2. new.stage = "allowed" /\ Answer("refused").stage = "refused"
  BY <1>1 DEF ServedRequest, Answer
<1>3. Advance(q, IF MayActOn(request[q].by, request[q].roles) THEN new ELSE Answer("refused"))
  BY DEF CheckScope
<1> HIDE DEF new
<1> QED BY <1>2, <1>3

\* The steps that save.
LEMMA SavedBy ==
    ASSUME IInv, [Next]_vars, NEW r \in Request, Ends(r, "saved")
    PROVE  CreateSatnet(r) \/ UpdateSatnet(r) \/ SetActive(r) \/ ApplyUserRoles(r)
<1>1. ASSUME NEW q \in Request, NextRequest(q)
      PROVE  CreateSatnet(r) \/ UpdateSatnet(r) \/ SetActive(r) \/ ApplyUserRoles(r)
  <2>1. CASE \E u, kind, subject, asked : Arrive(q, u, kind, subject, asked)
    <3>1. PICK change : Advance(q, change) /\ change.stage \in {"arrived", "refused"}
      BY <2>1 DEF Arrive, Answer
    <3> QED BY <3>1, AdvancingEnds
  <2>2. CASE ValidateNew(q) \/ LoadSatnet(q) \/ ReadRoles(q) \/ CheckScope(q)
    <3>1. PICK change : /\ Advance(q, change)
                        /\ change.stage \in {"loaded", "allowed", "refused", "invalid"}
      BY <2>2, OwnSteps, ScopeStep
    <3> QED BY <3>1, AdvancingEnds
  <2>3. CASE Respond(q)
    BY <2>3, AdvancingEnds DEF Respond
  <2>4. CASE CreateSatnet(q) \/ UpdateSatnet(q) \/ SetActive(q) \/ ApplyUserRoles(q)
    <3>1. r = q
      BY <2>4, OvertakingEnds DEF CreateSatnet, UpdateSatnet, SetActive, ApplyUserRoles
    <3> QED BY <2>4, <3>1
  <2> QED BY <1>1, <2>1, <2>2, <2>3, <2>4 DEF NextRequest
<1>2. ASSUME \/ \E u \in User, scope \in Scope : ChangeGrant(u, scope)
             \/ \E site \in Gateway : MoveHub(site)
      PROVE  FALSE
  BY <1>2, OvertakingEnds, NoneApart DEF ChangeGrant, MoveHub
<1>3. CASE UNCHANGED vars
  BY <1>3 DEF vars, Ends
<1> QED BY <1>1, <1>2, <1>3 DEF Next

\* The steps that refuse.
LEMMA RefusedBy ==
    ASSUME IInv, [Next]_vars, NEW r \in Request, Ends(r, "refused")
    PROVE  CheckScope(r) /\ ~MayActOn(request[r].by, request[r].roles)
<1>1. ASSUME NEW q \in Request, NextRequest(q)
      PROVE  CheckScope(r) /\ ~MayActOn(request[r].by, request[r].roles)
  <2>1. CASE \E u, kind, subject, asked : Arrive(q, u, kind, subject, asked)
    <3>1. request[q] = None /\ \E change : Advance(q, change)
      BY <2>1 DEF Arrive
    <3> QED BY <3>1, AdvancingEnds DEF Ends
  <2>2. CASE ValidateNew(q) \/ LoadSatnet(q) \/ ReadRoles(q)
    <3>1. PICK change : Advance(q, change) /\ change.stage \in {"loaded", "allowed", "invalid"}
      BY <2>2, OwnSteps
    <3> QED BY <3>1, AdvancingEnds
  <2>3. CASE CheckScope(q)
    <3>1. r = q
      BY <2>3, AdvancingEnds DEF CheckScope
    <3> QED BY <2>3, <3>1, ScopeStep, AdvancingEnds
  <2>4. CASE Respond(q)
    BY <2>4, AdvancingEnds DEF Respond
  <2>5. CASE CreateSatnet(q) \/ UpdateSatnet(q) \/ SetActive(q) \/ ApplyUserRoles(q)
    BY <2>5, OvertakingEnds DEF CreateSatnet, UpdateSatnet, SetActive, ApplyUserRoles
  <2> QED BY <1>1, <2>1, <2>2, <2>3, <2>4, <2>5 DEF NextRequest
<1>2. ASSUME \/ \E u \in User, scope \in Scope : ChangeGrant(u, scope)
             \/ \E site \in Gateway : MoveHub(site)
      PROVE  FALSE
  BY <1>2, OvertakingEnds, NoneApart DEF ChangeGrant, MoveHub
<1>3. CASE UNCHANGED vars
  BY <1>3 DEF vars, Ends
<1> QED BY <1>1, <1>2, <1>3 DEF Next

(***************************************************************************)
(* The action properties.                                                  *)
(***************************************************************************)
\* What a user ends up with is what an administrator chose, unless the choice
\* was crossed by another: set() then adds and removes by what it saw.
THEOREM RolesKept == Spec => RolesAsChosen
<1>1. ASSUME IInv, [Next]_vars, NEW r \in Served, Ends(r, "saved"), request[r].kind = "roles",
             ~request[r].crossed
      PROVE  groups'[request[r].subject] = request[r].asked
  <2>1. r \in Request /\ request[r] \in ServedRequest /\ RequestOK(request[r])
    BY <1>1, ServedType DEF IInv
  <2>2. ApplyUserRoles(r)
    BY <1>1, <2>1, SavedBy DEF CreateSatnet, UpdateSatnet, SetActive, Stage
  <2>3. /\ request[r].stage = "allowed" /\ request[r].subject \in User
        /\ request[r].seen = groups[request[r].subject]
    BY <1>1, <2>1, <2>2 DEF ApplyUserRoles, Stage, RequestOK, WellFormed, ReadIsCurrent
  <2>4. groups'[request[r].subject] =
            SetGroups(groups[request[r].subject], request[r].seen, request[r].asked)
    BY <1>1, <2>2, <2>3 DEF ApplyUserRoles, IInv, TypeOK
  <2> QED BY <2>3, <2>4 DEF SetGroups
<1>2. IInv /\ [Next]_vars =>
          [\A r \in Served : Ends(r, "saved") /\ request[r].kind = "roles" =>
              groups'[request[r].subject] = request[r].asked \/ request[r].crossed]_vars
  BY <1>1
<1> QED BY <1>2, Initially, NextStep, PTL DEF Spec, RolesAsChosen

\* A deactivated Satnet is back in service only because somebody reactivated
\* it, or because an edit that had read it before wrote the row it had read.
THEOREM ClosedKept == Spec => ClosedStaysClosed
<1>1. ASSUME IInv, [Next]_vars, NEW s \in Saved, ~satnet[s].active, satnet'[s].active
      PROVE  \E r \in Served :
                 /\ Ends(r, "saved") /\ request[r].subject = s
                 /\ \/ request[r].kind = "reactivate"
                    \/ request[r].kind = "edit" /\ request[r].crossed
  <2>1. s \in Satnet /\ satnet[s] # None /\ satnet'[s] # satnet[s]
    BY <1>1 DEF Saved
  <2>2. PICK r \in Request : CreateSatnet(r) \/ UpdateSatnet(r) \/ SetActive(r)
    BY <1>1, <2>1 DEF Next, NextRequest, vars, Arrive, ValidateNew, LoadSatnet, ReadRoles,
                      CheckScope, ApplyUserRoles, Respond, ChangeGrant, MoveHub
  <2>3. /\ r \in Served /\ request[r] \in ServedRequest /\ RequestOK(request[r])
        /\ request[r].stage = "allowed"
        /\ request[r].kind \in {"create", "edit", "deactivate", "reactivate"}
    BY <1>1, <2>2, ServedType, StageServed DEF CreateSatnet, UpdateSatnet, SetActive, IInv,
                                               ServedStage
  <2>4. Overtake(r, request[r].subject, {})
    BY <2>2 DEF CreateSatnet, UpdateSatnet, SetActive
  <2>5. Ends(r, "saved")
    BY <2>3, <2>4, NoneApart DEF Ends, Overtake, Answer, Served
  <2>6. CASE CreateSatnet(r)
    BY <1>1, <2>1, <2>6 DEF CreateSatnet, IInv, TypeOK
  <2>7. CASE UpdateSatnet(r)
    <3>1. request[r].kind = "edit"
      BY <2>7 DEF UpdateSatnet, Stage
    <3>2. request[r].subject = s /\ satnet'[s] = Edited(r)
      BY <1>1, <2>1, <2>7 DEF UpdateSatnet, IInv, TypeOK
    <3>3. request[r].seen \in SatnetRow
      BY <2>3, <3>1 DEF RequestOK, WellFormed, Loading
    <3>4. request[r].seen.active
      BY <1>1, <3>2, <3>3 DEF Edited, SatnetRow
    <3>5. request[r].crossed
      BY <1>1, <2>3, <3>1, <3>2, <3>4 DEF RequestOK, ReadIsCurrent
    <3> QED BY <2>3, <2>5, <3>1, <3>2, <3>5
  <2>8. CASE SetActive(r)
    <3>1. request[r].subject = s
      BY <1>1, <2>1, <2>8 DEF SetActive, IInv, TypeOK
    <3>2. satnet[s] \in SatnetRow
      BY <1>1, <2>1 DEF IInv, TypeOK
    <3>3. request[r].kind = "reactivate"
      BY <1>1, <2>1, <2>8, <3>1, <3>2 DEF SetActive, IInv, TypeOK, SatnetRow
    <3> QED BY <2>3, <2>5, <3>1, <3>3
  <2> QED BY <2>2, <2>6, <2>7, <2>8
<1>2. IInv /\ [Next]_vars =>
          [\A s \in Saved : ~satnet[s].active /\ satnet'[s].active =>
              \E r \in Served :
                  /\ Ends(r, "saved") /\ request[r].subject = s
                  /\ \/ request[r].kind = "reactivate"
                     \/ request[r].kind = "edit" /\ request[r].crossed]_vars
  BY <1>1
<1> QED BY <1>2, Initially, NextStep, PTL DEF Spec, ClosedStaysClosed

\* An answer is the one the roles and grants call for, though the roles are
\* read first, the grants later and the row is written last of all.
THEOREM JudgedRight == Spec => JudgedByItsGrants
<1>1. ASSUME IInv, [Next]_vars, NEW r \in Request, Ends(r, "saved"), ~request[r].disturbed
      PROVE  Entitled(request[r].by, request[r].kind)
  <2>1. /\ r \in Served /\ request[r] \in ServedRequest /\ RequestOK(request[r])
        /\ request[r].stage = "allowed"
    BY <1>1, SavedBy, ServedType, StageServed DEF CreateSatnet, UpdateSatnet, SetActive,
                                                  ApplyUserRoles, ServedStage, IInv
  <2>2. /\ Admitted(request[r].kind, groups[request[r].by])
        /\ request[r].kind # "roles" => MayActOn(request[r].by, groups[request[r].by])
    BY <1>1, <2>1 DEF RequestOK, JudgementIsCurrent
  <2> QED BY <2>2 DEF Entitled, Admitted, Needed, HasPerm, CAPABILITY_MATRIX, MayActOn,
                      EffectiveHub
<1>2. ASSUME IInv, [Next]_vars, NEW r \in Request, Ends(r, "refused"), ~request[r].disturbed
      PROVE  ~Entitled(request[r].by, request[r].kind)
  <2>1. CheckScope(r) /\ ~MayActOn(request[r].by, request[r].roles)
    BY <1>2, RefusedBy
  <2>2. r \in Served /\ RequestOK(request[r]) /\ request[r].kind # "roles"
    BY <1>2, <2>1, StageServed DEF CheckScope, ServedStage, IInv
  <2>3. ~MayActOn(request[r].by, groups[request[r].by])
    BY <1>2, <2>1, <2>2 DEF RequestOK, JudgementIsCurrent
  <2> QED BY <2>2, <2>3 DEF Entitled, HasPerm, CAPABILITY_MATRIX, MayActOn, EffectiveHub
<1>3. IInv /\ [Next]_vars =>
          [\A r \in Request :
              /\ Ends(r, "saved") /\ ~request[r].disturbed =>
                     Entitled(request[r].by, request[r].kind)
              /\ Ends(r, "refused") /\ ~request[r].disturbed =>
                     ~Entitled(request[r].by, request[r].kind)]_vars
  BY <1>1, <1>2
<1> QED BY <1>3, Initially, NextStep, PTL DEF Spec, JudgedByItsGrants
=============================================================================
