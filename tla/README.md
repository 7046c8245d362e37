# Formal models of the VSAT spectrum allocation platform

TLA+ models of the platform in this repository (Django and PostgreSQL), the TLC
runs that check them and the TLAPS proofs about them. `PROJECT.json` is the
index: the components, every run with its properties, the source lines each
definition models (`map`), the seeded bugs that show each property can fail
(`mutants`), the findings, the hazards and the theorems.

The platform plans satellite transmissions. A **Satnet Path** is one
transmission: a centre frequency, a bandwidth and guards, placed on two legs of
a payload (an uplink and its translated image). Its status says whether it holds
spectrum; if it does, it owns one **reservation** row per resource and leg. One
PostgreSQL exclusion constraint, `excl_reservation_overlap`, is the last word on
who holds what. Everything else (previews, gaps, approvals, versions) is advice
and bookkeeping around that constraint, and this is where the mistakes are.

## 1. Inventory

| Component | State | Operations | Correct when | Modelled in |
|---|---|---|---|---|
| Ranges, periods (`calculations/ranges.py`, `periods.py`) | none | overlap, containment, shift, reflect, intersection | half-open everywhere | `Ranges`, `Periods` |
| Gap engine (`calculations/gaps.py`) | none | `subtract`, `find`, `first_fit`, `summarise` | finds exactly what is free, and says so | `GapScan`, `Capacity`, `FreeSpectrum` |
| Engineering arithmetic (`bandwidth`, `guards`, `translation`, `rounding`) | none | `place_both_sides`, `resolve` | spectrum enough on both legs; images collide when originals do | `PlacementEngine` |
| Reservations (`spectrum/`) | rows | `reserve`, `set_status`, `release` | no overlap, all legs or none, inside the grant, no refusal but over what somebody else or another placing holds, no transaction stuck | `Reservations`, `ReservationTxn`, `SpectrumLedger` |
| Path lifecycle (`satnet_paths/lifecycle.py`) | paths, versions, chains | `transition`, `edit`, `revise` | rows say what the path says; a final path holds nothing; one live revision; a chain has one period after another | `PathLifecycle`, `RevisionPeriods` |
| Approvals (`approvals/`) | decisions | `decide` | what is on air was approved, as it is, by another than its author | `PathLifecycle` |
| Placement wizard (`satnet_paths/services.py`, selectors, containment) | proposals | `preview`, `auto_place`, `create` | what is offered can be had; what is refused could not | `Wizard` |
| Inventory (`inventory/`) | versioned records | `create`, `update`, `supersede`, `set_active` | what is in use keeps its values and rests on what is active; no edit of a row is lost; a path runs the way its windows do | `InventoryRecords`, `Inventory` |
| Beams (`beams/`) | Beams, directions, stored state, activation | `update_direction`, `validate_beam`, `set_active` | the stored state is what validation finds; an activation keeps its evidence | `BeamValidation`, `Beams` |
| Satnets (`satnets/`) | Satnets | `create`, `update`, `set_active` | who is let through is entitled; what is closed stays closed | `Satnets`; containment in `Wizard` |
| Accounts (`accounts/`): roles and scope | groups, grants | `set_user_roles`, `may_act_on` | roles are those somebody chose | `Satnets` |
| Accounts: sign-in and second factor | credential, recovery codes, attempts, sessions | sign in, enrol, confirm, verify, reissue, reset | a code passes once; one live set of codes; lockout holds | `SignIn` |
| Imports (`imports_exports/`) | batches, rows | dry run, commit | a batch is written once, and says what happened | `ImportBatch` |
| Operations (`operations/`) | dumps, manifests, scratch databases | backup, verify, restore drill | a drill that passes means a usable backup, and a sound backup passes | `Operations` |
| Specification dictionary (`specifications/`) | entries | edit | no edit replaces what its form did not show | `Dictionary` |
| Audit (`audit/`) | events | `record` | append-only, with its change | counted in `Operations` |
| Reporting, deployment, most views | | | | not modelled: read-only or wiring |

How they meet. The wizard calls `preview` (gap engine, arithmetic, selectors,
containment), then `create`, which calls `preview` again and then, in a transaction
that begins after it, writes the path and its rows; a draft has none until it is
planned. A transition, an edit or a revision loads a path in
one statement, checks it, and writes the path and its rows in a transaction that
begins later. An approval is a transition with a recorded decision. Inside the
database, transactions meet row by row at the exclusion constraint. A Beam refers
to inventory records in every check of its validation, and registers itself with
`inventory.dependencies` so that what it uses is not edited or deactivated. A
Satnet belongs to a Beam and a Hub of the inventory and is judged by the grants a
user has for both. Backups and drills run beside all of it.

What is hard about it: nearly every service reads first and writes in a transaction
that begins later; rows are inserted one by one while rivals do the same; the
constraint's waits can form circles; the preview judges the present and the
constraint the whole period; roundings go outward in some places and not in others;
a stored state is a cache of what validation found; forms are posted long after they
were shown; codes are used, replaced and reset from several sessions.

## 2. Modules

Core, reservations:

* `Ranges`, `Periods`, `Statuses`: intervals, and the statuses that hold spectrum.
* `Reservations`: a row, the constraint (`Clash`), the entitlement check, what
  `reserve` writes and what `set_status` makes of a row.
* `SpectrumLedger`: what the service promises. A set of rows; an allocation is
  reserved whole, restatused whole, released whole or exchanged whole.
* `ReservationTxn`: how it is done. Each connection runs one job (`reserve`,
  `set_status`, `release`, or the release-then-reserve of `revise` and `rewrite`)
  statement by statement. A path is planned from the copy that a request loaded and
  `reserve` does not look for rows it has, so two requests that loaded one draft both
  place it: the rows of such a second placing carry `again`. `todo` holds the writes left, `added` and `deleted`
  what the transaction has done and not committed. A row meets the constraint as
  PostgreSQL has it: a committed rival refuses it (`Refuse`), a rival in flight
  makes it wait (`Wait`), and a circle of waiters loses one (`KillVictim`), which
  `_guarded` reports as a conflict. It is external code, modelled from what
  `_guarded` and its tests rely on. READ COMMITTED isolation is assumed, the
  default that `config/settings` leaves in place.

The path:

* `PathLifecycle`: paths with status, version, content, author and chain, the rows
  they hold and the decisions recorded. A request is two steps or more: `Load`
  reads the row and makes the checks that are made on the loaded copy; `Move`,
  `CheckEditVersion`, `RewriteReleases`, `RewriteSaves` and `Revise` write, each
  at its own moment, as the code does. The history variable `met` holds the paths
  that two requests were on at once: properties that the code keeps only where
  requests follow one another exclude those paths by name, and the others hold
  for all of them. A path is created in any status of `Posted`: the buttons of the form
  send DRAFT and PLANNED, but the view passes on what it is sent and `create` takes it.
  `unasked` holds the paths that were created on air or suspended, `overwritten` those
  whose content one request edited while another was on them. A row says for itself
  whether it holds (`holds`), because the setting for suspended allocations is passed by
  transitions only.
* `RevisionPeriods`: the periods of one chain. A request carries the instance of the
  path that `revise` works from: the row itself for a call of the service, the row with
  the posted values written onto it for the screen, whose form is bound to it.

The wizard:

* `FreeSpectrum`: what free spectrum is, by its definition: the ranges no
  reservation overlaps that cannot be widened.
* `GapScan`: `find` and `subtract` as a state machine, one step per pass of the
  inner loop, and the properties that tie it to `FreeSpectrum`.
* `Capacity`: `first_fit`, the neighbours and the summary over what the scan found.
* `PlacementEngine`: translation, guards, bandwidth in whole Hz; a roll-off and a
  percentage, Decimals in the code, are whole hundredths.
* `Wizard`: one Beam direction. `Preview` and `AutoPlace` as the operator uses them; a
  save is two steps, because `create` asks `preview` again before its transaction
  begins: `Judge` keeps what it found, with the assignments and the rows that were active
  then, and `Write` stores it (its statements are `ReservationTxn`'s). Meanwhile others
  reserve and release on the same resources, time passes and assignments begin and end.
  A draft is saved in spite of its findings and holds nothing (`drafts`); `Plan` reserves
  what it stored, as the lifecycle does, without asking `preview`, and twice if two
  requests loaded it. The free ranges come from `FreeSpectrum`, which `GapScan` is
  proved to compute. Scope, polarization and whose an assignment is are left out (one
  Beam, one direction, its own assignments): `CheckContainment` has nothing of
  `_check_assignment_belongs`, which can only refuse more.

The registry, one composition of three:

* `InventoryRecords`: the kinds of record a Beam rests on, their fields, which of
  them are engineering values, the constraints of their tables and the clean methods
  of their models.
* `Inventory`: `create`, `update`, `supersede` and `set_active` as requests of
  several steps (form shown, checked, written), over records with versions, periods
  and an active flag. What other applications hold a record by comes in as a
  parameter, as `dependencies.register` has it. A form offers records of the kind its
  field refers to (`References`). The history variable `late` holds the records that
  were checked while something came to use them. The polarizations of a Band are rows of
  their own (`allowed`), written after it in three statements, `Prune`, `Look` and `Add`,
  in no transaction and under no version.
* `BeamValidation`: every check of `beams/validation.py` over the rows, the Beam and
  its two directions, and the state that follows from the findings.
* `Beams`: the form of a direction, `validate_beam` and `set_active`, each a request
  that loads the Beam, works, and commits; two directions may be written at once.
  One Beam is modelled: Beams share nothing but the inventory.

People:

* `SignIn`: one account, several browsers. Password and lockout, the second factor
  at sign-in, enrolment and its confirmation, recovery codes, reset by an
  administrator. Each step of a request ends where it commits or where it has read
  what it goes on to use; time is counted in steps of the one-time codes.
  Each failed attempt is a row of its own (`nth` numbers those of one moment).
* `Satnets`: requests that ask for their capability, load, check the scope and write.
  Roles and grants change meanwhile. `crossed` and `disturbed` of a request record
  that what it has read was written, or what it is judged by was changed, since.
  An edit is a call of `update`: the edit screen itself fails (section 4).

The rest:

* `ImportBatch`: the two stages of an import. `DryRun` is one transaction; a
  commit is `Begin` (the batch is loaded and checked), `ReadRows`, one `Rejudge` a
  row, `WriteAll` or one `WriteRow` or `RecordFailure` a row, and `Finish`, each a
  transaction or a read of its own. Commits of one batch, or of two made from one
  file, overlap; any of them may be lost between two steps; operators create and
  rename paths and labels change their meaning. A row is reduced to its kind, its
  identifier, its label and its code; WARNING and CONFLICT are written as VALID
  is and stand under that name. `create` refuses a row when its identifier or its
  code is taken; its other refusals are those of `Wizard`. A row's gateway is one
  more label and is left out.
* `Dictionary`: editing an entry of the specification dictionary, with its version.
* `Operations`: the application (the dictionary, reservations, migrations) with
  backups and drills beside it. `TakeCounts`, `Dump` and `Describe` are the three
  readings of `backup.take`; files are damaged on the way, processes die, restores
  fail; `Drill` is the outcome of the checks of `operations/drill.py`,
  and `ServesTestClient` says whether the settings it runs under answer its requests
  (plain http, for the host `testserver`). The passwords given to a drill are right. The
  PostgreSQL tools are external.

`MCReservationTxn`, `MCPathLifecycle`, `MCGapScan`, `MCWizard`, `MCImportBatch`,
`MCBeams`, `MCSignIn`, `MCOperations` and `MCSatnets` give the constants their values;
`ReservationTxn_proofs`, `Placement_proofs`, `PathLifecycle_proofs`, `Satnets_proofs`,
`SignIn_proofs`, `ImportBatch_proofs`, `Beams_proofs` and `Operations_proofs` hold the proofs. Where a module has a `TypeOK` that no run lists, it is
proved, or it documents the variables and can be added to the configuration.

## 3. Runs

| Run | Question | Bounds, and why they are enough |
|---|---|---|
| `txn_safety` | no committed overlap, only entitled rows, no refusal but over the rows of a rival or of another placing, the transactions implement `SpectrumLedger`, and each of them ends | two connections, two allocations, one of which may be planned twice, three placements: one that takes most of the grant, one that crosses it in the opposite order of resources, and one that outlasts the grant; every way in which two rows meet is there, and a longer circle of waiters has the same shape. Placements and exchanges write PLANNED and status changes move to PLANNED or SUSPENDED (the other statuses that hold differ in name only) |
| `path_meet` | no spectrum held twice, no chain that branches, nothing held by a final path, nothing on air unapproved that was not created so, whatever meets; what is on air is as approved unless it was edited meanwhile; and where nothing meets, rows say what paths say and one revision is alive | three paths, two contents, two users, creation in any of the eight statuses, five requests of which two at once, one revision deep |
| `gap_scan` | the sweep finds the free spectrum; sums, neighbours and first fit agree with it | every one or two disjoint entitlements and every list of up to three reservations with edges in 0..4, overlaps and nesting included |
| `wizard_race` | what the checks say against what the constraint does; what is offered against what is free; spectrum enough; images that collide together | three resources, of which the two of the uplink are interchangeable, one reservation of somebody else beside the operator's own, three periods, a clock to 1, an assignment renewed at 1, a Beam that ends at 3, two requests (an even bandwidth that is rounded up, an odd one whose rate is rounded down), a fixed left guard and a right guard of a fraction of a Hz more than its fixed part, drafts and saves, an inverting transponder |
| `registry` | what is in use keeps its values and rests on active rows; paths run their way; no edit overwrites a row its form did not show; the stored state is what validation finds; evidence stays | a Beam over fifteen records, a spare window and a spare equipment profile; two administrators, two inventory requests at once, three in all; new versions, a new path, an edited leg, a Band edited with its polarizations |
| `signin` | a code passes once; one live set; the secret that is on was proved; the lockout holds; nobody signs in with half of it | two browsers, three steps of time, five secrets, sets of codes, resets and failures together, a limit of two failures |
| `satnets` | who is let through is entitled; closed stays closed; roles as chosen | two users, two Satnets, codes, Gateways and requests; four arrivals, grants and moves together |
| `import_batch` | one path for an allocation, however often its file is committed; a batch says what happened; all or nothing is written at once | two batches, two commits at once, a plan of two rows and a sheet of rows that are not written; two events (commits lost, changes by others) |
| `operations` | a drill that passes found what was dumped; without credentials a sound backup is not refused; no edit of the dictionary replaces what its form did not show | two backups, two verifications, two changes of the application, two editors, one scratch database, settings that serve the test client |
| `path_silent`, `wizard_draft`, `revision_screen` | statements of the documentation the code does not keep (section 4) | the smallest instance in which it happens |

Bounds by name: `Replanned` (the paths that two requests plan, `ReservationTxn`),
`Entering` and `Asked` (the statuses placements are written in and status changes ask
for, `ReservationTxn`), `Posted` (the statuses a path is created in), `MaxRequests` (requests that arrive, `PathLifecycle` and
`Inventory`), `MaxRevision` (length of a chain), `MaxNow`, `MaxTime` (clocks),
`MaxOther` (reservations of others), `Top`, `MaxEntitlements`, `MaxOccupied` (the
scan's lists), `MaxEvents` (of `ImportBatch`: changes by others and commits lost; of
`SignIn`: secrets, sets, resets and failures), `MaxRows` (of `ImportBatch`: rows of a
file; of `Inventory`: records), `MaxChanges` (of `Satnets`: arrivals, grants, moves; of
`Dictionary`: changes of the application), `MaxBackups`, `MaxVerifications`.

`CHECK_DEADLOCK FALSE` stands where the system may stop: the scan returns, and the
others end when the bound on their requests or changes is reached. The reservation
and wizard runs keep the check: a connection can always begin again.

Many properties of this code hold except where two requests overlap in one particular
way. Where that is so, the property names the way: a history variable (`met`,
`overwritten`, `unasked`, `late`, `overlapped`, `crossed`, `disturbed`, `together`,
`rewound`) records it, no action
reads it, and each exception is one that TLC finds to be needed. Such a property does not
cover the hazard it excuses; it says that nothing else brings the harm about. `hazards`
in `PROJECT.json` says where that is so.

Fairness. Only `txn_safety` needs it, for `EveryTransactionEnds`: `Fairness` of
`ReservationTxn` is weak fairness of each connection's next statement (a server
process is scheduled, and `gunicorn` and PostgreSQL do not abandon a running
statement) and of the deadlock detector, which PostgreSQL runs after
`deadlock_timeout`. Nothing is assumed of the operators: nobody has to ask for
anything. The other modules state no liveness: what they model is driven by people.

Every property of a passing run has a mutant: a definition replaced by the form a
plausible bug would give it (a guard dropped, a rounding turned, a filter
forgotten), under which the run finds the property violated. They stand beside
the definitions they replace, as `Mutant of ...`.

## 4. Findings

1. `path_silent`: a submission that overtakes a cancellation leaves a path that
   goes on air with nothing reserved. The cause is that a path is loaded and checked
   outside the transaction that writes it.
2. `wizard_draft`: a draft that reaches past its Beam or its Satnet is planned and then
   holds spectrum there. Containment is evaluated by `preview`, which `plan` does not
   ask; `reserve` compares with the assignments only.
3. `revision_screen`: the revision screen refuses every revision. Its form is bound to
   the path that `revise` then works from, so the moment the revision takes effect is
   compared with itself; `ScreenNeverRevises` proves that no request from the screen ever
   changes a chain. A call of the service that names no end fails as well, because
   `_carried_forward` reads the end after the predecessor was closed. The tests call the
   service with an end.

1 needs two requests that overlap in time; the other two need nothing at all.

The models hold more behaviours of this kind, for which no run is kept; most of them
are the exceptions that the properties of section 3 name.

Paths and placement:

* The optimistic lock compares versions before the transaction that writes, and the
  write does not name the version: of two requests with the same version both commit.
* A request to create that names ON_AIR puts a path on air that nobody approved.
  `create` asks of a status only whether it is DRAFT (`satnet_paths/services.py:299`), and
  the view passes on what was posted (`views.py:296`; `unasked`). `approvals/services.py:5`
  says the graph is not walked past PENDING_APPROVAL by any other route.
* An edit that was checked before its path was submitted is saved over what the approver
  approves, or has approved (`satnet_paths/services.py:409`; `overwritten`), although
  `lifecycle.py:102` says that an approved allocation must not silently become another.
* A transition loaded before a cancellation revives the path
  (`satnet_paths/lifecycle.py`, `transition`).
* Of two requests that plan one draft the second is refused by the rows of the first, as
  a conflict with an allocation that is the operator's own (`lifecycle.py:257`).
* An allocation is refused over an active reservation that no check showed, if that was
  committed between the checks and the write (`satnet_paths/services.py:288`).
* A direction whose canonical leg is the downlink can be previewed and never saved:
  `create` writes the entered side as a literal (`satnet_paths/services.py:157`) and
  `ck_path_legs` refuses it (`StoredAsTyped` in `Wizard`).
* With an odd bandwidth automatic placement proposes a range that starts one Hz below
  its gap, on the neighbour or outside the assignment (`satnet_paths/services.py:247`):
  half the bandwidth is rounded down there and up in `occupied_range`.
  `LeftmostIsOffered` names that one Hz.
* Automatic placement for a future period looks for gaps in the present
  (`AutoPlace`): it can propose spectrum that is already reserved then, and the
  preview does not see it. The constraint refuses the save.
* When a leg has two active assignments, automatic placement offers gaps in both
  and the entitlement check looks at the first only (`AssignmentFor`).
* A revision of an allocation whose end has passed moves that end to the moment the
  revision takes effect (`satnet_paths/lifecycle.py:456`): the history then shows a
  period in which nothing was reserved.

Imports:

* An all-or-nothing batch is judged by the counts of its dry run
  (`imports_exports/services.py:197`); a row that becomes a duplicate, loses its mapping
  or cannot be calculated any more before the commit is left out and the others are
  written, although `importer/commit.py:19` says that anything that stops a row stops
  the batch. `AllAtOnce` says what is kept: no row that is still committable is left out.
* A row of an import is written under the Satnet its label means at the commit, not
  the one the review showed (`Rejudge`).
* A refused commit leaves the rows as it judged them and the batch with the counts
  of its dry run (`Refuse`), so the list of batches and the review screen differ.

Beams and inventory:

* Two directions disabled at the same moment each see the other one enabled, and
  leave an active Beam with no direction (`beams/services.py:334`, excused by
  `overlapped` in `BadgeIsTrue`); `_store_state` compares with the state it loaded
  and may leave a stale one.
* Resources are not registered as something a Beam depends on: they can be changed
  under an active one (`shaken`).
* In-use checks and the writes they guard are two transactions
  (`inventory/services.py:93`, `:173`; `late`).
* `PayloadPathForm` compares the satellites of the two windows with each other, not
  with the path's own.
* The polarizations of a Band are written after its row and under no version
  (`inventory/views.py:557`, `Prune`, `Look` and `Add`), so an edit may write them over
  those of a later one, whose form was opened after it.
  `docs/adr/0012-master-data-versioning.md:82` says that `record_version` detects two people
  editing one row. `NothingOverwrittenUnseen` speaks of the versioned row only.
* Superseding a record does not raise its `record_version`, so an edit form that was
  open meanwhile reopens the predecessor's period.
* The result of an activation is saved before the Beam is active; a deactivation
  writes back `activated_at` as it loaded it (`beams/services.py:318`).

Sign-in:

* A confirmation that overlaps another one moves `last_counter` back, and a used code
  passes again (`mfa_services.py:92`; `rewound`).
* An enrolment page opened before a confirmation replaces the confirmed secret
  (`mfa_services.py:58`; `crossed`).
* Two reissues of recovery codes at once leave two live sets, and a set being issued
  survives a reset (`mfa_services.py:211`; `together`).
* `verify_code` on an account whose factor was reset returns without the audit event
  its docstring promises (`mfa_services.py:113`, `:120`).
* Attempts refused while locked out are recorded as failures and prolong the lockout
  (`accounts/forms.py:37`).

Satnets and roles:

* An edit saves every column of the row it read and so undoes a deactivation that
  committed in between (`satnets/services.py:112`). No service compares the
  `record_version` a Satnet carries.
* Two choices of roles for one user at once leave roles that neither chose.
* `SatnetEditForm`, given its actor as the edit screen does, looks for fields it left
  out and fails (`satnets/forms.py:78`); the tests build it without an actor.
* `accepts_new_paths` (`satnets/models.py:106`) and `selectable` have no caller: a path
  can be created under a deactivated Satnet or Beam, although `satnets/services.py:133`
  says that deactivation stops new paths. Nothing in `src/` writes scope grants.

Operations and dictionary:

* A drill with credentials always fails. It takes `response.context` for the proof that
  somebody signed in, which the test client fills in a test runner only
  (`operations/drill.py:235`, `SignsIn`); `drill.py:90` says that with credentials the
  drill signs in for real.
* Under the production settings the sign-in page answers 301 or 400 to the client of a
  drill, which wants 200 (`operations/drill.py:211`, `config/settings/production.py:18`,
  `:27`; `ServesTestClient`): every drill fails there, of a sound backup too.
* A release between the counts and the dump leaves a dump that is short of its manifest,
  because releasing a path deletes its reservations, which are counted
  (`operations/backup.py:96`, `spectrum/services.py:236`). The drill then refuses a sound
  backup, although `drill.py:149` says that a table cannot shrink. A migration before the
  manifest is written makes it refuse one too (`disturbed`; the number of a backup that
  failed is used again and starts undisturbed).
* A restore into a database that exists fails; a schema of another version can stop the
  drill with nothing recorded; `--skip-restore` judges whatever the target holds.
* The form of a dictionary entry changes the instance before its service takes the
  snapshot for the audit event, so that what was before equals what came after
  (`specifications/views.py:78`, `services.py:79`).

## 5. Proofs

`ReservationTxn_proofs`, for any number of connections, allocations, resources,
claims and assignments:

* `TypeCorrect`, `SpectrumIsNeverSharedTwice` (`[]NoOverlap`) and `RowsStayEntitled`
  (`[]OnlyEntitledRows`).
* `NoOverlap` speaks of committed rows and is not inductive: a commit publishes
  rows that were judged earlier. The invariant is about visible rows: what is
  committed and not deleted together with what each transaction has added
  conflicts with nothing that any transaction could still publish. An accepted
  tuple extends it because the constraint looked at committed and in-flight tuples
  alike, a rollback only removes, and a commit moves rows from one part of the
  union to the other. The entitlement theorem adds that every write a job still
  has to do, and every row it has added, passed the check of its leg.

On top of that invariant:

* `TransactionsImplementLedger` (`Spec => ImplementsLedger`): every commit is one
  `Reserve`, `SetStatus`, `Release` or `Exchange` of `SpectrumLedger` that leaves the rows
  disjoint, and every other step stutters. The invariant says of each running transaction
  what whole change its statements are a part of (`Faithful`): the rows written and the
  rows still to come are an allocation (`Placing`), the rows a status change has written
  are those it has replaced, a release and an exchange have deleted all there was. Other
  commits do not disturb it because nobody else writes rows of its paths (`OtherStep`).
* `RefusedOnlyByRivals` (`Spec => NoSpuriousRefusal`). The constraint looks at the rows
  of the refused transaction itself as well, so the rows it has added, and the claim it
  is about to add, must be apart: an allocation claims a resource once
  (`OneClaimAssumption`), what it writes is of one placing (`PlacedRow`), and an exchange
  has deleted the rows of its path first. What is left in the way is somebody else's, or
  is of the path and of its other placing (`Twin`), for any set of `Replanned` paths.

`Placement_proofs`, first of the sweep (`GapScan`, `Capacity`), for lists of any length,
any nesting and any integer edges:

* `NothingHeldIsOffered`, `NothingFreeIsMissed` and `SweepFindsTheFreeSpectrum`.
* The invariant (`SweepInv`) is about the cursor: it lies in the entitlement, on an edge
  from which a gap may begin; everything of the entitlement below it is either reserved
  or inside a gap; every reservation already passed ends at or below it or lies
  outside; and every gap is one of `MaximalFree`. The order of the list is what
  makes the gap between the cursor and the next reservation free of the ones not
  reached yet.
* `GapsAreOfferedTruly` (`[]OffersAreTrue`), from two lemmas:
  `FirstFitTakesTheLowest` (`[]FirstFitIsLowest`), for which the lowest of
  the gaps that fit has to exist, which it does because a set of numbers with a lower
  bound has a least one (`LowestExists`, from the library's `WFMin`); and
  `NeighboursAreShown` (`[]NeighboursBoundTheGap`).
* `CapacityIsCounted` (`[]CapacityAddsUp`), when find is called with its default minimum
  width, as `summarise` does, and the assignments of a direction are disjoint
  (`excl_assignment_overlap`). The sum of widths is a fold: the function that counts the
  Hz of every subset satisfies the fold's equation, and a function that satisfies it
  cannot differ, because the smallest subset it miscounted, less one range, would be a
  smaller one (`SumIsCount`). Two maximal free ranges that share a Hz are the same, so
  the gaps are apart, and every unheld Hz is a free range of its own that some gap holds.

then of the wizard (`Wizard`), for every Beam direction, translation, guard policy,
request, set of resources and assignments:

* `TypeCorrect`, `SavedStaysWithinItsParents`, `CollisionsComeInPairs`,
  `SpectrumIsEnough`, and the action properties `ShownConflictsAreReal` and
  `SurprisesAreInactive`.
* `ImagesCollideTogether` is not inductive: it compares the screen with rows saved
  earlier. The invariant adds that the screen shows what the arithmetic makes of
  its input, that what is about to be saved and every draft are placements
  (`RecordsArePlacements`), and that every row of an allocation has its image on the
  other leg where both legs compete on resources (`Paired`). What a save kept of its
  judgement is still what was judged when it is written (`SavedIsJudged`), which
  `SurprisesAreInactive` and `SavedStaysWithinItsParents` need. The
  lemmas under it are about the arithmetic: a translation keeps widths, is undone
  by its inverse and keeps overlaps, and every rounding leaves enough.
* `LeftmostFromAnUplink` (`Spec => LeftmostIsOffered`), for an uplink as the canonical
  leg: the allocated range around the centre offered is the lowest part of the gap chosen,
  or begins one Hz below it if the bandwidth is odd (`OfferFillsItsGap`, `TwoHalves`), and
  anything lower that were free would lie in a lower gap that fits (`RoomIsInAGap`). The
  hypothesis is needed: with the downlink as the canonical leg the code looks for a gap on
  the downlink and places its centre on the uplink, so the offer need not be free, and such
  a direction saves nothing (see 4).

`PathLifecycle_proofs`, for any number of paths, users, requests and revisions:

* `TypeCorrect` and, each for the invariant of `path_meet` it is named in,
  `SpectrumHeldOnce` (`NoDoubleHolding`), `TerminalReleases` (`TerminalHoldsNothing`),
  `OneChain` (`ChainNeverBranches`), `ApprovedBeforeOnAir` (`OnAirAsApproved`),
  `RowsFollowThePath` (`HoldsWhatItSays`) and `OneAlive` (`OneLiveRevision`).
* A request judges on a copy that may be stale, so the invariant says what a stale copy
  is still good for (`RequestOK`): its author and its place in the chain are those of the
  path, which no write changes; if it was on air somebody else had approved it, unless
  the path was created so, and decisions are never deleted; what it read is what the path
  holds unless the path was overwritten; its version was written by a request that arrived earlier.
  Where no two requests met on the path the copy is the path itself and what a rewrite has
  deleted is all there was (`AloneOK`).
* `ChainNeverBranches` needs what it is for (`Chains`): every revision but the first
  supersedes the one before it in the same group, and whatever has a later revision is
  superseded. `ChainsGrow` shows that a chain can then only grow at its end; `OneAlive`
  follows, because a superseded path that was never met on is retired.

`Satnets_proofs`, for any number of users, Satnets, Gateways and requests at once:

* `TypeCorrect`, `GatewayKept` (`[]GatewayIsTheHubs`) and the action properties
  `JudgedRight`, `ClosedKept` and `RolesKept`.
* None of them says what a request has read, so the invariant does: a served request is
  about a row that is still there; what it read is what is written now unless it was
  crossed; the roles and the answer it was judged by are those that hold now unless it
  was disturbed. `OvertakingStep` shows it for all the writes at once: they mark whom
  they overtake. The action properties follow from the invariant and from which step an
  answer can come from (`SavedBy`, `RefusedBy`).

`PathLifecycle_proofs` also holds, over `Chain == INSTANCE RevisionPeriods` and for chains
of any length:

* `ScreenNeverRevises` and `ChainStaysContiguous`. The invariant adds where the instance
  of a request comes from.

`SignIn_proofs`, for any number of browsers and any limits and windows:

* `TypeCorrect`, `LiveCodesAreOneSet` (`[]OneLiveSet`), `EveryCodePassesOnce`
  (`[]OneCodeOnePass`), `OnlyProvedSecretsAreOn` (`[]EnrolledSecretWasProved`),
  `LockoutHolds` (`[]JudgedWithinLimit`) and the action property `NobodyEntersByHalf`
  (`WholeSignIn`).
* Sets of recovery codes: a set that is not live any more stays spent, and whatever two
  requests hold of the same moment was noted as issued together (`CodesInv`). One-time
  codes: unless a confirmation was repeated, everything that passed for the secret that is
  on lies at or below its `last_counter`, and what a request is about to confirm with is
  newer (`CounterInv`). Secrets: one that is on, or about to be, was entered from or was
  saved across a confirmation (`KnownInv`). Lockout: the failures judged and the passwords
  in progress together are at most the limit and one less than the browsers
  (`LimitInv`), which needs that a new row is not one of those there are
  (`FailuresNumbered`).

`ImportBatch_proofs`, for files, labels, batches and requests of any number:

* `TypeCorrect`, `NoAllocationTwice` (`[]NeverTwice`), `CommittedRecordIsTrue`
  (`[]RecordIsTrue`) and the action property `WrittenTogether` (`AllAtOnce`).
* The invariant has three parts. `TypeInv` types what the proofs read. `PathsInv`: no two
  paths share an identifier, or a Satnet and a code; a path is what its row made of it
  unless its label or code has moved; and the rows a request is about to write have nothing
  in common with each other or with a path there is. `RecordInv`: two requests on one batch
  have overlapped; on a batch that is settled the stored row is what the request read until
  it judges it, what it judged until it is done with it, and written or failed after;
  and every row that reads as written has its path. Only the types
  depend on what `JudgeAll` stores, which recurses over the rows: a function that judges
  any number of rows exists (`SomethingJudges`), and it answers once for each
  (`EveryRowIsJudged`), by the smallest number for which it would not.

`Beams_proofs`, for inventories, forms, requests and administrators of any number:

* `TypeCorrect`, `PathsStayOneWay` (`[]PathsRunTheirWay`), `WhatIsUsedStaysActive`
  (`[]RestsOnActive`), `BadgeStaysTrue` (`[]BadgeIsTrue`) and the action properties
  `NothingLost` (`NothingOverwrittenUnseen`), `InUseIsImmutable` (`InUseKeepsItsValues`)
  and `EvidenceRemains` (`EvidenceStays`): everything the run `registry`
  checks. What is said of a row holds whatever writes polarizations do meanwhile
  (`SyncFacts`).
* `PathsRunTheirWay` follows from the constraints and from references staying on rows of
  their kind (`InventoryInv`).
* A write is judged at one moment and made at a later one, so the invariant says what a
  judgement is still good for. `FormsInv`: what a form shows is older than the row, or is
  the row but for the end of a period that was superseded. `MetInv`: a row that is checked
  while something comes to use it is in `late`. `UseInv`: outside `late`, what is about to
  be written rests on active rows, what is about to be deactivated is still not in use,
  and what is about to be edited in its engineering values is not in use either or has a
  newer version, so that the write will be refused. It holds because whatever comes to
  use a row meets whoever is checking it (`UseIsMet` for rows, `HoldIsMet` for the Beam).
* The badge depends on rows, on the Beam and on both directions. `HeldStays`: what the
  Beam holds, or is about to hold, keeps its engineering values and stays active outside
  `late`. `HoldInv`: held equipment is active, and a direction being written keeps its
  resources. `ChainLooksTheSame` and `ValidateStays` then give that no write to the
  inventory changes what validation finds, of the chains as they are and as they would be
  once the direction being written is committed (`WouldBe`); `BadgeInv` says both, because
  a commit that releases a row met late makes a stale badge true again. While no requests
  overlap, the one at work knows the stored state (`KnowsState`), so that not saving an
  equal state leaves the right one.

`Operations_proofs`, for any number of dictionary editors, backups, restores and scratch
databases:

* `TypeCorrect` and the action properties `PassedMeansRestored` (`VerifiedHoldsTheDump`),
  `FailedMeansDisturbed` (`NoFalseAlarm`) and `EditsReplaceWhatTheySaw`
  (`NothingReplacedUnseen`, of `Dictionary`).
* A drill compares three readings made at different times, so the invariant follows them.
  `BackupInProgress`: while nothing disturbs the backup, what it counted is still in the
  tables, and once dumped is in the dump, whose schema is the application's until it is
  described. `ArchiveIsTrue`: every dump is older than the application and holds an
  administrator's trail, and the manifest of an undisturbed one is true of it.
  `Verifying`: what is being verified is whole and described, and after its restore the
  scratch database holds its content, which nobody touches until the drill.
* A number reused after a failed backup starts undisturbed: `TakeCounts` takes it out of
  the history, so that `NoFalseAlarm` has no excuse left from the backup before it.
* `FormsAreHonest`: a form with the current version shows the current text, because every
  change of the text raises the version.

Assumptions: the types of the constants (`ASSUME` in `ReservationTxn`, `GapScan`,
`Wizard`, `PathLifecycle`, `Satnets`, `Dictionary`, `Operations`, `SignIn` and
`ImportBatch`); in
`Reservations` that an allocation claims a resource once (`OneClaimAssumption`: a
resource is on one leg and mapped to a direction once, `uq_beam_direction_spectrum_resource`,
and `reserve` writes one row for each); and in
`Inventory` and `Beams` that what was entered before is what the program lets one enter:
rows that satisfy the constraints and rest on active rows of the right kinds, and
directions over rows that are there. TLC evaluates them in every run of these modules;
the theorems about `Chain` assume that moments are numbers, `GapsAreOfferedTruly` that
`NoGap`, the Python `None`, is not itself a range, and `CapacityIsCounted` and
`LeftmostFromAnUplink` what is said with them above. The configurations of their runs satisfy
these.

Only model-checked: `EveryTransactionEnds`, because liveness needs fairness and ENABLED,
which TLAPS does not treat. Every other property of a passing run is stated by a theorem,
`LeftmostIsOffered` and `CapacityAddsUp` under the hypotheses above. The three violations
are counterexamples and are not theorems.

## 6. Not modelled

Rendering, workbook formatting, unit parsing, the spreadsheet intake of the inventory
(each row is a `create`), reporting, deployment; the contents of the audit records
written beside each change; the snapshot of engineering values a path stores; granting
and withdrawing assignments and resources beyond what a Beam's validation reads of
them; accounts and passwords themselves; crashes of the server (a transaction that
disappears rolls back, which `RollBack`, `Fail`, `GiveUp` and `Lost` cover).

## 7. Plan

In order:

1. Assignments granted and withdrawn under existing reservations, composed of `Beams`
   and `Wizard`.
2. Proofs: what is proved of an allocation and of an import, for a module that composes
   `ImportBatch` with `ReservationTxn`.
