----------------------------- MODULE Operations -----------------------------
(***************************************************************************)
(* Backups and the restore drill: src/operations/backup.py, drill.py and   *)
(* the commands backup_database, verify_restore and restore_drill.         *)
(*                                                                         *)
(* The commands run beside the application.  A backup counts the rows,     *)
(* then dumps (pg_dump, one snapshot), then reads the migration head.  The *)
(* tools of PostgreSQL and what happens to a file on its way are external. *)
(* Of the counted tables three stand for all: one that only grows, the     *)
(* reservations, which are deleted when they are released, and the audit   *)
(* events.  A content has an administrator, and its pages render if Django *)
(* answers.  The passwords given to a drill are the right ones.            *)
(***************************************************************************)
EXTENDS Dictionary, Sequences

CONSTANTS
    Source,         \* the configured database
    Scratch,        \* the scratch databases
    ServesTestClient,   \* the settings answer plain http for the host "testserver"
    MaxBackups, MaxVerifications   \* bounds

VARIABLES
    migration_head,
    satnet_path, spectrum_reservation,   \* how many rows
    archive,     \* the dumps, each with its manifest, or None
    scratch,     \* what each scratch database holds, or None
    taking,      \* the backup in progress, or Idle
    verifying,   \* the verification in progress, or Idle
    backups, verified,   \* how many backups and verifications were started
    disturbed    \* history: the dumps during which rows were deleted or a migration ran

ASSUME ServesTestClientAssumption == ServesTestClient \in BOOLEAN

appVars == <<migration_head, satnet_path, spectrum_reservation>>
vars == <<dictionaryVars, appVars, archive, scratch, taking, verifying, backups, verified, disturbed>>

Idle == [step |-> "idle"]
COUNTED_TABLES == {"satnet_path", "spectrum_reservation", "audit_event"}

Content ==
    [migration_head |-> migration_head, definition |-> definition,
     rows |-> [t \in COUNTED_TABLES |->
                  CASE t = "satnet_path" -> satnet_path
                    [] t = "spectrum_reservation" -> spectrum_reservation
                    [] t = "audit_event" -> audit_event]]

\* What the process is configured for holds the tables of the application.
Held(database) == IF database = Source THEN Content ELSE scratch[database]

Init ==
    /\ DictionaryInit
    /\ migration_head = 1 /\ satnet_path = 1 /\ spectrum_reservation = 1
    /\ archive = <<>> /\ scratch = [d \in Scratch |-> None]
    /\ taking = Idle /\ verifying = Idle
    /\ backups = 0 /\ verified = 0 /\ disturbed = {}
-----------------------------------------------------------------------------
(***************************************************************************)
(* The application, meanwhile.                                             *)
(***************************************************************************)
\* The dump in progress, if any, is the next one or the last.
BeingTaken == IF taking.step = "counted" THEN {Len(archive) + 1}
              ELSE IF taking.step = "dumped" THEN {Len(archive)} ELSE {}

Commissioning ==
    /\ UNCHANGED <<definition, form, archive, scratch, taking, verifying, backups, verified>>

Reserve ==
    /\ Changes /\ Commissioning
    /\ satnet_path' = satnet_path + 1 /\ spectrum_reservation' = spectrum_reservation + 1
    /\ UNCHANGED <<migration_head, disturbed>>

Release ==
    /\ Changes /\ Commissioning
    /\ spectrum_reservation > 0 /\ spectrum_reservation' = spectrum_reservation - 1
    /\ disturbed' = disturbed \cup BeingTaken
    /\ UNCHANGED <<migration_head, satnet_path>>

Migrate ==
    /\ Changes /\ Commissioning
    /\ migration_head' = migration_head + 1 /\ disturbed' = disturbed \cup BeingTaken
    /\ UNCHANGED <<satnet_path, spectrum_reservation>>

Application ==
    \/ Reserve \/ Release \/ Migrate
    \/ /\ DictionaryNext
       /\ UNCHANGED <<appVars, archive, scratch, taking, verifying, backups, verified, disturbed>>
-----------------------------------------------------------------------------
(***************************************************************************)
(* backup.take and the command backup_database.                            *)
(***************************************************************************)
NotBackup == UNCHANGED <<definition, form, changes, appVars, scratch, verifying, verified, disturbed>>

\* row_counts, before the dump.
TakeCounts ==
    /\ taking = Idle /\ backups < MaxBackups /\ backups' = backups + 1
    /\ taking' = [step |-> "counted", row_counts |-> Content.rows]
    /\ disturbed' = disturbed \ {Len(archive) + 1}
    /\ UNCHANGED <<definition, form, changes, audit_event, appVars, archive, scratch, verifying,
                   verified>>

Dump ==
    /\ taking.step = "counted" /\ taking' = [taking EXCEPT !.step = "dumped"]
    /\ archive' = Append(archive, [content |-> Content, manifest |-> None, intact |-> TRUE])
    /\ UNCHANGED <<audit_event, backups>> /\ NotBackup

Counted == taking.row_counts

\* The manifest, with the head as it is now and the digest of the file, then
\* BACKUP_TAKEN.
Describe ==
    /\ taking.step = "dumped" /\ taking' = Idle
    /\ archive' = [archive EXCEPT ![Len(archive)].manifest =
                      [migration_head |-> migration_head, row_counts |-> Counted]]
    /\ audit_event' = audit_event + 1 /\ UNCHANGED backups /\ NotBackup

\* BackupError: a tool fails, is missing or does not finish.  BACKUP_FAILED.
BackupFails ==
    /\ taking.step = "counted" /\ taking' = Idle /\ audit_event' = audit_event + 1
    /\ UNCHANGED <<archive, backups>> /\ NotBackup

\* The process is killed: a dump stays without a manifest, or nothing does.
BackupKilled ==
    /\ taking # Idle /\ taking' = Idle /\ UNCHANGED <<audit_event, archive, backups>> /\ NotBackup

\* A file altered or truncated in transit, before it is verified.
Damage(dump) ==
    /\ archive[dump].manifest # None /\ archive[dump].intact /\ verifying = Idle
    /\ archive' = [archive EXCEPT ![dump].intact = FALSE]
    /\ UNCHANGED <<audit_event, taking, backups>> /\ NotBackup
-----------------------------------------------------------------------------
(***************************************************************************)
(* verify_restore, and restore_drill in the process it starts.             *)
(***************************************************************************)
NotVerification == UNCHANGED <<definition, form, changes, appVars, archive, taking, backups, disturbed>>

\* Mutant of DigestMatches: the archive is opened as it is.
AnyDigest(dump) == TRUE

\* verify_digest.
DigestMatches(dump) == archive[dump].intact

HasManifest(dump) == archive[dump].manifest # None

\* read_manifest and verify_digest refuse; --skip-restore goes on to the drill.
Verify(dump, into, skip, signs) ==
    /\ verifying = Idle /\ verified < MaxVerifications
    /\ HasManifest(dump) /\ DigestMatches(dump)
    /\ skip /\ into \in Scratch => scratch[into] # None
    /\ verified' = verified + 1
    /\ verifying' = [step |-> IF skip THEN "restored" ELSE "checked", dump |-> dump, into |-> into,
                     skipped |-> skip, signs |-> signs]
    /\ UNCHANGED <<audit_event, scratch>> /\ NotVerification

\* pg_restore of a file that was altered fails, or loads less.
Loaded(dump) ==
    IF archive[dump].intact THEN {archive[dump].content}
    ELSE {[archive[dump].content EXCEPT !.rows["satnet_path"] = @ - 1]}

\* createdb may fail, pg_restore not: into a database that was there before
\* it does.
Restore ==
    /\ verifying.step = "checked" /\ verifying.into # Source
    /\ IF scratch[verifying.into] # None
       THEN verifying' = Idle /\ UNCHANGED scratch
       ELSE /\ \E content \in Loaded(verifying.dump) :
                  scratch' = [scratch EXCEPT ![verifying.into] = content]
            /\ verifying' = [verifying EXCEPT !.step = "restored"]
    /\ UNCHANGED <<audit_event, verified>> /\ NotVerification

\* backup.restore refuses the configured database; or a tool fails.
RestoreRefused ==
    /\ verifying.step = "checked" /\ verifying' = Idle
    /\ UNCHANGED <<audit_event, scratch, verified>> /\ NotVerification

\* Mutant of CountsReached: as many rows are not enough.
CountsExceeded(manifest, held) ==
    \A t \in COUNTED_TABLES : held.rows[t] > manifest.row_counts[t]

CountsReached(manifest, held) ==
    \A t \in COUNTED_TABLES : held.rows[t] >= manifest.row_counts[t]

SchemaMatches(manifest, held) == held.migration_head = manifest.migration_head

TrailThere(held) == held.rows["audit_event"] > 0

\* django.test.Client, in a process of its own.  The sign-in page must answer 200,
\* which it does not behind SECURE_SSL_REDIRECT (301) or for a host ALLOWED_HOSTS
\* does not name (400).  With credentials response.context is looked at, which only a
\* test runner has filled in: whoever signs in, the check fails.
SignsIn(signs) == ServesTestClient /\ ~signs

\* drill.run: it undoes what it writes.
Passes(manifest, held, signs) ==
    /\ SchemaMatches(manifest, held) /\ CountsReached(manifest, held)
    /\ TrailThere(held) /\ SignsIn(signs)

\* The result is recorded in the database that was checked.
Record(database) ==
    IF database = Source THEN audit_event' = audit_event + 1 /\ UNCHANGED scratch
    ELSE /\ scratch' = [scratch EXCEPT ![database].rows["audit_event"] = @ + 1]
         /\ UNCHANGED audit_event

Outcome == Passes(archive[verifying.dump].manifest, Held(verifying.into), verifying.signs)

Drill(passed) ==
    /\ verifying.step = "restored" /\ passed = Outcome
    /\ Record(verifying.into) /\ verifying' = Idle
    /\ UNCHANGED verified /\ NotVerification

\* The pages may need columns that the restored schema does not have yet:
\* the drill stops, and records nothing.
DrillStops ==
    /\ verifying.step = "restored" /\ Held(verifying.into).migration_head # migration_head
    /\ verifying' = Idle
    /\ UNCHANGED <<audit_event, scratch, verified>> /\ NotVerification

\* The scratch database is dropped, by hand.
DropScratch(database) ==
    /\ scratch[database] # None /\ verifying = Idle
    /\ scratch' = [scratch EXCEPT ![database] = None]
    /\ UNCHANGED <<audit_event, verifying, verified>> /\ NotVerification

Next ==
    \/ Application
    \/ TakeCounts \/ Dump \/ Describe \/ BackupFails \/ BackupKilled
    \/ \E dump \in DOMAIN archive :
           \/ Damage(dump)
           \/ \E into \in Scratch \cup {Source}, skip, signs \in BOOLEAN :
                  Verify(dump, into, skip, signs)
    \/ Restore \/ RestoreRefused \/ DrillStops \/ \E passed \in BOOLEAN : Drill(passed)
    \/ \E database \in Scratch : DropScratch(database)

Spec == Init /\ [][Next]_vars
-----------------------------------------------------------------------------
(***************************************************************************)
(* Properties.                                                             *)
(***************************************************************************)
\* Rows, files and processes have the fields the code gives them; what a dump
\* holds is older than what the application holds.
TypeOK ==
    /\ definition \in SpecificationDefinition
    /\ \A e \in Editor : form[e] = None \/ form[e].expected_version <= definition.record_version
    /\ \A d \in DOMAIN archive :
           /\ archive[d].content.migration_head <= migration_head
           /\ archive[d].content.rows["audit_event"] <= audit_event
    /\ verifying # Idle => archive[verifying.dump].manifest # None

\* A drill that passes after a restore found what was dumped: the schema, the
\* rows and the texts; a restore that lost a row is not called verified.
VerifiedHoldsTheDump ==
    [][\/ ~Drill(TRUE) \/ verifying.skipped
       \/ Held(verifying.into) = archive[verifying.dump].content]_vars

\* A drill without credentials that fails after a restore says something of the
\* dump, where the settings let it reach the sign-in page: a backup taken while no
\* row was deleted and no migration ran is never refused.
NoFalseAlarm ==
    [][\/ ~Drill(FALSE) \/ verifying.skipped
       \/ ~ServesTestClient \/ verifying.signs
       \/ verifying.dump \in disturbed]_vars
=============================================================================
