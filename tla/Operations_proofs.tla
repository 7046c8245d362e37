------------------------- MODULE Operations_proofs -------------------------
(***************************************************************************)
(* Proofs about Operations and the Dictionary it extends, for any number   *)
(* of editors, changes, dumps, verifications and scratch databases.        *)
(***************************************************************************)
EXTENDS Operations, Integers, TLAPS

(***************************************************************************)
(* What is counted, dumped and described.                                  *)
(***************************************************************************)
Counts    == [COUNTED_TABLES -> Nat]
Contents  == [migration_head : Nat, definition : SpecificationDefinition,
              rows : Counts]
Manifests == [migration_head : Nat, row_counts : Counts]
Dumps     == [content : Contents, manifest : Manifests \cup {None}, intact : BOOLEAN]
Takings   == {Idle} \cup [step : {"counted", "dumped"}, row_counts : Counts]
Checks    == {Idle} \cup [step : {"checked", "restored"}, dump : Nat, into : Scratch \cup {Source},
                          skipped : BOOLEAN, signs : BOOLEAN]

(***************************************************************************)
(* The inductive invariant.                                                *)
(***************************************************************************)
TypeInv ==
    /\ definition \in SpecificationDefinition
    /\ DOMAIN form = Editor /\ DOMAIN scratch = Scratch
    /\ migration_head \in Nat /\ satnet_path \in Nat /\ spectrum_reservation \in Nat
    /\ audit_event \in Nat \ {0}
    /\ archive \in Seq(Dumps) /\ taking \in Takings /\ verifying \in Checks

\* A form that carries the row's version shows the row's text.
FormsAreHonest ==
    \A e \in Editor : form[e] # None =>
        /\ form[e].expected_version \in Nat
        /\ form[e].expected_version <= definition.record_version
        /\ Expected(e) => form[e].shown = definition.text

NoMore(counts, rows) == \A t \in COUNTED_TABLES : counts[t] <= rows[t]

Truthful(counts, head, content) ==
    head = content.migration_head /\ NoMore(counts, content.rows)

\* What the backup in progress counted is in the tables, and then in the dump,
\* whose head is still the application's; unless the dump was disturbed.
BackupInProgress ==
    /\ taking.step = "counted" /\ Len(archive) + 1 \notin disturbed =>
          NoMore(taking.row_counts, Content.rows)
    /\ taking.step = "dumped" =>
          /\ Len(archive) > 0 /\ archive[Len(archive)].manifest = None
          /\ Len(archive) \notin disturbed =>
                Truthful(taking.row_counts, migration_head, archive[Len(archive)].content)

\* A dump is older than the application, and has its administrator.
Older(content) ==
    /\ content.migration_head <= migration_head
    /\ content.rows["audit_event"] > 0 /\ content.rows["audit_event"] <= audit_event

\* A manifest is true of its dump, unless that was disturbed.
Described(d) ==
    LET manifest == archive[d].manifest IN
    manifest # None /\ d \notin disturbed =>
        Truthful(manifest.row_counts, manifest.migration_head, archive[d].content)

ArchiveIsTrue == \A d \in DOMAIN archive : Older(archive[d].content) /\ Described(d)

\* What is verified is whole and described, and once restored it is in a scratch
\* database that nothing touches until the drill is done.
Verifying ==
    /\ verifying # Idle =>
          /\ verifying.dump \in DOMAIN archive
          /\ archive[verifying.dump].intact /\ archive[verifying.dump].manifest # None
          /\ verifying.skipped => verifying.step = "restored"
    /\ verifying.step = "restored" /\ ~verifying.skipped =>
          /\ verifying.into \in Scratch /\ verifying.into # Source
          /\ scratch[verifying.into] = archive[verifying.dump].content

IInv == TypeInv /\ FormsAreHonest /\ BackupInProgress /\ ArchiveIsTrue /\ Verifying

-----------------------------------------------------------------------------
\* What the application holds, table by table.
LEMMA ContentType ==
    ASSUME TypeInv
    PROVE  /\ Content \in Contents
           /\ Content.migration_head = migration_head
           /\ Content.rows = [t \in COUNTED_TABLES |-> Content.rows[t]]
           /\ Content.rows["satnet_path"] = satnet_path
           /\ Content.rows["spectrum_reservation"] = spectrum_reservation
           /\ Content.rows["audit_event"] = audit_event
<1>1. /\ Content.rows = [t \in COUNTED_TABLES |-> Content.rows[t]]
      /\ Content.rows["satnet_path"] = satnet_path
      /\ Content.rows["spectrum_reservation"] = spectrum_reservation
      /\ Content.rows["audit_event"] = audit_event
  BY DEF Content, COUNTED_TABLES
<1>2. \A t \in COUNTED_TABLES : Content.rows[t] \in Nat
  BY <1>1 DEF TypeInv, COUNTED_TABLES
<1>3. Content.rows \in Counts
  BY <1>1, <1>2 DEF Counts
<1>4. Content = [migration_head |-> migration_head, definition |-> definition,
                 rows |-> Content.rows]
  BY DEF Content
<1>5. Content \in Contents
  BY <1>3, <1>4 DEF TypeInv, Contents
<1> QED BY <1>1, <1>4, <1>5

\* A dump has its fields.
LEMMA DumpType ==
    ASSUME TypeInv, NEW d \in DOMAIN archive
    PROVE  /\ archive[d] \in Dumps /\ archive[d].content \in Contents
           /\ archive[d].content.rows \in Counts
           /\ archive[d].content.migration_head \in Nat
           /\ \A t \in COUNTED_TABLES : archive[d].content.rows[t] \in Nat
           /\ archive[d].manifest # None => archive[d].manifest \in Manifests
<1>1. archive[d] \in Dumps
  BY DEF TypeInv
<1>2. archive[d].content \in Contents
  BY <1>1 DEF Dumps
<1> QED BY <1>1, <1>2 DEF Dumps, Contents, Counts

\* A backup that has counted has its counts.
LEMMA TakingType ==
    ASSUME TypeInv, taking.step \in {"counted", "dumped"}
    PROVE  /\ taking \in [step : {"counted", "dumped"}, row_counts : Counts]
           /\ \A t \in COUNTED_TABLES : taking.row_counts[t] \in Nat
<1>1. taking \in [step : {"counted", "dumped"}, row_counts : Counts]
  BY DEF TypeInv, Takings, Idle
<1> QED BY <1>1 DEF Counts

\* A verification under way knows what it verifies.
LEMMA VerifyingType ==
    ASSUME TypeInv, verifying # Idle
    PROVE  verifying \in [step : {"checked", "restored"}, dump : Nat, into : Scratch \cup {Source},
                          skipped : BOOLEAN, signs : BOOLEAN]
BY DEF TypeInv, Checks

\* The application changes nothing that was archived or restored: the dumps
\* grow older; the counts of the backup in progress stay below the tables as long
\* as these only grow, and otherwise its dump is noted.
LEMMA ApplicationKeeps ==
    ASSUME IInv, TypeInv',
           archive' = archive, taking' = taking,
           audit_event <= audit_event', migration_head <= migration_head',
           disturbed \subseteq disturbed',
           \/ BeingTaken \subseteq disturbed'
           \/ /\ migration_head' = migration_head
              /\ satnet_path <= satnet_path'
              /\ spectrum_reservation <= spectrum_reservation'
    PROVE  BackupInProgress' /\ ArchiveIsTrue'
<1>1. TypeInv
  BY DEF IInv
<1>3. ArchiveIsTrue'
  <2>1. \A d \in DOMAIN archive : Older(archive[d].content) => Older(archive[d].content)'
    <3> TAKE d \in DOMAIN archive
    <3>1. archive[d].content.migration_head \in Nat /\ archive[d].content.rows["audit_event"] \in Nat
      BY <1>1, DumpType DEF COUNTED_TABLES
    <3> QED BY <1>1, <3>1 DEF Older, TypeInv
  <2>2. \A d \in DOMAIN archive : Described(d) => Described(d)'
    BY DEF Described, Truthful, NoMore
  <2> QED BY <2>1, <2>2 DEF IInv, ArchiveIsTrue
<1>4. \A t \in COUNTED_TABLES :
         /\ Content.rows[t] \in Nat /\ Content.rows'[t] \in Nat
         /\ BeingTaken \subseteq disturbed' \/ Content.rows[t] <= Content.rows'[t]
  <2>1. /\ Content.rows["satnet_path"] = satnet_path
        /\ Content.rows["spectrum_reservation"] = spectrum_reservation
        /\ Content.rows["audit_event"] = audit_event
        /\ Content.rows'["satnet_path"] = satnet_path'
        /\ Content.rows'["spectrum_reservation"] = spectrum_reservation'
        /\ Content.rows'["audit_event"] = audit_event'
    BY DEF Content, COUNTED_TABLES
  <2>2. /\ satnet_path \in Nat /\ spectrum_reservation \in Nat /\ audit_event \in Nat
        /\ satnet_path' \in Nat /\ spectrum_reservation' \in Nat /\ audit_event' \in Nat
    BY <1>1 DEF TypeInv
  <2> QED BY <2>1, <2>2 DEF COUNTED_TABLES
<1>6. BackupInProgress'
  <2>1. ASSUME taking.step = "counted", Len(archive) + 1 \notin disturbed'
        PROVE  NoMore(taking.row_counts, Content.rows')
    <3>1. \A t \in COUNTED_TABLES : taking.row_counts[t] \in Nat
      BY <1>1, <2>1, TakingType
    <3>2. NoMore(taking.row_counts, Content.rows)
      BY <2>1 DEF IInv, BackupInProgress
    <3>3. ~(BeingTaken \subseteq disturbed')
      BY <2>1 DEF BeingTaken
    <3> QED BY <1>4, <3>1, <3>2, <3>3 DEF NoMore
  <2>2. ASSUME taking.step = "dumped", Len(archive) \notin disturbed'
        PROVE  Truthful(taking.row_counts, migration_head', archive[Len(archive)].content)
    <3>1. ~(BeingTaken \subseteq disturbed')
      BY <2>2 DEF BeingTaken
    <3> QED BY <2>2, <3>1 DEF IInv, BackupInProgress
  <2> QED BY <2>1, <2>2 DEF IInv, BackupInProgress, NoMore, Truthful
<1> QED BY <1>3, <1>6

\* A reservation is made, or released, or the schema migrates, or an editor
\* goes on.
LEMMA ApplicationStep ==
    ASSUME IInv, Application PROVE IInv'
<1>1. TypeInv /\ FormsAreHonest
  BY DEF IInv
<1>2. ASSUME Reserve \/ Release \/ Migrate
      PROVE  IInv'
  <2>1. /\ definition' = definition /\ form' = form /\ archive' = archive
        /\ scratch' = scratch /\ taking' = taking /\ verifying' = verifying
        /\ audit_event' = audit_event + 1
        /\ disturbed \subseteq disturbed'
    BY <1>2 DEF Reserve, Release, Migrate, Commissioning, Changes
  <2>2. /\ migration_head' \in Nat /\ satnet_path' \in Nat /\ spectrum_reservation' \in Nat
        /\ migration_head <= migration_head'
        /\ \/ BeingTaken \subseteq disturbed'
           \/ /\ migration_head' = migration_head
              /\ satnet_path <= satnet_path'
              /\ spectrum_reservation <= spectrum_reservation'
    BY <1>1, <1>2 DEF TypeInv, Reserve, Release, Migrate
  <2>3. audit_event <= audit_event' /\ audit_event' \in Nat \ {0}
    BY <1>1, <2>1 DEF TypeInv
  <2>4. TypeInv'
    BY <1>1, <2>1, <2>2, <2>3 DEF TypeInv
  <2>5. FormsAreHonest'
    BY <1>1, <2>1 DEF FormsAreHonest, Expected
  <2>6. Verifying'
    BY <2>1 DEF IInv, Verifying
  <2> QED BY <2>1, <2>2, <2>3, <2>4, <2>5, <2>6, ApplicationKeeps DEF IInv
<1>3. ASSUME DictionaryNext,
             UNCHANGED <<appVars, archive, scratch, taking, verifying, backups, verified, disturbed>>
      PROVE  IInv'
  <2>1. /\ archive' = archive /\ scratch' = scratch /\ taking' = taking /\ verifying' = verifying
        /\ disturbed' = disturbed /\ migration_head' = migration_head
        /\ satnet_path' = satnet_path /\ spectrum_reservation' = spectrum_reservation
    BY <1>3 DEF appVars
  <2>2. PICK e \in Editor :
           OpenForm(e) \/ RejectStale(e) \/ \E text \in Text : UpdateSpecification(e, text)
    BY <1>3 DEF DictionaryNext
  <2>3. /\ definition.record_version \in Nat /\ definition.text \in Text
        /\ audit_event \in Nat \ {0}
    BY <1>1 DEF TypeInv, SpecificationDefinition
  <2>6. Verifying'
    BY <2>1 DEF IInv, Verifying
  <2>4. CASE OpenForm(e) \/ RejectStale(e)
    <3>1. /\ definition' = definition /\ audit_event' = audit_event
          /\ form' = [form EXCEPT ![e] = Rendered]
      BY <2>4 DEF OpenForm, RejectStale
    <3>2. TypeInv'
      BY <1>1, <2>1, <3>1 DEF TypeInv
    <3>3. FormsAreHonest'
      BY <1>1, <2>3, <3>1 DEF TypeInv, FormsAreHonest, Expected, Rendered
    <3>4. audit_event <= audit_event' /\ migration_head <= migration_head'
          /\ satnet_path <= satnet_path' /\ spectrum_reservation <= spectrum_reservation'
      BY <1>1, <2>1, <3>1 DEF TypeInv
    <3> QED BY <2>1, <2>6, <3>2, <3>3, <3>4, ApplicationKeeps DEF IInv
  <2>5. ASSUME NEW text \in Text, UpdateSpecification(e, text) PROVE IInv'
    <3>1. /\ definition' = [record_version |-> definition.record_version + 1, text |-> text]
          /\ audit_event' = audit_event + 1 /\ form' = [form EXCEPT ![e] = None]
      BY <2>5 DEF UpdateSpecification, Changes
    <3>2. definition' \in SpecificationDefinition
      BY <2>3, <3>1 DEF SpecificationDefinition
    <3>3. TypeInv'
      <4>1. audit_event' \in Nat \ {0} /\ DOMAIN form' = Editor
        BY <1>1, <2>3, <3>1 DEF TypeInv
      <4> QED BY <1>1, <2>1, <3>2, <4>1 DEF TypeInv
    <3>4. FormsAreHonest'
      <4> SUFFICES ASSUME NEW other \in Editor, form'[other] # None
                   PROVE  /\ form'[other].expected_version \in Nat
                          /\ definition'.record_version \in Nat
                          /\ form'[other].expected_version < definition'.record_version
        BY DEF FormsAreHonest, Expected
      <4>1. form'[other] = form[other] /\ other # e
        BY <1>1, <3>1 DEF TypeInv
      <4>2. /\ form[other].expected_version \in Nat
            /\ form[other].expected_version <= definition.record_version
        BY <1>1, <4>1 DEF FormsAreHonest
      <4>3. definition'.record_version = definition.record_version + 1
        BY <3>1
      <4> QED BY <2>3, <4>1, <4>2, <4>3
    <3>5. audit_event <= audit_event' /\ migration_head <= migration_head'
          /\ satnet_path <= satnet_path' /\ spectrum_reservation <= spectrum_reservation'
      BY <1>1, <2>1, <3>1 DEF TypeInv
    <3> QED BY <2>1, <2>6, <3>3, <3>4, <3>5, ApplicationKeeps DEF IInv
  <2> QED BY <2>2, <2>4, <2>5
<1> QED BY <1>2, <1>3 DEF Application

\* A backup counts the tables.
LEMMA TakeCountsStep == ASSUME IInv, TakeCounts PROVE IInv'
<1>1. TypeInv
  BY DEF IInv
<1>2. /\ UNCHANGED <<definition, form, audit_event, appVars, archive, scratch, verifying>>
      /\ taking' = [step |-> "counted", row_counts |-> Content.rows]
      /\ disturbed' = disturbed \ {Len(archive) + 1}
  BY DEF TakeCounts
<1>3. Content.rows \in Counts /\ Content' = Content
  <2>1. Content.rows \in Counts
    BY <1>1, ContentType DEF Contents
  <2>2. Content' = Content
    BY <1>2 DEF Content, appVars
  <2> QED BY <2>1, <2>2
<1>4. TypeInv'
  BY <1>1, <1>2, <1>3 DEF TypeInv, Takings, appVars
<1>5. \A t \in COUNTED_TABLES : Content.rows[t] <= Content.rows[t]
  BY <1>3 DEF Counts
<1>6. BackupInProgress'
  BY <1>2, <1>3, <1>5 DEF BackupInProgress, NoMore
<1>7. ArchiveIsTrue'
  <2>1. \A d \in DOMAIN archive : d # Len(archive) + 1
    BY <1>1 DEF TypeInv
  <2> QED BY <1>2, <2>1 DEF IInv, ArchiveIsTrue, Older, Described, Truthful, NoMore, appVars
<1> QED BY <1>2, <1>4, <1>6, <1>7 DEF IInv, FormsAreHonest, Expected, Verifying

\* The dump joins the archive, with the rows it has by then.
LEMMA DumpStep == ASSUME IInv, Dump PROVE IInv'
<1> DEFINE new == [content |-> Content, manifest |-> None, intact |-> TRUE]
<1>0. PICK last : last = Len(archive) + 1
  OBVIOUS
<1>1. TypeInv
  BY DEF IInv
<1>2. /\ UNCHANGED <<definition, form, audit_event, appVars, scratch, verifying, disturbed>>
      /\ taking.step = "counted" /\ taking' = [taking EXCEPT !.step = "dumped"]
      /\ archive' = Append(archive, new)
  BY DEF Dump, NotBackup
<1>3. /\ Content \in Contents /\ Content' = Content
      /\ Content.rows["audit_event"] = audit_event
      /\ Content.migration_head = migration_head
  BY <1>1, <1>2, ContentType DEF Content, appVars
<1>4. archive \in Seq(Dumps) /\ new \in Dumps
  BY <1>1, <1>3 DEF TypeInv, Dumps
<1> HIDE DEF new
<1>5. /\ archive' \in Seq(Dumps) /\ Len(archive') = last /\ archive'[last] = new
      /\ DOMAIN archive' = DOMAIN archive \cup {last} /\ last \notin DOMAIN archive
      /\ \A d \in DOMAIN archive : archive'[d] = archive[d]
      /\ last > 0
  BY <1>0, <1>2, <1>4
<1>6. taking \in [step : {"counted", "dumped"}, row_counts : Counts]
  BY <1>1, <1>2, TakingType
<1>7. taking' \in Takings /\ taking'.step = "dumped" /\ taking'.row_counts = taking.row_counts
  BY <1>2, <1>6 DEF Takings
<1>8. TypeInv'
  BY <1>1, <1>2, <1>5, <1>7 DEF TypeInv, appVars
<1>9. new.content = Content /\ new.manifest = None
  BY DEF new
<1>10. last \notin disturbed => NoMore(taking.row_counts, Content.rows)
  BY <1>0, <1>2 DEF IInv, BackupInProgress
<1>11. BackupInProgress'
  <2>1. taking'.step # "counted"
    BY <1>7
  <2>2. last \notin disturbed =>
           Truthful(taking.row_counts, migration_head, archive'[Len(archive')].content)
    BY <1>3, <1>5, <1>9, <1>10 DEF Truthful
  <2> QED BY <1>2, <1>5, <1>7, <1>9, <2>1, <2>2 DEF BackupInProgress, Truthful, NoMore, appVars
<1>12. ArchiveIsTrue'
  <2>1. ASSUME NEW d \in DOMAIN archive PROVE Older(archive[d].content)' /\ Described(d)'
    BY <1>2, <1>5, <2>1 DEF IInv, ArchiveIsTrue, Older, Described, Truthful, NoMore, appVars
  <2>2. Older(archive[last].content)'
    <3>1. audit_event \in Nat \ {0} /\ migration_head \in Nat
      BY <1>1 DEF TypeInv
    <3> QED BY <1>2, <1>3, <1>5, <1>9, <3>1 DEF Older, appVars
  <2>3. Described(last)'
    BY <1>5, <1>9 DEF Described
  <2> QED BY <1>5, <2>1, <2>2, <2>3 DEF ArchiveIsTrue
<1>13. Verifying'
  BY <1>2, <1>5 DEF IInv, Verifying, Idle
<1> QED BY <1>2, <1>8, <1>11, <1>12, <1>13 DEF IInv, FormsAreHonest, Expected

\* The manifest says what the tables held before, and the head as it is.
LEMMA DescribeStep == ASSUME IInv, Describe PROVE IInv'
<1>0. PICK last : last = Len(archive)
  OBVIOUS
<1> DEFINE manifest == [migration_head |-> migration_head, row_counts |-> taking.row_counts]
<1>1. TypeInv
  BY DEF IInv
<1>2. /\ UNCHANGED <<definition, form, appVars, scratch, verifying, disturbed>>
      /\ taking.step = "dumped" /\ taking' = Idle /\ audit_event' = audit_event + 1
      /\ archive' = [archive EXCEPT ![last].manifest = manifest]
  BY <1>0 DEF Describe, NotBackup, Counted
<1>3. taking \in [step : {"counted", "dumped"}, row_counts : Counts]
  BY <1>1, <1>2, TakingType
<1>4. manifest \in Manifests /\ manifest.row_counts = taking.row_counts
      /\ manifest.migration_head = migration_head
  BY <1>1, <1>3 DEF TypeInv, Manifests
<1>5. /\ archive \in Seq(Dumps) /\ last > 0 /\ last \in DOMAIN archive
      /\ archive[last].manifest = None
      /\ last \notin disturbed => Truthful(taking.row_counts, migration_head, archive[last].content)
  BY <1>0, <1>1, <1>2 DEF IInv, BackupInProgress, TypeInv
<1> HIDE DEF manifest
<1>6. archive' = [archive EXCEPT ![last] = [archive[last] EXCEPT !.manifest = manifest]]
  BY <1>2
<1>7. archive[last] \in Dumps
  BY <1>1, <1>5, DumpType
<1> DEFINE described == [archive[last] EXCEPT !.manifest = manifest]
<1>8. /\ described \in Dumps /\ described.content = archive[last].content
      /\ described.intact = archive[last].intact /\ described.manifest = manifest
  BY <1>4, <1>7 DEF Dumps
<1> HIDE DEF described
<1>9. /\ archive' \in Seq(Dumps) /\ Len(archive') = Len(archive) /\ DOMAIN archive' = DOMAIN archive
      /\ archive'[last] = described
      /\ \A d \in DOMAIN archive : d # last => archive'[d] = archive[d]
  BY <1>5, <1>6, <1>8 DEF described
<1>10. \A d \in DOMAIN archive : /\ archive'[d].content = archive[d].content
                                 /\ archive'[d].intact = archive[d].intact
  BY <1>8, <1>9
<1>11. TypeInv'
  <2>1. audit_event' \in Nat \ {0}
    BY <1>1, <1>2 DEF TypeInv
  <2> QED BY <1>1, <1>2, <1>9, <2>1 DEF TypeInv, Takings, appVars
<1>12. BackupInProgress'
  BY <1>2 DEF BackupInProgress, Idle
<1>13. ArchiveIsTrue'
  <2> SUFFICES ASSUME NEW d \in DOMAIN archive
               PROVE  Older(archive[d].content)' /\ Described(d)'
    BY <1>9 DEF ArchiveIsTrue
  <2>1. Older(archive[d].content)'
    <3>1. Older(archive[d].content)
      BY DEF IInv, ArchiveIsTrue
    <3>2. archive[d].content.rows["audit_event"] \in Nat /\ audit_event \in Nat
      BY <1>1, DumpType DEF COUNTED_TABLES, TypeInv
    <3> QED BY <1>2, <1>10, <3>1, <3>2 DEF Older, appVars
  <2>2. ASSUME d = last PROVE Described(d)'
    BY <1>2, <1>4, <1>5, <1>8, <1>9, <1>10, <2>2 DEF Described, Truthful, NoMore
  <2>3. ASSUME d # last PROVE Described(d)'
    BY <1>2, <1>9, <2>3 DEF IInv, ArchiveIsTrue, Described, Truthful, NoMore
  <2> QED BY <2>1, <2>2, <2>3
<1>14. Verifying'
  <2>1. verifying # Idle => verifying.dump \in DOMAIN archive /\ verifying.dump # last
    BY <1>5 DEF IInv, Verifying
  <2> QED BY <1>2, <1>9, <1>10, <2>1 DEF IInv, Verifying, Idle
<1> QED BY <1>2, <1>11, <1>12, <1>13, <1>14 DEF IInv, FormsAreHonest, Expected

\* A backup that ends without a manifest leaves at most a dump that nobody can
\* verify.
LEMMA BackupEndsStep == ASSUME IInv, BackupFails \/ BackupKilled PROVE IInv'
<1>1. TypeInv
  BY DEF IInv
<1>2. /\ UNCHANGED <<definition, form, appVars, archive, scratch, verifying, disturbed>>
      /\ taking' = Idle /\ (audit_event' = audit_event \/ audit_event' = audit_event + 1)
  BY DEF BackupFails, BackupKilled, NotBackup
<1>3. audit_event \in Nat \ {0} /\ audit_event' \in Nat \ {0} /\ audit_event <= audit_event'
  BY <1>1, <1>2 DEF TypeInv
<1>4. TypeInv'
  BY <1>1, <1>2, <1>3 DEF TypeInv, Takings, appVars
<1>5. BackupInProgress'
  BY <1>2 DEF BackupInProgress, Idle
<1>6. ArchiveIsTrue'
  <2> SUFFICES ASSUME NEW d \in DOMAIN archive
               PROVE  Older(archive[d].content)' /\ Described(d)'
    BY <1>2 DEF ArchiveIsTrue
  <2>1. Older(archive[d].content) /\ Described(d)
    BY DEF IInv, ArchiveIsTrue
  <2>2. archive[d].content.rows["audit_event"] \in Nat
    BY <1>1, DumpType DEF COUNTED_TABLES
  <2>3. Older(archive[d].content)'
    BY <1>2, <1>3, <2>1, <2>2 DEF Older, appVars
  <2> QED BY <1>2, <2>1, <2>3 DEF Described, Truthful, NoMore
<1> QED BY <1>2, <1>4, <1>5, <1>6 DEF IInv, FormsAreHonest, Expected, Verifying

\* A file is damaged while nothing is verified.
LEMMA DamageStep ==
    ASSUME IInv, NEW dump \in DOMAIN archive, Damage(dump) PROVE IInv'
<1>1. TypeInv
  BY DEF IInv
<1>2. /\ UNCHANGED <<definition, form, audit_event, appVars, scratch, verifying, taking, disturbed>>
      /\ verifying = Idle
      /\ archive' = [archive EXCEPT ![dump] = [archive[dump] EXCEPT !.intact = FALSE]]
  BY DEF Damage, NotBackup
<1> DEFINE damaged == [archive[dump] EXCEPT !.intact = FALSE]
<1>3. /\ damaged \in Dumps /\ damaged.content = archive[dump].content
      /\ damaged.manifest = archive[dump].manifest
  BY <1>1, DumpType DEF Dumps
<1> HIDE DEF damaged
<1>4. archive \in Seq(Dumps)
  BY <1>1 DEF TypeInv
<1>5. /\ archive' \in Seq(Dumps) /\ Len(archive') = Len(archive) /\ DOMAIN archive' = DOMAIN archive
      /\ archive'[dump] = damaged
      /\ \A d \in DOMAIN archive : d # dump => archive'[d] = archive[d]
  BY <1>2, <1>3, <1>4 DEF damaged
<1>6. \A d \in DOMAIN archive : /\ archive'[d].content = archive[d].content
                                /\ archive'[d].manifest = archive[d].manifest
  BY <1>3, <1>5
<1>7. TypeInv'
  BY <1>1, <1>2, <1>5 DEF TypeInv, appVars
<1>8. Content' = Content
  BY <1>2 DEF Content, appVars
<1>9. BackupInProgress'
  <2>1. taking.step = "dumped" => Len(archive) \in DOMAIN archive
    BY <1>4 DEF IInv, BackupInProgress
  <2> QED
    BY <1>2, <1>5, <1>6, <1>8, <2>1 DEF IInv, BackupInProgress, Truthful, NoMore, appVars
<1>10. ArchiveIsTrue'
  BY <1>2, <1>5, <1>6 DEF IInv, ArchiveIsTrue, Older, Described, Truthful, NoMore, appVars
<1>11. Verifying'
  BY <1>2 DEF Verifying, Idle
<1> QED BY <1>2, <1>7, <1>9, <1>10, <1>11 DEF IInv, FormsAreHonest, Expected
-----------------------------------------------------------------------------
\* A verification changes the scratch databases and the audit trail only.
LEMMA VerificationKeeps ==
    ASSUME IInv, UNCHANGED <<definition, form, appVars, archive, taking, disturbed>>,
           audit_event' = audit_event \/ audit_event' = audit_event + 1,
           DOMAIN scratch' = Scratch, verifying' \in Checks, Verifying'
    PROVE  IInv'
<1>1. TypeInv
  BY DEF IInv
<1>2. /\ audit_event' \in Nat \ {0} /\ audit_event <= audit_event'
      /\ migration_head <= migration_head' /\ migration_head' = migration_head
      /\ satnet_path <= satnet_path' /\ spectrum_reservation <= spectrum_reservation'
  BY <1>1 DEF TypeInv, appVars
<1>3. TypeInv'
  BY <1>1, <1>2 DEF TypeInv, appVars
<1>4. BackupInProgress' /\ ArchiveIsTrue'
  BY <1>2, <1>3, ApplicationKeeps
<1> QED BY <1>3, <1>4 DEF IInv, FormsAreHonest, Expected

\* A verification starts on a dump that is described and whole.
LEMMA VerifyStep ==
    ASSUME IInv, NEW dump \in DOMAIN archive, NEW into \in Scratch \cup {Source},
           NEW skip \in BOOLEAN, NEW signs \in BOOLEAN, Verify(dump, into, skip, signs)
    PROVE  IInv'
<1>1. TypeInv
  BY DEF IInv
<1>2. /\ UNCHANGED <<definition, form, appVars, archive, taking, disturbed, audit_event, scratch>>
      /\ archive[dump].manifest # None /\ archive[dump].intact
      /\ verifying' = [step |-> IF skip THEN "restored" ELSE "checked", dump |-> dump,
                       into |-> into, skipped |-> skip, signs |-> signs]
  BY DEF Verify, HasManifest, DigestMatches, NotVerification
<1>3. dump \in Nat
  BY <1>1 DEF TypeInv
<1>4. verifying' \in Checks
  BY <1>2, <1>3 DEF Checks
<1>5. Verifying'
  BY <1>2 DEF Verifying
<1>6. DOMAIN scratch' = Scratch
  BY <1>1, <1>2 DEF TypeInv
<1> QED BY <1>2, <1>4, <1>5, <1>6, VerificationKeeps

\* A restore loads what was dumped, for the file is whole.
LEMMA RestoreStep == ASSUME IInv, Restore PROVE IInv'
<1>1. TypeInv
  BY DEF IInv
<1>2. /\ UNCHANGED <<definition, form, appVars, archive, taking, disturbed, audit_event>>
      /\ verifying.step = "checked" /\ verifying # Idle
  BY DEF Restore, NotVerification, Idle
<1>3. CASE verifying' = Idle /\ scratch' = scratch
  <2>1. Verifying' /\ verifying' \in Checks
    BY <1>3 DEF Verifying, Idle, Checks
  <2> QED BY <1>1, <1>2, <1>3, <2>1, VerificationKeeps DEF TypeInv
<1>4. CASE ~(verifying' = Idle /\ scratch' = scratch)
  <2>1. PICK content \in Loaded(verifying.dump) :
           scratch' = [scratch EXCEPT ![verifying.into] = content]
    BY <1>4 DEF Restore
  <2>2. /\ verifying' = [verifying EXCEPT !.step = "restored"]
        /\ verifying.into # Source
    BY <1>4 DEF Restore
  <2>3. verifying \in [step : {"checked", "restored"}, dump : Nat, into : Scratch \cup {Source},
                       skipped : BOOLEAN, signs : BOOLEAN]
    BY <1>1, <1>2, VerifyingType
  <2>4. /\ verifying.dump \in DOMAIN archive /\ archive[verifying.dump].intact
        /\ archive[verifying.dump].manifest # None /\ ~verifying.skipped
    BY <1>2 DEF IInv, Verifying
  <2>5. content = archive[verifying.dump].content
    BY <2>1, <2>4 DEF Loaded
  <2>6. verifying.into \in Scratch /\ DOMAIN scratch = Scratch
    BY <1>1, <2>2, <2>3 DEF TypeInv
  <2>7. /\ verifying' \in Checks /\ verifying'.dump = verifying.dump
        /\ verifying'.into = verifying.into /\ verifying'.skipped = verifying.skipped
    BY <2>2, <2>3 DEF Checks
  <2>8. scratch'[verifying.into] = archive[verifying.dump].content /\ DOMAIN scratch' = Scratch
    BY <2>1, <2>5, <2>6
  <2>9. Verifying'
    BY <1>2, <2>2, <2>4, <2>6, <2>7, <2>8 DEF Verifying
  <2> QED BY <1>2, <2>7, <2>8, <2>9, VerificationKeeps
<1> QED BY <1>3, <1>4

\* A verification ends, with or without a result, or the database it used is
\* dropped after it.
LEMMA VerificationEndsStep ==
    ASSUME IInv,
           \/ RestoreRefused \/ DrillStops
           \/ \E passed \in BOOLEAN : Drill(passed)
           \/ \E database \in Scratch : DropScratch(database)
    PROVE  IInv'
<1>1. /\ UNCHANGED <<definition, form, appVars, archive, taking, disturbed>>
      /\ verifying' = Idle
      /\ audit_event' = audit_event \/ audit_event' = audit_event + 1
      /\ DOMAIN scratch' = Scratch
  BY DEF RestoreRefused, DrillStops, Drill, Record, DropScratch, NotVerification, IInv, TypeInv
<1>2. Verifying' /\ verifying' \in Checks
  BY <1>1 DEF Verifying, Idle, Checks
<1> QED BY <1>1, <1>2, VerificationKeeps
-----------------------------------------------------------------------------
\* At the start nothing is archived and nothing under way.
LEMMA Initially == Init => IInv
<1> SUFFICES ASSUME Init PROVE IInv
  OBVIOUS
<1>1. /\ definition = [record_version |-> 1, text |-> Seeded] /\ form = [e \in Editor |-> None]
      /\ audit_event = 1 /\ archive = <<>> /\ scratch = [d \in Scratch |-> None]
      /\ migration_head = 1 /\ satnet_path = 1 /\ spectrum_reservation = 1
      /\ taking = Idle /\ verifying = Idle
  BY DEF Init, DictionaryInit
<1>2. TypeInv
  <2>1. definition \in SpecificationDefinition
    BY <1>1, DictionaryAssumption DEF SpecificationDefinition
  <2>2. archive \in Seq(Dumps)
    BY <1>1
  <2> QED BY <1>1, <2>1, <2>2 DEF TypeInv, Takings, Checks
<1>3. FormsAreHonest
  BY <1>1 DEF FormsAreHonest
<1>4. BackupInProgress /\ Verifying
  BY <1>1 DEF BackupInProgress, Verifying, Idle
<1>5. ArchiveIsTrue
  BY <1>1 DEF ArchiveIsTrue
<1> QED BY <1>2, <1>3, <1>4, <1>5 DEF IInv

\* Every step keeps the invariant.
LEMMA StepKeeps == IInv /\ [Next]_vars => IInv'
<1> SUFFICES ASSUME IInv, [Next]_vars PROVE IInv'
  OBVIOUS
<1>1. CASE UNCHANGED vars
  <2>1. TypeInv' /\ FormsAreHonest'
    BY <1>1 DEF IInv, TypeInv, FormsAreHonest, Expected, vars, dictionaryVars, appVars
  <2>2. Content' = Content
    BY <1>1 DEF Content, vars, dictionaryVars, appVars
  <2>3. BackupInProgress'
    BY <1>1, <2>2 DEF IInv, BackupInProgress, Truthful, NoMore, vars, appVars
  <2>4. ArchiveIsTrue' /\ Verifying'
    BY <1>1 DEF IInv, ArchiveIsTrue, Verifying, Older, Described, Truthful, NoMore, vars,
                dictionaryVars, appVars
  <2> QED BY <2>1, <2>3, <2>4 DEF IInv
<1>2. CASE Application
  BY <1>2, ApplicationStep
<1>3. CASE TakeCounts
  BY <1>3, TakeCountsStep
<1>4. CASE Dump
  BY <1>4, DumpStep
<1>5. CASE Describe
  BY <1>5, DescribeStep
<1>6. CASE BackupFails \/ BackupKilled
  BY <1>6, BackupEndsStep
<1>7. ASSUME NEW dump \in DOMAIN archive, Damage(dump) PROVE IInv'
  BY <1>7, DamageStep
<1>8. ASSUME NEW dump \in DOMAIN archive, NEW into \in Scratch \cup {Source},
             NEW skip \in BOOLEAN, NEW signs \in BOOLEAN, Verify(dump, into, skip, signs)
      PROVE  IInv'
  BY <1>8, VerifyStep
<1>9. CASE Restore
  BY <1>9, RestoreStep
<1>10. CASE \/ RestoreRefused \/ DrillStops
            \/ \E passed \in BOOLEAN : Drill(passed)
            \/ \E database \in Scratch : DropScratch(database)
  BY <1>10, VerificationEndsStep
<1> QED BY <1>1, <1>2, <1>3, <1>4, <1>5, <1>6, <1>7, <1>8, <1>9, <1>10 DEF Next

\* It holds in every behaviour of backups, drills and edits, whatever fails or
\* is damaged between two of their steps.
THEOREM Invariant == Spec => []IInv
BY Initially, StepKeeps, PTL DEF Spec

\* Rows and forms have their types; what a dump holds is older than what the
\* application holds, and what is verified has its manifest (backup.take,
\* verify_restore).
THEOREM TypeCorrect == Spec => []TypeOK
<1>1. IInv => TypeOK
  BY DEF IInv, TypeInv, FormsAreHonest, ArchiveIsTrue, Older, Verifying, TypeOK
<1> QED BY <1>1, Invariant, PTL

\* A drill that passes after a restore looked at exactly what was dumped: the
\* digest was verified before, nothing damages the file during the verification,
\* and backup.restore refuses the configured database.
THEOREM PassedMeansRestored == Spec => VerifiedHoldsTheDump
<1>1. ASSUME IInv, [Next]_vars
      PROVE  [\/ ~Drill(TRUE) \/ verifying.skipped
              \/ Held(verifying.into) = archive[verifying.dump].content]_vars
  BY <1>1 DEF IInv, Verifying, Drill, Held
<1> QED BY <1>1, Invariant, PTL DEF Spec, VerifiedHoldsTheDump

\* A restored dump passes.
LEMMA RestoredPasses ==
    ASSUME IInv, verifying.step = "restored", ~verifying.skipped,
           ServesTestClient, ~verifying.signs, verifying.dump \notin disturbed
    PROVE  Outcome
<1> DEFINE content  == archive[verifying.dump].content
           manifest == archive[verifying.dump].manifest
<1>1. /\ verifying.dump \in DOMAIN archive /\ manifest # None
      /\ Held(verifying.into) = content
  BY DEF IInv, Verifying, Held, Idle
<1>2. /\ Older(content) /\ Described(verifying.dump)
  BY <1>1 DEF IInv, ArchiveIsTrue
<1>3. manifest \in Manifests /\ content.rows \in Counts /\ manifest.row_counts \in Counts
  BY <1>1, DumpType DEF IInv, Manifests
<1>4. Truthful(manifest.row_counts, manifest.migration_head, content)
  BY <1>1, <1>2 DEF Described
<1>5. SchemaMatches(manifest, content)
  BY <1>4 DEF Truthful, SchemaMatches
<1>6. CountsReached(manifest, content)
  BY <1>3, <1>4 DEF Truthful, NoMore, CountsReached, Counts
<1>7. TrailThere(content) /\ SignsIn(verifying.signs)
  BY <1>2 DEF Older, TrailThere, SignsIn
<1> QED BY <1>1, <1>5, <1>6, <1>7 DEF Outcome, Passes

\* A drill that fails after a restore says something of the dump: rows were
\* deleted or a migration ran while it was taken (backup.take counts first and
\* reads the head last); or else of the drill: it was given credentials, or the
\* settings do not serve its client.
THEOREM FailedMeansDisturbed == Spec => NoFalseAlarm
<1>1. ASSUME IInv, [Next]_vars
      PROVE  [\/ ~Drill(FALSE) \/ verifying.skipped
              \/ ~ServesTestClient \/ verifying.signs
              \/ verifying.dump \in disturbed]_vars
  BY <1>1, RestoredPasses DEF Drill
<1> QED BY <1>1, Invariant, PTL DEF Spec, NoFalseAlarm

\* An edit replaces the texts its form showed, because the update is conditional
\* on the version that was rendered with them.
THEOREM EditsReplaceWhatTheySaw == Spec => NothingReplacedUnseen
<1>1. ASSUME IInv, [Next]_vars
      PROVE  [\A e \in Editor : definition' # definition /\ form'[e] # form[e] =>
                  form[e].shown = definition.text]_dictionaryVars
  <2> SUFFICES ASSUME NEW e \in Editor, definition' # definition, form'[e] # form[e]
               PROVE  form[e].shown = definition.text
    OBVIOUS
  <2>1. PICK other \in Editor, text \in Text : UpdateSpecification(other, text)
    BY <1>1 DEF Next, Application, Reserve, Release, Migrate, Commissioning, DictionaryNext,
                OpenForm, RejectStale, TakeCounts, Dump, Describe, BackupFails, BackupKilled,
                Damage, NotBackup, Verify, Restore, RestoreRefused, DrillStops, Drill,
                DropScratch, NotVerification, vars, dictionaryVars
  <2>2. form[other] # None /\ Expected(other) /\ form' = [form EXCEPT ![other] = None]
    BY <2>1 DEF UpdateSpecification
  <2>3. e = other
    BY <1>1, <2>2 DEF IInv, TypeInv
  <2> QED BY <1>1, <2>2, <2>3 DEF IInv, FormsAreHonest
<1> QED BY <1>1, Invariant, PTL DEF Spec, NothingReplacedUnseen
=============================================================================
