---------------------------- MODULE ImportBatch ----------------------------
(***************************************************************************)
(* The two stages of an import: dry_run and commit_batch of                *)
(* src/imports_exports/services.py, the judgement of importer/classify.py  *)
(* and the write of importer/commit.py.                                    *)
(*                                                                         *)
(* A commit is several transactions.  The batch is loaded and checked, its *)
(* rows are read and judged again one by one, they are written, in one     *)
(* transaction or one by one, and the stage is saved last.  Two commits of *)
(* one batch may overlap, a request may be lost between any two of them,   *)
(* and meanwhile operators create paths and labels change their meaning.   *)
(***************************************************************************)
EXTENDS Integers, Sequences, FiniteSets

CONSTANTS
    Batch, Request,
    Satnet, Label, Code, Id,   \* of the rows of a file and of the paths
    File,                      \* the files offered: sequences of FileRow
    InitialMeaning,            \* label -> the Satnet it resolves to, or None
    MaxEvents,                 \* bound on changes by others and commits lost
    MaxRows,                   \* bound on the rows of a file
    None

\* A row is spare spectrum, unreadable, beyond calculation, or an allocation;
\* one that was exported carries its identifier.
FileRow ==
    [kind : {"gap", "bad", "impossible", "allocation"}, id : Id \cup {None},
     label : Label, code : Code]

ASSUME FileAssumption ==
    /\ File \subseteq Seq(FileRow) /\ \A file \in File : Len(file) <= MaxRows
    /\ InitialMeaning \in [Label -> Satnet \cup {None}]
    /\ None \notin Id \cup Satnet \cup Batch /\ MaxEvents \in Nat

VARIABLES
    paths,      \* the Satnet Paths there are
    means,      \* what mapping.resolve makes of a label
    batch,      \* the batches: file, policy, stage and counts as stored
    rows,       \* their rows, as stored
    request,    \* the commits in progress
    events,     \* how much of that there has been
    overlapped, \* history: batches two requests have been committing at once
    moved       \* history: labels that lost a meaning, codes renamed

vars == <<paths, means, batch, rows, request, events, overlapped, moved>>

\* VALID stands for WARNING and CONFLICT too: all three are committable.
RowClassification == {"IGNORED_FREE_CAPACITY", "ERROR", "NEEDS_MAPPING", "DUPLICATE", "VALID"}
BatchPolicy       == {"ALL_OR_NOTHING", "ROW_BY_ROW"}
Stage             == {"DRY_RUN", "COMMITTED"}

\* source is the import row a path was written from: history, no column.
SatnetPath ==
    [id : Id \cup {None}, satnet : Satnet, code : Code,
     source : (Batch \X Nat) \cup {None}]

\* result: a path that was there before, or the one written from the row.
ImportRow == [classification : RowClassification, result : {"nothing", "known", "written"}]

BatchRecord ==
    [file : File, policy : BatchPolicy, stage : Stage, counts : [RowClassification -> Nat]]

Judgement == [classification : RowClassification, satnet : Satnet \cup {None}, known : BOOLEAN]

\* A commit: the classifications it has read, the judgements it has made,
\* the rows it has done with.
InProgress ==
    [step : {"checked", "judging"}, batch : Batch, loaded : Seq(RowClassification),
     judged : Seq(Judgement), done : SUBSET Nat]

RowNumber == 1 .. MaxRows

Idle    == [step |-> "idle"]
NoBatch == [stage |-> "none"]

TypeOK ==
    /\ paths \subseteq SatnetPath
    /\ means \in [Label -> Satnet \cup {None}]
    /\ batch \in [Batch -> BatchRecord \cup {NoBatch}]
    /\ rows \in [Batch -> Seq(ImportRow)]
    /\ request \in [Request -> InProgress \cup {Idle}]
    /\ events \in 0 .. MaxEvents
    /\ overlapped \subseteq Batch /\ moved \subseteq Label \cup Code

Init ==
    /\ paths = {} /\ means = InitialMeaning
    /\ batch = [b \in Batch |-> NoBatch] /\ rows = [b \in Batch |-> <<>>]
    /\ request = [r \in Request |-> Idle]
    /\ events = 0 /\ overlapped = {} /\ moved = {}
-----------------------------------------------------------------------------
(***************************************************************************)
(* classify.judge, against the paths and the meanings of this moment and   *)
(* what earlier rows of the file have claimed (_remember): their           *)
(* identifiers, and the codes of those judged to belong somewhere.         *)
(***************************************************************************)
Judged(class, satnet) == [classification |-> class, satnet |-> satnet, known |-> FALSE]

DuplicateOf(known) == [classification |-> "DUPLICATE", satnet |-> None, known |-> known]

HasId(id)           == id # None /\ \E p \in paths : p.id = id
HasCode(satnet, code) == \E p \in paths : p.satnet = satnet /\ p.code = code

\* The n-th row of a file, the ones before it being judged.
Judge(file, judged, n) ==
    LET row       == file[n]
        satnet    == means[row.label]
        idSeen    == row.id # None /\ \E m \in 1 .. n - 1 : file[m].id = row.id
        codeSeen  == \E m \in 1 .. n - 1 : judged[m].satnet = satnet /\ file[m].code = row.code
    IN  IF row.kind = "gap" THEN Judged("IGNORED_FREE_CAPACITY", None)
        ELSE IF row.kind = "bad" THEN Judged("ERROR", None)
        ELSE IF satnet = None THEN Judged("NEEDS_MAPPING", None)
        ELSE IF idSeen THEN DuplicateOf(FALSE)
        ELSE IF HasId(row.id) THEN DuplicateOf(TRUE)
        ELSE IF codeSeen THEN DuplicateOf(FALSE)
        ELSE IF HasCode(satnet, row.code) THEN DuplicateOf(TRUE)
        ELSE IF row.kind = "impossible" THEN Judged("ERROR", satnet)
        ELSE Judged("VALID", satnet)

\* The whole file at one moment.
JudgeAll(file) ==
    LET judge[n \in 0 .. Len(file)] ==
            IF n = 0 THEN <<>> ELSE Append(judge[n - 1], Judge(file, judge[n - 1], n))
    IN  judge[Len(file)]

CountsOf(some) ==
    [class \in RowClassification |->
        Cardinality({n \in DOMAIN some : some[n].classification = class})]
-----------------------------------------------------------------------------
(***************************************************************************)
(* dry_run: one transaction, and nothing operational.                      *)
(***************************************************************************)
DryRun(b, file, policy) ==
    LET judged == JudgeAll(file)
    IN  /\ batch[b] = NoBatch
        /\ rows' = [rows EXCEPT ![b] =
                       [n \in DOMAIN file |->
                           [classification |-> judged[n].classification,
                            result |-> IF judged[n].known THEN "known" ELSE "nothing"]]]
        /\ batch' = [batch EXCEPT ![b] = [file |-> file, policy |-> policy,
                                          stage |-> "DRY_RUN", counts |-> CountsOf(judged)]]
        /\ UNCHANGED <<paths, means, request, events, overlapped, moved>>
-----------------------------------------------------------------------------
(***************************************************************************)
(* commit_batch.                                                           *)
(***************************************************************************)
Of(r) == batch[request[r].batch]

Advance(r, how) == request' = [request EXCEPT ![r] = how]

\* ImportBatch.blocking_count, of the counts as stored.
BlockingCount(b) ==
    LET counts == batch[b].counts
    IN  counts["ERROR"] + counts["NEEDS_MAPPING"] + counts["DUPLICATE"]

MayCommit(b) ==
    /\ batch[b].stage # "COMMITTED"
    /\ batch[b].policy = "ALL_OR_NOTHING" => BlockingCount(b) = 0

\* The batch is loaded and checked.  The file offered is the one reviewed:
\* any other is refused here and nothing changes.
Begin(r, b) ==
    /\ request[r] = Idle /\ batch[b] # NoBatch /\ MayCommit(b)
    /\ Advance(r, [step |-> "checked", batch |-> b, loaded |-> <<>>, judged |-> <<>>,
                   done |-> {}])
    /\ overlapped' =
          IF \E s \in Request : request[s] # Idle /\ request[s].batch = b
          THEN overlapped \cup {b} ELSE overlapped
    /\ UNCHANGED <<paths, means, batch, rows, events, moved>>

\* Its rows are read.
ReadRows(r) ==
    /\ request[r].step = "checked"
    /\ LET stored == rows[request[r].batch]
       IN  Advance(r, [request[r] EXCEPT
                          !.step = "judging",
                          !.loaded = [n \in DOMAIN stored |-> stored[n].classification]])
    /\ UNCHANGED <<paths, means, batch, rows, events, overlapped, moved>>

Reclassified(b, n, class) == [rows EXCEPT ![b][n].classification = class]

\* _rejudge, for one row: it is saved when the answer differs from the one
\* that was read.
Rejudge(r) ==
    LET me   == request[r]
        file == Of(r).file
        n    == Len(me.judged) + 1
        new  == Judge(file, me.judged, n)
    IN  /\ me.step = "judging" /\ n <= Len(file)
        /\ rows' = IF new.classification # me.loaded[n]
                   THEN Reclassified(me.batch, n, new.classification) ELSE rows
        /\ Advance(r, [me EXCEPT !.judged = Append(@, new)])
        /\ UNCHANGED <<paths, means, batch, events, overlapped, moved>>

Writing(r) == request[r].step = "judging" /\ Len(request[r].judged) = Len(Of(r).file)

\* The committable rows that are still to be written, in file order.
Left(r) ==
    {n \in DOMAIN request[r].judged \ request[r].done :
        request[r].judged[n].classification = "VALID"}

\* What create() makes of a row, at the identifier the row carries.
PathOf(r, n) ==
    LET row == Of(r).file[n]
    IN  [id |-> row.id, satnet |-> request[r].judged[n].satnet, code |-> row.code,
         source |-> <<request[r].batch, n>>]

\* Mutant of Taken: the importer's own look for duplicates is all there is.
NeverTaken(path) == FALSE

\* The primary key, and uq_path_satnet_code_revision.  Two rows of one commit
\* never meet here: the second would have been a DUPLICATE.
Taken(path) == HasId(path.id) \/ HasCode(path.satnet, path.code)

\* The rows of ns become paths.
Written(r, ns) ==
    /\ paths' = paths \cup {PathOf(r, n) : n \in ns}
    /\ rows' = [rows EXCEPT ![request[r].batch] =
                   [n \in DOMAIN @ |->
                       IF n \in ns THEN [@[n] EXCEPT !.result = "written"] ELSE @[n]]]
    /\ UNCHANGED <<means, batch, events, overlapped, moved>>

DoneWith(r, ns) == Advance(r, [request[r] EXCEPT !.done = @ \cup ns])

\* Mutant of WriteAll: a row that cannot be written is passed over.
WriteSome(r) ==
    /\ Writing(r) /\ Left(r) # {} /\ Of(r).policy = "ALL_OR_NOTHING"
    /\ Written(r, {n \in Left(r) : ~Taken(PathOf(r, n))}) /\ DoneWith(r, Left(r))

\* ALL_OR_NOTHING: one transaction.
WriteAll(r) ==
    /\ Writing(r) /\ Left(r) # {} /\ Of(r).policy = "ALL_OR_NOTHING"
    /\ \A n \in Left(r) : ~Taken(PathOf(r, n))
    /\ Written(r, Left(r)) /\ DoneWith(r, Left(r))

\* BatchRefused: the rows stay as they were judged, and the batch with the
\* counts of its dry run.
Refuse(r) ==
    /\ Writing(r) /\ Of(r).policy = "ALL_OR_NOTHING"
    /\ \E n \in Left(r) : Taken(PathOf(r, n))
    /\ Advance(r, Idle)
    /\ UNCHANGED <<paths, means, batch, rows, events, overlapped, moved>>

\* ROW_BY_ROW: each row in a transaction of its own.
Turn(r, n) ==
    /\ Writing(r) /\ Of(r).policy = "ROW_BY_ROW"
    /\ n \in Left(r) /\ \A m \in Left(r) : n <= m

WriteRow(r, n) ==
    /\ Turn(r, n) /\ ~Taken(PathOf(r, n))
    /\ Written(r, {n}) /\ DoneWith(r, {n})

Failure == "ERROR"

\* _record_failure.
RecordFailure(r, n) ==
    /\ Turn(r, n) /\ Taken(PathOf(r, n))
    /\ rows' = Reclassified(request[r].batch, n, Failure) /\ DoneWith(r, {n})
    /\ UNCHANGED <<paths, means, batch, events, overlapped, moved>>

\* Mutant of FinalCounts: the counts of the dry run are kept.
DryRunCounts(b) == batch[b].counts

\* _counts_of.
FinalCounts(b) == CountsOf(rows[b])

\* The stage is saved, in a transaction of its own.
Finish(r) ==
    LET b == request[r].batch
    IN  /\ request[r] # Idle /\ Writing(r) /\ Left(r) = {}
        /\ batch' = [batch EXCEPT ![b].stage = "COMMITTED", ![b].counts = FinalCounts(b)]
        /\ Advance(r, Idle)
        /\ UNCHANGED <<paths, means, rows, events, overlapped, moved>>

\* What is bounded: a commit is lost, or somebody else changes something.
Event == events < MaxEvents /\ events' = events + 1

\* The process ends, or create() raises what commit does not catch: what is
\* committed stays.
Lost(r) ==
    /\ Event /\ request[r] # Idle /\ Advance(r, Idle)
    /\ UNCHANGED <<paths, means, batch, rows, overlapped, moved>>
-----------------------------------------------------------------------------
(***************************************************************************)
(* What others do meanwhile.                                               *)
(***************************************************************************)
\* satnet_paths.services.create, by hand.
OperatorCreates(satnet, code) ==
    LET path == [id |-> None, satnet |-> satnet, code |-> code, source |-> None]
    IN  /\ Event /\ ~Taken(path) /\ paths' = paths \cup {path}
        /\ UNCHANGED <<means, batch, rows, request, overlapped, moved>>

\* lifecycle.edit: what is imported is a draft, and the code of a draft is
\* editable.
OperatorRenames(path, code) ==
    /\ Event /\ ~HasCode(path.satnet, code)
    /\ paths' = (paths \ {path}) \cup {[path EXCEPT !.code = code]}
    /\ moved' = moved \cup {path.code}
    /\ UNCHANGED <<means, batch, rows, request, overlapped>>

\* mapping.remember, or a Satnet created, renamed or deactivated.
Remeans(label, satnet) ==
    /\ Event /\ means[label] # satnet
    /\ means' = [means EXCEPT ![label] = satnet]
    /\ moved' = IF means[label] = None THEN moved ELSE moved \cup {label}
    /\ UNCHANGED <<paths, batch, rows, request, overlapped>>
-----------------------------------------------------------------------------
Commit(r) ==
    \/ \E b \in Batch : Begin(r, b)
    \/ ReadRows(r) \/ Rejudge(r)
    \/ WriteAll(r) \/ Refuse(r)
    \/ \E n \in RowNumber : WriteRow(r, n) \/ RecordFailure(r, n)
    \/ Finish(r) \/ Lost(r)

Others ==
    \/ \E satnet \in Satnet, code \in Code : OperatorCreates(satnet, code)
    \/ \E path \in paths, code \in Code : OperatorRenames(path, code)
    \/ \E label \in Label, satnet \in Satnet \cup {None} : Remeans(label, satnet)

Next ==
    \/ \E b \in Batch, file \in File, policy \in BatchPolicy : DryRun(b, file, policy)
    \/ \E r \in Request : Commit(r)
    \/ Others

Spec == Init /\ [][Next]_vars
-----------------------------------------------------------------------------
(***************************************************************************)
(* Properties.                                                             *)
(***************************************************************************)
\* The row of its file a path was written from.
FileRowOf(path) == batch[path.source[1]].file[path.source[2]]

\* However often a file is uploaded and committed, in one batch or several,
\* overlapping or after a commit that was lost halfway, an allocation in it
\* becomes one path.  A row with an identifier never becomes two; one without
\* does only when its label has changed its meaning or a path its code.
NeverTwice ==
    \A p, q \in {path \in paths : path.source # None} :
        LET row == FileRowOf(p)
        IN  p # q /\ row = FileRowOf(q) =>
                row.id = None /\ {row.label, row.code} \cap moved # {}

Settled(b) == batch[b] # NoBatch /\ b \notin overlapped

\* What a committed batch says of itself is what happened: its counts are
\* those of its rows, and a row that reads as written was written, also when
\* an earlier commit of the batch was lost or refused.
RecordIsTrue ==
    \A b \in Batch :
        Settled(b) /\ batch[b].stage = "COMMITTED" =>
            /\ batch[b].counts = CountsOf(rows[b])
            /\ \A n \in DOMAIN rows[b] :
                  rows[b][n].classification = "VALID" =>
                      /\ rows[b][n].result = "written"
                      /\ \E p \in paths : p.source = <<b, n>>

WrittenFrom(b) == {n \in DOMAIN rows[b] : rows[b][n].result = "written"}

\* The rows of an all-or-nothing batch are written together: when a step
\* writes any, no row that is judged committable is left out.
AllAtOnce ==
    [][\A b \in Batch :
          Settled(b) /\ batch[b].policy = "ALL_OR_NOTHING" /\ WrittenFrom(b)' # WrittenFrom(b) =>
              \A n \in DOMAIN rows'[b] :
                  rows'[b][n].classification = "VALID" => n \in WrittenFrom(b)']_vars
=============================================================================
