------------------------- MODULE ImportBatch_proofs -------------------------
(***************************************************************************)
(* Proofs about ImportBatch, for any files, any number of batches and of   *)
(* requests that commit them.  Nothing but the types (TypeCorrect, at the  *)
(* end) depends on what JudgeAll, the recursion over a file, stores of     *)
(* each row, for a commit judges every row again.                          *)
(***************************************************************************)
EXTENDS ImportBatch, FiniteSetTheorems, TLAPS

-----------------------------------------------------------------------------
(***************************************************************************)
(* Types.                                                                  *)
(***************************************************************************)
Exists(b) == batch[b].stage # "none"
Busy(r)   == request[r].step # "idle"

\* A batch there is has the rows of its file.
BatchOK(b) ==
    /\ batch[b].stage \in Stage \cup {"none"}
    /\ batch[b] = NoBatch <=> ~Exists(b)
    /\ Exists(b) => /\ batch[b].file \in Seq(FileRow) /\ batch[b].policy \in BatchPolicy
                    /\ DOMAIN batch[b] = {"file", "policy", "stage", "counts"}
                    /\ DOMAIN rows[b] = 1 .. Len(batch[b].file)
    /\ ~Exists(b) => rows[b] = <<>>
    /\ \A n \in DOMAIN rows[b] : DOMAIN rows[b][n] = {"classification", "result"}

BatchesOK == \A b \in Batch : BatchOK(b)

\* A commit works on a batch there is, and has judged a part of its rows.
CommitOK(r) ==
    /\ request[r].step \in {"idle", "checked", "judging"}
    /\ request[r] = Idle <=> ~Busy(r)
    /\ Busy(r) =>
          /\ DOMAIN request[r] = {"step", "batch", "loaded", "judged", "done"}
          /\ request[r].batch \in Batch /\ Exists(request[r].batch)
          /\ request[r].judged \in Seq(Judgement)
          /\ Len(request[r].judged) <= Len(batch[request[r].batch].file)
          /\ request[r].done \subseteq DOMAIN request[r].judged
          /\ request[r].step = "checked" => request[r].judged = <<>>

RequestsOK == \A r \in Request : CommitOK(r)

TypeInv ==
    /\ means \in [Label -> Satnet \cup {None}]
    /\ DOMAIN batch = Batch /\ DOMAIN rows = Batch /\ DOMAIN request = Request
    /\ BatchesOK /\ RequestsOK

\* A step of one request leaves the others.
LEMMA AdvanceChangesOne ==
    ASSUME DOMAIN request = Request, NEW r \in Request, NEW how, Advance(r, how)
    PROVE  /\ DOMAIN request' = Request
           /\ request'[r] = how
           /\ \A s \in Request \ {r} : request'[s] = request[s]
  BY DEF Advance

\* No row before the n-th has its identifier, or its code and this Satnet.
Unclaimed(file, judged, n, satnet) ==
    \A m \in 1 .. n - 1 :
        /\ file[n].id # None => file[m].id # file[n].id
        /\ ~(judged[m].satnet = satnet /\ file[m].code = file[n].code)

\* What judging a row answers: a row is committable where its label has a
\* meaning, and no row before it has its identifier, or its code and Satnet.
LEMMA JudgeAnswers ==
    ASSUME means \in [Label -> Satnet \cup {None}],
           NEW file \in Seq(FileRow), NEW judged, NEW n \in 1 .. Len(file)
    PROVE  LET new == Judge(file, judged, n)
           IN  /\ new \in Judgement
               /\ new.classification = "VALID" =>
                     /\ new.satnet = means[file[n].label] /\ new.satnet # None
                     /\ Unclaimed(file, judged, n, new.satnet)
  <1>1. file[n] \in FileRow
    OBVIOUS
  <1>2. means[file[n].label] \in Satnet \cup {None}
    BY <1>1 DEF FileRow
  <1>3. Judge(file, judged, n) \in Judgement
    BY <1>2 DEF Judge, Judged, DuplicateOf, Judgement, RowClassification
  <1>4. ASSUME Judge(file, judged, n).classification = "VALID"
        PROVE  /\ Judge(file, judged, n).satnet = means[file[n].label]
               /\ means[file[n].label] # None
               /\ Unclaimed(file, judged, n, means[file[n].label])
    BY <1>4 DEF Judge, Judged, DuplicateOf, Unclaimed
  <1> QED BY <1>3, <1>4

\* A row that is saved again with another classification.
LEMMA ReclassifiedRow ==
    ASSUME TypeInv, NEW b \in Batch, NEW n \in DOMAIN rows[b], NEW class,
           rows' = Reclassified(b, n, class)
    PROVE  /\ DOMAIN rows' = Batch
           /\ \A c \in Batch \ {b} : rows'[c] = rows[c]
           /\ DOMAIN rows'[b] = DOMAIN rows[b]
           /\ \A m \in DOMAIN rows[b] \ {n} : rows'[b][m] = rows[b][m]
           /\ rows'[b][n].classification = class /\ rows'[b][n].result = rows[b][n].result
           /\ DOMAIN rows'[b][n] = {"classification", "result"}
  BY DEF Reclassified, TypeInv, BatchesOK, BatchOK

\* Rows that have become paths.
LEMMA WrittenRows ==
    ASSUME TypeInv, NEW r \in Request, Busy(r), NEW ns, Written(r, ns)
    PROVE  LET b == request[r].batch
           IN  /\ DOMAIN rows' = Batch
               /\ \A c \in Batch \ {b} : rows'[c] = rows[c]
               /\ DOMAIN rows'[b] = DOMAIN rows[b]
               /\ \A m \in DOMAIN rows[b] :
                     /\ rows'[b][m].classification = rows[b][m].classification
                     /\ rows'[b][m].result = IF m \in ns THEN "written" ELSE rows[b][m].result
                     /\ DOMAIN rows'[b][m] = {"classification", "result"}
  <1>1. request[r].batch \in Batch
    BY DEF TypeInv, RequestsOK, CommitOK
  <1>2. rows' = [rows EXCEPT ![request[r].batch] =
                    [n \in DOMAIN rows[request[r].batch] |->
                        IF n \in ns THEN [rows[request[r].batch][n] EXCEPT !.result = "written"]
                        ELSE rows[request[r].batch][n]]]
    BY DEF Written
  <1> QED BY <1>1, <1>2 DEF TypeInv, BatchesOK, BatchOK

\* A batch there is keeps its file and its policy.
FilesStay ==
    \A b \in Batch :
        Exists(b) => /\ Exists(b)' /\ batch'[b].file = batch[b].file
                     /\ batch'[b].policy = batch[b].policy

\* What is left to write has been judged and is committable.
LEMMA LeftRows ==
    ASSUME TypeInv, NEW r \in Request, Busy(r)
    PROVE  Left(r) \subseteq DOMAIN request[r].judged
  BY DEF Left

\* A step of one request that leaves it in order leaves them all in order.
LEMMA OtherCommits ==
    ASSUME TypeInv, FilesStay, NEW r \in Request, NEW how, Advance(r, how), CommitOK(r)'
    PROVE  RequestsOK' /\ DOMAIN request' = Request
  <1>1. /\ DOMAIN request' = Request
        /\ \A s \in Request \ {r} : request'[s] = request[s]
    BY AdvanceChangesOne DEF TypeInv
  <1>2. ASSUME NEW s \in Request, s # r PROVE CommitOK(s)'
    <2>1. request'[s] = request[s] /\ CommitOK(s)
      BY <1>1, <1>2 DEF TypeInv, RequestsOK
    <2> QED BY <2>1 DEF CommitOK, Busy, FilesStay
  <1> QED BY <1>1, <1>2 DEF RequestsOK

\* A request that is done with is in order.
LEMMA IdleIsOK ==
    ASSUME NEW r \in Request, request'[r] = Idle
    PROVE  CommitOK(r)'
  BY DEF CommitOK, Busy, Idle

\* A dry run stores a batch with the rows of its file.
LEMMA DryRunTypes ==
    ASSUME FileAssumption, TypeInv, NEW b \in Batch, NEW file \in File, NEW policy \in BatchPolicy,
           DryRun(b, file, policy)
    PROVE  TypeInv' /\ FilesStay
  <1> DEFINE new == [file |-> file, policy |-> policy, stage |-> "DRY_RUN",
                     counts |-> CountsOf(JudgeAll(file))]
             row(n) == [classification |-> JudgeAll(file)[n].classification,
                        result |-> IF JudgeAll(file)[n].known THEN "known" ELSE "nothing"]
             list == [n \in DOMAIN file |-> row(n)]
  <1>1. /\ batch' = [batch EXCEPT ![b] = new] /\ rows' = [rows EXCEPT ![b] = list]
        /\ batch[b] = NoBatch /\ UNCHANGED <<means, request>>
    BY DEF DryRun
  <1>2. /\ new.stage = "DRY_RUN" /\ new.file = file /\ new.policy = policy
        /\ DOMAIN new = {"file", "policy", "stage", "counts"}
    OBVIOUS
  <1>3. new # NoBatch
    BY <1>2 DEF NoBatch
  <1>4. file \in Seq(FileRow)
    BY DEF FileAssumption
  <1>5. DOMAIN list = 1 .. Len(file)
    BY <1>4
  <1>6. \A n \in DOMAIN list : DOMAIN list[n] = {"classification", "result"}
    OBVIOUS
  <1> HIDE DEF new, list, row
  <1>7. /\ DOMAIN batch' = Batch /\ DOMAIN rows' = Batch
        /\ batch'[b] = new /\ rows'[b] = list
        /\ \A c \in Batch \ {b} : batch'[c] = batch[c] /\ rows'[c] = rows[c]
    BY <1>1 DEF TypeInv
  <1>8. FilesStay
    BY <1>1, <1>7 DEF FilesStay, Exists, NoBatch
  <1>9. BatchesOK'
    <2>1. BatchOK(b)'
      BY <1>2, <1>3, <1>4, <1>5, <1>6, <1>7 DEF BatchOK, Exists, Stage
    <2>2. ASSUME NEW c \in Batch, c # b PROVE BatchOK(c)'
      <3>1. batch'[c] = batch[c] /\ rows'[c] = rows[c] /\ BatchOK(c)
        BY <1>7, <2>2 DEF TypeInv, BatchesOK
      <3> QED BY <3>1 DEF BatchOK, Exists
    <2> QED BY <2>1, <2>2 DEF BatchesOK
  <1>10. RequestsOK'
    BY <1>1, <1>8 DEF TypeInv, RequestsOK, CommitOK, Busy, FilesStay
  <1> QED BY <1>1, <1>7, <1>8, <1>9, <1>10 DEF TypeInv

\* What the steps that leave batches and rows alone need not show.
LEMMA SameBatches ==
    ASSUME TypeInv, UNCHANGED <<batch, rows>>
    PROVE  FilesStay /\ BatchesOK' /\ DOMAIN batch' = Batch /\ DOMAIN rows' = Batch
  BY DEF TypeInv, FilesStay, BatchesOK, BatchOK, Exists

\* Rows keep their number and their fields.
SameShape ==
    /\ DOMAIN rows' = Batch
    /\ \A b \in Batch :
          /\ DOMAIN rows'[b] = DOMAIN rows[b]
          /\ \A n \in DOMAIN rows[b] : DOMAIN rows'[b][n] = {"classification", "result"}

\* What the steps that save rows need not show.
LEMMA SameFiles ==
    ASSUME TypeInv, UNCHANGED batch, SameShape,
           \A b \in Batch : ~Exists(b) => rows'[b] = rows[b]
    PROVE  FilesStay /\ BatchesOK' /\ DOMAIN batch' = Batch /\ DOMAIN rows' = Batch
  <1>1. ASSUME NEW b \in Batch PROVE BatchOK(b)'
    <2>1. batch'[b] = batch[b] /\ BatchOK(b) /\ DOMAIN rows'[b] = DOMAIN rows[b]
      BY DEF TypeInv, BatchesOK, SameShape
    <2>2. \A n \in DOMAIN rows'[b] : DOMAIN rows'[b][n] = {"classification", "result"}
      BY DEF SameShape
    <2> QED BY <2>1, <2>2 DEF BatchOK, Exists
  <1> QED BY <1>1 DEF TypeInv, FilesStay, BatchesOK, Exists, SameShape

\* A commit begins.
LEMMA BeginTypes ==
    ASSUME TypeInv, NEW r \in Request, NEW b \in Batch, Begin(r, b)
    PROVE  /\ TypeInv' /\ FilesStay
           /\ request'[r].step = "checked" /\ request'[r].batch = b
           /\ request'[r].judged = <<>> /\ request'[r].done = {}
           /\ \A s \in Request \ {r} : request'[s] = request[s]
  <1> DEFINE me == [step |-> "checked", batch |-> b, loaded |-> <<>>, judged |-> <<>>,
                    done |-> {}]
  <1>1. Advance(r, me) /\ UNCHANGED <<means, batch, rows>> /\ batch[b] # NoBatch
    BY DEF Begin
  <1>2. /\ me.step = "checked" /\ me.batch = b /\ me.judged = <<>> /\ me.done = {}
        /\ DOMAIN me = {"step", "batch", "loaded", "judged", "done"}
    OBVIOUS
  <1>3. me # Idle
    BY <1>2 DEF Idle
  <1> HIDE DEF me
  <1>4. FilesStay /\ BatchesOK' /\ DOMAIN batch' = Batch /\ DOMAIN rows' = Batch
    BY <1>1, SameBatches
  <1>5. request'[r] = me /\ \A s \in Request \ {r} : request'[s] = request[s]
    BY <1>1, AdvanceChangesOne DEF TypeInv
  <1>6. Exists(b)' /\ batch'[b].file \in Seq(FileRow)
    BY <1>1, <1>4 DEF TypeInv, BatchesOK, BatchOK, Exists
  <1>7. CommitOK(r)'
    <2>1. me.judged \in Seq(Judgement) /\ Len(me.judged) = 0
      BY <1>2
    <2>2. Len(me.judged) <= Len(batch'[b].file)
      BY <2>1, <1>6
    <2> QED BY <1>2, <1>3, <1>5, <1>6, <2>1, <2>2 DEF CommitOK, Busy
  <1>8. RequestsOK' /\ DOMAIN request' = Request
    BY <1>1, <1>4, <1>7, OtherCommits
  <1> QED BY <1>1, <1>2, <1>4, <1>5, <1>8 DEF TypeInv

\* It reads the rows.
LEMMA ReadRowsTypes ==
    ASSUME TypeInv, NEW r \in Request, ReadRows(r)
    PROVE  /\ TypeInv' /\ FilesStay /\ Busy(r) /\ request[r].step = "checked"
           /\ request'[r].step = "judging" /\ request'[r].batch = request[r].batch
           /\ request'[r].judged = <<>> /\ request'[r].done = request[r].done
           /\ request'[r].loaded = [n \in DOMAIN rows[request[r].batch] |->
                                       rows[request[r].batch][n].classification]
           /\ \A s \in Request \ {r} : request'[s] = request[s]
  <1> DEFINE loaded == [n \in DOMAIN rows[request[r].batch] |->
                           rows[request[r].batch][n].classification]
             me == [request[r] EXCEPT !.step = "judging", !.loaded = loaded]
  <1>1. /\ Advance(r, me) /\ request[r].step = "checked"
        /\ UNCHANGED <<means, batch, rows>>
    BY DEF ReadRows
  <1>2. CommitOK(r) /\ Busy(r)
    BY <1>1 DEF TypeInv, RequestsOK, Busy
  <1>3. /\ DOMAIN me = {"step", "batch", "loaded", "judged", "done"}
        /\ me.step = "judging" /\ me.batch = request[r].batch
        /\ me.judged = <<>> /\ me.done = request[r].done /\ me.loaded = loaded
    BY <1>1, <1>2 DEF CommitOK
  <1>4. me # Idle
    BY <1>3 DEF Idle
  <1> HIDE DEF me, loaded
  <1>5. FilesStay /\ BatchesOK' /\ DOMAIN batch' = Batch /\ DOMAIN rows' = Batch
    BY <1>1, SameBatches
  <1>6. request'[r] = me /\ \A s \in Request \ {r} : request'[s] = request[s]
    BY <1>1, AdvanceChangesOne DEF TypeInv
  <1>7. CommitOK(r)'
    <2>1. me.judged = request[r].judged
      BY <1>1, <1>2, <1>3 DEF CommitOK
    <2> QED BY <1>1, <1>2, <1>3, <1>4, <1>5, <1>6, <2>1 DEF CommitOK, Busy, FilesStay
  <1>8. RequestsOK' /\ DOMAIN request' = Request
    BY <1>1, <1>5, <1>7, OtherCommits
  <1>9. TypeInv'
    BY <1>1, <1>5, <1>8 DEF TypeInv
  <1> QED BY <1>1, <1>2, <1>3, <1>5, <1>6, <1>9 DEF loaded

\* It judges one more row.
LEMMA RejudgeTypes ==
    ASSUME TypeInv, NEW r \in Request, Rejudge(r)
    PROVE  /\ TypeInv' /\ FilesStay /\ UNCHANGED <<paths, means, batch, moved>>
           /\ Busy(r) /\ request[r].step = "judging" /\ request'[r].step = "judging"
           /\ request'[r].batch = request[r].batch /\ request'[r].done = request[r].done
           /\ request'[r].loaded = request[r].loaded
           /\ \A s \in Request \ {r} : request'[s] = request[s]
           /\ LET n   == Len(request[r].judged) + 1
                  new == Judge(Of(r).file, request[r].judged, n)
              IN  /\ n \in 1 .. Len(Of(r).file) /\ n \in DOMAIN rows[request[r].batch]
                  /\ request'[r].judged = Append(request[r].judged, new)
                  /\ new \in Judgement
                  /\ rows' = IF new.classification # request[r].loaded[n]
                             THEN Reclassified(request[r].batch, n, new.classification)
                             ELSE rows
  <1> DEFINE n   == Len(request[r].judged) + 1
             new == Judge(Of(r).file, request[r].judged, n)
             me  == [request[r] EXCEPT !.judged = Append(@, new)]
  <1>1. /\ Advance(r, me) /\ request[r].step = "judging" /\ n <= Len(Of(r).file)
        /\ rows' = IF new.classification # request[r].loaded[n]
                   THEN Reclassified(request[r].batch, n, new.classification) ELSE rows
        /\ UNCHANGED <<paths, means, batch, overlapped, moved>>
    BY DEF Rejudge
  <1>2. CommitOK(r) /\ Busy(r)
    BY <1>1 DEF TypeInv, RequestsOK, Busy
  <1> PICK b \in Batch : b = request[r].batch
    BY <1>2 DEF CommitOK
  <1>3. /\ Exists(b) /\ Of(r) = batch[b] /\ batch[b].file \in Seq(FileRow)
        /\ DOMAIN rows[b] = 1 .. Len(batch[b].file)
    BY <1>2 DEF CommitOK, Of, TypeInv, BatchesOK, BatchOK
  <1>4. request[r].judged \in Seq(Judgement) /\ request[r].done \subseteq DOMAIN request[r].judged
    BY <1>2 DEF CommitOK
  <1>5. n \in 1 .. Len(Of(r).file) /\ n \in DOMAIN rows[b]
    BY <1>1, <1>3, <1>4
  <1>6. new \in Judgement
    BY <1>3, <1>5, JudgeAnswers DEF TypeInv
  <1>7. /\ DOMAIN me = {"step", "batch", "loaded", "judged", "done"}
        /\ me.step = "judging" /\ me.batch = b /\ me.loaded = request[r].loaded
        /\ me.judged = Append(request[r].judged, new) /\ me.done = request[r].done
    BY <1>1, <1>2 DEF CommitOK
  <1>8. me # Idle
    BY <1>7 DEF Idle
  <1> HIDE DEF me, new
  <1>9. SameShape /\ \A c \in Batch : ~Exists(c) => rows'[c] = rows[c]
    <2>1. CASE rows' = rows
      BY <2>1 DEF SameShape, TypeInv, BatchesOK, BatchOK
    <2>2. CASE rows' = Reclassified(b, n, new.classification)
      <3> HIDE DEF n
      <3>1. /\ DOMAIN rows' = Batch
            /\ \A c \in Batch \ {b} : rows'[c] = rows[c]
            /\ DOMAIN rows'[b] = DOMAIN rows[b]
            /\ \A m \in DOMAIN rows[b] \ {n} : rows'[b][m] = rows[b][m]
            /\ DOMAIN rows'[b][n] = {"classification", "result"}
        BY <1>3, <1>5, <2>2, ReclassifiedRow
      <3>2. \A c \in Batch : \A m \in DOMAIN rows[c] :
               DOMAIN rows[c][m] = {"classification", "result"}
        BY DEF TypeInv, BatchesOK, BatchOK
      <3>3. \A m \in DOMAIN rows[b] : DOMAIN rows'[b][m] = {"classification", "result"}
        BY <3>1, <3>2
      <3>4. SameShape
        BY <3>1, <3>2, <3>3 DEF SameShape
      <3> QED BY <1>3, <3>1, <3>4
    <2> QED BY <1>1, <2>1, <2>2
  <1>10. FilesStay /\ BatchesOK' /\ DOMAIN batch' = Batch /\ DOMAIN rows' = Batch
    BY <1>1, <1>9, SameFiles
  <1>11. request'[r] = me /\ \A s \in Request \ {r} : request'[s] = request[s]
    BY <1>1, AdvanceChangesOne DEF TypeInv
  <1>12. CommitOK(r)'
    <2>1. /\ me.judged \in Seq(Judgement) /\ Len(me.judged) = Len(request[r].judged) + 1
          /\ me.done \subseteq DOMAIN me.judged
      BY <1>4, <1>6, <1>7
    <2>2. Len(me.judged) <= Len(batch'[b].file)
      BY <1>1, <1>3, <2>1
    <2>3. Exists(b)'
      BY <1>3, <1>10 DEF FilesStay
    <2> QED BY <1>3, <1>7, <1>8, <1>11, <2>1, <2>2, <2>3 DEF CommitOK, Busy
  <1>13. RequestsOK' /\ DOMAIN request' = Request
    BY <1>1, <1>10, <1>12, OtherCommits
  <1>14. TypeInv'
    BY <1>1, <1>10, <1>13 DEF TypeInv
  <1> QED BY <1>1, <1>2, <1>5, <1>6, <1>7, <1>10, <1>11, <1>14 DEF new

\* It is done with some of the rows it has judged.
LEMMA DoneTypes ==
    ASSUME TypeInv, NEW r \in Request, Writing(r), NEW ns, ns \subseteq Left(r), DoneWith(r, ns),
           FilesStay
    PROVE  /\ RequestsOK' /\ DOMAIN request' = Request /\ Busy(r)
           /\ request'[r].step = "judging" /\ request'[r].batch = request[r].batch
           /\ request'[r].judged = request[r].judged
           /\ request'[r].loaded = request[r].loaded
           /\ request'[r].done = request[r].done \cup ns
           /\ \A s \in Request \ {r} : request'[s] = request[s]
  <1> DEFINE me == [request[r] EXCEPT !.done = @ \cup ns]
  <1>1. Advance(r, me) /\ request[r].step = "judging"
    BY DEF DoneWith, Writing
  <1>2. CommitOK(r) /\ Busy(r)
    BY <1>1 DEF TypeInv, RequestsOK, Busy
  <1>3. /\ DOMAIN me = {"step", "batch", "loaded", "judged", "done"}
        /\ me.step = "judging" /\ me.batch = request[r].batch /\ me.loaded = request[r].loaded
        /\ me.judged = request[r].judged /\ me.done = request[r].done \cup ns
    BY <1>1, <1>2 DEF CommitOK
  <1>4. me # Idle
    BY <1>3 DEF Idle
  <1> HIDE DEF me
  <1>5. ns \subseteq DOMAIN request[r].judged
    BY <1>2, LeftRows
  <1>6. request'[r] = me /\ \A s \in Request \ {r} : request'[s] = request[s]
    BY <1>1, AdvanceChangesOne DEF TypeInv
  <1>7. CommitOK(r)'
    BY <1>2, <1>3, <1>4, <1>5, <1>6 DEF CommitOK, Busy, FilesStay
  <1>8. RequestsOK' /\ DOMAIN request' = Request
    BY <1>1, <1>7, OtherCommits
  <1> QED BY <1>2, <1>3, <1>6, <1>8

\* It writes some of them.
LEMMA WriteTypes ==
    ASSUME TypeInv, NEW r \in Request, Writing(r), NEW ns, ns \subseteq Left(r), Written(r, ns),
           DoneWith(r, ns)
    PROVE  TypeInv' /\ FilesStay
  <1>1. Busy(r) /\ UNCHANGED <<means, batch>>
    BY DEF Writing, Busy, Written
  <1> PICK b \in Batch : b = request[r].batch
    BY <1>1 DEF TypeInv, RequestsOK, CommitOK
  <1>2. Exists(b)
    BY <1>1 DEF TypeInv, RequestsOK, CommitOK
  <1>3. /\ DOMAIN rows' = Batch
        /\ \A c \in Batch \ {b} : rows'[c] = rows[c]
        /\ DOMAIN rows'[b] = DOMAIN rows[b]
        /\ \A m \in DOMAIN rows[b] : DOMAIN rows'[b][m] = {"classification", "result"}
    BY <1>1, WrittenRows
  <1>4. \A c \in Batch : \A m \in DOMAIN rows[c] :
           DOMAIN rows[c][m] = {"classification", "result"}
    BY DEF TypeInv, BatchesOK, BatchOK
  <1>5. SameShape
    BY <1>3, <1>4 DEF SameShape
  <1>6. FilesStay /\ BatchesOK' /\ DOMAIN batch' = Batch /\ DOMAIN rows' = Batch
    BY <1>1, <1>2, <1>3, <1>5, SameFiles
  <1>7. RequestsOK' /\ DOMAIN request' = Request
    BY <1>6, DoneTypes
  <1> QED BY <1>1, <1>6, <1>7 DEF TypeInv

\* It records that one cannot be written.
LEMMA FailureTypes ==
    ASSUME TypeInv, NEW r \in Request, NEW n \in RowNumber, RecordFailure(r, n)
    PROVE  /\ TypeInv' /\ FilesStay /\ UNCHANGED <<paths, means, batch, overlapped, moved>>
           /\ Writing(r) /\ n \in Left(r) /\ DoneWith(r, {n})
           /\ n \in DOMAIN rows[request[r].batch]
           /\ rows' = Reclassified(request[r].batch, n, "ERROR")
  <1>1. /\ Writing(r) /\ Busy(r) /\ n \in Left(r) /\ DoneWith(r, {n})
        /\ rows' = Reclassified(request[r].batch, n, "ERROR")
        /\ UNCHANGED <<paths, means, batch, overlapped, moved>>
    BY DEF RecordFailure, Turn, Writing, Busy, Failure
  <1> PICK b \in Batch : b = request[r].batch
    BY <1>1 DEF TypeInv, RequestsOK, CommitOK
  <1>2. Exists(b) /\ CommitOK(r) /\ BatchOK(b)
    BY <1>1 DEF TypeInv, RequestsOK, CommitOK, BatchesOK
  <1>3. n \in DOMAIN rows[b]
    <2>1. n \in DOMAIN request[r].judged
      BY <1>1, LeftRows
    <2>2. /\ Len(request[r].judged) <= Len(batch[b].file) /\ batch[b].file \in Seq(FileRow)
          /\ DOMAIN rows[b] = 1 .. Len(batch[b].file) /\ request[r].judged \in Seq(Judgement)
      BY <1>1, <1>2 DEF CommitOK, BatchOK
    <2> QED BY <2>1, <2>2
  <1>4. /\ DOMAIN rows' = Batch
        /\ \A c \in Batch \ {b} : rows'[c] = rows[c]
        /\ DOMAIN rows'[b] = DOMAIN rows[b]
        /\ \A m \in DOMAIN rows[b] \ {n} : rows'[b][m] = rows[b][m]
        /\ DOMAIN rows'[b][n] = {"classification", "result"}
    BY <1>1, <1>3, ReclassifiedRow
  <1>5. \A c \in Batch : \A m \in DOMAIN rows[c] :
           DOMAIN rows[c][m] = {"classification", "result"}
    BY DEF TypeInv, BatchesOK, BatchOK
  <1>6. \A m \in DOMAIN rows[b] : DOMAIN rows'[b][m] = {"classification", "result"}
    BY <1>4, <1>5
  <1>7. SameShape
    BY <1>4, <1>5, <1>6 DEF SameShape
  <1>8. FilesStay /\ BatchesOK' /\ DOMAIN batch' = Batch /\ DOMAIN rows' = Batch
    BY <1>1, <1>2, <1>4, <1>7, SameFiles
  <1>9. RequestsOK' /\ DOMAIN request' = Request
    <2>1. {n} \subseteq Left(r)
      BY <1>1
    <2> QED BY <1>1, <1>8, <2>1, DoneTypes
  <1>10. TypeInv'
    BY <1>1, <1>8, <1>9 DEF TypeInv
  <1> QED BY <1>1, <1>3, <1>8, <1>10

\* It is refused, or lost.
LEMMA StopTypes ==
    ASSUME TypeInv, NEW r \in Request, Advance(r, Idle), UNCHANGED <<means, batch, rows>>
    PROVE  TypeInv' /\ FilesStay
  <1>1. FilesStay /\ BatchesOK' /\ DOMAIN batch' = Batch /\ DOMAIN rows' = Batch
    BY SameBatches
  <1>2. request'[r] = Idle
    BY AdvanceChangesOne DEF TypeInv
  <1>3. RequestsOK' /\ DOMAIN request' = Request
    BY <1>1, <1>2, IdleIsOK, OtherCommits
  <1> QED BY <1>1, <1>3 DEF TypeInv

\* It saves the stage.
LEMMA FinishTypes ==
    ASSUME TypeInv, NEW r \in Request, NEW b \in Batch, b = request[r].batch, Finish(r)
    PROVE  /\ TypeInv' /\ FilesStay /\ Busy(r) /\ Writing(r) /\ Left(r) = {}
           /\ UNCHANGED <<paths, means, rows, overlapped, moved>>
           /\ request'[r] = Idle /\ \A s \in Request \ {r} : request'[s] = request[s]
           /\ \A c \in Batch \ {b} : batch'[c] = batch[c]
           /\ batch'[b].stage = "COMMITTED" /\ batch'[b].counts = CountsOf(rows[b])
  <1> DEFINE new == [[batch[b] EXCEPT !.stage = "COMMITTED"] EXCEPT !.counts = CountsOf(rows[b])]
  <1>1. /\ request[r] # Idle /\ Writing(r) /\ Left(r) = {} /\ Advance(r, Idle)
        /\ UNCHANGED <<paths, means, rows, overlapped, moved>>
    BY DEF Finish
  <1>2. Busy(r)
    BY <1>1 DEF TypeInv, RequestsOK, CommitOK
  <1>3. Exists(b) /\ BatchOK(b)
    BY <1>2 DEF TypeInv, RequestsOK, CommitOK, BatchesOK
  <1>4. /\ new.stage = "COMMITTED" /\ new.counts = CountsOf(rows[b])
        /\ new.file = batch[b].file /\ new.policy = batch[b].policy
        /\ DOMAIN new = {"file", "policy", "stage", "counts"}
    BY <1>3 DEF BatchOK
  <1>5. DOMAIN batch' = Batch /\ batch'[b] = new /\ \A c \in Batch \ {b} : batch'[c] = batch[c]
    BY DEF Finish, FinalCounts, TypeInv
  <1>6. new # NoBatch
    BY <1>4 DEF NoBatch
  <1> HIDE DEF new
  <1>7. FilesStay
    BY <1>3, <1>4, <1>5 DEF FilesStay, Exists
  <1>8. BatchesOK'
    <2>1. BatchOK(b)'
      BY <1>1, <1>3, <1>4, <1>5, <1>6 DEF BatchOK, Exists, Stage
    <2>2. ASSUME NEW c \in Batch, c # b PROVE BatchOK(c)'
      <3>1. batch'[c] = batch[c] /\ rows'[c] = rows[c] /\ BatchOK(c)
        BY <1>1, <1>5, <2>2 DEF TypeInv, BatchesOK
      <3> QED BY <3>1 DEF BatchOK, Exists
    <2> QED BY <2>1, <2>2 DEF BatchesOK
  <1>9. request'[r] = Idle /\ \A s \in Request \ {r} : request'[s] = request[s]
    BY <1>1, AdvanceChangesOne DEF TypeInv
  <1>10. RequestsOK' /\ DOMAIN request' = Request
    BY <1>1, <1>7, <1>9, IdleIsOK, OtherCommits
  <1> QED BY <1>1, <1>2, <1>4, <1>5, <1>7, <1>8, <1>9, <1>10 DEF TypeInv

\* Others change what labels mean, and paths.
LEMMA OthersTypes ==
    ASSUME TypeInv, Others
    PROVE  TypeInv' /\ FilesStay /\ UNCHANGED <<batch, rows, request, overlapped>>
  <1>1. UNCHANGED <<batch, rows, request, overlapped>>
    BY DEF Others, OperatorCreates, OperatorRenames, Remeans
  <1>2. FilesStay /\ BatchesOK' /\ DOMAIN batch' = Batch /\ DOMAIN rows' = Batch
    BY <1>1, SameBatches
  <1>3. RequestsOK'
    BY <1>1 DEF TypeInv, RequestsOK, CommitOK, Busy, Exists
  <1>4. means' \in [Label -> Satnet \cup {None}]
    BY DEF TypeInv, Others, OperatorCreates, OperatorRenames, Remeans
  <1> QED BY <1>1, <1>2, <1>3, <1>4 DEF TypeInv

\* The steps there are.
LEMMA StepsOfNext ==
    ASSUME [Next]_vars
    PROVE  \/ \E b \in Batch, file \in File, policy \in BatchPolicy : DryRun(b, file, policy)
           \/ \E r \in Request, b \in Batch : Begin(r, b)
           \/ \E r \in Request : ReadRows(r)
           \/ \E r \in Request : Rejudge(r)
           \/ \E r \in Request : \E ns \in SUBSET Left(r) :
                 /\ Writing(r) /\ Written(r, ns) /\ DoneWith(r, ns)
                 /\ \A n \in ns : ~Taken(PathOf(r, n))
                 /\ Of(r).policy = "ALL_OR_NOTHING" => ns = Left(r)
           \/ \E r \in Request, n \in RowNumber : RecordFailure(r, n)
           \/ \E r \in Request : Finish(r)
           \/ \E r \in Request : Advance(r, Idle) /\
                 UNCHANGED <<paths, means, batch, rows, overlapped, moved>>
           \/ Others
           \/ UNCHANGED vars
  <1>1. ASSUME NEW r \in Request, WriteAll(r)
        PROVE  \E ns \in SUBSET Left(r) :
                 /\ Writing(r) /\ Written(r, ns) /\ DoneWith(r, ns)
                 /\ \A n \in ns : ~Taken(PathOf(r, n))
                 /\ Of(r).policy = "ALL_OR_NOTHING" => ns = Left(r)
    <2>1. Left(r) \in SUBSET Left(r)
      OBVIOUS
    <2> QED BY <1>1, <2>1 DEF WriteAll
  <1>2. ASSUME NEW r \in Request, NEW n \in RowNumber, WriteRow(r, n)
        PROVE  \E ns \in SUBSET Left(r) :
                 /\ Writing(r) /\ Written(r, ns) /\ DoneWith(r, ns)
                 /\ \A m \in ns : ~Taken(PathOf(r, m))
                 /\ Of(r).policy = "ALL_OR_NOTHING" => ns = Left(r)
    <2>1. {n} \in SUBSET Left(r) /\ Of(r).policy # "ALL_OR_NOTHING" /\ Writing(r)
      BY <1>2 DEF WriteRow, Turn
    <2>2. Written(r, {n}) /\ DoneWith(r, {n}) /\ \A m \in {n} : ~Taken(PathOf(r, m))
      BY <1>2 DEF WriteRow
    <2> QED BY <2>1, <2>2
  <1>3. ASSUME NEW r \in Request, Refuse(r) \/ Lost(r)
        PROVE  Advance(r, Idle) /\ UNCHANGED <<paths, means, batch, rows, overlapped, moved>>
    BY <1>3 DEF Refuse, Lost
  <1> QED BY <1>1, <1>2, <1>3 DEF Next, Commit

\* Every step keeps batches and requests in order.
LEMMA TypesHold ==
    ASSUME FileAssumption, TypeInv, [Next]_vars
    PROVE  TypeInv' /\ FilesStay
  <1>1. CASE \E b \in Batch, file \in File, policy \in BatchPolicy : DryRun(b, file, policy)
    BY <1>1, DryRunTypes
  <1>2. CASE \E r \in Request, b \in Batch : Begin(r, b)
    BY <1>2, BeginTypes
  <1>3. CASE \E r \in Request : ReadRows(r)
    BY <1>3, ReadRowsTypes
  <1>4. CASE \E r \in Request : Rejudge(r)
    BY <1>4, RejudgeTypes
  <1>5. CASE \E r \in Request : \E ns \in SUBSET Left(r) :
                 Writing(r) /\ Written(r, ns) /\ DoneWith(r, ns)
    BY <1>5, WriteTypes
  <1>6. CASE \E r \in Request, n \in RowNumber : RecordFailure(r, n)
    BY <1>6, FailureTypes
  <1>7. ASSUME NEW r \in Request, Finish(r) PROVE TypeInv' /\ FilesStay
    <2>1. request[r] # Idle
      BY <1>7 DEF Finish
    <2>2. request[r].batch \in Batch
      BY <2>1 DEF TypeInv, RequestsOK, CommitOK
    <2> QED BY <1>7, <2>2, FinishTypes
  <1>8. CASE \E r \in Request :
                Advance(r, Idle) /\ UNCHANGED <<paths, means, batch, rows, overlapped, moved>>
    BY <1>8, StopTypes
  <1>9. CASE Others
    BY <1>9, OthersTypes
  <1>10. CASE UNCHANGED vars
    <2>1. UNCHANGED <<means, batch, rows, request>>
      BY <1>10 DEF vars
    <2>2. FilesStay /\ BatchesOK' /\ DOMAIN batch' = Batch /\ DOMAIN rows' = Batch
      BY <2>1, SameBatches
    <2>3. RequestsOK'
      BY <2>1 DEF TypeInv, RequestsOK, CommitOK, Busy, Exists
    <2> QED BY <2>1, <2>2, <2>3 DEF TypeInv
  <1> QED BY <1>1, <1>2, <1>3, <1>4, <1>5, <1>6, <1>7, <1>8, <1>9, <1>10, StepsOfNext

\* And so does the start.
LEMMA InitTypes ==
    ASSUME FileAssumption, Init
    PROVE  TypeInv
  BY DEF Init, TypeInv, BatchesOK, BatchOK, RequestsOK, CommitOK, Exists, Busy, NoBatch, Idle,
         Stage, FileAssumption

-----------------------------------------------------------------------------
(***************************************************************************)
(* No allocation twice.                                                    *)
(***************************************************************************)
\* Two paths have neither an identifier nor a Satnet and a code in common.
Apart(p, q) ==
    /\ ~(p.satnet = q.satnet /\ p.code = q.code)
    /\ p.id = None \/ p.id # q.id

PathsApart == \A p, q \in paths : p # q => Apart(p, q)

\* A path is what the row it was written from made of it, but for a label
\* that has lost that meaning and a code that was renamed since.
FromRow(p, b, n) ==
    LET row == batch[b].file[n]
    IN  /\ b \in Batch /\ Exists(b) /\ n \in DOMAIN batch[b].file
        /\ p.id = row.id /\ p.satnet \in Satnet
        /\ row.code \notin moved => p.code = row.code
        /\ row.label \notin moved => p.satnet = means[row.label]

PathOK(p) ==
    /\ DOMAIN p = {"id", "satnet", "code", "source"}
    /\ p.source # None => FromRow(p, p.source[1], p.source[2])

\* A row judged committable has a Satnet, that of its label unless the label
\* has lost that meaning, and nothing in common with a row before it.
CommittableOK(r, n) ==
    LET me   == request[r]
        file == batch[me.batch].file
    IN  me.judged[n].classification = "VALID" =>
            /\ me.judged[n].satnet \in Satnet
            /\ file[n].label \notin moved => me.judged[n].satnet = means[file[n].label]
            /\ Unclaimed(file, me.judged, n, me.judged[n].satnet)

JudgedOK(r) == Busy(r) => \A n \in DOMAIN request[r].judged : CommittableOK(r, n)

PathsInv ==
    /\ PathsApart
    /\ \A p \in paths : PathOK(p)
    /\ \A r \in Request : JudgedOK(r)

\* What a step leaves of a path that stays, when the labels keep their
\* meaning and no code is renamed.
LEMMA PathStays ==
    ASSUME FilesStay, UNCHANGED <<means, moved>>, NEW p, PathOK(p)
    PROVE  PathOK(p)'
  BY DEF PathOK, FromRow, FilesStay, Exists

\* The same of a request, when it has judged nothing more.
LEMMA JudgementsStay ==
    ASSUME TypeInv, TypeInv', FilesStay, UNCHANGED <<means, moved>>, NEW r \in Request, JudgedOK(r),
           Busy(r)' => \/ request'[r].judged = <<>>
                       \/ /\ Busy(r) /\ request'[r].batch = request[r].batch
                          /\ request'[r].judged = request[r].judged
    PROVE  JudgedOK(r)'
  <1>1. CASE ~Busy(r)'
    BY <1>1 DEF JudgedOK
  <1>2. CASE request'[r].judged = <<>>
    BY <1>2 DEF JudgedOK
  <1>3. CASE /\ Busy(r) /\ request'[r].batch = request[r].batch
             /\ request'[r].judged = request[r].judged
    <2> PICK b \in Batch : b = request[r].batch
      BY <1>3 DEF TypeInv, RequestsOK, CommitOK
    <2>1. batch'[b].file = batch[b].file
      BY <1>3 DEF FilesStay, TypeInv, RequestsOK, CommitOK
    <2>2. SUFFICES ASSUME NEW n \in DOMAIN request[r].judged PROVE CommittableOK(r, n)'
      BY <1>3, <2>2 DEF JudgedOK
    <2>3. CommittableOK(r, n)
      BY <1>3 DEF JudgedOK
    <2> QED BY <1>3, <2>1, <2>3 DEF CommittableOK
  <1> QED BY <1>1, <1>2, <1>3

\* Nothing to show of a step that touches no path and makes no judgement.
LEMMA PathsStay ==
    ASSUME TypeInv, TypeInv', FilesStay, PathsInv, UNCHANGED <<paths, means, moved>>,
           \A r \in Request :
              Busy(r)' => \/ request'[r].judged = <<>>
                          \/ /\ Busy(r) /\ request'[r].batch = request[r].batch
                             /\ request'[r].judged = request[r].judged
    PROVE  PathsInv'
  <1>1. \A r \in Request : JudgedOK(r)'
    BY JudgementsStay DEF PathsInv
  <1>2. \A p \in paths : PathOK(p)'
    BY PathStays DEF PathsInv
  <1> QED BY <1>1, <1>2 DEF PathsInv, PathsApart

\* A row is judged: what is committable is so by JudgeAnswers.
LEMMA RejudgeKeepsPaths ==
    ASSUME FileAssumption, TypeInv, PathsInv, NEW r \in Request, Rejudge(r)
    PROVE  PathsInv'
  <1> DEFINE n   == Len(request[r].judged) + 1
             new == Judge(Of(r).file, request[r].judged, n)
  <1>1. /\ TypeInv' /\ FilesStay /\ UNCHANGED <<paths, means, batch, moved>>
        /\ Busy(r) /\ request'[r].batch = request[r].batch
        /\ \A s \in Request \ {r} : request'[s] = request[s]
        /\ n \in 1 .. Len(Of(r).file)
        /\ request'[r].judged = Append(request[r].judged, new)
    BY RejudgeTypes
  <1>2. \A p \in paths : PathOK(p)'
    BY <1>1, PathStays DEF PathsInv
  <1>3. ASSUME NEW s \in Request \ {r} PROVE JudgedOK(s)'
    <2>1. request'[s] = request[s] /\ JudgedOK(s)
      BY <1>1 DEF PathsInv
    <2> QED BY <1>1, <2>1, JudgementsStay DEF Busy
  <1>4. JudgedOK(r)'
    <2> PICK b \in Batch : b = request[r].batch
      BY <1>1 DEF TypeInv, RequestsOK, CommitOK
    <2> PICK file \in Seq(FileRow) : file = batch[b].file
      BY <1>1 DEF TypeInv, RequestsOK, CommitOK, BatchesOK, BatchOK
    <2> PICK judged \in Seq(Judgement) : judged = request[r].judged
      BY <1>1 DEF TypeInv, RequestsOK, CommitOK
    <2> PICK k \in Nat : k = n
      BY <1>1
    <2>1. new = Judge(file, judged, k) /\ k \in 1 .. Len(file) /\ k = Len(judged) + 1
      BY <1>1 DEF Of
    <2> PICK answer : answer = new
      OBVIOUS
    <2> HIDE DEF n, new
    <2>2. /\ answer \in Judgement
          /\ answer.classification = "VALID" =>
                /\ answer.satnet = means[file[k].label] /\ answer.satnet # None
                /\ Unclaimed(file, judged, k, answer.satnet)
      BY <2>1, JudgeAnswers DEF TypeInv
    <2>3. request'[r].judged = Append(judged, answer)
      BY <1>1
    <2>4. batch'[request'[r].batch].file = file
      BY <1>1
    <2>5. SUFFICES ASSUME NEW m \in 1 .. k PROVE CommittableOK(r, m)'
      <3>1. DOMAIN request'[r].judged = 1 .. k
        BY <2>1, <2>3
      <3> QED BY <2>5, <3>1 DEF JudgedOK
    <2>6. CASE m = k
      <3>1. request'[r].judged[m] = answer /\ \A l \in 1 .. m - 1 : request'[r].judged[l] = judged[l]
        BY <2>1, <2>3, <2>6
      <3>2. answer.classification = "VALID" => answer.satnet \in Satnet
        BY <2>2 DEF Judgement
      <3>3. answer.classification = "VALID" =>
               Unclaimed(file, request'[r].judged, m, answer.satnet)
        BY <2>2, <2>6, <3>1 DEF Unclaimed
      <3> QED BY <1>1, <2>2, <2>4, <2>6, <3>1, <3>2, <3>3 DEF CommittableOK
    <2>7. CASE m # k
      <3>1. /\ m \in DOMAIN judged
            /\ \A l \in 1 .. m : request'[r].judged[l] = judged[l]
        BY <2>1, <2>3, <2>7
      <3>2. CommittableOK(r, m)
        BY <1>1, <3>1 DEF PathsInv, JudgedOK
      <3>3. request'[r].judged[m] = judged[m] /\ \A l \in 1 .. m - 1 : request'[r].judged[l] = judged[l]
        BY <3>1
      <3> QED BY <1>1, <2>4, <3>2, <3>3 DEF CommittableOK, Unclaimed
    <2> QED BY <2>6, <2>7
  <1>5. PathsApart'
    BY <1>1 DEF PathsInv, PathsApart
  <1> QED BY <1>1, <1>2, <1>3, <1>4, <1>5 DEF PathsInv

\* A path that is not taken has nothing in common with those there are.
LEMMA NotTakenIsApart ==
    ASSUME NEW path, ~Taken(path), NEW p \in paths
    PROVE  Apart(p, path) /\ Apart(path, p)
  BY DEF Taken, HasId, HasCode, Apart

\* Rows are written: none was taken, and no two of them claim the same.
LEMMA WriteKeepsPaths ==
    ASSUME TypeInv, PathsInv, NEW r \in Request, Writing(r), NEW ns, ns \subseteq Left(r),
           Written(r, ns), DoneWith(r, ns), \A n \in ns : ~Taken(PathOf(r, n))
    PROVE  PathsInv'
  <1>1. /\ Busy(r) /\ UNCHANGED <<means, batch, moved>>
        /\ paths' = paths \cup {PathOf(r, n) : n \in ns}
    BY DEF Writing, Busy, Written
  <1>2. TypeInv' /\ FilesStay
    BY WriteTypes
  <1>3. /\ request'[r].batch = request[r].batch /\ request'[r].judged = request[r].judged
        /\ \A s \in Request \ {r} : request'[s] = request[s]
    BY <1>2, DoneTypes
  <1>4. ASSUME NEW s \in Request PROVE JudgedOK(s)'
    <2>1. /\ JudgedOK(s) /\ request'[s].batch = request[s].batch
          /\ request'[s].judged = request[s].judged /\ (Busy(s)' => Busy(s))
      BY <1>1, <1>3 DEF PathsInv, Busy
    <2> QED BY <1>1, <1>2, <2>1, JudgementsStay
  <1> PICK b \in Batch : b = request[r].batch
    BY <1>1 DEF TypeInv, RequestsOK, CommitOK
  <1> PICK file \in Seq(FileRow) : file = batch[b].file
    BY <1>1 DEF TypeInv, RequestsOK, CommitOK, BatchesOK, BatchOK
  <1> PICK judged \in Seq(Judgement) : judged = request[r].judged
    BY <1>1 DEF TypeInv, RequestsOK, CommitOK
  <1>5. Exists(b) /\ Len(judged) <= Len(file) /\ Of(r) = batch[b]
    BY <1>1 DEF TypeInv, RequestsOK, CommitOK, Of
  <1>6. ASSUME NEW n \in ns
        PROVE  /\ n \in 1 .. Len(judged) /\ judged[n].satnet \in Satnet
               /\ file[n].label \notin moved => judged[n].satnet = means[file[n].label]
               /\ Unclaimed(file, judged, n, judged[n].satnet)
    <2>1. n \in DOMAIN judged /\ judged[n].classification = "VALID"
      BY DEF Left
    <2>2. CommittableOK(r, n)
      BY <1>1, <2>1 DEF PathsInv, JudgedOK
    <2> QED BY <2>1, <2>2 DEF CommittableOK
  <1>7. ASSUME NEW n \in ns
        PROVE  /\ PathOf(r, n) = [id |-> file[n].id, satnet |-> judged[n].satnet,
                                  code |-> file[n].code, source |-> <<b, n>>]
               /\ DOMAIN PathOf(r, n) = {"id", "satnet", "code", "source"}
               /\ PathOf(r, n).id = file[n].id /\ PathOf(r, n).satnet = judged[n].satnet
               /\ PathOf(r, n).code = file[n].code
               /\ PathOf(r, n).source[1] = b /\ PathOf(r, n).source[2] = n
    BY <1>5 DEF PathOf
  <1>8. ASSUME NEW p \in paths' PROVE PathOK(p)'
    <2>1. CASE p \in paths
      BY <1>1, <1>2, <2>1, PathStays DEF PathsInv
    <2>2. CASE \E n \in ns : p = PathOf(r, n)
      <3> PICK n \in ns : p = PathOf(r, n)
        BY <2>2
      <3>1. n \in DOMAIN file /\ Exists(b)' /\ batch'[b].file = file
        BY <1>1, <1>2, <1>5, <1>6 DEF FilesStay
      <3>2. FromRow(p, b, n)'
        BY <1>1, <1>6, <1>7, <3>1 DEF FromRow
      <3> QED BY <1>7, <3>2 DEF PathOK
    <2> QED BY <1>1, <2>1, <2>2
  <1>9. ASSUME NEW m \in ns, NEW n \in ns, m < n
        PROVE  Apart(PathOf(r, m), PathOf(r, n)) /\ Apart(PathOf(r, n), PathOf(r, m))
    <2>1. m \in 1 .. n - 1
      BY <1>6, <1>9
    <2>2. /\ file[n].id # None => file[m].id # file[n].id
          /\ ~(judged[m].satnet = judged[n].satnet /\ file[m].code = file[n].code)
      BY <1>6, <2>1 DEF Unclaimed
    <2> QED BY <1>7, <2>2 DEF Apart
  <1>10. ASSUME NEW p \in paths', NEW q \in paths', p # q PROVE Apart(p, q)
    <2>1. CASE p \in paths /\ q \in paths
      BY <1>10, <2>1 DEF PathsInv, PathsApart
    <2>2. CASE p \in paths /\ \E n \in ns : q = PathOf(r, n)
      BY <2>2, NotTakenIsApart
    <2>3. CASE q \in paths /\ \E n \in ns : p = PathOf(r, n)
      BY <2>3, NotTakenIsApart
    <2>4. CASE (\E n \in ns : p = PathOf(r, n)) /\ \E n \in ns : q = PathOf(r, n)
      <3> PICK m \in ns : p = PathOf(r, m)
        BY <2>4
      <3> PICK n \in ns : q = PathOf(r, n)
        BY <2>4
      <3>1. m < n \/ n < m
        <4>1. m # n
          BY <1>10
        <4> QED BY <1>6, <4>1
      <3> QED BY <1>9, <3>1
    <2> QED BY <1>1, <2>1, <2>2, <2>3, <2>4
  <1>11. PathsApart'
    BY <1>10 DEF PathsApart, Apart
  <1> QED BY <1>4, <1>8, <1>11 DEF PathsInv

\* An operator creates a path, under what nobody has.
LEMMA CreateKeepsPaths ==
    ASSUME TypeInv, PathsInv, NEW satnet \in Satnet, NEW code \in Code,
           OperatorCreates(satnet, code)
    PROVE  PathsInv'
  <1> DEFINE path == [id |-> None, satnet |-> satnet, code |-> code, source |-> None]
  <1>1. /\ ~Taken(path) /\ paths' = paths \cup {path}
        /\ UNCHANGED <<means, batch, rows, request, moved>>
    BY DEF OperatorCreates
  <1>2. DOMAIN path = {"id", "satnet", "code", "source"} /\ path.source = None
    OBVIOUS
  <1> HIDE DEF path
  <1>3. Others
    BY DEF Others
  <1>4. TypeInv' /\ FilesStay
    BY <1>3, OthersTypes
  <1>5. \A p \in paths' : PathOK(p)'
    <2>1. PathOK(path)'
      BY <1>2 DEF PathOK
    <2> QED BY <1>1, <1>4, <2>1, PathStays DEF PathsInv
  <1>6. ASSUME NEW r \in Request PROVE JudgedOK(r)'
    <2>1. JudgedOK(r) /\ request'[r] = request[r] /\ (Busy(r)' => Busy(r))
      BY <1>1 DEF PathsInv, Busy
    <2> QED BY <1>1, <1>4, <2>1, JudgementsStay
  <1>7. ASSUME NEW p \in paths', NEW q \in paths', p # q PROVE Apart(p, q)
    BY <1>1, <1>7, NotTakenIsApart DEF PathsInv, PathsApart
  <1> QED BY <1>5, <1>6, <1>7 DEF PathsInv, PathsApart, Apart

\* An operator renames the code of a path: nobody has it, and it is moved.
LEMMA RenameKeepsPaths ==
    ASSUME TypeInv, PathsInv, NEW path \in paths, NEW code \in Code, OperatorRenames(path, code)
    PROVE  PathsInv'
  <1> DEFINE new == [path EXCEPT !.code = code]
  <1>1. /\ ~HasCode(path.satnet, code) /\ paths' = (paths \ {path}) \cup {new}
        /\ moved' = moved \cup {path.code} /\ UNCHANGED <<means, batch, rows, request>>
    BY DEF OperatorRenames
  <1>2. PathOK(path)
    BY DEF PathsInv
  <1>3. /\ DOMAIN new = {"id", "satnet", "code", "source"} /\ new.code = code
        /\ new.id = path.id /\ new.satnet = path.satnet /\ new.source = path.source
    BY <1>2 DEF PathOK
  <1> HIDE DEF new
  <1>4. ASSUME NEW p \in paths' PROVE PathOK(p)'
    <2>1. CASE p \in paths
      <3>1. PathOK(p)
        BY <2>1 DEF PathsInv
      <3> QED BY <1>1, <3>1 DEF PathOK, FromRow, Exists
    <2>2. CASE p = new
      <3>1. ASSUME new.source # None PROVE FromRow(new, new.source[1], new.source[2])'
        <4>1. FromRow(path, path.source[1], path.source[2])
          BY <1>2, <1>3, <3>1 DEF PathOK
        <4> QED BY <1>1, <1>3, <4>1 DEF FromRow, Exists
      <3> QED BY <1>3, <2>2, <3>1 DEF PathOK
    <2> QED BY <1>1, <2>1, <2>2
  <1>5. ASSUME NEW r \in Request PROVE JudgedOK(r)'
    <2>1. JudgedOK(r)
      BY DEF PathsInv
    <2> QED BY <1>1, <2>1 DEF JudgedOK, CommittableOK, Busy, Unclaimed
  <1>6. ASSUME NEW p \in paths', NEW q \in paths', p # q PROVE Apart(p, q)
    <2>1. CASE p # new /\ q # new
      BY <1>1, <1>6, <2>1 DEF PathsInv, PathsApart
    <2>2. ASSUME NEW o \in paths, o # path PROVE Apart(o, new) /\ Apart(new, o)
      <3>1. Apart(o, path) /\ Apart(path, o)
        BY <2>2 DEF PathsInv, PathsApart
      <3>2. ~(o.satnet = path.satnet /\ o.code = code)
        BY <1>1 DEF HasCode
      <3> QED BY <1>3, <3>1, <3>2 DEF Apart
    <2> QED BY <1>1, <1>6, <2>1, <2>2
  <1> QED BY <1>4, <1>5, <1>6 DEF PathsInv, PathsApart, Apart

\* A label gets another meaning: if it had one, it has lost it.
LEMMA RemeanKeepsPaths ==
    ASSUME FileAssumption, TypeInv, PathsInv, NEW label \in Label,
           NEW satnet \in Satnet \cup {None}, Remeans(label, satnet)
    PROVE  PathsInv'
  <1>1. /\ means' = [means EXCEPT ![label] = satnet]
        /\ moved' = IF means[label] = None THEN moved ELSE moved \cup {label}
        /\ UNCHANGED <<paths, batch, rows, request>>
    BY DEF Remeans
  <1>2. ASSUME NEW other, NEW s \in Satnet, other \notin moved => s = means[other], other \in Label
        PROVE  other \notin moved' => s = means'[other]
    BY <1>1, <1>2 DEF TypeInv, FileAssumption
  <1>3. ASSUME NEW p \in paths PROVE PathOK(p)'
    <2>1. PathOK(p)
      BY DEF PathsInv
    <2>2. ASSUME p.source # None PROVE FromRow(p, p.source[1], p.source[2])'
      <3>1. FromRow(p, p.source[1], p.source[2])
        BY <2>1, <2>2 DEF PathOK
      <3> PICK b \in Batch : b = p.source[1]
        BY <3>1 DEF FromRow
      <3> PICK n : n = p.source[2]
        OBVIOUS
      <3>2. Exists(b) /\ n \in DOMAIN batch[b].file /\ batch[b].file \in Seq(FileRow)
        BY <3>1 DEF FromRow, TypeInv, BatchesOK, BatchOK
      <3>3. batch[b].file[n].label \in Label
        <4>1. batch[b].file[n] \in FileRow
          BY <3>2
        <4> QED BY <4>1 DEF FileRow
      <3> PICK row : row = batch[b].file[n]
        OBVIOUS
      <3>4. p.satnet \in Satnet /\ (row.label \notin moved => p.satnet = means[row.label])
        BY <3>1 DEF FromRow
      <3>5. row.label \notin moved' => p.satnet = means'[row.label]
        BY <1>2, <3>3, <3>4
      <3>6. row.code \notin moved' => p.code = row.code
        BY <1>1, <3>1 DEF FromRow
      <3> QED BY <1>1, <3>1, <3>4, <3>5, <3>6 DEF FromRow, Exists
    <2> QED BY <2>1, <2>2 DEF PathOK
  <1>4. ASSUME NEW r \in Request PROVE JudgedOK(r)'
    <2>1. SUFFICES ASSUME Busy(r), NEW n \in DOMAIN request[r].judged PROVE CommittableOK(r, n)'
      BY <1>1 DEF JudgedOK, Busy
    <2>2. CommittableOK(r, n)
      BY <2>1 DEF PathsInv, JudgedOK
    <2>3. /\ batch[request[r].batch].file \in Seq(FileRow)
          /\ n \in 1 .. Len(batch[request[r].batch].file)
      BY <2>1 DEF TypeInv, RequestsOK, CommitOK, BatchesOK, BatchOK
    <2>4. batch[request[r].batch].file[n].label \in Label
      <3>1. batch[request[r].batch].file[n] \in FileRow
        BY <2>3
      <3> QED BY <3>1 DEF FileRow
    <2> PICK row : row = batch[request[r].batch].file[n]
      OBVIOUS
    <2> PICK place : place = request[r].judged[n].satnet
      OBVIOUS
    <2>5. ASSUME request[r].judged[n].classification = "VALID"
          PROVE  row.label \notin moved' => place = means'[row.label]
      <3>1. place \in Satnet /\ (row.label \notin moved => place = means[row.label])
        BY <2>2, <2>5 DEF CommittableOK
      <3> QED BY <1>2, <2>4, <3>1
    <2> QED BY <1>1, <2>2, <2>5 DEF CommittableOK, Unclaimed
  <1> QED BY <1>1, <1>3, <1>4 DEF PathsInv, PathsApart

\* Every step keeps paths apart, and what they were made of.
LEMMA PathsHold ==
    ASSUME FileAssumption, TypeInv, PathsInv, [Next]_vars
    PROVE  PathsInv'
  <1> TypeInv' /\ FilesStay
    BY TypesHold
  <1>1. CASE \E b \in Batch, file \in File, policy \in BatchPolicy : DryRun(b, file, policy)
    <2>1. UNCHANGED <<paths, means, request, moved>>
      BY <1>1 DEF DryRun
    <2> QED BY <2>1, PathsStay DEF Busy
  <1>2. ASSUME NEW r \in Request, NEW b \in Batch, Begin(r, b) PROVE PathsInv'
    <2>1. UNCHANGED <<paths, means, moved>>
      BY <1>2 DEF Begin
    <2>2. request'[r].judged = <<>> /\ \A s \in Request \ {r} : request'[s] = request[s]
      BY <1>2, BeginTypes
    <2> QED BY <2>1, <2>2, PathsStay DEF Busy
  <1>3. ASSUME NEW r \in Request, ReadRows(r) PROVE PathsInv'
    <2>1. UNCHANGED <<paths, means, moved>>
      BY <1>3 DEF ReadRows
    <2>2. request'[r].judged = <<>> /\ \A s \in Request \ {r} : request'[s] = request[s]
      BY <1>3, ReadRowsTypes
    <2> QED BY <2>1, <2>2, PathsStay DEF Busy
  <1>4. CASE \E r \in Request : Rejudge(r)
    BY <1>4, RejudgeKeepsPaths
  <1>5. CASE \E r \in Request : \E ns \in SUBSET Left(r) :
                /\ Writing(r) /\ Written(r, ns) /\ DoneWith(r, ns)
                /\ \A n \in ns : ~Taken(PathOf(r, n))
    BY <1>5, WriteKeepsPaths
  <1>6. ASSUME NEW r \in Request, NEW n \in RowNumber, RecordFailure(r, n) PROVE PathsInv'
    <2>1. UNCHANGED <<paths, means, moved>> /\ Writing(r) /\ n \in Left(r) /\ DoneWith(r, {n})
      BY <1>6, FailureTypes
    <2>2. {n} \subseteq Left(r)
      BY <2>1
    <2>3. /\ Busy(r) /\ request'[r].batch = request[r].batch
          /\ request'[r].judged = request[r].judged
          /\ \A s \in Request \ {r} : request'[s] = request[s]
      BY <2>1, <2>2, DoneTypes
    <2> QED BY <2>1, <2>3, PathsStay DEF Busy
  <1>7. ASSUME NEW r \in Request, Finish(r) PROVE PathsInv'
    <2>1. request[r] # Idle /\ UNCHANGED <<paths, means, moved>> /\ Advance(r, Idle)
      BY <1>7 DEF Finish
    <2>2. request'[r] = Idle /\ \A s \in Request \ {r} : request'[s] = request[s]
      BY <2>1, AdvanceChangesOne DEF TypeInv
    <2> QED BY <2>1, <2>2, PathsStay DEF Busy, Idle
  <1>8. ASSUME NEW r \in Request, Advance(r, Idle), UNCHANGED <<paths, means, moved>>
        PROVE  PathsInv'
    <2>1. request'[r] = Idle /\ \A s \in Request \ {r} : request'[s] = request[s]
      BY <1>8, AdvanceChangesOne DEF TypeInv
    <2> QED BY <1>8, <2>1, PathsStay DEF Busy, Idle
  <1>9. CASE Others
    BY <1>9, CreateKeepsPaths, RenameKeepsPaths, RemeanKeepsPaths DEF Others
  <1>10. CASE UNCHANGED vars
    <2>1. UNCHANGED <<paths, means, request, moved>>
      BY <1>10 DEF vars
    <2> QED BY <2>1, PathsStay DEF Busy
  <1> QED BY <1>1, <1>2, <1>3, <1>4, <1>5, <1>6, <1>7, <1>8, <1>9, <1>10, StepsOfNext

\* There are no paths at the start, and nobody has judged anything.
LEMMA InitPaths ==
    ASSUME Init
    PROVE  PathsInv
  BY DEF Init, PathsInv, PathsApart, JudgedOK, Busy, Idle

\* Of two paths that come from the same row, a label or a code has moved.
LEMMA PathsAreOfTheirRows ==
    ASSUME TypeInv, PathsInv
    PROVE  NeverTwice
  <1> SUFFICES ASSUME NEW p \in paths, NEW q \in paths, p.source # None, q.source # None,
                      p # q, FileRowOf(p) = FileRowOf(q)
               PROVE  /\ FileRowOf(p).id = None
                      /\ {FileRowOf(p).label, FileRowOf(p).code} \cap moved # {}
    BY DEF NeverTwice
  <1> PICK row : row = FileRowOf(p)
    OBVIOUS
  <1>1. Apart(p, q)
    BY DEF PathsInv, PathsApart
  <1>2. FromRow(p, p.source[1], p.source[2]) /\ FromRow(q, q.source[1], q.source[2])
    BY DEF PathsInv, PathOK
  <1>3. /\ p.id = row.id /\ (row.code \notin moved => p.code = row.code)
        /\ row.label \notin moved => p.satnet = means[row.label]
    BY <1>2 DEF FromRow, FileRowOf
  <1>4. /\ q.id = row.id /\ (row.code \notin moved => q.code = row.code)
        /\ row.label \notin moved => q.satnet = means[row.label]
    BY <1>2 DEF FromRow, FileRowOf
  <1>5. row.id = None /\ (row.label \in moved \/ row.code \in moved)
    BY <1>1, <1>3, <1>4 DEF Apart
  <1> QED BY <1>5

\* However often a file is uploaded and committed, an allocation in it becomes
\* one path, unless its label or the path's code has moved.
THEOREM NoAllocationTwice == Spec => []NeverTwice
  <1> USE FileAssumption
  <1>1. Init => TypeInv /\ PathsInv
    BY InitTypes, InitPaths
  <1>2. TypeInv /\ PathsInv /\ [Next]_vars => (TypeInv /\ PathsInv)'
    BY TypesHold, PathsHold
  <1>3. TypeInv /\ PathsInv => NeverTwice
    BY PathsAreOfTheirRows
  <1> QED BY <1>1, <1>2, <1>3, PTL DEF Spec

-----------------------------------------------------------------------------
(***************************************************************************)
(* The record of a commit.  overlapped marks the batches where two commits *)
(* met; everything here is about the others.                               *)
(***************************************************************************)
\* Two requests on one batch have met there.
Alone ==
    \A r, s \in Request :
        r # s /\ Busy(r) /\ Busy(s) /\ request[r].batch = request[s].batch =>
            request[r].batch \in overlapped

\* Nobody is committing what has been committed.
StillOpen ==
    \A r \in Request :
        Busy(r) /\ request[r].batch \notin overlapped =>
            batch[request[r].batch].stage # "COMMITTED"

\* A row as stored is what its commit makes of it: as it was read until it is
\* judged, as it was judged until it is done with, then written or failed.
RowFollows(r, n) ==
    LET me  == request[r]
        row == rows[me.batch][n]
    IN  /\ n \in me.done => row.result = "written" \/ row.classification = "ERROR"
        /\ n \in DOMAIN me.judged \ me.done => row.classification = me.judged[n].classification
        /\ me.step = "judging" /\ n > Len(me.judged) => row.classification = me.loaded[n]

Follows(r) ==
    Busy(r) /\ request[r].batch \notin overlapped =>
        \A n \in DOMAIN rows[request[r].batch] : RowFollows(r, n)

\* There is a path for what reads as written.
WrittenIsThere(b) ==
    \A n \in DOMAIN rows[b] :
        rows[b][n].result = "written" => \E p \in paths : p.source = <<b, n>>

\* What a committed batch says of its rows.
SaysSo(b) ==
    b \notin overlapped /\ batch[b].stage = "COMMITTED" =>
        /\ batch[b].counts = CountsOf(rows[b])
        /\ \A n \in DOMAIN rows[b] :
              rows[b][n].classification = "VALID" => rows[b][n].result = "written"

RecordInv ==
    /\ Alone /\ StillOpen
    /\ \A r \in Request : Follows(r)
    /\ \A b \in Batch : WrittenIsThere(b) /\ SaysSo(b)

\* What a path was written from stays, whatever becomes of the path.
SourcesStay == \A p \in paths : \E q \in paths' : q.source = p.source

\* What reads as written has its path as long as no more rows read so.
LEMMA ResultsStay ==
    ASSUME SourcesStay, NEW b \in Batch, WrittenIsThere(b), DOMAIN rows'[b] = DOMAIN rows[b],
           \A n \in DOMAIN rows[b] : rows'[b][n].result = rows[b][n].result
    PROVE  WrittenIsThere(b)'
  <1> SUFFICES ASSUME NEW n \in DOMAIN rows[b], rows[b][n].result = "written"
               PROVE  \E q \in paths' : q.source = <<b, n>>
    BY DEF WrittenIsThere
  <1> PICK p \in paths : p.source = <<b, n>>
    BY DEF WrittenIsThere
  <1> QED BY DEF SourcesStay

\* A batch whose rows are left alone.
LEMMA RowsLeftAlone ==
    ASSUME SourcesStay, overlapped \subseteq overlapped', NEW b \in Batch,
           rows'[b] = rows[b], batch'[b] = batch[b], WrittenIsThere(b), SaysSo(b)
    PROVE  WrittenIsThere(b)' /\ SaysSo(b)'
  <1>1. WrittenIsThere(b)'
    BY ResultsStay
  <1>2. SaysSo(b)'
    BY DEF SaysSo
  <1> QED BY <1>1, <1>2

\* A request that does nothing, on a batch whose rows are left alone.
LEMMA FollowsStill ==
    ASSUME overlapped \subseteq overlapped', NEW r \in Request, Follows(r),
           request'[r] = request[r],
           Busy(r) /\ request[r].batch \notin overlapped =>
              rows'[request[r].batch] = rows[request[r].batch]
    PROVE  Follows(r)'
  BY DEF Follows, RowFollows, Busy

\* No request begins and no stage is saved.
LEMMA AloneStill ==
    ASSUME Alone, StillOpen, UNCHANGED <<batch, overlapped>>,
           \A s \in Request : Busy(s)' => Busy(s) /\ request'[s].batch = request[s].batch
    PROVE  Alone' /\ StillOpen'
  BY DEF Alone, StillOpen, Busy

\* A step that leaves every row and every stage alone, and requests that are
\* where they were or nowhere.
LEMMA NothingRecorded ==
    ASSUME TypeInv, RecordInv, SourcesStay, UNCHANGED <<batch, rows, overlapped>>,
           \A s \in Request : request'[s] = request[s] \/ ~Busy(s)'
    PROVE  RecordInv'
  <1>1. Alone' /\ StillOpen'
    BY AloneStill DEF RecordInv, Busy
  <1>2. ASSUME NEW r \in Request PROVE Follows(r)'
    <2>1. CASE request'[r] = request[r]
      BY <2>1, FollowsStill DEF RecordInv
    <2>2. CASE ~Busy(r)'
      BY <2>2 DEF Follows
    <2> QED BY <2>1, <2>2
  <1>3. \A b \in Batch : WrittenIsThere(b)' /\ SaysSo(b)'
    BY RowsLeftAlone DEF RecordInv
  <1> QED BY <1>1, <1>2, <1>3 DEF RecordInv

\* The rows of other batches than the one a request works on.
LEMMA OtherBatches ==
    ASSUME TypeInv, RecordInv, SourcesStay, UNCHANGED <<batch, overlapped>>,
           NEW r \in Request, Busy(r), NEW b \in Batch, b = request[r].batch,
           \A c \in Batch \ {b} : rows'[c] = rows[c],
           \A s \in Request \ {r} : request'[s] = request[s]
    PROVE  /\ \A s \in Request \ {r} : Follows(s)'
           /\ \A c \in Batch \ {b} : WrittenIsThere(c)' /\ SaysSo(c)'
           /\ SaysSo(b)'
  <1>1. ASSUME NEW s \in Request \ {r} PROVE Follows(s)'
    <2>1. ASSUME Busy(s), request[s].batch \notin overlapped
          PROVE  rows'[request[s].batch] = rows[request[s].batch]
      <3>1. request[s].batch # b
        BY <2>1 DEF RecordInv, Alone
      <3>2. request[s].batch \in Batch
        BY <2>1 DEF TypeInv, RequestsOK, CommitOK
      <3> QED BY <3>1, <3>2
    <2> QED BY <2>1, FollowsStill DEF RecordInv
  <1>2. \A c \in Batch \ {b} : WrittenIsThere(c)' /\ SaysSo(c)'
    BY RowsLeftAlone DEF RecordInv
  <1>3. SaysSo(b)'
    <2>1. b \in overlapped \/ batch[b].stage # "COMMITTED"
      BY DEF RecordInv, StillOpen
    <2> QED BY <2>1 DEF SaysSo
  <1> QED BY <1>1, <1>2, <1>3

\* A dry run writes nothing, and nobody is committing it yet.
LEMMA DryRunRecords ==
    ASSUME FileAssumption, TypeInv, RecordInv, NEW b \in Batch, NEW file \in File,
           NEW policy \in BatchPolicy, DryRun(b, file, policy)
    PROVE  RecordInv'
  <1> DEFINE new == [file |-> file, policy |-> policy, stage |-> "DRY_RUN",
                     counts |-> CountsOf(JudgeAll(file))]
             row(n) == [classification |-> JudgeAll(file)[n].classification,
                        result |-> IF JudgeAll(file)[n].known THEN "known" ELSE "nothing"]
             list == [n \in DOMAIN file |-> row(n)]
  <1>1. /\ batch' = [batch EXCEPT ![b] = new] /\ rows' = [rows EXCEPT ![b] = list]
        /\ batch[b] = NoBatch /\ UNCHANGED <<paths, request, overlapped>>
    BY DEF DryRun
  <1>2. new.stage = "DRY_RUN" /\ \A n \in DOMAIN list : list[n].result # "written"
    OBVIOUS
  <1> HIDE DEF new, list, row
  <1>3. /\ batch'[b] = new /\ rows'[b] = list
        /\ \A c \in Batch \ {b} : batch'[c] = batch[c] /\ rows'[c] = rows[c]
    BY <1>1 DEF TypeInv
  <1>4. \A r \in Request : Busy(r) => request[r].batch \in Batch \ {b}
    BY <1>1 DEF TypeInv, RequestsOK, CommitOK, Exists, NoBatch
  <1>5. SourcesStay
    BY <1>1 DEF SourcesStay
  <1>6. Alone'
    BY <1>1 DEF RecordInv, Alone, Busy
  <1>7. StillOpen'
    BY <1>1, <1>3, <1>4 DEF RecordInv, StillOpen, Busy
  <1>8. \A r \in Request : Follows(r)'
    BY <1>1, <1>3, <1>4, FollowsStill DEF RecordInv
  <1>9. \A c \in Batch \ {b} : WrittenIsThere(c)' /\ SaysSo(c)'
    BY <1>1, <1>3, <1>5, RowsLeftAlone DEF RecordInv
  <1>10. WrittenIsThere(b)' /\ SaysSo(b)'
    BY <1>2, <1>3 DEF WrittenIsThere, SaysSo
  <1> QED BY <1>6, <1>7, <1>8, <1>9, <1>10 DEF RecordInv

\* A commit begins where nobody is, or the two have met.
LEMMA BeginRecords ==
    ASSUME TypeInv, RecordInv, NEW r \in Request, NEW b \in Batch, Begin(r, b)
    PROVE  RecordInv'
  <1>1. /\ UNCHANGED <<paths, batch, rows>> /\ batch[b].stage # "COMMITTED"
        /\ overlapped' = IF \E s \in Request : request[s] # Idle /\ request[s].batch = b
                         THEN overlapped \cup {b} ELSE overlapped
    BY DEF Begin, MayCommit
  <1>2. /\ request'[r].batch = b /\ request'[r].judged = <<>> /\ request'[r].done = {}
        /\ request'[r].step = "checked"
        /\ \A s \in Request \ {r} : request'[s] = request[s]
    BY BeginTypes
  <1>3. SourcesStay /\ overlapped \subseteq overlapped'
    BY <1>1 DEF SourcesStay
  <1>4. Alone'
    <2>1. ASSUME NEW s \in Request \ {r}, Busy(s), request[s].batch = b PROVE b \in overlapped'
      <3>1. request[s] # Idle
        BY <2>1 DEF Busy, Idle
      <3> QED BY <1>1, <2>1, <3>1
    <2> QED BY <1>2, <1>3, <2>1 DEF RecordInv, Alone, Busy
  <1>5. StillOpen'
    BY <1>1, <1>2, <1>3 DEF RecordInv, StillOpen, Busy
  <1>6. \A s \in Request \ {r} : Follows(s)'
    BY <1>1, <1>2, <1>3, FollowsStill DEF RecordInv
  <1>7. Follows(r)'
    BY <1>2 DEF Follows, RowFollows
  <1>8. \A c \in Batch : WrittenIsThere(c)' /\ SaysSo(c)'
    BY <1>1, <1>3, RowsLeftAlone DEF RecordInv
  <1> QED BY <1>4, <1>5, <1>6, <1>7, <1>8 DEF RecordInv

\* The rows are read as they are.
LEMMA ReadRowsRecords ==
    ASSUME TypeInv, RecordInv, NEW r \in Request, ReadRows(r)
    PROVE  RecordInv'
  <1>1. UNCHANGED <<paths, batch, rows, overlapped>>
    BY DEF ReadRows
  <1>2. /\ Busy(r) /\ request[r].step = "checked"
        /\ request'[r].step = "judging" /\ request'[r].batch = request[r].batch
        /\ request'[r].judged = <<>> /\ request'[r].done = request[r].done
        /\ request'[r].loaded = [n \in DOMAIN rows[request[r].batch] |->
                                    rows[request[r].batch][n].classification]
        /\ \A s \in Request \ {r} : request'[s] = request[s]
    BY ReadRowsTypes
  <1>3. SourcesStay
    BY <1>1 DEF SourcesStay
  <1>4. Alone' /\ StillOpen'
    BY <1>1, <1>2, AloneStill DEF RecordInv, Busy
  <1> PICK b \in Batch : b = request[r].batch
    BY <1>2 DEF TypeInv, RequestsOK, CommitOK
  <1>5. request[r].done = {}
    <2>1. request[r].judged = <<>> /\ request[r].done \subseteq DOMAIN request[r].judged
      BY <1>2 DEF TypeInv, RequestsOK, CommitOK
    <2> QED BY <2>1
  <1>6. Follows(r)'
    BY <1>1, <1>2, <1>5 DEF Follows, RowFollows
  <1>7. /\ \A s \in Request \ {r} : Follows(s)'
        /\ \A c \in Batch \ {b} : WrittenIsThere(c)' /\ SaysSo(c)'
        /\ SaysSo(b)'
    BY <1>1, <1>2, <1>3, OtherBatches
  <1>8. WrittenIsThere(b)'
    BY <1>1, <1>3, RowsLeftAlone DEF RecordInv
  <1> QED BY <1>4, <1>6, <1>7, <1>8 DEF RecordInv

\* A row judged again is saved when it reads otherwise, and not else.
LEMMA RejudgeRecords ==
    ASSUME TypeInv, RecordInv, NEW r \in Request, Rejudge(r)
    PROVE  RecordInv'
  <1> DEFINE n   == Len(request[r].judged) + 1
             new == Judge(Of(r).file, request[r].judged, n)
  <1>1. /\ TypeInv' /\ UNCHANGED <<paths, batch>>
        /\ Busy(r) /\ request[r].step = "judging"
        /\ request'[r].batch = request[r].batch /\ request'[r].done = request[r].done
        /\ request'[r].loaded = request[r].loaded
        /\ \A s \in Request \ {r} : request'[s] = request[s]
        /\ n \in DOMAIN rows[request[r].batch]
        /\ request'[r].judged = Append(request[r].judged, new)
        /\ new \in Judgement
        /\ rows' = IF new.classification # request[r].loaded[n]
                   THEN Reclassified(request[r].batch, n, new.classification) ELSE rows
    BY RejudgeTypes
  <1>2. UNCHANGED overlapped
    BY DEF Rejudge
  <1>3. SourcesStay
    BY <1>1 DEF SourcesStay
  <1>4. Alone' /\ StillOpen'
    BY <1>1, <1>2, AloneStill DEF RecordInv, Busy
  <1> PICK b \in Batch : b = request[r].batch
    BY <1>1 DEF TypeInv, RequestsOK, CommitOK
  <1> PICK judged \in Seq(Judgement) : judged = request[r].judged
    BY <1>1 DEF TypeInv, RequestsOK, CommitOK
  <1> PICK k \in Nat : k = n
    BY <1>1
  <1> PICK answer : answer = new
    OBVIOUS
  <1>5. k = Len(judged) + 1 /\ k \in DOMAIN rows[b] /\ DOMAIN rows[b] \subseteq Nat
    BY <1>1 DEF TypeInv, RequestsOK, CommitOK, BatchesOK, BatchOK
  <1>6. /\ answer \in Judgement /\ request'[r].judged = Append(judged, answer)
        /\ rows' = IF answer.classification # request[r].loaded[k]
                   THEN Reclassified(b, k, answer.classification) ELSE rows
    BY <1>1
  <1> HIDE DEF n, new
  <1>7. /\ \A c \in Batch \ {b} : rows'[c] = rows[c]
        /\ DOMAIN rows'[b] = DOMAIN rows[b]
        /\ \A m \in DOMAIN rows[b] \ {k} : rows'[b][m] = rows[b][m]
        /\ rows'[b][k].result = rows[b][k].result
        /\ \/ rows'[b][k].classification = answer.classification
           \/ rows'[b][k] = rows[b][k] /\ answer.classification = request[r].loaded[k]
    <2>1. CASE rows' = rows /\ answer.classification = request[r].loaded[k]
      BY <2>1
    <2>2. CASE rows' = Reclassified(b, k, answer.classification)
      BY <1>5, <2>2, ReclassifiedRow
    <2> QED BY <1>6, <2>1, <2>2
  <1>8. /\ \A s \in Request \ {r} : Follows(s)'
        /\ \A c \in Batch \ {b} : WrittenIsThere(c)' /\ SaysSo(c)'
        /\ SaysSo(b)'
    BY <1>1, <1>2, <1>3, <1>7, OtherBatches
  <1>9. WrittenIsThere(b)'
    <2>1. \A m \in DOMAIN rows[b] : rows'[b][m].result = rows[b][m].result
      BY <1>7
    <2> QED BY <1>3, <1>7, <2>1, ResultsStay DEF RecordInv
  <1>10. ASSUME b \notin overlapped, NEW m \in DOMAIN rows[b] PROVE RowFollows(r, m)'
    <2>1. RowFollows(r, m)
      BY <1>1, <1>10 DEF RecordInv, Follows
    <2>2. request[r].done \subseteq DOMAIN judged
      BY <1>1 DEF TypeInv, RequestsOK, CommitOK
    <2>3. CASE m = k
      <3>1. /\ m \notin request[r].done /\ m > Len(judged) /\ request'[r].judged[m] = answer
            /\ ~(m > Len(request'[r].judged))
        BY <1>5, <1>6, <2>2, <2>3
      <3>2. rows[b][m].classification = request[r].loaded[m]
        BY <1>1, <2>1, <3>1 DEF RowFollows
      <3>3. rows'[b][m].classification = answer.classification
        BY <1>7, <2>3, <3>2
      <3> QED BY <1>1, <3>1, <3>3 DEF RowFollows
    <2>4. CASE m # k
      <3>1. rows'[b][m] = rows[b][m]
        BY <1>7, <2>4
      <3>2. /\ m \in DOMAIN request'[r].judged => /\ m \in DOMAIN judged
                                                  /\ request'[r].judged[m] = judged[m]
            /\ m > Len(request'[r].judged) => m > Len(judged)
        BY <1>5, <1>6, <2>4
      <3> QED BY <1>1, <2>1, <3>1, <3>2 DEF RowFollows
    <2> QED BY <2>3, <2>4
  <1>11. Follows(r)'
    BY <1>1, <1>2, <1>7, <1>10 DEF Follows
  <1> QED BY <1>4, <1>8, <1>9, <1>11 DEF RecordInv

\* Rows are written: each says so, and has its path.
LEMMA WriteRecords ==
    ASSUME TypeInv, RecordInv, NEW r \in Request, Writing(r), NEW ns, ns \subseteq Left(r),
           Written(r, ns), DoneWith(r, ns)
    PROVE  RecordInv'
  <1>1. /\ Busy(r) /\ UNCHANGED <<batch, overlapped>> /\ request[r].step = "judging"
        /\ paths' = paths \cup {PathOf(r, n) : n \in ns}
    BY DEF Writing, Busy, Written
  <1>2. TypeInv' /\ FilesStay
    BY WriteTypes
  <1>3. /\ request'[r].batch = request[r].batch /\ request'[r].judged = request[r].judged
        /\ request'[r].step = "judging" /\ request'[r].loaded = request[r].loaded
        /\ request'[r].done = request[r].done \cup ns
        /\ \A s \in Request \ {r} : request'[s] = request[s]
    BY <1>2, DoneTypes
  <1>4. SourcesStay
    BY <1>1 DEF SourcesStay
  <1>5. Alone' /\ StillOpen'
    BY <1>1, <1>3, AloneStill DEF RecordInv, Busy
  <1> PICK b \in Batch : b = request[r].batch
    BY <1>1 DEF TypeInv, RequestsOK, CommitOK
  <1>6. /\ \A c \in Batch \ {b} : rows'[c] = rows[c]
        /\ DOMAIN rows'[b] = DOMAIN rows[b]
        /\ \A m \in DOMAIN rows[b] :
              /\ rows'[b][m].classification = rows[b][m].classification
              /\ rows'[b][m].result = IF m \in ns THEN "written" ELSE rows[b][m].result
    BY <1>1, WrittenRows
  <1>7. /\ \A s \in Request \ {r} : Follows(s)'
        /\ \A c \in Batch \ {b} : WrittenIsThere(c)' /\ SaysSo(c)'
        /\ SaysSo(b)'
    BY <1>1, <1>3, <1>4, <1>6, OtherBatches
  <1>8. WrittenIsThere(b)'
    <2> SUFFICES ASSUME NEW m \in DOMAIN rows[b], rows'[b][m].result = "written"
                 PROVE  \E q \in paths' : q.source = <<b, m>>
      BY <1>6 DEF WrittenIsThere
    <2>1. CASE m \in ns
      <3>1. PathOf(r, m).source = <<b, m>>
        BY DEF PathOf
      <3> QED BY <1>1, <2>1, <3>1
    <2>2. CASE m \notin ns
      <3>1. rows[b][m].result = "written"
        BY <1>6, <2>2
      <3>2. \E p \in paths : p.source = <<b, m>>
        BY <3>1 DEF RecordInv, WrittenIsThere
      <3> QED BY <1>4, <3>2 DEF SourcesStay
    <2> QED BY <2>1, <2>2
  <1>9. ASSUME b \notin overlapped, NEW m \in DOMAIN rows[b] PROVE RowFollows(r, m)'
    <2>1. RowFollows(r, m)
      BY <1>1, <1>9 DEF RecordInv, Follows
    <2> QED BY <1>1, <1>3, <1>6, <2>1 DEF RowFollows
  <1>10. Follows(r)'
    BY <1>1, <1>3, <1>6, <1>9 DEF Follows
  <1> QED BY <1>5, <1>7, <1>8, <1>10 DEF RecordInv

\* A row that cannot be written is done with as an error.
LEMMA FailureRecords ==
    ASSUME TypeInv, RecordInv, NEW r \in Request, NEW n \in RowNumber, RecordFailure(r, n)
    PROVE  RecordInv'
  <1>1. /\ TypeInv' /\ FilesStay /\ UNCHANGED <<paths, batch, overlapped>>
        /\ Writing(r) /\ n \in Left(r) /\ DoneWith(r, {n})
        /\ n \in DOMAIN rows[request[r].batch]
        /\ rows' = Reclassified(request[r].batch, n, "ERROR")
    BY FailureTypes
  <1>2. Busy(r) /\ request[r].step = "judging" /\ {n} \subseteq Left(r)
    BY <1>1 DEF Writing, Busy
  <1>3. /\ request'[r].batch = request[r].batch /\ request'[r].judged = request[r].judged
        /\ request'[r].step = "judging" /\ request'[r].loaded = request[r].loaded
        /\ request'[r].done = request[r].done \cup {n}
        /\ \A s \in Request \ {r} : request'[s] = request[s]
    BY <1>1, <1>2, DoneTypes
  <1>4. SourcesStay
    BY <1>1 DEF SourcesStay
  <1>5. Alone' /\ StillOpen'
    BY <1>1, <1>2, <1>3, AloneStill DEF RecordInv, Busy
  <1> PICK b \in Batch : b = request[r].batch
    BY <1>2 DEF TypeInv, RequestsOK, CommitOK
  <1>6. /\ \A c \in Batch \ {b} : rows'[c] = rows[c]
        /\ DOMAIN rows'[b] = DOMAIN rows[b]
        /\ \A m \in DOMAIN rows[b] \ {n} : rows'[b][m] = rows[b][m]
        /\ rows'[b][n].classification = "ERROR" /\ rows'[b][n].result = rows[b][n].result
    BY <1>1, ReclassifiedRow
  <1>7. /\ \A s \in Request \ {r} : Follows(s)'
        /\ \A c \in Batch \ {b} : WrittenIsThere(c)' /\ SaysSo(c)'
        /\ SaysSo(b)'
    BY <1>1, <1>2, <1>3, <1>4, <1>6, OtherBatches
  <1>8. WrittenIsThere(b)'
    <2>1. \A m \in DOMAIN rows[b] : rows'[b][m].result = rows[b][m].result
      BY <1>6
    <2> QED BY <1>4, <1>6, <2>1, ResultsStay DEF RecordInv
  <1>9. ASSUME b \notin overlapped, NEW m \in DOMAIN rows[b] PROVE RowFollows(r, m)'
    <2>1. RowFollows(r, m)
      BY <1>2, <1>9 DEF RecordInv, Follows
    <2>2. CASE m = n
      <3>1. m \in request'[r].done /\ rows'[b][m].classification = "ERROR"
        BY <1>3, <1>6, <2>2
      <3>2. ~(m > Len(request'[r].judged))
        <4>1. request[r].judged \in Seq(Judgement) /\ n \in DOMAIN request[r].judged
          BY <1>2, LeftRows DEF TypeInv, RequestsOK, CommitOK
        <4> QED BY <1>3, <2>2, <4>1
      <3> QED BY <1>3, <3>1, <3>2 DEF RowFollows
    <2>3. CASE m # n
      BY <1>2, <1>3, <1>6, <2>1, <2>3 DEF RowFollows
    <2> QED BY <2>2, <2>3
  <1>10. Follows(r)'
    BY <1>1, <1>2, <1>3, <1>6, <1>9 DEF Follows
  <1> QED BY <1>5, <1>7, <1>8, <1>10 DEF RecordInv

\* The stage is saved when no committable row is left.
LEMMA FinishRecords ==
    ASSUME TypeInv, RecordInv, NEW r \in Request, Finish(r)
    PROVE  RecordInv'
  <1>1. request[r] # Idle
    BY DEF Finish
  <1> PICK b \in Batch : b = request[r].batch
    BY <1>1 DEF TypeInv, RequestsOK, CommitOK
  <1>2. /\ TypeInv' /\ Busy(r) /\ Writing(r) /\ Left(r) = {}
        /\ UNCHANGED <<paths, rows, overlapped>>
        /\ request'[r] = Idle /\ \A s \in Request \ {r} : request'[s] = request[s]
        /\ \A c \in Batch \ {b} : batch'[c] = batch[c]
        /\ batch'[b].stage = "COMMITTED" /\ batch'[b].counts = CountsOf(rows[b])
    BY FinishTypes
  <1>3. SourcesStay /\ ~Busy(r)'
    BY <1>2 DEF SourcesStay, Busy, Idle
  <1>4. Alone'
    BY <1>2, <1>3 DEF RecordInv, Alone, Busy
  <1>5. StillOpen'
    <2> SUFFICES ASSUME NEW s \in Request, Busy(s)', request'[s].batch \notin overlapped'
                 PROVE  batch'[request'[s].batch].stage # "COMMITTED"
      BY DEF StillOpen
    <2>1. s # r /\ request'[s] = request[s] /\ Busy(s)
      BY <1>2, <1>3 DEF Busy
    <2>2. request[s].batch # b
      BY <1>2, <2>1 DEF RecordInv, Alone
    <2>3. request[s].batch \in Batch
      BY <2>1 DEF TypeInv, RequestsOK, CommitOK
    <2> QED BY <1>2, <2>1, <2>2, <2>3 DEF RecordInv, StillOpen
  <1>6. ASSUME NEW s \in Request PROVE Follows(s)'
    <2>1. CASE s = r
      BY <1>3, <2>1 DEF Follows
    <2>2. CASE s # r
      BY <1>2, <2>2, FollowsStill DEF RecordInv
    <2> QED BY <2>1, <2>2
  <1>7. \A c \in Batch \ {b} : WrittenIsThere(c)' /\ SaysSo(c)'
    BY <1>2, <1>3, RowsLeftAlone DEF RecordInv
  <1>8. WrittenIsThere(b)'
    BY <1>2 DEF RecordInv, WrittenIsThere
  <1>9. SaysSo(b)'
    <2> SUFFICES ASSUME b \notin overlapped, NEW n \in DOMAIN rows[b],
                        rows[b][n].classification = "VALID"
                 PROVE  rows[b][n].result = "written"
      BY <1>2 DEF SaysSo
    <2>1. RowFollows(r, n)
      BY <1>2 DEF RecordInv, Follows
    <2>2. n \in DOMAIN request[r].judged
      BY <1>2 DEF Writing, Of, TypeInv, RequestsOK, CommitOK, BatchesOK, BatchOK
    <2>3. n \notin request[r].done => request[r].judged[n].classification = "VALID"
      BY <2>1, <2>2 DEF RowFollows
    <2>4. n \in request[r].done
      BY <1>2, <2>2, <2>3 DEF Left
    <2> QED BY <2>1, <2>4 DEF RowFollows
  <1> QED BY <1>4, <1>5, <1>6, <1>7, <1>8, <1>9 DEF RecordInv

\* What others do leaves every record alone, and where paths came from.
LEMMA OthersRecord ==
    ASSUME TypeInv, PathsInv, RecordInv, Others
    PROVE  RecordInv'
  <1>1. UNCHANGED <<batch, rows, request, overlapped>>
    BY OthersTypes
  <1>2. SourcesStay
    <2>1. ASSUME NEW path \in paths, NEW code \in Code, OperatorRenames(path, code)
          PROVE  SourcesStay
      <3>1. DOMAIN path = {"id", "satnet", "code", "source"}
        BY DEF PathsInv, PathOK
      <3>2. [path EXCEPT !.code = code].source = path.source
        BY <3>1
      <3>3. paths' = (paths \ {path}) \cup {[path EXCEPT !.code = code]}
        BY <2>1 DEF OperatorRenames
      <3> QED BY <3>2, <3>3 DEF SourcesStay
    <2>2. ASSUME NEW satnet \in Satnet, NEW code \in Code, OperatorCreates(satnet, code)
          PROVE  SourcesStay
      BY <2>2 DEF OperatorCreates, SourcesStay
    <2>3. ASSUME NEW label \in Label, NEW satnet \in Satnet \cup {None}, Remeans(label, satnet)
          PROVE  SourcesStay
      BY <2>3 DEF Remeans, SourcesStay
    <2> QED BY <2>1, <2>2, <2>3 DEF Others
  <1> QED BY <1>1, <1>2, NothingRecorded

\* Every step keeps the record true.
LEMMA RecordHolds ==
    ASSUME FileAssumption, TypeInv, PathsInv, RecordInv, [Next]_vars
    PROVE  RecordInv'
  <1>1. CASE \E b \in Batch, file \in File, policy \in BatchPolicy : DryRun(b, file, policy)
    BY <1>1, DryRunRecords
  <1>2. CASE \E r \in Request, b \in Batch : Begin(r, b)
    BY <1>2, BeginRecords
  <1>3. CASE \E r \in Request : ReadRows(r)
    BY <1>3, ReadRowsRecords
  <1>4. CASE \E r \in Request : Rejudge(r)
    BY <1>4, RejudgeRecords
  <1>5. CASE \E r \in Request : \E ns \in SUBSET Left(r) :
                Writing(r) /\ Written(r, ns) /\ DoneWith(r, ns)
    BY <1>5, WriteRecords
  <1>6. CASE \E r \in Request, n \in RowNumber : RecordFailure(r, n)
    BY <1>6, FailureRecords
  <1>7. CASE \E r \in Request : Finish(r)
    BY <1>7, FinishRecords
  <1>8. ASSUME NEW r \in Request, Advance(r, Idle), UNCHANGED <<paths, batch, rows, overlapped>>
        PROVE  RecordInv'
    <2>1. request'[r] = Idle /\ \A s \in Request \ {r} : request'[s] = request[s]
      BY <1>8, AdvanceChangesOne DEF TypeInv
    <2>2. SourcesStay
      BY <1>8 DEF SourcesStay
    <2> QED BY <1>8, <2>1, <2>2, NothingRecorded DEF Busy, Idle
  <1>9. CASE Others
    BY <1>9, OthersRecord
  <1>10. CASE UNCHANGED vars
    <2>1. UNCHANGED <<paths, batch, rows, request, overlapped>>
      BY <1>10 DEF vars
    <2>2. SourcesStay
      BY <2>1 DEF SourcesStay
    <2> QED BY <2>1, <2>2, NothingRecorded
  <1> QED BY <1>1, <1>2, <1>3, <1>4, <1>5, <1>6, <1>7, <1>8, <1>9, <1>10, StepsOfNext

\* Nothing is recorded at the start.
LEMMA InitRecord ==
    ASSUME Init
    PROVE  RecordInv
  BY DEF Init, RecordInv, Alone, StillOpen, Follows, WrittenIsThere, SaysSo, Busy, Idle, NoBatch

\* The inductive invariant.
Invariant == TypeInv /\ PathsInv /\ RecordInv

\* Every step of Spec keeps all of it.
LEMMA InvariantHolds == Spec => []Invariant
  <1> USE FileAssumption
  <1>1. Init => Invariant
    BY InitTypes, InitPaths, InitRecord DEF Invariant
  <1>2. Invariant /\ [Next]_vars => Invariant'
    BY TypesHold, PathsHold, RecordHolds DEF Invariant
  <1> QED BY <1>1, <1>2, PTL DEF Spec

\* A committed batch says what happened: its counts are those of its rows, and
\* a committable row reads as written, and was.
THEOREM CommittedRecordIsTrue == Spec => []RecordIsTrue
  <1>1. Invariant => RecordIsTrue
    BY DEF Invariant, RecordInv, RecordIsTrue, Settled, SaysSo, WrittenIsThere
  <1> QED BY <1>1, InvariantHolds, PTL

\* Only a write makes rows read as written.
LEMMA OnlyWritesWrite ==
    ASSUME FileAssumption, TypeInv, [Next]_vars, NEW b \in Batch, batch[b] # NoBatch,
           WrittenFrom(b)' # WrittenFrom(b)
    PROVE  \E r \in Request : \E ns \in SUBSET Left(r) :
              /\ request[r].batch = b
              /\ Writing(r) /\ Written(r, ns) /\ DoneWith(r, ns)
              /\ Of(r).policy = "ALL_OR_NOTHING" => ns = Left(r)
  <1>1. ASSUME DOMAIN rows'[b] = DOMAIN rows[b],
               \A n \in DOMAIN rows[b] : rows'[b][n].result = rows[b][n].result
        PROVE  FALSE
    BY <1>1 DEF WrittenFrom
  <1>2. ASSUME rows'[b] = rows[b] PROVE FALSE
    BY <1>1, <1>2
  <1>3. ASSUME NEW c \in Batch, NEW n \in DOMAIN rows[c], NEW class,
               rows' = Reclassified(c, n, class)
        PROVE  FALSE
    <2>1. /\ \A d \in Batch \ {c} : rows'[d] = rows[d]
          /\ DOMAIN rows'[c] = DOMAIN rows[c]
          /\ \A m \in DOMAIN rows[c] \ {n} : rows'[c][m] = rows[c][m]
          /\ rows'[c][n].result = rows[c][n].result
      BY <1>3, ReclassifiedRow
    <2> QED BY <1>1, <1>2, <2>1
  <1>4. ASSUME NEW c \in Batch, NEW file \in File, NEW policy \in BatchPolicy,
               DryRun(c, file, policy)
        PROVE  FALSE
    <2>1. /\ batch[c] = NoBatch
          /\ \A d \in Batch \ {c} : rows'[d] = rows[d]
      BY <1>4 DEF DryRun, TypeInv
    <2> QED BY <1>2, <2>1
  <1>5. ASSUME NEW r \in Request, Rejudge(r) PROVE FALSE
    <2>1. /\ Busy(r) /\ Len(request[r].judged) + 1 \in DOMAIN rows[request[r].batch]
          /\ \/ rows' = rows
             \/ \E class : rows' = Reclassified(request[r].batch, Len(request[r].judged) + 1, class)
      BY <1>5, RejudgeTypes
    <2>2. request[r].batch \in Batch
      BY <2>1 DEF TypeInv, RequestsOK, CommitOK
    <2> QED BY <1>2, <1>3, <2>1, <2>2
  <1>6. ASSUME NEW r \in Request, NEW n \in RowNumber, RecordFailure(r, n) PROVE FALSE
    <2>1. /\ Writing(r) /\ n \in DOMAIN rows[request[r].batch]
          /\ rows' = Reclassified(request[r].batch, n, "ERROR")
      BY <1>6, FailureTypes
    <2>2. request[r].batch \in Batch
      BY <2>1 DEF Writing, Busy, TypeInv, RequestsOK, CommitOK
    <2> QED BY <1>3, <2>1, <2>2
  <1>7. ASSUME NEW r \in Request, Finish(r) PROVE FALSE
    BY <1>2, <1>7 DEF Finish
  <1>8. ASSUME NEW r \in Request, NEW ns \in SUBSET Left(r),
               Writing(r), Written(r, ns), DoneWith(r, ns)
        PROVE  request[r].batch = b
    <2>1. Busy(r)
      BY <1>8 DEF Writing, Busy
    <2>2. \A d \in Batch \ {request[r].batch} : rows'[d] = rows[d]
      BY <1>8, <2>1, WrittenRows
    <2> QED BY <1>2, <2>2
  <1>9. ASSUME NEW r \in Request, NEW c \in Batch, Begin(r, c) PROVE FALSE
    BY <1>2, <1>9 DEF Begin
  <1>10. ASSUME NEW r \in Request, ReadRows(r) PROVE FALSE
    BY <1>2, <1>10 DEF ReadRows
  <1>11. ASSUME Others PROVE FALSE
    BY <1>2, <1>11, OthersTypes
  <1>12. ASSUME UNCHANGED vars PROVE FALSE
    BY <1>2, <1>12 DEF vars
  <1> QED BY <1>2, <1>4, <1>5, <1>6, <1>7, <1>8, <1>9, <1>10, <1>11, <1>12, StepsOfNext

\* And a write of an all-or-nothing batch writes all that is committable.
LEMMA WritesTogether ==
    ASSUME TypeInv, RecordInv, NEW r \in Request, NEW b \in Batch, request[r].batch = b,
           b \notin overlapped, batch[b].policy = "ALL_OR_NOTHING",
           Writing(r), Written(r, Left(r)), NEW n \in DOMAIN rows'[b],
           rows'[b][n].classification = "VALID"
    PROVE  n \in WrittenFrom(b)'
  <1>1. Busy(r) /\ request[r].step = "judging"
    BY DEF Writing, Busy
  <1>2. /\ DOMAIN rows'[b] = DOMAIN rows[b]
        /\ rows'[b][n].classification = rows[b][n].classification
        /\ rows'[b][n].result = IF n \in Left(r) THEN "written" ELSE rows[b][n].result
    BY <1>1, WrittenRows
  <1>3. RowFollows(r, n)
    BY <1>1, <1>2 DEF RecordInv, Follows
  <1>4. n \in DOMAIN request[r].judged
    BY <1>1, <1>2 DEF Writing, Of, TypeInv, RequestsOK, CommitOK, BatchesOK, BatchOK
  <1>5. n \in Left(r) \/ rows[b][n].result = "written"
    BY <1>2, <1>3, <1>4 DEF RowFollows, Left
  <1> QED BY <1>2, <1>5 DEF WrittenFrom

\* The rows of an all-or-nothing batch become paths together.
THEOREM WrittenTogether == Spec => AllAtOnce
  <1> DEFINE Together ==
               \A b \in Batch :
                  (Settled(b) /\ batch[b].policy = "ALL_OR_NOTHING"
                     /\ WrittenFrom(b)' # WrittenFrom(b)) =>
                        \A n \in DOMAIN rows'[b] :
                           rows'[b][n].classification = "VALID" => n \in WrittenFrom(b)'
  <1>1. ASSUME Invariant, [Next]_vars PROVE Together
    <2> SUFFICES ASSUME NEW b \in Batch, Settled(b), batch[b].policy = "ALL_OR_NOTHING",
                        WrittenFrom(b)' # WrittenFrom(b),
                        NEW n \in DOMAIN rows'[b], rows'[b][n].classification = "VALID"
                 PROVE  n \in WrittenFrom(b)'
      OBVIOUS
    <2>1. TypeInv /\ RecordInv /\ b \notin overlapped /\ batch[b] # NoBatch
      BY <1>1 DEF Invariant, Settled
    <2>2. \E r \in Request : \E ns \in SUBSET Left(r) :
             /\ request[r].batch = b
             /\ Writing(r) /\ Written(r, ns) /\ DoneWith(r, ns)
             /\ Of(r).policy = "ALL_OR_NOTHING" => ns = Left(r)
      BY <1>1, <2>1, FileAssumption, OnlyWritesWrite
    <2> PICK r \in Request : request[r].batch = b /\ Writing(r) /\ Written(r, Left(r))
      BY <2>2 DEF Of
    <2> QED BY <2>1, WritesTogether
  <1>2. Invariant /\ [Next]_vars => [Together]_vars
    BY <1>1
  <1> QED BY <1>2, InvariantHolds, PTL DEF Spec, AllAtOnce
-----------------------------------------------------------------------------
(***************************************************************************)
(* The types of everything.  JudgeAll goes over a file by recursion: that  *)
(* there is such a function, and what it makes of a file of any length, is *)
(* shown by the smallest number of rows for which it were not so.          *)
(***************************************************************************)
\* Of numbers there is a least.
LEMMA LeastNumber ==
    ASSUME NEW S \in SUBSET Nat, S # {}
    PROVE  \E n \in S : \A m \in S : n <= m
  <1>1. PICK n \in S : \A m \in S : ~(<<m, n>> \in OpToRel(<, Nat))
    BY NatLessThanWellFounded, WFMin
  <1>2. \A m \in S : m \in Nat /\ n \in Nat
    OBVIOUS
  <1>3. \A m \in S : ~(m < n)
    BY <1>1, <1>2 DEF OpToRel
  <1> QED BY <1>2, <1>3

\* F judges the first rows of a file, as JudgeAll does.
Judges(file, F, count) ==
    F = [n \in 0 .. count |->
           IF n = 0 THEN <<>> ELSE Append(F[n - 1], Judge(file, F[n - 1], n))]

\* However many rows there are, some function judges them.
LEMMA SomethingJudges ==
    ASSUME NEW file, NEW count \in Nat
    PROVE  \E F : Judges(file, F, count)
  <1> DEFINE Unjudged == {k \in Nat : ~\E F : Judges(file, F, k)}
  <1> SUFFICES ASSUME Unjudged # {} PROVE FALSE
    OBVIOUS
  <1>1. PICK k \in Unjudged : \A m \in Unjudged : k <= m
    <2>1. Unjudged \in SUBSET Nat
      OBVIOUS
    <2> HIDE DEF Unjudged
    <2> QED BY <2>1, LeastNumber
  <1>2. k # 0
    <2> DEFINE G == [n \in 0 .. 0 |-> <<>>]
    <2>1. Judges(file, G, 0)
      BY DEF Judges
    <2> QED BY <2>1
  <1>3. k - 1 \in Nat /\ k - 1 \notin Unjudged
    BY <1>1, <1>2
  <1>4. PICK F : Judges(file, F, k - 1)
    BY <1>3
  <1> DEFINE G == [n \in 0 .. k |->
                     IF n = k THEN Append(F[k - 1], Judge(file, F[k - 1], k)) ELSE F[n]]
  <1>5. \A n \in 0 .. k :
            G[n] = IF n = 0 THEN <<>> ELSE Append(G[n - 1], Judge(file, G[n - 1], n))
    <2> TAKE n \in 0 .. k
    <2>1. CASE n = k
      <3>1. G[n - 1] = F[k - 1]
        BY <1>3, <2>1
      <3> QED BY <1>2, <2>1, <3>1
    <2>2. CASE n # k
      <3>1. n \in 0 .. k - 1
        BY <1>3, <2>2
      <3>2. F[n] = IF n = 0 THEN <<>> ELSE Append(F[n - 1], Judge(file, F[n - 1], n))
        BY <1>4, <3>1 DEF Judges
      <3>3. n # 0 => G[n - 1] = F[n - 1]
        BY <3>1
      <3> QED BY <2>2, <3>2, <3>3
    <2> QED BY <2>1, <2>2
  <1>6. Judges(file, G, k)
    <2>1. G = [n \in 0 .. k |-> G[n]]
      OBVIOUS
    <2> HIDE DEF G
    <2> QED BY <1>5, <2>1 DEF Judges
  <1> QED BY <1>6

\* It answers once for every row.
LEMMA EveryRowIsJudged ==
    ASSUME means \in [Label -> Satnet \cup {None}], NEW file \in Seq(FileRow)
    PROVE  JudgeAll(file) \in Seq(Judgement) /\ Len(JudgeAll(file)) = Len(file)
  <1>1. Len(file) \in Nat
    OBVIOUS
  <1>2. PICK F : Judges(file, F, Len(file)) /\ JudgeAll(file) = F[Len(file)]
    <2>1. JudgeAll(file) = (CHOOSE F : Judges(file, F, Len(file)))[Len(file)]
      BY DEF JudgeAll, Judges
    <2> QED BY <1>1, <2>1, SomethingJudges
  <1>3. \A n \in 0 .. Len(file) :
            F[n] = IF n = 0 THEN <<>> ELSE Append(F[n - 1], Judge(file, F[n - 1], n))
    BY <1>2 DEF Judges
  <1> DEFINE Wrong == {n \in 0 .. Len(file) : ~(F[n] \in Seq(Judgement) /\ Len(F[n]) = n)}
  <1>4. Wrong = {}
    <2> SUFFICES ASSUME Wrong # {} PROVE FALSE
      OBVIOUS
    <2>1. PICK k \in Wrong : \A m \in Wrong : k <= m
      <3>1. Wrong \in SUBSET Nat
        OBVIOUS
      <3> HIDE DEF Wrong
      <3> QED BY <3>1, LeastNumber
    <2>2. k \in 0 .. Len(file) /\ ~(F[k] \in Seq(Judgement) /\ Len(F[k]) = k)
      OBVIOUS
    <2>3. k # 0
      <3>1. F[0] = <<>>
        BY <1>1, <1>3
      <3>2. <<>> \in Seq(Judgement) /\ Len(<<>>) = 0
        OBVIOUS
      <3> HIDE DEF Wrong
      <3> QED BY <2>2, <3>1, <3>2
    <2>4. k - 1 \in 0 .. Len(file) /\ k \in 1 .. Len(file) /\ ~(k <= k - 1)
      BY <1>1, <2>2, <2>3
    <2>5. F[k - 1] \in Seq(Judgement) /\ Len(F[k - 1]) = k - 1
      BY <2>1, <2>4
    <2>6. F[k] = Append(F[k - 1], Judge(file, F[k - 1], k))
      BY <1>3, <2>2, <2>3
    <2>7. Judge(file, F[k - 1], k) \in Judgement
      BY <2>4, JudgeAnswers
    <2>8. F[k] \in Seq(Judgement) /\ Len(F[k]) = k
      BY <2>2, <2>5, <2>6, <2>7
    <2> QED BY <2>8
  <1> QED BY <1>1, <1>2, <1>4

\* Rows are counted.
LEMMA CountsType ==
    ASSUME NEW some, NEW count \in Nat, DOMAIN some = 1 .. count
    PROVE  CountsOf(some) \in [RowClassification -> Nat]
  <1> SUFFICES ASSUME NEW class \in RowClassification
               PROVE  Cardinality({n \in DOMAIN some : some[n].classification = class}) \in Nat
    BY DEF CountsOf
  <1> DEFINE of == {n \in 1 .. count : some[n].classification = class}
  <1>1. IsFiniteSet(1 .. count) /\ of \in SUBSET (1 .. count)
    BY FS_Interval
  <1>2. IsFiniteSet(of)
    <2> HIDE DEF of
    <2> QED BY <1>1, FS_Subset
  <1> HIDE DEF of
  <1>3. Cardinality(of) \in Nat
    BY <1>2, FS_CardinalityType
  <1> QED BY <1>3 DEF of

\* Every path is a path.
LEMMA PathsTyped ==
    ASSUME FileAssumption, Invariant, TypeOK, [Next]_vars
    PROVE  paths' \subseteq SatnetPath
  <1> USE DEF TypeOK
  <1>1. CASE \E b \in Batch, file \in File, policy \in BatchPolicy : DryRun(b, file, policy)
    BY <1>1 DEF DryRun
  <1>2. CASE \E r \in Request, b \in Batch : Begin(r, b)
    BY <1>2 DEF Begin
  <1>3. CASE \E r \in Request : ReadRows(r)
    BY <1>3 DEF ReadRows
  <1>4. CASE \E r \in Request : Rejudge(r)
    BY <1>4 DEF Rejudge
  <1>5. ASSUME NEW r \in Request, NEW ns \in SUBSET Left(r), Writing(r), Written(r, ns)
        PROVE  paths' \subseteq SatnetPath
    <2> SUFFICES ASSUME NEW n \in ns PROVE PathOf(r, n) \in SatnetPath
      BY <1>5 DEF Written
    <2>1. Busy(r) /\ CommitOK(r) /\ JudgedOK(r)
      BY <1>5 DEF Invariant, TypeInv, RequestsOK, PathsInv, Writing, Busy
    <2>2. n \in DOMAIN request[r].judged /\ request[r].judged[n].classification = "VALID"
      BY DEF Left
    <2>3. request[r].judged[n].satnet \in Satnet
      BY <2>1, <2>2 DEF JudgedOK, CommittableOK
    <2>4. Of(r).file \in Seq(FileRow) /\ Len(request[r].judged) = Len(Of(r).file)
      BY <1>5, <2>1 DEF Of, CommitOK, Invariant, TypeInv, BatchesOK, BatchOK, Writing
    <2>5. n \in Nat /\ Of(r).file[n] \in FileRow
      BY <2>1, <2>2, <2>4 DEF CommitOK
    <2> QED BY <2>1, <2>3, <2>5 DEF PathOf, SatnetPath, FileRow, CommitOK
  <1>6. CASE \E r \in Request, n \in RowNumber : RecordFailure(r, n)
    BY <1>6 DEF RecordFailure
  <1>7. CASE \E r \in Request : Finish(r)
    BY <1>7 DEF Finish
  <1>8. CASE Others
    <2>1. CASE \E satnet \in Satnet, code \in Code : OperatorCreates(satnet, code)
      BY <2>1 DEF OperatorCreates, SatnetPath
    <2>2. CASE \E path \in paths, code \in Code : OperatorRenames(path, code)
      BY <2>2 DEF OperatorRenames, SatnetPath
    <2>3. CASE \E label \in Label, satnet \in Satnet \cup {None} : Remeans(label, satnet)
      BY <2>3 DEF Remeans
    <2> QED BY <1>8, <2>1, <2>2, <2>3 DEF Others
  <1>9. CASE UNCHANGED paths
    BY <1>9
  <1> QED BY <1>1, <1>2, <1>3, <1>4, <1>5, <1>6, <1>7, <1>8, <1>9, StepsOfNext DEF vars

\* Every row of a batch is a row.
LEMMA RowsTyped ==
    ASSUME FileAssumption, Invariant, TypeOK, [Next]_vars
    PROVE  rows' \in [Batch -> Seq(ImportRow)]
  <1> DEFINE Typed == rows' \in [Batch -> Seq(ImportRow)]
  <1>0. rows \in [Batch -> Seq(ImportRow)] /\ TypeInv
    BY DEF TypeOK, Invariant
  <1>00. ASSUME NEW b \in Batch, NEW class \in RowClassification, NEW n \in DOMAIN rows[b],
                rows' = Reclassified(b, n, class)
         PROVE  Typed
    <2>1. PICK stored \in Seq(ImportRow) : stored = rows[b]
      BY <1>0
    <2>2. [stored EXCEPT ![n].classification = class] \in Seq(ImportRow)
      <3>1. n \in DOMAIN stored /\ stored[n] \in ImportRow
        BY <2>1
      <3>2. [stored[n] EXCEPT !.classification = class] \in ImportRow
        BY <3>1 DEF ImportRow
      <3> QED BY <3>1, <3>2
    <2>3. rows' = [rows EXCEPT ![b] = [stored EXCEPT ![n].classification = class]]
      BY <1>0, <1>00, <2>1 DEF Reclassified
    <2> QED BY <1>0, <2>2, <2>3
  <1>1. ASSUME NEW b \in Batch, NEW file \in File, NEW policy \in BatchPolicy,
               DryRun(b, file, policy)
        PROVE  Typed
    <2> DEFINE list == [n \in DOMAIN file |->
                           [classification |-> JudgeAll(file)[n].classification,
                            result |-> IF JudgeAll(file)[n].known THEN "known" ELSE "nothing"]]
    <2>1. file \in Seq(FileRow) /\ DOMAIN file = 1 .. Len(file) /\ Len(file) \in Nat
      BY DEF FileAssumption
    <2>2. JudgeAll(file) \in Seq(Judgement) /\ Len(JudgeAll(file)) = Len(file)
      BY <1>0, <2>1, EveryRowIsJudged DEF TypeInv
    <2>3. \A n \in 1 .. Len(file) : JudgeAll(file)[n] \in Judgement
      BY <2>1, <2>2
    <2>4. \A n \in 1 .. Len(file) : list[n] \in ImportRow
      BY <2>1, <2>3 DEF Judgement, ImportRow
    <2>5. list \in Seq(ImportRow)
      <3>1. list = [n \in 1 .. Len(file) |-> list[n]]
        BY <2>1
      <3> HIDE DEF list
      <3> QED BY <2>1, <2>4, <3>1
    <2>6. rows' = [rows EXCEPT ![b] = list]
      BY <1>1 DEF DryRun
    <2> HIDE DEF list
    <2> QED BY <1>0, <2>5, <2>6
  <1>2. CASE \E r \in Request, b \in Batch : Begin(r, b)
    BY <1>0, <1>2 DEF Begin
  <1>3. CASE \E r \in Request : ReadRows(r)
    BY <1>0, <1>3 DEF ReadRows
  <1>4. ASSUME NEW r \in Request, Rejudge(r) PROVE Typed
    <2> DEFINE n   == Len(request[r].judged) + 1
               new == Judge(Of(r).file, request[r].judged, n)
    <2>1. /\ n \in DOMAIN rows[request[r].batch] /\ new \in Judgement /\ Busy(r)
          /\ rows' = IF new.classification # request[r].loaded[n]
                     THEN Reclassified(request[r].batch, n, new.classification) ELSE rows
      BY <1>0, <1>4, RejudgeTypes
    <2>2. request[r].batch \in Batch /\ new.classification \in RowClassification
      BY <1>0, <2>1 DEF TypeInv, RequestsOK, CommitOK, Judgement
    <2> HIDE DEF n, new
    <2> QED BY <1>0, <1>00, <2>1, <2>2
  <1>5. ASSUME NEW r \in Request, NEW ns \in SUBSET Left(r), Writing(r), Written(r, ns)
        PROVE  Typed
    <2>1. request[r].batch \in Batch
      BY <1>0, <1>5 DEF TypeInv, RequestsOK, CommitOK, Writing, Busy
    <2>2. PICK stored \in Seq(ImportRow) : stored = rows[request[r].batch]
      BY <1>0, <2>1
    <2> DEFINE list == [n \in DOMAIN stored |->
                           IF n \in ns THEN [stored[n] EXCEPT !.result = "written"]
                           ELSE stored[n]]
    <2>3. rows' = [rows EXCEPT ![request[r].batch] = list]
      BY <1>0, <1>5, <2>1, <2>2 DEF Written
    <2>4. \A n \in 1 .. Len(stored) : list[n] \in ImportRow
      <3> TAKE n \in 1 .. Len(stored)
      <3>1. stored[n] \in ImportRow /\ n \in DOMAIN stored
        OBVIOUS
      <3>2. [stored[n] EXCEPT !.result = "written"] \in ImportRow
        BY <3>1 DEF ImportRow
      <3> QED BY <3>1, <3>2
    <2>5. list \in Seq(ImportRow)
      <3>1. list = [n \in 1 .. Len(stored) |-> list[n]] /\ Len(stored) \in Nat
        OBVIOUS
      <3> HIDE DEF list
      <3> QED BY <2>4, <3>1
    <2> HIDE DEF list
    <2> QED BY <1>0, <2>1, <2>3, <2>5
  <1>6. ASSUME NEW r \in Request, NEW n \in RowNumber, RecordFailure(r, n) PROVE Typed
    <2>1. /\ n \in DOMAIN rows[request[r].batch] /\ Writing(r)
          /\ rows' = Reclassified(request[r].batch, n, "ERROR")
      BY <1>0, <1>6, FailureTypes
    <2>2. request[r].batch \in Batch /\ "ERROR" \in RowClassification
      BY <1>0, <2>1 DEF TypeInv, RequestsOK, CommitOK, Writing, Busy, RowClassification
    <2> QED BY <1>00, <2>1, <2>2
  <1>7. CASE \E r \in Request : Finish(r)
    BY <1>0, <1>7 DEF Finish
  <1>8. CASE Others
    BY <1>0, <1>8, OthersTypes
  <1>9. CASE UNCHANGED rows
    BY <1>0, <1>9
  <1> QED BY <1>1, <1>2, <1>3, <1>4, <1>5, <1>6, <1>7, <1>8, <1>9, StepsOfNext DEF vars

\* Every batch is a batch.
LEMMA BatchesTyped ==
    ASSUME FileAssumption, Invariant, TypeOK, [Next]_vars
    PROVE  batch' \in [Batch -> BatchRecord \cup {NoBatch}]
  <1>0. batch \in [Batch -> BatchRecord \cup {NoBatch}] /\ TypeInv
    BY DEF TypeOK, Invariant
  <1>1. ASSUME NEW b \in Batch, NEW file \in File, NEW policy \in BatchPolicy,
               DryRun(b, file, policy)
        PROVE  batch' \in [Batch -> BatchRecord \cup {NoBatch}]
    <2>1. file \in Seq(FileRow)
      BY DEF FileAssumption
    <2>2. JudgeAll(file) \in Seq(Judgement) /\ Len(JudgeAll(file)) = Len(file)
      BY <1>0, <2>1, EveryRowIsJudged DEF TypeInv
    <2>3. CountsOf(JudgeAll(file)) \in [RowClassification -> Nat]
      <3>1. DOMAIN JudgeAll(file) = 1 .. Len(file) /\ Len(file) \in Nat
        BY <2>1, <2>2
      <3> QED BY <3>1, CountsType
    <2>4. batch' = [batch EXCEPT ![b] = [file |-> file, policy |-> policy, stage |-> "DRY_RUN",
                                         counts |-> CountsOf(JudgeAll(file))]]
      BY <1>1 DEF DryRun
    <2> QED BY <1>0, <2>3, <2>4 DEF BatchRecord, Stage
  <1>2. CASE \E r \in Request, b \in Batch : Begin(r, b)
    BY <1>0, <1>2 DEF Begin
  <1>3. CASE \E r \in Request : ReadRows(r)
    BY <1>0, <1>3 DEF ReadRows
  <1>4. CASE \E r \in Request : Rejudge(r)
    BY <1>0, <1>4 DEF Rejudge
  <1>5. CASE \E r \in Request : \E ns \in SUBSET Left(r) : Written(r, ns)
    BY <1>0, <1>5 DEF Written
  <1>6. CASE \E r \in Request, n \in RowNumber : RecordFailure(r, n)
    BY <1>0, <1>6 DEF RecordFailure
  <1>7. ASSUME NEW r \in Request, Finish(r)
        PROVE  batch' \in [Batch -> BatchRecord \cup {NoBatch}]
    <2>1. CommitOK(r) /\ Busy(r)
      BY <1>0, <1>7 DEF TypeInv, RequestsOK, CommitOK, Finish
    <2>2. PICK b \in Batch : b = request[r].batch
      BY <2>1 DEF CommitOK
    <2>3. Exists(b) /\ BatchOK(b)
      BY <1>0, <2>1, <2>2 DEF CommitOK, TypeInv, BatchesOK
    <2>4. batch[b] \in BatchRecord
      BY <1>0, <2>3 DEF Exists, NoBatch
    <2>5. CountsOf(rows[b]) \in [RowClassification -> Nat]
      <3>1. DOMAIN rows[b] = 1 .. Len(batch[b].file) /\ Len(batch[b].file) \in Nat
        BY <2>3 DEF BatchOK
      <3> QED BY <3>1, CountsType
    <2>6. batch' = [batch EXCEPT ![b].stage = "COMMITTED", ![b].counts = CountsOf(rows[b])]
      BY <1>7, <2>2 DEF Finish, FinalCounts
    <2> QED BY <1>0, <2>4, <2>5, <2>6 DEF BatchRecord, Stage
  <1>8. CASE Others
    BY <1>0, <1>8, OthersTypes
  <1>9. CASE UNCHANGED batch
    BY <1>0, <1>9
  <1> QED BY <1>1, <1>2, <1>3, <1>4, <1>5, <1>6, <1>7, <1>8, <1>9, StepsOfNext DEF vars

\* Every request is idle or in progress.
LEMMA RequestsTyped ==
    ASSUME FileAssumption, Invariant, TypeOK, [Next]_vars
    PROVE  request' \in [Request -> InProgress \cup {Idle}]
  <1> DEFINE Typed == request' \in [Request -> InProgress \cup {Idle}]
  <1>0. request \in [Request -> InProgress \cup {Idle}] /\ TypeInv
    BY DEF TypeOK, Invariant
  <1>00. \A r \in Request : Busy(r) => request[r] \in InProgress /\ request[r].batch \in Batch
    BY <1>0 DEF Busy, Idle, InProgress
  <1>1. CASE \E b \in Batch, file \in File, policy \in BatchPolicy : DryRun(b, file, policy)
    BY <1>0, <1>1 DEF DryRun
  <1>2. CASE \E r \in Request, b \in Batch : Begin(r, b)
    BY <1>0, <1>2 DEF Begin, Advance, InProgress
  <1>3. ASSUME NEW r \in Request, ReadRows(r) PROVE Typed
    <2>1. Busy(r) /\ request[r] \in InProgress /\ request[r].batch \in Batch
      BY <1>00, <1>3 DEF ReadRows, Busy
    <2>2. PICK stored \in Seq(ImportRow) : stored = rows[request[r].batch]
      BY <2>1 DEF TypeOK
    <2> DEFINE loaded == [n \in DOMAIN stored |-> stored[n].classification]
    <2>3. \A n \in 1 .. Len(stored) : loaded[n] \in RowClassification
      <3> TAKE n \in 1 .. Len(stored)
      <3>1. stored[n] \in ImportRow /\ n \in DOMAIN stored
        OBVIOUS
      <3> QED BY <3>1 DEF ImportRow
    <2>4. loaded \in Seq(RowClassification)
      <3>1. loaded = [n \in 1 .. Len(stored) |-> loaded[n]] /\ Len(stored) \in Nat
        OBVIOUS
      <3> HIDE DEF loaded
      <3> QED BY <2>3, <3>1
    <2>5. request' = [request EXCEPT ![r] = [request[r] EXCEPT !.step = "judging",
                                                               !.loaded = loaded]]
      BY <1>3, <2>2 DEF ReadRows, Advance
    <2> HIDE DEF loaded
    <2> QED BY <1>0, <2>1, <2>4, <2>5 DEF InProgress
  <1>4. ASSUME NEW r \in Request, Rejudge(r) PROVE Typed
    <2> DEFINE new == Judge(Of(r).file, request[r].judged, Len(request[r].judged) + 1)
    <2>1. Busy(r) /\ new \in Judgement
      BY <1>0, <1>4, RejudgeTypes
    <2>2. request' = [request EXCEPT ![r] = [request[r] EXCEPT !.judged = Append(@, new)]]
      BY <1>4 DEF Rejudge, Advance
    <2>3. request[r] \in InProgress
      BY <1>00, <2>1
    <2> HIDE DEF new
    <2>4. Append(request[r].judged, new) \in Seq(Judgement)
      BY <2>1, <2>3 DEF InProgress
    <2> QED BY <1>0, <2>2, <2>3, <2>4 DEF InProgress
  <1>5. ASSUME NEW r \in Request, NEW ns \in SUBSET Left(r), Writing(r), DoneWith(r, ns)
        PROVE  Typed
    <2>1. Busy(r) /\ request[r] \in InProgress
      BY <1>00, <1>5 DEF Writing, Busy
    <2>2. ns \subseteq Nat
      <3>1. Left(r) \subseteq DOMAIN request[r].judged
        BY <1>0, <2>1, LeftRows
      <3>2. DOMAIN request[r].judged \subseteq Nat
        BY <2>1 DEF InProgress
      <3> QED BY <3>1, <3>2
    <2>3. request' = [request EXCEPT ![r] = [request[r] EXCEPT !.done = @ \cup ns]]
      BY <1>5 DEF DoneWith, Advance
    <2> QED BY <1>0, <2>1, <2>2, <2>3 DEF InProgress
  <1>6. ASSUME NEW r \in Request, NEW n \in RowNumber, RecordFailure(r, n) PROVE Typed
    <2>1. Writing(r) /\ {n} \in SUBSET Left(r) /\ DoneWith(r, {n})
      BY <1>0, <1>6, FailureTypes
    <2> QED BY <1>5, <2>1
  <1>7. CASE \E r \in Request : Finish(r)
    BY <1>0, <1>7 DEF Finish, Advance
  <1>8. CASE \E r \in Request : Advance(r, Idle)
    BY <1>0, <1>8 DEF Advance
  <1>9. CASE Others
    BY <1>0, <1>9, OthersTypes
  <1>10. CASE UNCHANGED request
    BY <1>0, <1>10
  <1> QED BY <1>1, <1>2, <1>3, <1>4, <1>5, <1>6, <1>7, <1>8, <1>9, <1>10, StepsOfNext DEF vars

\* What is counted and what is remembered.
LEMMA HistoryTyped ==
    ASSUME FileAssumption, TypeOK, [Next]_vars
    PROVE  events' \in 0 .. MaxEvents /\ overlapped' \subseteq Batch /\ moved' \subseteq Label \cup Code
  <1> DEFINE Typed == /\ events' \in 0 .. MaxEvents
                      /\ overlapped' \subseteq Batch /\ moved' \subseteq Label \cup Code
  <1>0. /\ events \in 0 .. MaxEvents /\ MaxEvents \in Nat
        /\ overlapped \subseteq Batch /\ moved \subseteq Label \cup Code
        /\ paths \subseteq SatnetPath
    BY DEF TypeOK, FileAssumption
  <1>1. CASE \E b \in Batch, file \in File, policy \in BatchPolicy : DryRun(b, file, policy)
    BY <1>0, <1>1 DEF DryRun
  <1>2. ASSUME NEW r \in Request, NEW b \in Batch, Begin(r, b) PROVE Typed
    BY <1>0, <1>2 DEF Begin
  <1>3. CASE \E r \in Request : ReadRows(r)
    BY <1>0, <1>3 DEF ReadRows
  <1>4. CASE \E r \in Request : Rejudge(r)
    BY <1>0, <1>4 DEF Rejudge
  <1>5. CASE \E r \in Request : WriteAll(r) \/ \E n \in RowNumber : WriteRow(r, n)
    BY <1>0, <1>5 DEF WriteAll, WriteRow, Written
  <1>6. CASE \E r \in Request, n \in RowNumber : RecordFailure(r, n)
    BY <1>0, <1>6 DEF RecordFailure
  <1>7. CASE \E r \in Request : Finish(r) \/ Refuse(r)
    BY <1>0, <1>7 DEF Finish, Refuse
  <1>8. CASE \E r \in Request : Lost(r)
    BY <1>0, <1>8 DEF Lost, Event
  <1>9. CASE Others
    <2>1. CASE \E satnet \in Satnet, code \in Code : OperatorCreates(satnet, code)
      BY <1>0, <2>1 DEF OperatorCreates, Event
    <2>2. CASE \E path \in paths, code \in Code : OperatorRenames(path, code)
      BY <1>0, <2>2 DEF OperatorRenames, Event, SatnetPath
    <2>3. CASE \E label \in Label, satnet \in Satnet \cup {None} : Remeans(label, satnet)
      BY <1>0, <2>3 DEF Remeans, Event
    <2> QED BY <1>9, <2>1, <2>2, <2>3 DEF Others
  <1>10. CASE UNCHANGED vars
    BY <1>0, <1>10 DEF vars
  <1> QED BY <1>1, <1>2, <1>3, <1>4, <1>5, <1>6, <1>7, <1>8, <1>9, <1>10 DEF Next, Commit

\* Everything has its type: what a dry run stores of a file of any length, what
\* commits hold in memory, and what they and the operators make of the paths.
THEOREM TypeCorrect == Spec => []TypeOK
  <1> USE FileAssumption
  <1>1. Init => TypeOK
    BY DEF Init, TypeOK, FileAssumption
  <1>2. Invariant /\ TypeOK /\ [Next]_vars => TypeOK'
    <2> SUFFICES ASSUME Invariant, TypeOK, [Next]_vars PROVE TypeOK'
      OBVIOUS
    <2>1. means' \in [Label -> Satnet \cup {None}]
      BY TypesHold DEF Invariant, TypeInv
    <2> QED BY <2>1, PathsTyped, BatchesTyped, RowsTyped, RequestsTyped, HistoryTyped DEF TypeOK
  <1> QED BY <1>1, <1>2, InvariantHolds, PTL DEF Spec

=============================================================================
