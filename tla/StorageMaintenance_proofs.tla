----------------------- MODULE StorageMaintenance_proofs -----------------------
(***************************************************************************)
(* Proofs that retention and the removal of an account leave the largest   *)
(* valid part of any data set, and that neither the sample mail nor the    *)
(* bytes it has left in the file escape, for every data set, clock and     *)
(* number of failures.                                                     *)
(*                                                                         *)
(* SampleMailIsGone and ResidueIsOwed are not inductive: they rest on who  *)
(* may work beside whom (Exclusion), on the plan of the worker being the   *)
(* retained part of what is still stored (PlanIsFresh), on what a          *)
(* compaction has left of the file when its status is set, or its          *)
(* disconnect completed (CompactedWhenMarking), and on the old formats     *)
(* being met only in a start in sample mode (OldFormats).                  *)
(***************************************************************************)
EXTENDS StorageMaintenance, TLAPS

-----------------------------------------------------------------------------
(* The two functions on data sets *)

\* What is retained is a dataset.
LEMMA RetainedType ==
    ASSUME NEW d \in Datasets, NEW cutoff
    PROVE  Retained(d, cutoff) \in Datasets
BY DEF Retained, Referenced, Datasets

\* What is left without an account is a dataset.
LEMMA WithoutAccountType ==
    ASSUME NEW d \in Datasets, NEW a
    PROVE  WithoutAccount(d, a) \in Datasets
BY DEF WithoutAccount, Referenced, Datasets

\* Retention makes nothing of nothing.
LEMMA NothingIsRetainedOfNothing ==
    ASSUME NEW cutoff
    PROVE  Retained(NoRecords, cutoff) = NoRecords
BY DEF Retained, Referenced, NoRecords

\* What retention leaves is a data set without expired mail or conclusions from
\* it, and every such part of the data set is part of it.
THEOREM RetainedIsLargest ==
    ASSUME NEW d \in Datasets, IsMailDataset(d), NEW cutoff \in Int
    PROVE  /\ InWindow(Retained(d, cutoff), d, cutoff)
           /\ \A e \in Datasets : InWindow(e, d, cutoff) => PartOf(e, Retained(d, cutoff))
<1> DEFINE r == Retained(d, cutoff)
<1>1. PartOf(r, d)
  BY DEF PartOf, Retained, Referenced
<1>2. Wanted(r)
  <2>1. IsMailDataset(r)
    BY DEF IsMailDataset, Retained, Referenced
  <2>2. r.people = Referenced(r.people, r.messages, r.topics)
    BY DEF Retained, Referenced
  <2> QED BY <2>1, <2>2 DEF Wanted
<1>3. InWindow(r, d, cutoff)
  BY <1>1, <1>2 DEF InWindow, Retained
<1>4. ASSUME NEW e \in Datasets, InWindow(e, d, cutoff) PROVE PartOf(e, r)
  <2>1. e.accounts \subseteq r.accounts /\ e.messages \subseteq r.messages
    BY <1>4 DEF InWindow, PartOf, Retained
  <2>2. e.topics \subseteq r.topics
    BY <1>4, <2>1 DEF InWindow, PartOf, Wanted, IsMailDataset, Retained
  <2>3. e.people \subseteq r.people
    <3>1. e.people = Referenced(e.people, e.messages, e.topics)
      BY <1>4 DEF InWindow, Wanted
    <3>2. r.people = Referenced(d.people, r.messages, r.topics)
      BY DEF Retained
    <3>3. e.people \subseteq d.people
      BY <1>4 DEF InWindow, PartOf
    <3> QED BY <2>1, <2>2, <3>1, <3>2, <3>3 DEF Referenced
  <2>4. e.briefItems \subseteq r.briefItems
    BY <1>4, <2>1, <2>2 DEF InWindow, PartOf, Wanted, IsMailDataset, Retained
  <2> QED BY <2>1, <2>2, <2>3, <2>4 DEF PartOf
<1> QED BY <1>3, <1>4

\* What the removal of an account leaves is a data set without the account, and
\* every such part of the data set is part of it.
THEOREM WithoutAccountIsLargest ==
    ASSUME NEW d \in Datasets, IsMailDataset(d), NEW a \in d.accounts
    PROVE  /\ Apart(WithoutAccount(d, a), d, a)
           /\ \A e \in Datasets : Apart(e, d, a) => PartOf(e, WithoutAccount(d, a))
<1> DEFINE r == WithoutAccount(d, a)
<1>1. PartOf(r, d) /\ a \notin r.accounts
  BY DEF PartOf, WithoutAccount, Referenced
<1>2. Wanted(r)
  <2>1. IsMailDataset(r)
    BY DEF IsMailDataset, WithoutAccount, Referenced
  <2>2. r.people = Referenced(r.people, r.messages, r.topics)
    BY DEF WithoutAccount, Referenced
  <2> QED BY <2>1, <2>2 DEF Wanted
<1>3. ASSUME NEW e \in Datasets, Apart(e, d, a) PROVE PartOf(e, r)
  <2>1. e.accounts \subseteq r.accounts
    BY <1>3 DEF Apart, PartOf, WithoutAccount
  <2>2. e.messages \subseteq r.messages
    BY <1>3 DEF Apart, PartOf, Wanted, IsMailDataset, WithoutAccount
  <2>3. e.topics \subseteq r.topics
    BY <1>3, <2>2 DEF Apart, PartOf, Wanted, IsMailDataset, WithoutAccount
  <2>4. e.people \subseteq r.people
    <3>1. e.people = Referenced(e.people, e.messages, e.topics)
      BY <1>3 DEF Apart, Wanted
    <3>2. r.people = Referenced(d.people, r.messages, r.topics)
      BY DEF WithoutAccount
    <3>3. e.people \subseteq d.people
      BY <1>3 DEF Apart, PartOf
    <3> QED BY <2>2, <2>3, <3>1, <3>2, <3>3 DEF Referenced
  <2>5. e.briefItems \subseteq r.briefItems
    BY <1>3, <2>2, <2>3 DEF Apart, PartOf, Wanted, IsMailDataset, WithoutAccount
  <2> QED BY <2>1, <2>2, <2>3, <2>4, <2>5 DEF PartOf
<1> QED BY <1>1, <1>2, <1>3 DEF Apart

-----------------------------------------------------------------------------
(* The inductive invariant *)

\* The worker runs only while the process serves and its operation waits; a
\* start is the only one to run before that, beside the resumed deletion.
Exclusion ==
    /\ worker # NoRun => process = "ready" /\ op.step \in {"none", "waiting"}
    /\ process = "starting" => op.kind \in {"start", "delete"}
    /\ op.kind = "start" => process = "starting"
    /\ op.kind = "disconnect" \/ op.step = "waiting" => process = "ready"
    /\ "syncing" \in {op.step, op.then} => op.kind \in {"sync", "activate"}

\* What a run is about to write is still what is to be retained of the records,
\* and differs from them.
PlanIsFresh ==
    worker.step = "replacing" =>
        worker.plan = Retained(records, Cutoff(worker.now)) /\ worker.plan # records

\* Nobody rewrites anything between the compaction and the status, nor before the
\* start has seeded an empty installation, nor between the compaction of a
\* disconnect and its completion.  What a disconnect finds in the file when it
\* begins is of one that nobody finishes.
CompactedWhenMarking ==
    /\ worker.step = "marking" \/ op.step \in {"marking", "seeding"} =>
         "rewritten" \notin residue
    /\ op.kind = "disconnect" /\ op.step \in {"marking", "erased"} =>
         "disconnected" \notin residue
    /\ At("disconnect", "erasing") /\ "disconnected" \in residue => "lost" \in unfinished

\* A data set without timestamps, or one in the old tables, is one of the sample
\* mode; the old tables are emptied before the start seeds anything.
OldFormats ==
    /\ legacy => mode = "sample"
    /\ plaintext =>
         /\ mode = "sample" /\ deletion = "none"
         /\ process \in {"stopped", "starting"}
         /\ op.kind \in {"none", "start"}
         /\ op.step \in {"none", "migrating", "vacuuming", "marking"}
         /\ op.then \in {"none", "migrating"}

IInv ==
    /\ TypeOK
    /\ IsMailDataset(records)
    /\ SampleMailIsGone
    /\ ResidueIsOwed
    /\ Exclusion
    /\ PlanIsFresh
    /\ CompactedWhenMarking
    /\ OldFormats

\* The constants have their types.
LEMMA Constants ==
    /\ NoRecords \in Datasets /\ IsMailDataset(NoRecords)
    /\ Fixtures \in Datasets /\ IsMailDataset(Fixtures)
    /\ Idle \in Operations
    /\ NoRun \in RetentionRuns
<1>1. NoRecords \in Datasets /\ Fixtures \in Datasets
  BY DEF NoRecords, Fixtures, Datasets
<1>2. IsMailDataset(NoRecords)
  BY DEF NoRecords, IsMailDataset
<1>3. Idle \in Operations
  BY DEF Idle, Operations
<1>4. NoRun \in RetentionRuns
  BY <1>1, StorageAssumption DEF NoRun, RetentionRuns
<1> QED BY <1>1, <1>2, <1>3, <1>4, FixturesAssumption

\* An operation, or a run, goes from one of its steps to another.
LEMMA OpSteps ==
    ASSUME NEW o \in Operations,
           NEW s \in {"none", "waiting", "syncing", "erasing", "erased", "vacuuming", "marking",
                      "migrating", "seeding", "restoring", "started"},
           NEW t \in {"none", "syncing", "erased", "migrating", "started"}
    PROVE  /\ [o EXCEPT !.step = s] \in Operations
           /\ [o EXCEPT !.step = s, !.then = t] \in Operations
           /\ [o EXCEPT !.step = o.then] \in Operations
           /\ [o EXCEPT !.step = s].kind = o.kind
           /\ [o EXCEPT !.step = s, !.then = t].kind = o.kind
           /\ [o EXCEPT !.step = o.then].kind = o.kind
BY DEF Operations

\* What each step of a retention run assigns is of its type.
LEMMA RunSteps ==
    ASSUME NEW w \in RetentionRuns,
           NEW s \in {"none", "reading", "evicting", "planning", "replacing", "checking",
                      "vacuuming", "marking"},
           NEW x \in SUBSET ProviderMail, NEW d \in Datasets
    PROVE  /\ [w EXCEPT !.step = s] \in RetentionRuns
           /\ [w EXCEPT !.step = s, !.expired = x] \in RetentionRuns
           /\ [w EXCEPT !.plan = d, !.step = s] \in RetentionRuns
           /\ w.plan \in Datasets
BY DEF RetentionRuns

\* The invariant holds at the start.
LEMMA InitIInv == Init => IInv
<1> SUFFICES ASSUME Init PROVE IInv
  OBVIOUS
<1>1. TypeOK
  <2>1. now \in 0..MaxTime /\ faults \in 0..MaxFaults
    BY StorageAssumption DEF Init
  <2>2. records \in Datasets /\ op \in Operations /\ worker \in RetentionRuns
    BY Constants DEF Init
  <2> QED BY <2>1, <2>2 DEF Init, TypeOK
<1>2. IsMailDataset(records) /\ SampleMailIsGone /\ ResidueIsOwed
  BY Constants DEF Init, SampleMailIsGone, ResidueIsOwed
<1>3. Exclusion /\ PlanIsFresh /\ CompactedWhenMarking /\ OldFormats
  BY DEF Init, Exclusion, PlanIsFresh, CompactedWhenMarking, OldFormats, Idle, NoRun
<1> QED BY <1>1, <1>2, <1>3 DEF IInv

\* The transactions of the retention worker.
LEMMA WorkerKeeps ==
    ASSUME IInv, WorkerStep
    PROVE  IInv'
<1> USE DEF IInv, stores, journal, At, GoTo, Starts, Idle, NoRun, Mark,
            Residues, Unfinished, Disconnecting
<1>1. CASE PlanEviction
  <2>1. TypeOK'
    BY <1>1, Constants, StorageAssumption, RunSteps
       DEF PlanEviction, ExpiredAt, TypeOK, Exclusion
  <2>2. IsMailDataset(records)' /\ SampleMailIsGone'
    BY <1>1 DEF PlanEviction, SampleMailIsGone
  <2>3. ResidueIsOwed' /\ CompactedWhenMarking'
    BY <1>1 DEF PlanEviction, ResidueIsOwed, CompactedWhenMarking
  <2>4. Exclusion' /\ OldFormats'
    BY <1>1 DEF PlanEviction, Exclusion, OldFormats
  <2>5. PlanIsFresh'
    BY <1>1 DEF PlanEviction, PlanIsFresh
  <2> QED BY <2>1, <2>2, <2>3, <2>4, <2>5
<1>2. CASE EvictProviderMail
  <2>1. TypeOK'
    BY <1>2, Constants, StorageAssumption, RunSteps
       DEF EvictProviderMail, TypeOK, Exclusion
  <2>2. IsMailDataset(records)' /\ SampleMailIsGone'
    BY <1>2 DEF EvictProviderMail, SampleMailIsGone
  <2>3. ResidueIsOwed' /\ CompactedWhenMarking'
    BY <1>2 DEF EvictProviderMail, ResidueIsOwed, Exclusion, CompactedWhenMarking
  <2>4. Exclusion' /\ OldFormats'
    BY <1>2 DEF EvictProviderMail, Exclusion, OldFormats
  <2>5. PlanIsFresh'
    BY <1>2 DEF EvictProviderMail, PlanIsFresh
  <2> QED BY <2>1, <2>2, <2>3, <2>4, <2>5
<1>3. CASE PlanRetention
  <2>1. TypeOK'
    BY <1>3, Constants, StorageAssumption, RetainedType, RunSteps
       DEF PlanRetention, TypeOK, Exclusion
  <2>2. IsMailDataset(records)' /\ SampleMailIsGone'
    BY <1>3 DEF PlanRetention, SampleMailIsGone
  <2>3. ResidueIsOwed' /\ CompactedWhenMarking'
    BY <1>3 DEF PlanRetention, ResidueIsOwed, CompactedWhenMarking
  <2>4. Exclusion' /\ OldFormats'
    BY <1>3 DEF PlanRetention, Exclusion, OldFormats
  <2>5. PlanIsFresh'
    BY <1>3 DEF PlanRetention, PlanIsFresh
  <2> QED BY <2>1, <2>2, <2>3, <2>4, <2>5
<1>4. CASE ReplaceSampleMail
  <2>1. TypeOK'
    BY <1>4, RunSteps DEF ReplaceSampleMail, ReplaceDataset, TypeOK
  <2>2. IsMailDataset(records)' /\ SampleMailIsGone'
    BY <1>4, NothingIsRetainedOfNothing
       DEF ReplaceSampleMail, ReplaceDataset, SampleMailIsGone, PlanIsFresh
  <2>3. ResidueIsOwed' /\ CompactedWhenMarking'
    BY <1>4
       DEF ReplaceSampleMail, ReplaceDataset, ResidueIsOwed, Exclusion,
           CompactedWhenMarking
  <2>4. Exclusion' /\ OldFormats'
    BY <1>4 DEF ReplaceSampleMail, Exclusion, OldFormats
  <2>5. PlanIsFresh'
    BY <1>4 DEF ReplaceSampleMail, PlanIsFresh
  <2> QED BY <2>1, <2>2, <2>3, <2>4, <2>5
<1>5. CASE WorkerCompacts
  <2>1. TypeOK'
    BY <1>5, Constants, StorageAssumption, RunSteps
       DEF WorkerCompacts, Compacts, TypeOK, Exclusion
  <2>2. IsMailDataset(records)' /\ SampleMailIsGone'
    BY <1>5 DEF WorkerCompacts, SampleMailIsGone
  <2>3. ResidueIsOwed' /\ CompactedWhenMarking'
    BY <1>5 DEF WorkerCompacts, Compacts, ResidueIsOwed, CompactedWhenMarking
  <2>4. Exclusion' /\ OldFormats'
    BY <1>5 DEF WorkerCompacts, Compacts, Exclusion, OldFormats
  <2>5. PlanIsFresh'
    BY <1>5 DEF WorkerCompacts, Compacts, TypeOK, RetentionRuns, PlanIsFresh
  <2> QED BY <2>1, <2>2, <2>3, <2>4, <2>5
<1>6. CASE FinishRetention
  <2>1. TypeOK'
    BY <1>6, Constants, StorageAssumption, RunSteps
       DEF FinishRetention, TypeOK, Exclusion
  <2>2. IsMailDataset(records)' /\ SampleMailIsGone'
    BY <1>6 DEF FinishRetention, SampleMailIsGone
  <2>3. ResidueIsOwed' /\ CompactedWhenMarking'
    BY <1>6 DEF FinishRetention, ResidueIsOwed, CompactedWhenMarking
  <2>4. Exclusion' /\ OldFormats'
    BY <1>6 DEF FinishRetention, Exclusion, OldFormats
  <2>5. PlanIsFresh'
    BY <1>6 DEF FinishRetention, PlanIsFresh
  <2> QED BY <2>1, <2>2, <2>3, <2>4, <2>5
<1> QED BY <1>1, <1>2, <1>3, <1>4, <1>5, <1>6 DEF WorkerStep

\* The operations of the owner, and a deletion that a start has resumed.
LEMMA OpKeeps ==
    ASSUME IInv, OpStep
    PROVE  IInv'
<1> USE DEF IInv, stores, journal, At, GoTo, Starts, Idle, NoRun, Mark,
            Residues, Unfinished, Disconnecting
<1>1. CASE ActivateLive
  <2>1. TypeOK'
    <3>1. op' \in Operations /\ (process' = "starting" => op'.kind # "none")
      BY <1>1, OpSteps DEF ActivateLive, TypeOK, Exclusion
    <3>2. worker' \in RetentionRuns /\ records' \in Datasets
      BY <1>1, Constants DEF ActivateLive, TypeOK
    <3>3. now' \in 0..MaxTime /\ faults' \in 0..MaxFaults
      BY <1>1 DEF ActivateLive, TypeOK
    <3> QED BY <1>1, <3>1, <3>2, <3>3 DEF ActivateLive, TypeOK
  <2>2. IsMailDataset(records)' /\ SampleMailIsGone'
    BY <1>1, Constants DEF ActivateLive, SampleMailIsGone
  <2>3. ResidueIsOwed' /\ CompactedWhenMarking'
    BY <1>1
       DEF ActivateLive, RetentionQuiet, OwesCompaction, ResidueIsOwed,
           CompactedWhenMarking
  <2>4. Exclusion' /\ OldFormats'
    BY <1>1 DEF ActivateLive, RetentionQuiet, Exclusion, OldFormats
  <2>5. PlanIsFresh'
    BY <1>1 DEF ActivateLive, RetentionQuiet, PlanIsFresh
  <2> QED BY <2>1, <2>2, <2>3, <2>4, <2>5
<1>2. CASE ActivationRefused
  <2>1. TypeOK'
    BY <1>2, Constants DEF ActivationRefused, TypeOK, Exclusion
  <2>2. IsMailDataset(records)' /\ SampleMailIsGone'
    BY <1>2 DEF ActivationRefused, SampleMailIsGone
  <2>3. ResidueIsOwed' /\ CompactedWhenMarking'
    BY <1>2 DEF ActivationRefused, ResidueIsOwed, CompactedWhenMarking
  <2>4. Exclusion' /\ OldFormats'
    BY <1>2 DEF ActivationRefused, Exclusion, OldFormats
  <2>5. PlanIsFresh'
    BY <1>2 DEF ActivationRefused, PlanIsFresh
  <2> QED BY <2>1, <2>2, <2>3, <2>4, <2>5
<1>3. CASE StartSync
  <2>1. TypeOK'
    BY <1>3, OpSteps DEF StartSync, RetentionQuiet, TypeOK, Exclusion
  <2>2. IsMailDataset(records)' /\ SampleMailIsGone'
    BY <1>3 DEF StartSync, SampleMailIsGone
  <2>3. ResidueIsOwed' /\ CompactedWhenMarking'
    BY <1>3 DEF StartSync, ResidueIsOwed, CompactedWhenMarking
  <2>4. Exclusion' /\ OldFormats'
    BY <1>3 DEF StartSync, RetentionQuiet, Exclusion, OldFormats
  <2>5. PlanIsFresh'
    BY <1>3 DEF StartSync, PlanIsFresh
  <2> QED BY <2>1, <2>2, <2>3, <2>4, <2>5
<1>4. CASE EndSync
  <2>1. TypeOK'
    BY <1>4, Constants DEF EndSync, TypeOK, Exclusion
  <2>2. IsMailDataset(records)' /\ SampleMailIsGone'
    BY <1>4 DEF EndSync, SampleMailIsGone
  <2>3. ResidueIsOwed' /\ CompactedWhenMarking'
    BY <1>4 DEF EndSync, ResidueIsOwed, Exclusion, CompactedWhenMarking
  <2>4. Exclusion' /\ OldFormats'
    BY <1>4 DEF EndSync, Exclusion, OldFormats
  <2>5. PlanIsFresh'
    BY <1>4 DEF EndSync, PlanIsFresh
  <2> QED BY <2>1, <2>2, <2>3, <2>4, <2>5
<1>5. CASE BeginDeletion
  <2>1. TypeOK'
    <3>1. op' \in Operations /\ (process' = "starting" => op'.kind # "none")
      BY <1>5 DEF BeginDeletion, TypeOK, Operations
    <3>2. worker' \in RetentionRuns /\ records' \in Datasets
      BY <1>5 DEF BeginDeletion, TypeOK
    <3>3. now' \in 0..MaxTime /\ faults' \in 0..MaxFaults
      BY <1>5 DEF BeginDeletion, TypeOK
    <3> QED BY <1>5, <3>1, <3>2, <3>3 DEF BeginDeletion, TypeOK
  <2>2. IsMailDataset(records)' /\ SampleMailIsGone'
    BY <1>5 DEF BeginDeletion, SampleMailIsGone
  <2>3. ResidueIsOwed' /\ CompactedWhenMarking'
    BY <1>5 DEF BeginDeletion, ResidueIsOwed, CompactedWhenMarking
  <2>4. Exclusion' /\ OldFormats'
    BY <1>5 DEF BeginDeletion, RetentionQuiet, Exclusion, OldFormats
  <2>5. PlanIsFresh'
    BY <1>5 DEF BeginDeletion, PlanIsFresh
  <2> QED BY <2>1, <2>2, <2>3, <2>4, <2>5
<1>6. CASE EraseMail
  <2>1. TypeOK'
    <3>1. op' \in Operations /\ (process' = "starting" => op'.kind # "none")
      BY <1>6, OpSteps DEF EraseMail, TypeOK
    <3>2. worker' \in RetentionRuns /\ records' \in Datasets
      BY <1>6, Constants DEF EraseMail, TypeOK
    <3>3. now' \in 0..MaxTime /\ faults' \in 0..MaxFaults
      BY <1>6 DEF EraseMail, TypeOK
    <3> QED BY <1>6, <3>1, <3>2, <3>3 DEF EraseMail, TypeOK
  <2>2. IsMailDataset(records)' /\ SampleMailIsGone'
    BY <1>6, Constants DEF EraseMail, SampleMailIsGone
  <2>3. ResidueIsOwed' /\ CompactedWhenMarking'
    BY <1>6 DEF EraseMail, ResidueIsOwed, Exclusion, CompactedWhenMarking
  <2>4. Exclusion' /\ OldFormats'
    BY <1>6 DEF EraseMail, Exclusion, OldFormats
  <2>5. PlanIsFresh'
    BY <1>6 DEF EraseMail, PlanIsFresh, Exclusion
  <2> QED BY <2>1, <2>2, <2>3, <2>4, <2>5
<1>7. CASE CompleteDeletion
  <2>1. TypeOK'
    BY <1>7, Constants DEF CompleteDeletion, TypeOK
  <2>2. IsMailDataset(records)' /\ SampleMailIsGone'
    BY <1>7 DEF CompleteDeletion, SampleMailIsGone
  <2>3. ResidueIsOwed' /\ CompactedWhenMarking'
    BY <1>7 DEF CompleteDeletion, ResidueIsOwed, CompactedWhenMarking
  <2>4. Exclusion' /\ OldFormats'
    BY <1>7 DEF CompleteDeletion, Exclusion, OldFormats
  <2>5. PlanIsFresh'
    BY <1>7 DEF CompleteDeletion, PlanIsFresh
  <2> QED BY <2>1, <2>2, <2>3, <2>4, <2>5
<1>8. CASE OpCompacts
  <2>1. TypeOK'
    <3>1. op' \in Operations /\ (process' = "starting" => op'.kind # "none")
      BY <1>8 DEF OpCompacts, Compacts, TypeOK, Exclusion, Operations
    <3>2. worker' \in RetentionRuns /\ records' \in Datasets
      BY <1>8 DEF OpCompacts, TypeOK
    <3>3. now' \in 0..MaxTime /\ faults' \in 0..MaxFaults
      BY <1>8 DEF OpCompacts, TypeOK
    <3>4. process' = "starting" => op' # Idle
      BY <3>1
    <3> QED BY <1>8, <3>1, <3>2, <3>3, <3>4 DEF OpCompacts, Compacts, TypeOK
  <2>2. IsMailDataset(records)' /\ SampleMailIsGone'
    BY <1>8 DEF OpCompacts, SampleMailIsGone
  <2>3. ResidueIsOwed' /\ CompactedWhenMarking'
    <3>1. CASE op.step = "vacuuming"
      <4>1. residue' = {} /\ worker' = worker
        BY <1>8, <3>1 DEF OpCompacts, Compacts
      <4> QED BY <4>1 DEF ResidueIsOwed, CompactedWhenMarking
    <3>2. CASE op.step = "marking"
      <4>1. /\ residue' = residue /\ worker' = worker /\ unfinished' = unfinished
            /\ "rewritten" \notin residue
        BY <1>8, <3>2 DEF OpCompacts, Compacts, CompactedWhenMarking
      <4>2. op'.kind = op.kind /\ op'.step # "waiting"
        BY <1>8, <3>2 DEF OpCompacts, Compacts, TypeOK, Operations
      <4>3. op.kind = "disconnect" => "disconnected" \notin residue
        BY <3>2 DEF CompactedWhenMarking
      <4> QED BY <4>1, <4>2, <4>3 DEF ResidueIsOwed, CompactedWhenMarking
    <3> QED BY <1>8, <3>1, <3>2 DEF OpCompacts, Compacts
  <2>4. Exclusion' /\ OldFormats'
    BY <1>8 DEF OpCompacts, Compacts, TypeOK, Operations, Exclusion, OldFormats
  <2>5. PlanIsFresh'
    BY <1>8 DEF OpCompacts, PlanIsFresh
  <2> QED BY <2>1, <2>2, <2>3, <2>4, <2>5
<1>9. CASE LifecycleRefused
  <2>1. TypeOK'
    <3>1. op' \in Operations /\ (process' = "starting" => op'.kind # "none")
      <4>1. process = "ready" /\ process' = process
        BY <1>9 DEF LifecycleRefused, Exclusion
      <4> QED BY <1>9, <4>1, Constants DEF LifecycleRefused
    <3>2. worker' \in RetentionRuns /\ records' \in Datasets
      BY <1>9 DEF LifecycleRefused, TypeOK
    <3>3. now' \in 0..MaxTime /\ faults' \in 0..MaxFaults
      BY <1>9 DEF LifecycleRefused, TypeOK
    <3> QED BY <1>9, <3>1, <3>2, <3>3 DEF LifecycleRefused, TypeOK
  <2>2. IsMailDataset(records)' /\ SampleMailIsGone'
    BY <1>9 DEF LifecycleRefused, SampleMailIsGone
  <2>3. ResidueIsOwed' /\ CompactedWhenMarking'
    BY <1>9
       DEF LifecycleRefused, TypeOK, Operations, ResidueIsOwed, Exclusion, CompactedWhenMarking
  <2>4. Exclusion' /\ OldFormats'
    <3>1. process = "ready" /\ process' = process /\ worker' = NoRun
      BY <1>9 DEF LifecycleRefused, RetentionQuiet, Exclusion
    <3> QED BY <1>9, <3>1 DEF LifecycleRefused, Exclusion, OldFormats
  <2>5. PlanIsFresh'
    BY <1>9 DEF LifecycleRefused, PlanIsFresh
  <2> QED BY <2>1, <2>2, <2>3, <2>4, <2>5
<1>10. CASE BeginDisconnect
  <2>1. TypeOK'
    <3>1. op' \in Operations /\ (process' = "starting" => op'.kind # "none")
      BY <1>10, OpSteps DEF BeginDisconnect, TypeOK
    <3>2. worker' \in RetentionRuns /\ records' \in Datasets
      BY <1>10 DEF BeginDisconnect, TypeOK
    <3>3. now' \in 0..MaxTime /\ faults' \in 0..MaxFaults
      BY <1>10 DEF BeginDisconnect, TypeOK
    <3> QED BY <1>10, <3>1, <3>2, <3>3 DEF BeginDisconnect, TypeOK
  <2>2. IsMailDataset(records)' /\ SampleMailIsGone'
    BY <1>10 DEF BeginDisconnect, SampleMailIsGone
  <2>3. ResidueIsOwed' /\ CompactedWhenMarking'
    BY <1>10
       DEF BeginDisconnect, TypeOK, Operations, ResidueIsOwed, Exclusion, CompactedWhenMarking
  <2>4. Exclusion' /\ OldFormats'
    BY <1>10 DEF BeginDisconnect, RetentionQuiet, TypeOK, Operations, Exclusion, OldFormats
  <2>5. PlanIsFresh'
    BY <1>10 DEF BeginDisconnect, PlanIsFresh
  <2> QED BY <2>1, <2>2, <2>3, <2>4, <2>5
<1>11. CASE RemoveAccountMail
  <2>1. TypeOK'
    <3>1. op' \in Operations /\ (process' = "starting" => op'.kind # "none")
      BY <1>11, OpSteps DEF RemoveAccountMail, TypeOK
    <3>2. worker' \in RetentionRuns /\ records' \in Datasets
      BY <1>11 DEF RemoveAccountMail, TypeOK
    <3>3. now' \in 0..MaxTime /\ faults' \in 0..MaxFaults
      BY <1>11 DEF RemoveAccountMail, TypeOK
    <3> QED BY <1>11, <3>1, <3>2, <3>3 DEF RemoveAccountMail, TypeOK
  <2>2. IsMailDataset(records)' /\ SampleMailIsGone'
    BY <1>11 DEF RemoveAccountMail, SampleMailIsGone
  <2>3. ResidueIsOwed' /\ CompactedWhenMarking'
    BY <1>11
       DEF RemoveAccountMail, TypeOK, Operations, ResidueIsOwed, Exclusion, CompactedWhenMarking
  <2>4. Exclusion' /\ OldFormats'
    BY <1>11 DEF RemoveAccountMail, RetentionQuiet, TypeOK, Operations, Exclusion, OldFormats
  <2>5. PlanIsFresh'
    BY <1>11 DEF RemoveAccountMail, PlanIsFresh
  <2> QED BY <2>1, <2>2, <2>3, <2>4, <2>5
<1>12. CASE CompleteDisconnect
  <2>1. TypeOK'
    <3>1. op' \in Operations /\ (process' = "starting" => op'.kind # "none")
      BY <1>12, Constants, OpSteps DEF CompleteDisconnect, TypeOK, Exclusion, Operations
    <3>2. worker' \in RetentionRuns /\ records' \in Datasets
      BY <1>12 DEF CompleteDisconnect, TypeOK
    <3>3. now' \in 0..MaxTime /\ faults' \in 0..MaxFaults
      BY <1>12 DEF CompleteDisconnect, TypeOK
    <3> QED BY <1>12, <3>1, <3>2, <3>3 DEF CompleteDisconnect, TypeOK
  <2>2. IsMailDataset(records)' /\ SampleMailIsGone'
    BY <1>12 DEF CompleteDisconnect, SampleMailIsGone
  <2>3. ResidueIsOwed' /\ CompactedWhenMarking'
    BY <1>12
       DEF CompleteDisconnect, TypeOK, Operations, ResidueIsOwed, Exclusion, CompactedWhenMarking
  <2>4. Exclusion' /\ OldFormats'
    BY <1>12 DEF CompleteDisconnect, RetentionQuiet, TypeOK, Operations, Exclusion, OldFormats
  <2>5. PlanIsFresh'
    BY <1>12 DEF CompleteDisconnect, PlanIsFresh
  <2> QED BY <2>1, <2>2, <2>3, <2>4, <2>5
<1> QED BY <1>1, <1>2, <1>3, <1>4, <1>5, <1>6, <1>7, <1>8, <1>9, <1>10, <1>11, <1>12 DEF OpStep

\* The start.
LEMMA StartKeeps ==
    ASSUME IInv, StartStep
    PROVE  IInv'
<1> USE DEF IInv, stores, journal, At, GoTo, Starts, Idle, NoRun, Mark,
            Residues, Unfinished, Disconnecting
<1>1. CASE Boot
  <2>1. TypeOK'
    <3>1. op' \in Operations /\ (process' = "starting" => op'.kind # "none")
      BY <1>1 DEF Boot, TypeOK, Operations
    <3>2. worker' \in RetentionRuns /\ records' \in Datasets
      BY <1>1 DEF Boot, TypeOK
    <3>3. now' \in 0..MaxTime /\ faults' \in 0..MaxFaults
      BY <1>1 DEF Boot, TypeOK
    <3> QED BY <1>1, <3>1, <3>2, <3>3 DEF Boot, TypeOK
  <2>2. IsMailDataset(records)' /\ SampleMailIsGone'
    BY <1>1 DEF Boot, SampleMailIsGone
  <2>3. ResidueIsOwed' /\ CompactedWhenMarking'
    BY <1>1 DEF Boot, TypeOK, ResidueIsOwed, Exclusion, CompactedWhenMarking
  <2>4. Exclusion' /\ OldFormats'
    BY <1>1 DEF Boot, Operations, TypeOK, Operations, Exclusion, OldFormats
  <2>5. PlanIsFresh'
    BY <1>1 DEF Boot, PlanIsFresh
  <2> QED BY <2>1, <2>2, <2>3, <2>4, <2>5
<1>2. CASE MigrateCache
  <2>1. TypeOK'
    <3>1. op' \in Operations /\ (process' = "starting" => op'.kind # "none")
      BY <1>2 DEF MigrateCache, TypeOK, Operations
    <3>2. worker' \in RetentionRuns /\ records' \in Datasets
      BY <1>2, Constants DEF MigrateCache, TypeOK
    <3>3. now' \in 0..MaxTime /\ faults' \in 0..MaxFaults
      BY <1>2 DEF MigrateCache, TypeOK
    <3>4. process' = "starting" => op' # Idle
      BY <3>1
    <3> QED BY <1>2, <3>1, <3>2, <3>3, <3>4 DEF MigrateCache, TypeOK
  <2>2. IsMailDataset(records)' /\ SampleMailIsGone'
    BY <1>2, Constants DEF MigrateCache, SampleMailIsGone, OldFormats
  <2>3. ResidueIsOwed' /\ CompactedWhenMarking'
    BY <1>2
       DEF MigrateCache, TypeOK, Operations, ResidueIsOwed, Exclusion,
           CompactedWhenMarking
  <2>4. Exclusion' /\ OldFormats'
    BY <1>2 DEF MigrateCache, TypeOK, Operations, Exclusion, OldFormats
  <2>5. PlanIsFresh'
    BY <1>2 DEF MigrateCache, PlanIsFresh, Exclusion
  <2> QED BY <2>1, <2>2, <2>3, <2>4, <2>5
<1>3. CASE SeedIfEmpty
  <2>1. TypeOK'
    <3>1. op' \in Operations /\ (process' = "starting" => op'.kind # "none")
      BY <1>3, OpSteps DEF SeedIfEmpty, TypeOK
    <3>2. worker' \in RetentionRuns /\ records' \in Datasets
      BY <1>3, Constants DEF SeedIfEmpty, TypeOK
    <3>3. now' \in 0..MaxTime /\ faults' \in 0..MaxFaults
      BY <1>3 DEF SeedIfEmpty, TypeOK
    <3> QED BY <1>3, <3>1, <3>2, <3>3 DEF SeedIfEmpty, TypeOK
  <2>2. IsMailDataset(records)' /\ SampleMailIsGone'
    BY <1>3, Constants DEF SeedIfEmpty, SampleMailIsGone
  <2>3. ResidueIsOwed' /\ CompactedWhenMarking'
    BY <1>3 DEF SeedIfEmpty, ResidueIsOwed, CompactedWhenMarking
  <2>4. Exclusion' /\ OldFormats'
    BY <1>3 DEF SeedIfEmpty, Exclusion, OldFormats
  <2>5. PlanIsFresh'
    BY <1>3 DEF SeedIfEmpty, PlanIsFresh, Exclusion
  <2> QED BY <2>1, <2>2, <2>3, <2>4, <2>5
<1>4. CASE RestoreTimestamps
  <2>1. TypeOK'
    <3>1. op' \in Operations /\ (process' = "starting" => op'.kind # "none")
      BY <1>4 DEF RestoreTimestamps, TypeOK, Operations
    <3>2. worker' \in RetentionRuns /\ records' \in Datasets
      BY <1>4, Constants DEF RestoreTimestamps, ReplaceDataset, TypeOK
    <3>3. now' \in 0..MaxTime /\ faults' \in 0..MaxFaults
      BY <1>4 DEF RestoreTimestamps, TypeOK
    <3>4. process' = "starting" => op' # Idle
      BY <3>1
    <3> QED BY <1>4, <3>1, <3>2, <3>3, <3>4
               DEF RestoreTimestamps, ReplaceDataset, TypeOK
  <2>2. IsMailDataset(records)' /\ SampleMailIsGone'
    BY <1>4 DEF RestoreTimestamps, ReplaceDataset, SampleMailIsGone, OldFormats
  <2>3. ResidueIsOwed' /\ CompactedWhenMarking'
    <3>1. worker = NoRun
      BY <1>4 DEF RestoreTimestamps, Exclusion
    <3>2. op'.kind = "start" /\ op'.step \in {"vacuuming", "started"}
      BY <1>4 DEF RestoreTimestamps, TypeOK, Operations
    <3>3. /\ worker' = worker /\ unfinished' = unfinished
          /\ \/ UNCHANGED <<status, residue>>
             \/ /\ status' = "sanitization-pending"
                /\ residue' = residue \cup {"rewritten"}
      BY <1>4 DEF RestoreTimestamps, ReplaceDataset
    <3>4. op.kind = "start" /\ op.step = "restoring"
      BY <1>4 DEF RestoreTimestamps
    <3> QED BY <3>1, <3>2, <3>3, <3>4 DEF ResidueIsOwed, CompactedWhenMarking
  <2>4. Exclusion' /\ OldFormats'
    BY <1>4 DEF RestoreTimestamps, TypeOK, Operations, Exclusion, OldFormats
  <2>5. PlanIsFresh'
    BY <1>4 DEF RestoreTimestamps, PlanIsFresh, Exclusion
  <2> QED BY <2>1, <2>2, <2>3, <2>4, <2>5
<1>5. CASE Started
  <2>1. TypeOK'
    BY <1>5, Constants DEF Started, TypeOK
  <2>2. IsMailDataset(records)' /\ SampleMailIsGone'
    BY <1>5 DEF Started, SampleMailIsGone
  <2>3. ResidueIsOwed' /\ CompactedWhenMarking'
    BY <1>5 DEF Started, ResidueIsOwed, CompactedWhenMarking
  <2>4. Exclusion' /\ OldFormats'
    BY <1>5 DEF Started, Exclusion, OldFormats
  <2>5. PlanIsFresh'
    BY <1>5 DEF Started, PlanIsFresh
  <2> QED BY <2>1, <2>2, <2>3, <2>4, <2>5
<1> QED BY <1>1, <1>2, <1>3, <1>4, <1>5 DEF StartStep

\* What begins, fails or crashes, the commits of a sync, and time.
LEMMA RestKeeps ==
    ASSUME IInv,
           \/ StartRetention \/ WorkerFails
           \/ Call("sync") \/ Call("activate") \/ Call("disconnect") \/ Call("delete")
           \/ SyncCommits \/ OpFails \/ Crash \/ Tick
    PROVE  IInv'
<1> USE DEF IInv, stores, journal, At, Idle, NoRun, Residues, Unfinished, Disconnecting
<1>1. CASE StartRetention
  <2>1. TypeOK'
    BY <1>1 DEF StartRetention, TypeOK, RetentionRuns
  <2>2. IsMailDataset(records)' /\ SampleMailIsGone'
    BY <1>1 DEF StartRetention, SampleMailIsGone
  <2>3. ResidueIsOwed' /\ CompactedWhenMarking'
    BY <1>1 DEF StartRetention, At, ResidueIsOwed, CompactedWhenMarking
  <2>4. Exclusion' /\ OldFormats'
    BY <1>1 DEF StartRetention, Exclusion, OldFormats
  <2>5. PlanIsFresh'
    BY <1>1 DEF StartRetention, PlanIsFresh
  <2> QED BY <2>1, <2>2, <2>3, <2>4, <2>5
<1>2. CASE WorkerFails
  <2>1. TypeOK'
    BY <1>2, Constants, StorageAssumption DEF WorkerFails, TypeOK
  <2>2. IsMailDataset(records)' /\ SampleMailIsGone'
    BY <1>2 DEF WorkerFails, SampleMailIsGone
  <2>3. ResidueIsOwed' /\ CompactedWhenMarking'
    BY <1>2 DEF WorkerFails, At, ResidueIsOwed, CompactedWhenMarking
  <2>4. Exclusion' /\ OldFormats'
    BY <1>2 DEF WorkerFails, Exclusion, OldFormats
  <2>5. PlanIsFresh'
    BY <1>2 DEF WorkerFails, PlanIsFresh
  <2> QED BY <2>1, <2>2, <2>3, <2>4, <2>5
<1>3. CASE \E kind \in {"sync", "activate", "disconnect", "delete"} : Call(kind)
  <2>1. TypeOK'
    <3>1. op' \in Operations
      BY <1>3 DEF Call, Operations
    <3> QED BY <1>3, <3>1 DEF Call, TypeOK
  <2>2. IsMailDataset(records)' /\ SampleMailIsGone'
    BY <1>3 DEF Call, SampleMailIsGone
  <2>3. ResidueIsOwed' /\ CompactedWhenMarking'
    BY <1>3 DEF Call, At, ResidueIsOwed, CompactedWhenMarking
  <2>4. Exclusion' /\ OldFormats'
    BY <1>3 DEF Call, Exclusion, OldFormats
  <2>5. PlanIsFresh'
    BY <1>3 DEF Call, PlanIsFresh
  <2> QED BY <2>1, <2>2, <2>3, <2>4, <2>5
<1>4. CASE SyncCommits
  <2>1. TypeOK'
    BY <1>4 DEF SyncCommits, TypeOK
  <2>2. IsMailDataset(records)' /\ SampleMailIsGone'
    BY <1>4 DEF SyncCommits, SampleMailIsGone
  <2>3. ResidueIsOwed' /\ CompactedWhenMarking'
    BY <1>4 DEF SyncCommits, At, ResidueIsOwed, CompactedWhenMarking
  <2>4. Exclusion' /\ OldFormats'
    BY <1>4 DEF SyncCommits, Exclusion, OldFormats
  <2>5. PlanIsFresh'
    BY <1>4 DEF SyncCommits, PlanIsFresh
  <2> QED BY <2>1, <2>2, <2>3, <2>4, <2>5
<1>5. CASE OpFails
  <2>1. TypeOK'
    <3>1. op' \in Operations /\ faults' \in 0..MaxFaults
      BY <1>5, StorageAssumption DEF OpFails, TypeOK, Operations
    <3>2. unfinished' \subseteq Unfinished
      BY <1>5 DEF OpFails, TypeOK
    <3>3. process' \in {"stopped", "ready", "deleted"} \/ op.kind = "none"
      BY <1>5 DEF OpFails, TypeOK
    <3> QED BY <1>5, <3>1, <3>2, <3>3 DEF OpFails, TypeOK
  <2>2. IsMailDataset(records)' /\ SampleMailIsGone'
    BY <1>5 DEF OpFails, SampleMailIsGone
  <2>3. ResidueIsOwed' /\ CompactedWhenMarking'
    BY <1>5 DEF OpFails, At, ResidueIsOwed, CompactedWhenMarking
  <2>4. Exclusion' /\ OldFormats'
    BY <1>5 DEF OpFails, Exclusion, OldFormats
  <2>5. PlanIsFresh'
    BY <1>5 DEF OpFails, PlanIsFresh
  <2> QED BY <2>1, <2>2, <2>3, <2>4, <2>5
<1>6. CASE Crash
  <2>1. TypeOK'
    BY <1>6, Constants, StorageAssumption DEF Crash, TypeOK
  <2>2. IsMailDataset(records)' /\ SampleMailIsGone'
    BY <1>6 DEF Crash, SampleMailIsGone
  <2>3. ResidueIsOwed' /\ CompactedWhenMarking'
    BY <1>6 DEF Crash, At, ResidueIsOwed, CompactedWhenMarking
  <2>4. Exclusion' /\ OldFormats'
    BY <1>6 DEF Crash, Exclusion, OldFormats
  <2>5. PlanIsFresh'
    BY <1>6 DEF Crash, PlanIsFresh
  <2> QED BY <2>1, <2>2, <2>3, <2>4, <2>5
<1>7. CASE Tick
  <2>1. TypeOK'
    BY <1>7, StorageAssumption DEF Tick, TypeOK
  <2>2. IsMailDataset(records)' /\ SampleMailIsGone'
    BY <1>7 DEF Tick, SampleMailIsGone
  <2>3. ResidueIsOwed' /\ CompactedWhenMarking'
    BY <1>7 DEF Tick, At, ResidueIsOwed, CompactedWhenMarking
  <2>4. Exclusion' /\ OldFormats'
    BY <1>7 DEF Tick, Exclusion, OldFormats
  <2>5. PlanIsFresh'
    BY <1>7 DEF Tick, PlanIsFresh
  <2> QED BY <2>1, <2>2, <2>3, <2>4, <2>5
<1> QED BY <1>1, <1>2, <1>3, <1>4, <1>5, <1>6, <1>7

\* Every step keeps the invariant.
LEMMA NextIInv == IInv /\ [Next]_vars => IInv'
<1> SUFFICES ASSUME IInv, [Next]_vars PROVE IInv'
  OBVIOUS
<1>1. CASE Next
  BY <1>1, WorkerKeeps, OpKeeps, StartKeeps, RestKeeps DEF Next
<1>2. CASE UNCHANGED vars
  BY <1>2
     DEF vars, stores, journal, IInv, TypeOK, SampleMailIsGone, ResidueIsOwed, Disconnecting,
         At, Exclusion, PlanIsFresh, CompactedWhenMarking, OldFormats
<1> QED BY <1>1, <1>2

-----------------------------------------------------------------------------
(* The theorems *)

\* Every variable has its type, at every step of every behaviour.
THEOREM TypeCorrect == Spec => []TypeOK
<1>1. IInv => TypeOK
  BY DEF IInv
<1> QED BY InitIInv, NextIInv, <1>1, PTL DEF Spec

\* No run of retention, start or deletion brings the sample mail back after the
\* switch to live mail or after the deletion.
THEOREM SampleMailStaysGone == Spec => []SampleMailIsGone
<1>1. IInv => SampleMailIsGone
  BY DEF IInv
<1> QED BY InitIInv, NextIInv, <1>1, PTL DEF Spec

\* What the worker, the switch, the deletion or the start has rewritten is remembered
\* by the status until the file is compacted, and no activation goes on before; what
\* a disconnect leaves of provider mail, by its unfinished row of the journal alone.
THEOREM ResidueIsRemembered == Spec => []ResidueIsOwed
<1>1. IInv => ResidueIsOwed
  BY DEF IInv
<1> QED BY InitIInv, NextIInv, <1>1, PTL DEF Spec

\* What retention writes, and what a removal would leave, is the largest part of
\* whatever the data set has become.
THEOREM RestsStayLargest == Spec => []RestsAreLargest
<1>1. IInv => PlanIsLargest
  <2> SUFFICES ASSUME IInv, worker.step = "replacing"
               PROVE  LET cutoff == Cutoff(worker.now)
                      IN /\ InWindow(worker.plan, records, cutoff)
                         /\ \A e \in Datasets :
                              InWindow(e, records, cutoff) => PartOf(e, worker.plan)
    BY DEF PlanIsLargest
  <2>1. Cutoff(worker.now) \in Int
    BY StorageAssumption DEF IInv, TypeOK, RetentionRuns, Cutoff
  <2>2. worker.plan = Retained(records, Cutoff(worker.now))
    BY DEF IInv, PlanIsFresh
  <2> QED BY <2>1, <2>2, RetainedIsLargest DEF IInv, TypeOK
<1>2. IInv => RemovalIsLargest
  BY WithoutAccountIsLargest DEF IInv, TypeOK, RemovalIsLargest
<1> QED BY InitIInv, NextIInv, <1>1, <1>2, PTL DEF Spec, RestsAreLargest
================================================================================
