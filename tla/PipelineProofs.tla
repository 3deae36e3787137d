--------------------------- MODULE PipelineProofs ---------------------------
(***************************************************************************)
(* Proofs about Pipeline: what the queue says is on record, and a write    *)
(* that was lost after it reached the destination is found again.          *)
(***************************************************************************)
EXTENDS Pipeline, SequenceTheorems, FiniteSetTheorems, TLAPS

Payloads == Hashes \cup {NoHash}

-----------------------------------------------------------------------------
(***************************************************************************)
(* The document tables.                                                    *)
(***************************************************************************)

\* The tables have their types, and agree with each other: what is settled is
\* at the destination; what is written is settled; a document approved for its
\* latest extraction is approved or written.
TableTypes ==
    /\ doc \in [Docs -> [status : DocStatuses, hash : Payloads]]
    /\ runs \in [Docs -> Seq(Payloads)]
    /\ \A d \in Docs : Len(runs[d]) <= MaxRuns
    /\ requested \in [Docs -> Nat]
    /\ approval \in [Docs -> [hash : Payloads, expired : BOOLEAN]]
    /\ write \in [Keys -> {"none", "failed", "succeeded"}]
    /\ crm \subseteq Keys

Coherent(d) ==
    /\ doc[d].status = "absent" => doc[d].hash = NoHash
    /\ (doc[d].hash # NoHash /\ Latest(d) = doc[d].hash)
         => doc[d].status \in {"approved", "written"}
    /\ doc[d].status = "written" => Settled(d)

Tables ==
    /\ TableTypes
    /\ \A k \in Keys : write[k] = "succeeded" => k \in crm
    /\ \A d \in Docs : Coherent(d)

\* A payload that got to the destination under the approval d still has: it is
\* settled and written, or the gate is still open to it but for the time.
Unsettled(d, h) ==
    /\ write[<<d, h>>] # "succeeded" /\ doc[d].status = "approved"
    /\ approval[d].hash = h /\ Latest(d) = h
Kept(d, h) ==
    /\ doc[d].hash = h
    /\ (write[<<d, h>>] = "succeeded" /\ doc[d].status = "written") \/ Unsettled(d, h)

\* What a step never takes back: what the tables show of d, and, unless it is
\* extracted again, a payload that got to the destination, or came too late.
Forward(d) ==
    /\ HasDraft(d) => HasDraft(d)'
    /\ HasFailure(d) => HasFailure(d)'
    /\ HasRecord(d) => HasRecord(d)'
    /\ HasWrite(d) => HasWrite(d)'
    /\ Len(runs[d]) <= Len(runs'[d])
    /\ Len(runs[d]) = Len(runs'[d]) =>
         \A h \in Hashes :
            Kept(d, h) =>
              /\ Kept(d, h)'
              /\ (approval[d].expired /\ write[<<d, h>>] # "succeeded")
                   => (approval'[d].expired /\ write'[<<d, h>>] # "succeeded")

TableStep == Tables' /\ \A d \in Docs : Forward(d)

LEMMA TablesStutter ==
    ASSUME Tables, UNCHANGED <<tables, crm>>
    PROVE  TableStep
<1>1. UNCHANGED <<doc, runs, requested, approval, write, crm>>
  BY DEF tables
<1>2. TableTypes'
  BY <1>1 DEF Tables, TableTypes
<1>3. \A d \in Docs : Coherent(d)'
  BY <1>1 DEF Tables, Coherent, Latest, Settled, Key
<1>4. \A k \in Keys : write'[k] = "succeeded" => k \in crm'
  BY <1>1 DEF Tables
<1>5. ASSUME NEW d \in Docs PROVE Forward(d)
  <2>1. Len(runs[d]) \in Nat
    BY LenProperties DEF Tables, TableTypes
  <2>2. /\ HasDraft(d) => HasDraft(d)'
        /\ HasFailure(d) => HasFailure(d)'
        /\ HasRecord(d) => HasRecord(d)'
        /\ HasWrite(d) => HasWrite(d)'
    BY <1>1 DEF HasDraft, HasFailure, HasRecord, HasWrite
  <2>3. \A h \in Hashes : Kept(d, h) => Kept(d, h)'
    BY <1>1 DEF Kept, Unsettled, Latest
  <2> QED
    BY <1>1, <2>1, <2>2, <2>3 DEF Forward
<1> QED
  BY <1>2, <1>3, <1>4, <1>5 DEF Tables, TableStep

\* The row that extract_document adds.
LEMMA AddedRow ==
    ASSUME NEW s \in Seq(Payloads), NEW x \in Payloads
    PROVE  /\ Append(s, x) \in Seq(Payloads)
           /\ Len(Append(s, x)) = Len(s) + 1
           /\ Append(s, x) # << >>
           /\ DOMAIN Append(s, x) = 1 .. Len(s) + 1
           /\ Append(s, x)[Len(s) + 1] = x
           /\ \A i \in DOMAIN s : i \in DOMAIN Append(s, x) /\ Append(s, x)[i] = s[i]
           /\ Len(s) + 1 \in DOMAIN Append(s, x)
<1>1. /\ Append(s, x) \in Seq(Payloads)
      /\ Len(Append(s, x)) = Len(s) + 1
      /\ Append(s, x)[Len(s) + 1] = x
      /\ \A i \in 1 .. Len(s) : Append(s, x)[i] = s[i]
  BY AppendProperties
<1>2. DOMAIN s = 1 .. Len(s) /\ DOMAIN Append(s, x) = 1 .. Len(s) + 1 /\ Len(s) \in Nat
  BY <1>1, LenProperties
<1>3. Append(s, x) # << >>
  BY <1>1, <1>2, EmptySeq, LenProperties
<1> QED
  BY <1>1, <1>2, <1>3

\* An extraction keeps the tables coherent and takes nothing back.
LEMMA RunStep ==
    ASSUME PipelineAssumption, Tables, NEW d \in Docs, NEW hash \in Payloads,
           NEW status \in DocStatuses, Runs(d, hash, status),
           status \notin {"absent", "written"},
           UNCHANGED <<approval, write, crm>>
    PROVE  /\ TableStep
           /\ hash # NoHash => HasDraft(d)'
           /\ hash = NoHash => HasFailure(d)'
<1>1. /\ runs \in [Docs -> Seq(Payloads)]
      /\ doc \in [Docs -> [status : DocStatuses, hash : Payloads]]
      /\ requested \in [Docs -> Nat]
  BY DEF Tables, TableTypes
<1>2. /\ runs' = [runs EXCEPT ![d] = Append(runs[d], hash)]
      /\ Len(runs[d]) < MaxRuns
      /\ requested' = [requested EXCEPT ![d] = @ + 1]
      /\ doc' = [doc EXCEPT ![d] =
                   [status |-> status, hash |-> IF hash = NoHash THEN @.hash ELSE NoHash]]
  BY DEF Runs, Requests
<1> DEFINE s == runs[d]
           a == Append(s, hash)
<1>3. s \in Seq(Payloads) /\ Len(s) \in Nat
  BY <1>1, LenProperties
<1>4. /\ runs'[d] = a
      /\ \A e \in Docs : e # d => runs'[e] = runs[e] /\ doc'[e] = doc[e]
      /\ doc'[d] = [status |-> status, hash |-> IF hash = NoHash THEN doc[d].hash ELSE NoHash]
  BY <1>1, <1>2
<1>5. /\ a \in Seq(Payloads) /\ Len(a) = Len(s) + 1 /\ a # << >>
      /\ a[Len(s) + 1] = hash /\ Len(s) + 1 \in DOMAIN a
      /\ \A i \in DOMAIN s : i \in DOMAIN a /\ a[i] = s[i]
  BY <1>3, AddedRow
<1> HIDE DEF a, s
<1>6. TableTypes'
  <2>1. runs' \in [Docs -> Seq(Payloads)]
    BY <1>1, <1>2, <1>5 DEF a, s
  <2>2. \A e \in Docs : Len(runs'[e]) <= MaxRuns
    BY <1>2, <1>3, <1>4, <1>5 DEF Tables, TableTypes, PipelineAssumption, s
  <2>3. doc' \in [Docs -> [status : DocStatuses, hash : Payloads]]
    BY <1>1, <1>2 DEF Payloads
  <2>4. requested' \in [Docs -> Nat]
    BY <1>1, <1>2
  <2> QED
    BY <2>1, <2>2, <2>3, <2>4 DEF Tables, TableTypes
<1>7. ASSUME NEW e \in Docs PROVE Coherent(e)'
  <2>1. CASE e # d
    BY <2>1, <1>4 DEF Tables, Coherent, Latest, Settled, Key
  <2>2. CASE e = d
    <3>1. Latest(d)' = hash
      BY <1>4, <1>5 DEF Latest
    <3>2. doc'[d].status = status /\ doc'[d].hash = IF hash = NoHash THEN doc[d].hash ELSE NoHash
      BY <1>4
    <3> QED
      BY <2>2, <3>1, <3>2 DEF Coherent
  <2> QED
    BY <2>1, <2>2
<1>8. ASSUME NEW e \in Docs PROVE Forward(e)
  <2>1. CASE e # d
    <3>1. runs'[e] = runs[e] /\ doc'[e] = doc[e] /\ Len(runs[e]) \in Nat
      BY <2>1, <1>1, <1>4, LenProperties
    <3>2. /\ HasDraft(e) => HasDraft(e)'
          /\ HasFailure(e) => HasFailure(e)'
          /\ HasRecord(e) => HasRecord(e)'
          /\ HasWrite(e) => HasWrite(e)'
      BY <3>1 DEF HasDraft, HasFailure, HasRecord, HasWrite
    <3>3. \A h \in Hashes : Kept(e, h) => Kept(e, h)'
      BY <3>1 DEF Kept, Unsettled, Latest
    <3> QED
      BY <3>1, <3>2, <3>3 DEF Forward
  <2>2. CASE e = d
    <3>1. Len(runs'[e]) = Len(runs[e]) + 1 /\ Len(runs[e]) \in Nat
      BY <2>2, <1>3, <1>4, <1>5 DEF s
    <3>2. \A i \in DOMAIN runs[e] : i \in DOMAIN runs'[e] /\ runs'[e][i] = runs[e][i]
      BY <2>2, <1>4, <1>5 DEF s
    <3>3. (HasDraft(e) => HasDraft(e)') /\ (HasFailure(e) => HasFailure(e)')
      BY <3>2 DEF HasDraft, HasFailure
    <3>4. (HasRecord(e) => HasRecord(e)') /\ (HasWrite(e) => HasWrite(e)')
      BY DEF HasRecord, HasWrite
    <3> QED
      BY <3>1, <3>3, <3>4 DEF Forward
  <2> QED
    BY <2>1, <2>2
<1>9. (hash # NoHash => HasDraft(d)') /\ (hash = NoHash => HasFailure(d)')
  BY <1>4, <1>5 DEF HasDraft, HasFailure
<1> QED
  <2>1. \A k \in Keys : write'[k] = "succeeded" => k \in crm'
    BY DEF Tables
  <2> QED
    BY <2>1, <1>6, <1>7, <1>8, <1>9 DEF Tables, TableStep

\* A draft that was judged, or a ProviderError.
LEMMA ExtractStep ==
    ASSUME PipelineAssumption, Tables, NEW d \in Docs, NEW error, Extracts(d, error),
           UNCHANGED crm
    PROVE  /\ TableStep
           /\ error = None => HasDraft(d)'
           /\ error \in ProviderErrors => HasFailure(d)'
           /\ error \in ProviderErrors \cup {None}
<1>1. UNCHANGED <<approval, write, crm>>
  BY DEF Extracts
<1>2. CASE error = None /\ \E hash \in Hashes : Runs(d, hash, Routed(hash))
  <2>1. PICK hash \in Hashes : Runs(d, hash, Routed(hash))
    BY <1>2
  <2>2. hash \in Payloads /\ hash # NoHash
    BY DEF Payloads, PipelineAssumption
  <2>3. Routed(hash) \in DocStatuses /\ Routed(hash) \notin {"absent", "written"}
    BY DEF Routed, DocStatuses
  <2>4. TableStep /\ HasDraft(d)'
    BY <1>1, <2>1, <2>2, <2>3, RunStep
  <2> QED
    BY <1>2, <2>4 DEF None, ProviderErrors
<1>3. CASE error \in ProviderErrors /\ Runs(d, NoHash, "extraction_failed")
  <2>1. TableStep /\ HasFailure(d)'
    BY <1>1, <1>3, RunStep DEF Payloads, DocStatuses
  <2> QED
    BY <1>3, <2>1 DEF None, ProviderErrors
<1> QED
  BY <1>2, <1>3 DEF Extracts

\* An exception nobody expects.
LEMMA BreakStep ==
    ASSUME PipelineAssumption, Tables, NEW d \in Docs, Breaks(d), UNCHANGED crm
    PROVE  TableStep
<1>1. UNCHANGED <<approval, write, crm>>
  BY DEF Breaks
<1>2. CASE Requests(d) /\ UNCHANGED <<runs, doc>>
  <2>1. TableTypes'
    BY <1>1, <1>2 DEF Tables, TableTypes, Requests
  <2>2. \A e \in Docs : Coherent(e)'
    BY <1>1, <1>2 DEF Tables, Coherent, Latest, Settled, Key
  <2>3. ASSUME NEW e \in Docs PROVE Forward(e)
    <3>1. Len(runs[e]) \in Nat
      BY LenProperties DEF Tables, TableTypes
    <3>2. /\ HasDraft(e) => HasDraft(e)'
          /\ HasFailure(e) => HasFailure(e)'
          /\ HasRecord(e) => HasRecord(e)'
          /\ HasWrite(e) => HasWrite(e)'
      BY <1>1, <1>2 DEF HasDraft, HasFailure, HasRecord, HasWrite
    <3>3. \A h \in Hashes : Kept(e, h) => Kept(e, h)'
      BY <1>1, <1>2 DEF Kept, Unsettled, Latest
    <3> QED
      BY <1>1, <1>2, <3>1, <3>2, <3>3 DEF Forward
  <2>4. \A k \in Keys : write'[k] = "succeeded" => k \in crm'
    BY <1>1 DEF Tables
  <2> QED
    BY <2>1, <2>2, <2>3, <2>4 DEF Tables, TableStep
<1>3. CASE \E hash \in Hashes : Runs(d, hash, "extracted")
  BY <1>1, <1>3, RunStep DEF Payloads, DocStatuses
<1> QED
  BY <1>2, <1>3 DEF Breaks

\* What reaches the destination leaves a document that keeps the payload.
LEMMA CallIsKept ==
    ASSUME PipelineAssumption, Tables, NEW d \in Docs, Calls(d)
    PROVE  doc[d].hash \in Hashes /\ Kept(d, doc[d].hash) /\ Key(d) \in Keys
<1>1. doc[d].hash \in Hashes
  BY DEF Tables, TableTypes, Calls, Payloads
<1>2. doc[d].status = "approved"
  BY DEF Tables, Coherent, Calls
<1> QED
  BY <1>1, <1>2 DEF Kept, Unsettled, Calls, Settled, Key, Keys

\* A write that lands settles its key and marks the document.
LEMMA LandStep ==
    ASSUME PipelineAssumption, Tables, NEW d \in Docs, Calls(d),
           doc[d].status = "approved",
           crm' = crm \cup {Key(d)}, write' = [write EXCEPT ![Key(d)] = "succeeded"],
           doc' = [doc EXCEPT ![d].status = "written"],
           UNCHANGED <<runs, requested, approval>>
    PROVE  /\ TableStep
           /\ HasRecord(d)'
           /\ Kept(d, doc[d].hash)'
<1>1. doc[d].hash \in Hashes /\ Key(d) = <<d, doc[d].hash>> /\ Key(d) \in Keys
  BY CallIsKept DEF Key
<1>2. /\ write' \in [Keys -> {"none", "failed", "succeeded"}]
      /\ write'[Key(d)] = "succeeded"
      /\ \A k \in Keys : k # Key(d) => write'[k] = write[k]
  BY <1>1 DEF Tables, TableTypes
<1>3. /\ doc' \in [Docs -> [status : DocStatuses, hash : Payloads]]
      /\ doc'[d].status = "written"
      /\ \A e \in Docs : doc'[e].hash = doc[e].hash
      /\ \A e \in Docs : e # d => doc'[e] = doc[e]
  BY DEF Tables, TableTypes, DocStatuses
<1>4. TableTypes'
  BY <1>1, <1>2, <1>3 DEF Tables, TableTypes
<1>5. \A k \in Keys : write'[k] = "succeeded" => k \in crm'
  BY <1>2 DEF Tables
<1>6. ASSUME NEW e \in Docs PROVE Coherent(e)'
  <2>1. CASE e = d
    BY <2>1, <1>1, <1>2, <1>3 DEF Coherent, Settled, Key, PipelineAssumption
  <2>2. CASE e # d
    <3>1. doc[e].hash # NoHash => <<e, doc[e].hash>> \in Keys /\ <<e, doc[e].hash>> # Key(d)
      BY <2>2, <1>1 DEF Keys, Tables, TableTypes, Payloads
    <3> QED
      BY <2>2, <3>1, <1>2, <1>3 DEF Tables, Coherent, Latest, Settled, Key
  <2> QED
    BY <2>1, <2>2
<1>7. ASSUME NEW e \in Docs PROVE Forward(e)
  <2>1. Len(runs[e]) \in Nat
    BY LenProperties DEF Tables, TableTypes
  <2>2. \A h \in Hashes : <<e, h>> \in Keys
    BY DEF Keys
  <2>3. /\ HasDraft(e) => HasDraft(e)'
        /\ HasFailure(e) => HasFailure(e)'
        /\ HasRecord(e) => HasRecord(e)'
        /\ HasWrite(e) => HasWrite(e)'
    BY <1>2, <2>2 DEF HasDraft, HasFailure, HasRecord, HasWrite
  <2>4. ASSUME NEW h \in Hashes, Kept(e, h)
        PROVE  /\ Kept(e, h)'
               /\ (approval[e].expired /\ write[<<e, h>>] # "succeeded")
                    => write'[<<e, h>>] # "succeeded"
    <3>1. CASE e = d
      BY <3>1, <1>1, <1>2, <1>3, <2>2, <2>4 DEF Kept, Calls
    <3>2. CASE e # d
      BY <3>2, <1>1, <1>2, <1>3, <2>2, <2>4 DEF Kept, Unsettled, Latest
    <3> QED
      BY <3>1, <3>2
  <2> QED
    BY <2>1, <2>3, <2>4 DEF Forward
<1>8. HasRecord(d)'
  BY <1>1, <1>2 DEF HasRecord
<1>9. Kept(d, doc[d].hash)'
  BY <1>1, <1>2, <1>3 DEF Kept
<1> QED
  BY <1>4, <1>5, <1>6, <1>7, <1>8, <1>9 DEF Tables, TableStep

\* A refusal of the destination leaves its row.
LEMMA RefusedStep ==
    ASSUME PipelineAssumption, Tables, NEW d \in Docs, Calls(d),
           write' = [write EXCEPT ![Key(d)] = "failed"],
           UNCHANGED <<doc, runs, requested, approval, crm>>
    PROVE  /\ TableStep
           /\ HasWrite(d)'
<1>1. doc[d].hash \in Hashes /\ Key(d) = <<d, doc[d].hash>> /\ Key(d) \in Keys
  BY CallIsKept DEF Key
<1>2. /\ write' \in [Keys -> {"none", "failed", "succeeded"}]
      /\ write'[Key(d)] = "failed" /\ write[Key(d)] # "succeeded"
      /\ \A k \in Keys : k # Key(d) => write'[k] = write[k]
  BY <1>1 DEF Tables, TableTypes, Calls, Settled
<1>3. TableTypes'
  BY <1>2 DEF Tables, TableTypes
<1>4. \A k \in Keys : write'[k] = "succeeded" => k \in crm'
  BY <1>2 DEF Tables
<1>5. ASSUME NEW e \in Docs PROVE Coherent(e)'
  <2>1. doc[e].hash # NoHash => <<e, doc[e].hash>> \in Keys
    BY DEF Keys, Tables, TableTypes, Payloads
  <2> QED
    BY <2>1, <1>2 DEF Tables, Coherent, Latest, Settled, Key
<1>6. ASSUME NEW e \in Docs PROVE Forward(e)
  <2>1. Len(runs[e]) \in Nat
    BY LenProperties DEF Tables, TableTypes
  <2>2. \A h \in Hashes : <<e, h>> \in Keys
    BY DEF Keys
  <2>3. /\ HasDraft(e) => HasDraft(e)'
        /\ HasFailure(e) => HasFailure(e)'
        /\ HasRecord(e) => HasRecord(e)'
        /\ HasWrite(e) => HasWrite(e)'
    BY <1>2, <2>2 DEF HasDraft, HasFailure, HasRecord, HasWrite
  <2>4. ASSUME NEW h \in Hashes, Kept(e, h)
        PROVE  /\ Kept(e, h)'
               /\ write[<<e, h>>] # "succeeded" => write'[<<e, h>>] # "succeeded"
    BY <1>1, <1>2, <2>2, <2>4 DEF Kept, Unsettled, Latest
  <2> QED
    BY <2>1, <2>3, <2>4 DEF Forward
<1>7. HasWrite(d)'
  BY <1>1, <1>2 DEF HasWrite
<1> QED
  BY <1>3, <1>4, <1>5, <1>6, <1>7 DEF Tables, TableStep

\* What write_approved_record answers, the tables show; and it refuses a
\* payload that got to the destination only when the approval has run out.
LEMMA WriteStep ==
    ASSUME PipelineAssumption, Tables, NEW d \in Docs, NEW error, Writes(d, error)
    PROVE  /\ TableStep
           /\ error \in CrmErrors \cup {"ApprovalError", None}
           /\ error = None => /\ HasRecord(d)'
                              /\ doc[d].hash \in Hashes /\ Kept(d, doc[d].hash)'
           /\ error \in CrmErrors => HasWrite(d)'
           /\ error = "ApprovalError" =>
                \A h \in Hashes : Kept(d, h) =>
                   approval[d].expired /\ write[<<d, h>>] # "succeeded"
           /\ UNCHANGED runs
<1>1. UNCHANGED <<runs, requested, approval>>
  BY DEF Writes
<1>2. None # "ApprovalError" /\ None \notin CrmErrors /\ "ApprovalError" \notin CrmErrors
  BY DEF None, CrmErrors
<1>3. CASE Replays(d) /\ error = None /\ UNCHANGED <<doc, write, crm>>
  <2>1. UNCHANGED <<tables, crm>>
    BY <1>1, <1>3 DEF tables
  <2>2. doc[d].hash \in Hashes /\ <<d, doc[d].hash>> \in Keys
    BY <1>3 DEF Replays, Settled, Tables, TableTypes, Payloads, Keys
  <2>3. HasRecord(d)'
    BY <1>3, <2>2 DEF Replays, Settled, Key, Tables, HasRecord
  <2>4. Kept(d, doc[d].hash)'
    BY <1>3 DEF Replays, Settled, Key, Kept
  <2> QED
    BY <1>1, <1>2, <1>3, <2>1, <2>2, <2>3, <2>4, TablesStutter
<1>4. CASE ~Replays(d) /\ ~Calls(d) /\ error = "ApprovalError" /\ UNCHANGED <<doc, write, crm>>
  <2>1. UNCHANGED <<tables, crm>>
    BY <1>1, <1>4 DEF tables
  <2>2. ASSUME NEW h \in Hashes, Kept(d, h)
        PROVE  approval[d].expired /\ write[<<d, h>>] # "succeeded"
    <3>1. doc[d].hash = h /\ h # NoHash
      BY <2>2 DEF Kept, PipelineAssumption
    <3>2. write[<<d, h>>] # "succeeded"
      BY <1>4, <2>2, <3>1 DEF Kept, Unsettled, Replays, Settled, Key
    <3> QED
      BY <1>4, <2>2, <3>1, <3>2 DEF Kept, Unsettled, Calls, Settled, Key
  <2> QED
    BY <1>1, <1>2, <1>4, <2>1, <2>2, TablesStutter
<1>5. CASE /\ Calls(d)
           /\ crm' = crm \cup {Key(d)}
           /\ write' = [write EXCEPT ![Key(d)] = "succeeded"]
           /\ doc[d].status = "approved" /\ error = None
           /\ doc' = [doc EXCEPT ![d].status = "written"]
  BY <1>1, <1>2, <1>5, LandStep, CallIsKept
<1>6. CASE /\ Calls(d) /\ error \in CrmErrors
           /\ write' = [write EXCEPT ![Key(d)] = "failed"]
           /\ UNCHANGED <<doc, crm>>
  BY <1>1, <1>2, <1>6, RefusedStep
<1> QED
  BY <1>3, <1>4, <1>5, <1>6 DEF Writes

\* Nothing but the destination changes when the answer is lost.
LEMMA LostAnswerStep ==
    ASSUME PipelineAssumption, Tables, NEW d \in Docs, Calls(d),
           crm' = crm \cup {Key(d)}, UNCHANGED tables
    PROVE  TableStep
<1>1. Key(d) \in Keys
  BY CallIsKept
<1>2. UNCHANGED <<doc, runs, requested, approval, write>>
  BY DEF tables
<1>3. TableTypes'
  BY <1>1, <1>2 DEF Tables, TableTypes
<1>4. \A e \in Docs : Coherent(e)'
  BY <1>2 DEF Tables, Coherent, Latest, Settled, Key
<1>5. \A k \in Keys : write'[k] = "succeeded" => k \in crm'
  BY <1>2 DEF Tables
<1>6. ASSUME NEW e \in Docs PROVE Forward(e)
  <2>1. Len(runs[e]) \in Nat
    BY LenProperties DEF Tables, TableTypes
  <2>2. /\ HasDraft(e) => HasDraft(e)'
        /\ HasFailure(e) => HasFailure(e)'
        /\ HasRecord(e) => HasRecord(e)'
        /\ HasWrite(e) => HasWrite(e)'
    BY <1>2 DEF HasDraft, HasFailure, HasRecord, HasWrite
  <2>3. \A h \in Hashes : Kept(e, h) => Kept(e, h)'
    BY <1>2 DEF Kept, Unsettled, Latest
  <2> QED
    BY <1>2, <2>1, <2>2, <2>3 DEF Forward
<1> QED
  BY <1>3, <1>4, <1>5, <1>6 DEF Tables, TableStep

\* Approving, running out of time, and arriving.
LEMMA ApproveStep ==
    ASSUME PipelineAssumption, Tables, NEW d \in Docs, Approves(d)
    PROVE  TableStep
<1>1. /\ doc[d].status = "validated" /\ Latest(d) # NoHash
      /\ approval' = [approval EXCEPT ![d] = [hash |-> Latest(d), expired |-> FALSE]]
      /\ doc' = [doc EXCEPT ![d] = [status |-> "approved", hash |-> Latest(d)]]
      /\ UNCHANGED <<runs, requested, write, crm>>
  BY DEF Approves
<1>2. Latest(d) \in Payloads
  <2>1. runs[d] \in Seq(Payloads)
    BY DEF Tables, TableTypes
  <2>2. runs[d] # << >> => runs[d][Len(runs[d])] \in Payloads
    BY <2>1, EmptySeq, LenProperties, ElementOfSeq
  <2> QED
    BY <2>2 DEF Latest, Payloads
<1>3. TableTypes'
  BY <1>1, <1>2 DEF Tables, TableTypes, DocStatuses
<1>4. /\ doc'[d] = [status |-> "approved", hash |-> Latest(d)]
      /\ \A e \in Docs : e # d => doc'[e] = doc[e] /\ approval'[e] = approval[e]
  BY <1>1 DEF Tables, TableTypes
<1>5. ASSUME NEW e \in Docs PROVE Coherent(e)'
  <2>1. CASE e = d
    BY <2>1, <1>4 DEF Coherent
  <2>2. CASE e # d
    BY <2>2, <1>1, <1>4 DEF Tables, Coherent, Latest, Settled, Key
  <2> QED
    BY <2>1, <2>2
<1>6. \A k \in Keys : write'[k] = "succeeded" => k \in crm'
  BY <1>1 DEF Tables
<1>7. ASSUME NEW e \in Docs PROVE Forward(e)
  <2>1. Len(runs[e]) \in Nat
    BY LenProperties DEF Tables, TableTypes
  <2>2. /\ HasDraft(e) => HasDraft(e)'
        /\ HasFailure(e) => HasFailure(e)'
        /\ HasRecord(e) => HasRecord(e)'
        /\ HasWrite(e) => HasWrite(e)'
    BY <1>1 DEF HasDraft, HasFailure, HasRecord, HasWrite
  <2>3. ASSUME NEW h \in Hashes, Kept(e, h)
        PROVE  e # d
    BY <1>1, <2>3 DEF Kept, Unsettled
  <2>4. \A h \in Hashes : Kept(e, h) => Kept(e, h)' /\ approval'[e] = approval[e]
    BY <1>1, <1>4, <2>3 DEF Kept, Unsettled, Latest
  <2> QED
    BY <1>1, <2>1, <2>2, <2>4 DEF Forward
<1> QED
  BY <1>3, <1>5, <1>6, <1>7 DEF Tables, TableStep

LEMMA ExpireStep ==
    ASSUME PipelineAssumption, Tables, NEW d \in Docs, Expire(d)
    PROVE  TableStep
<1>1. /\ approval' = [approval EXCEPT ![d].expired = TRUE]
      /\ UNCHANGED <<doc, runs, requested, write, crm>>
  BY DEF Expire
<1>2. TableTypes'
  BY <1>1 DEF Tables, TableTypes
<1>3. \A e \in Docs : approval'[e].hash = approval[e].hash
                        /\ (approval[e].expired => approval'[e].expired)
  BY <1>1 DEF Tables, TableTypes
<1>4. \A e \in Docs : Coherent(e)'
  BY <1>1 DEF Tables, Coherent, Latest, Settled, Key
<1>5. \A k \in Keys : write'[k] = "succeeded" => k \in crm'
  BY <1>1 DEF Tables
<1>6. ASSUME NEW e \in Docs PROVE Forward(e)
  <2>1. Len(runs[e]) \in Nat
    BY LenProperties DEF Tables, TableTypes
  <2>2. /\ HasDraft(e) => HasDraft(e)'
        /\ HasFailure(e) => HasFailure(e)'
        /\ HasRecord(e) => HasRecord(e)'
        /\ HasWrite(e) => HasWrite(e)'
    BY <1>1 DEF HasDraft, HasFailure, HasRecord, HasWrite
  <2>3. \A h \in Hashes : Kept(e, h) => Kept(e, h)'
    BY <1>1, <1>3 DEF Kept, Unsettled, Latest
  <2> QED
    BY <1>1, <1>3, <2>1, <2>2, <2>3 DEF Forward
<1> QED
  BY <1>2, <1>4, <1>5, <1>6 DEF Tables, TableStep

LEMMA ReceiveStep ==
    ASSUME PipelineAssumption, Tables, NEW d \in Docs, Receive(d)
    PROVE  TableStep
<1>1. /\ doc[d].status = "absent"
      /\ doc' = [doc EXCEPT ![d].status = "received"]
      /\ UNCHANGED <<runs, requested, approval, write, crm>>
  BY DEF Receive
<1>2. TableTypes'
  BY <1>1 DEF Tables, TableTypes, DocStatuses
<1>3. /\ doc'[d].status = "received" /\ doc'[d].hash = NoHash
      /\ \A e \in Docs : e # d => doc'[e] = doc[e]
  BY <1>1 DEF Tables, TableTypes, Coherent
<1>4. ASSUME NEW e \in Docs PROVE Coherent(e)'
  <2>1. CASE e = d
    BY <2>1, <1>3 DEF Coherent
  <2>2. CASE e # d
    BY <2>2, <1>1, <1>3 DEF Tables, Coherent, Latest, Settled, Key
  <2> QED
    BY <2>1, <2>2
<1>5. \A k \in Keys : write'[k] = "succeeded" => k \in crm'
  BY <1>1 DEF Tables
<1>6. ASSUME NEW e \in Docs PROVE Forward(e)
  <2>1. Len(runs[e]) \in Nat
    BY LenProperties DEF Tables, TableTypes
  <2>2. /\ HasDraft(e) => HasDraft(e)'
        /\ HasFailure(e) => HasFailure(e)'
        /\ HasRecord(e) => HasRecord(e)'
        /\ HasWrite(e) => HasWrite(e)'
    BY <1>1 DEF HasDraft, HasFailure, HasRecord, HasWrite
  <2>3. ASSUME NEW h \in Hashes, Kept(e, h) PROVE Kept(e, h)'
    <3>1. e # d
      BY <1>1, <2>3 DEF Kept, Unsettled
    <3> QED
      BY <1>1, <1>3, <2>3, <3>1 DEF Kept, Unsettled, Latest
  <2> QED
    BY <1>1, <2>1, <2>2, <2>3 DEF Forward
<1> QED
  BY <1>2, <1>4, <1>5, <1>6 DEF Tables, TableStep

-----------------------------------------------------------------------------
(***************************************************************************)
(* The queue and the workers.                                              *)
(***************************************************************************)
JobRows == [ type     : {"extract", "write", None},
             doc      : Docs \cup {None},
             attempts : Nat,
             error    : Errors \cup {None},
             landed   : [hash : Payloads, at : 0 .. MaxRuns] ]
WorkerStates == [ pc      : {"idle", "claimed", "dispatched"},
                  job     : Jobs \cup {None},
                  outcome : Errors \cup {None} ]

QueueTypes ==
    /\ verdict \in [Jobs -> {"absent", "open", "succeeded", "failed"}]
    /\ holders \in [Jobs -> SUBSET Workers]
    /\ job \in [Jobs -> JobRows]
    /\ worker \in [Workers -> WorkerStates]
    /\ crashes \in 0 .. MaxCrashes

\* A job is claimed again only after a retry or the loss of a worker.
Counted(j) ==
    /\ job[j].attempts <= MaxAttempts + crashes
    /\ (verdict[j] = "open" /\ holders[j] = {}) => job[j].attempts < MaxAttempts + crashes

Queued(j) ==
    /\ verdict[j] = "absent" => job[j] = NoJob
    /\ verdict[j] # "absent" => job[j].type \in {"extract", "write"} /\ job[j].doc \in Docs

\* A worker has the job it works on in hand.
InHand(w) ==
    worker[w].pc # "idle" =>
        /\ worker[w].job \in Jobs
        /\ holders[worker[w].job] = {w}
        /\ verdict[worker[w].job] = "open"

Queue ==
    /\ QueueTypes
    /\ \A j \in Jobs : Counted(j) /\ Queued(j)
    /\ \A w \in Workers : InHand(w)

LEMMA ErrorNames ==
    /\ None \notin Errors
    /\ ProviderErrors \subseteq Errors /\ CrmErrors \subseteq Errors
    /\ "ApprovalError" \in Errors /\ "Unclassified" \in Errors
    /\ ProviderErrors \cap CrmErrors = {}
    /\ "Unclassified" \notin ProviderErrors \cup CrmErrors
    /\ "ApprovalError" \notin ProviderErrors \cup CrmErrors
BY DEF None, Errors, ProviderErrors, CrmErrors

LEMMA QueueStutter ==
    ASSUME Queue, UNCHANGED <<verdict, holders, job, worker>>,
           crashes' \in 0 .. MaxCrashes, crashes <= crashes'
    PROVE  Queue'
<1>1. QueueTypes'
  BY DEF Queue, QueueTypes
<1>2. ASSUME NEW j \in Jobs PROVE Counted(j)' /\ Queued(j)'
  <2>1. job[j].attempts \in Nat /\ crashes \in Nat /\ crashes' \in Nat
    BY DEF Queue, QueueTypes, JobRows
  <2>2. Queued(j)'
    BY DEF Queue, Queued
  <2>3. MaxAttempts \in Nat
    BY PipelineAssumption
  <2>4. Counted(j)'
    BY <2>1, <2>3 DEF Queue, Counted
  <2> QED
    BY <2>2, <2>4
<1>3. \A w \in Workers : InHand(w)'
  BY DEF Queue, InHand
<1> QED
  BY <1>1, <1>2, <1>3 DEF Queue

LEMMA EnqueueQueue ==
    ASSUME Queue, NEW j \in Jobs, NEW type \in {"extract", "write"}, NEW d \in Docs,
           Enqueue(j, type, d)
    PROVE  /\ Queue'
           /\ verdict[j] = "absent" /\ job[j] = NoJob
           /\ \A i \in Jobs : i # j => job'[i] = job[i] /\ verdict'[i] = verdict[i]
           /\ verdict'[j] = "open" /\ job'[j] = [NoJob EXCEPT !.type = type, !.doc = d]
<1>1. /\ verdict[j] = "absent"
      /\ verdict' = [verdict EXCEPT ![j] = "open"]
      /\ job' = [job EXCEPT ![j].type = type, ![j].doc = d]
      /\ UNCHANGED <<holders, worker, crashes>>
  BY DEF Enqueue, Ledger!Submit
<1>2. job[j] = NoJob
  BY <1>1 DEF Queue, Queued
<1>3. /\ job'[j] = [NoJob EXCEPT !.type = type, !.doc = d]
      /\ verdict'[j] = "open"
      /\ \A i \in Jobs : i # j => job'[i] = job[i] /\ verdict'[i] = verdict[i]
  BY <1>1, <1>2 DEF Queue, QueueTypes
<1>4. /\ job'[j].type = type /\ job'[j].doc = d /\ job'[j].attempts = 0
      /\ job'[j] \in JobRows
  <2>1. job[j] \in JobRows
    BY DEF Queue, QueueTypes
  <2> QED
    BY <1>2, <1>3, <2>1 DEF NoJob, JobRows
<1>5. QueueTypes'
  <2>1. job' \in [Jobs -> JobRows]
    BY <1>1, <1>3, <1>4 DEF Queue, QueueTypes
  <2> QED
    BY <1>1, <2>1 DEF Queue, QueueTypes
<1>6. ASSUME NEW i \in Jobs PROVE Counted(i)' /\ Queued(i)'
  <2>1. CASE i = j
    <3>1. MaxAttempts \in Nat \ {0} /\ crashes \in Nat
      BY PipelineAssumption DEF Queue, QueueTypes
    <3> QED
      BY <2>1, <1>1, <1>3, <1>4, <3>1 DEF Counted, Queued
  <2>2. CASE i # j
    BY <2>2, <1>1, <1>3 DEF Queue, Counted, Queued
  <2> QED
    BY <2>1, <2>2
<1>7. \A w \in Workers : InHand(w)'
  BY <1>1, <1>3 DEF Queue, InHand
<1> QED
  BY <1>1, <1>2, <1>3, <1>5, <1>6, <1>7 DEF Queue

LEMMA ClaimQueue ==
    ASSUME Queue, NEW w \in Workers, NEW j \in Jobs, Claim(w, j)
    PROVE  /\ Queue'
           /\ \A i \in Jobs : job'[i] = [job[i] EXCEPT !.attempts = job'[i].attempts]
           /\ worker'[w].pc = "claimed"
           /\ \A u \in Workers : u # w => worker'[u] = worker[u]
           /\ UNCHANGED verdict
<1>1. /\ worker[w].pc = "idle"
      /\ verdict[j] = "open" /\ holders[j] = {}
      /\ holders' = [holders EXCEPT ![j] = {w}]
      /\ job' = [job EXCEPT ![j].attempts = job[j].attempts + 1]
      /\ worker' = [worker EXCEPT ![w] = [pc |-> "claimed", job |-> j, outcome |-> None]]
      /\ UNCHANGED <<verdict, crashes>>
  BY DEF Claim, Ledger!Take
<1>2. /\ job[j] \in JobRows
      /\ job'[j] = [job[j] EXCEPT !.attempts = job[j].attempts + 1]
      /\ \A i \in Jobs : i # j => job'[i] = job[i] /\ holders'[i] = holders[i]
      /\ holders'[j] = {w}
  BY <1>1 DEF Queue, QueueTypes
<1>3. /\ worker'[w] = [pc |-> "claimed", job |-> j, outcome |-> None]
      /\ \A u \in Workers : u # w => worker'[u] = worker[u]
  BY <1>1 DEF Queue, QueueTypes
<1>4. /\ job'[j] \in JobRows /\ job'[j].attempts = job[j].attempts + 1
      /\ job'[j].type = job[j].type /\ job'[j].doc = job[j].doc
  BY <1>2 DEF JobRows
<1>5. QueueTypes'
  <2>1. job' \in [Jobs -> JobRows]
    BY <1>1, <1>2, <1>4 DEF Queue, QueueTypes
  <2>2. worker' \in [Workers -> WorkerStates]
    BY <1>1, <1>3 DEF Queue, QueueTypes, WorkerStates
  <2> QED
    BY <1>1, <2>1, <2>2 DEF Queue, QueueTypes
<1>6. ASSUME NEW i \in Jobs PROVE Counted(i)' /\ Queued(i)'
  <2>1. CASE i = j
    <3>1. job[j].attempts \in Nat /\ crashes \in Nat /\ MaxAttempts \in Nat
      BY <1>2, PipelineAssumption DEF Queue, QueueTypes, JobRows
    <3>2. job[j].attempts < MaxAttempts + crashes
      BY <1>1 DEF Queue, Counted
    <3> QED
      BY <2>1, <1>1, <1>2, <1>4, <3>1, <3>2 DEF Queue, Counted, Queued
  <2>2. CASE i # j
    BY <2>2, <1>1, <1>2 DEF Queue, Counted, Queued
  <2> QED
    BY <2>1, <2>2
<1>7. ASSUME NEW u \in Workers PROVE InHand(u)'
  <2>1. CASE u = w
    BY <2>1, <1>1, <1>2, <1>3 DEF InHand
  <2>2. CASE u # w
    BY <2>2, <1>1, <1>2, <1>3 DEF Queue, InHand
  <2> QED
    BY <2>1, <2>2
<1>8. \A i \in Jobs : job'[i] = [job[i] EXCEPT !.attempts = job'[i].attempts]
  <2>1. \A i \in Jobs : job[i] \in JobRows
    BY DEF Queue, QueueTypes
  <2> QED
    BY <1>2, <1>4, <2>1 DEF JobRows
<1> QED
  BY <1>1, <1>3, <1>5, <1>6, <1>7, <1>8 DEF Queue

\* Nothing changes in the row of j, or what has landed does.
OnlyLands(j) ==
    \/ UNCHANGED job
    \/ \E hash \in Payloads, at \in 0 .. MaxRuns :
         job' = [job EXCEPT ![j].landed = [hash |-> hash, at |-> at]]

LEMMA LandedRow ==
    ASSUME Queue, NEW j \in Jobs, OnlyLands(j)
    PROVE  /\ job' \in [Jobs -> JobRows]
           /\ \A i \in Jobs : i # j => job'[i] = job[i]
           /\ \A i \in Jobs : job'[i] = [job[i] EXCEPT !.landed = job'[i].landed]
<1>1. job \in [Jobs -> JobRows]
  BY DEF Queue, QueueTypes
<1>2. CASE UNCHANGED job
  BY <1>1, <1>2 DEF JobRows
<1>3. CASE \E hash \in Payloads, at \in 0 .. MaxRuns :
             job' = [job EXCEPT ![j].landed = [hash |-> hash, at |-> at]]
  <2>1. PICK hash \in Payloads, at \in 0 .. MaxRuns :
               job' = [job EXCEPT ![j].landed = [hash |-> hash, at |-> at]]
    BY <1>3
  <2>2. [hash |-> hash, at |-> at] \in [hash : Payloads, at : 0 .. MaxRuns]
    OBVIOUS
  <2>3. job' \in [Jobs -> JobRows] /\ \A i \in Jobs : i # j => job'[i] = job[i]
    BY <1>1, <2>1, <2>2 DEF JobRows
  <2>4. \A i \in Jobs : job'[i] = [job[i] EXCEPT !.landed = job'[i].landed]
    BY <1>1, <2>1, <2>2 DEF JobRows
  <2> QED
    BY <2>3, <2>4
<1> QED
  BY <1>2, <1>3 DEF OnlyLands

\* What a dispatch does to the queue: the outcome, and what has landed.
LEMMA DispatchQueue ==
    ASSUME Queue, NEW w \in Workers, NEW j \in Jobs, NEW error \in Errors \cup {None},
           Holds(w, j, "claimed"),
           OnlyLands(j),
           worker' = [worker EXCEPT ![w].pc = "dispatched", ![w].outcome = error],
           UNCHANGED <<verdict, holders, crashes>>
    PROVE  /\ Queue'
           /\ worker'[w] = [pc |-> "dispatched", job |-> j, outcome |-> error]
           /\ \A u \in Workers : u # w => worker'[u] = worker[u]
           /\ \A i \in Jobs : job'[i] = [job[i] EXCEPT !.landed = job'[i].landed]
           /\ \A i \in Jobs : i # j => job'[i] = job[i]
           /\ verdict[j] = "open" /\ holders[j] = {w}
<1>1. worker[w].pc = "claimed" /\ worker[w].job = j
  BY DEF Holds
<1>2. /\ worker'[w] = [pc |-> "dispatched", job |-> j, outcome |-> error]
      /\ \A u \in Workers : u # w => worker'[u] = worker[u]
      /\ worker' \in [Workers -> WorkerStates]
  <2>1. worker \in [Workers -> WorkerStates] /\ worker[w] \in WorkerStates
    BY DEF Queue, QueueTypes
  <2>2. /\ worker'[w] = [worker[w] EXCEPT !.pc = "dispatched", !.outcome = error]
        /\ \A u \in Workers : u # w => worker'[u] = worker[u]
        /\ worker' = [u \in Workers |-> worker'[u]]
    BY <2>1
  <2>3. worker'[w] = [pc |-> "dispatched", job |-> j, outcome |-> error]
    BY <1>1, <2>1, <2>2 DEF WorkerStates
  <2>4. [pc |-> "dispatched", job |-> j, outcome |-> error] \in WorkerStates
    BY DEF WorkerStates
  <2> QED
    BY <2>1, <2>2, <2>3, <2>4
<1>3. /\ job' \in [Jobs -> JobRows]
      /\ \A i \in Jobs : i # j => job'[i] = job[i]
      /\ \A i \in Jobs : job'[i] = [job[i] EXCEPT !.landed = job'[i].landed]
  BY LandedRow
<1>4. \A i \in Jobs : /\ job'[i] = [job[i] EXCEPT !.landed = job'[i].landed]
                      /\ job[i] \in JobRows
  BY <1>3 DEF Queue, QueueTypes, JobRows
<1>5. \A i \in Jobs : /\ job'[i].attempts = job[i].attempts
                      /\ job'[i].type = job[i].type
                      /\ job'[i].doc = job[i].doc
  BY <1>4 DEF JobRows
<1>6. verdict[j] = "open" /\ holders[j] = {w}
  BY <1>1 DEF Queue, InHand
<1>7. QueueTypes'
  BY <1>2, <1>3 DEF Queue, QueueTypes
<1>8. ASSUME NEW i \in Jobs PROVE Counted(i)' /\ Queued(i)'
  <2>1. Counted(i)'
    BY <1>5 DEF Queue, Counted
  <2>2. verdict[i] = "absent" => job'[i] = NoJob
    BY <1>3, <1>6 DEF Queue, Queued
  <2>3. verdict[i] # "absent" => job'[i].type \in {"extract", "write"} /\ job'[i].doc \in Docs
    BY <1>5 DEF Queue, Queued
  <2>4. Queued(i)'
    BY <2>2, <2>3 DEF Queued
  <2> QED
    BY <2>1, <2>4
<1>9. ASSUME NEW u \in Workers PROVE InHand(u)'
  <2>1. CASE u = w
    <3>1. worker'[w].job = j
      <4> DEFINE row == [pc |-> "dispatched", job |-> j, outcome |-> error]
      <4>1. row.job = j
        OBVIOUS
      <4>2. worker'[w] = row
        BY <1>2
      <4> HIDE DEF row
      <4> QED
        BY <4>1, <4>2
    <3>2. holders'[j] = {w} /\ verdict'[j] = "open"
      BY <1>6
    <3> QED
      BY <2>1, <3>1, <3>2 DEF InHand
  <2>2. CASE u # w
    BY <2>2, <1>2 DEF Queue, InHand
  <2> QED
    BY <2>1, <2>2
<1> QED
  BY <1>2, <1>3, <1>4, <1>6, <1>7, <1>8, <1>9 DEF Queue

LEMMA SettleQueue ==
    ASSUME Queue, NEW w \in Workers, NEW j \in Jobs, Settle(w, j)
    PROVE  /\ Queue'
           /\ worker[w].pc = "dispatched" /\ worker[w].job = j
           /\ worker'[w].pc = "idle"
           /\ \A u \in Workers : u # w => worker'[u] = worker[u]
           /\ \A i \in Jobs : i # j => job'[i] = job[i] /\ verdict'[i] = verdict[i]
           /\ job'[j] = [job[j] EXCEPT !.error = worker[w].outcome]
           /\ verdict'[j] = "succeeded" => worker[w].outcome = None
           /\ verdict'[j] = "failed" => worker[w].outcome # None
<1> DEFINE error == worker[w].outcome
<1>1. /\ worker[w].pc = "dispatched" /\ worker[w].job = j
      /\ job' = [job EXCEPT ![j].error = error]
      /\ worker' = [worker EXCEPT ![w] = Idle]
      /\ UNCHANGED crashes
  BY DEF Settle, Holds
<1>2. holders[j] = {w} /\ verdict[j] = "open"
  BY <1>1 DEF Queue, InHand
<1>3. \E v \in {"open", "succeeded", "failed"} :
        /\ verdict' = [verdict EXCEPT ![j] = v]
        /\ v = "open" => job[j].attempts < MaxAttempts
        /\ v = "succeeded" => error = None
        /\ v = "failed" => error # None
  <2>1. verdict \in [Jobs -> {"absent", "open", "succeeded", "failed"}]
    BY DEF Queue, QueueTypes
  <2>2. CASE error = None /\ Ledger!Conclude(w, j, "succeeded")
    BY <2>2 DEF Ledger!Conclude
  <2>3. CASE Retried(j, error) /\ Ledger!LetGo(w, j)
    <3>1. verdict' = [verdict EXCEPT ![j] = "open"]
      BY <1>2, <2>1, <2>3 DEF Ledger!LetGo
    <3> QED
      BY <2>3, <3>1 DEF Retried
  <2>4. CASE error # None /\ Ledger!Conclude(w, j, "failed")
    BY <2>4 DEF Ledger!Conclude
  <2> QED
    BY <2>2, <2>3, <2>4 DEF Settle
<1>4. holders' = [holders EXCEPT ![j] = {}]
  BY DEF Settle, Ledger!Conclude, Ledger!LetGo
<1>5. error \in Errors \cup {None}
  BY DEF Queue, QueueTypes, WorkerStates
<1>6. /\ job[j] \in JobRows /\ job'[j] = [job[j] EXCEPT !.error = error]
      /\ \A i \in Jobs : i # j => job'[i] = job[i] /\ holders'[i] = holders[i]
      /\ holders'[j] = {}
      /\ worker'[w] = Idle
      /\ \A u \in Workers : u # w => worker'[u] = worker[u]
  BY <1>1, <1>4 DEF Queue, QueueTypes
<1>7. /\ job'[j] \in JobRows /\ job'[j].attempts = job[j].attempts
      /\ job'[j].type = job[j].type /\ job'[j].doc = job[j].doc
  BY <1>5, <1>6 DEF JobRows
<1>8. PICK v \in {"open", "succeeded", "failed"} :
        /\ verdict' = [verdict EXCEPT ![j] = v]
        /\ v = "open" => job[j].attempts < MaxAttempts
        /\ v = "succeeded" => error = None
        /\ v = "failed" => error # None
  BY <1>3
<1>9. verdict'[j] = v /\ \A i \in Jobs : i # j => verdict'[i] = verdict[i]
  BY <1>8 DEF Queue, QueueTypes
<1>10. QueueTypes'
  <2>1. job' \in [Jobs -> JobRows]
    BY <1>1, <1>6, <1>7 DEF Queue, QueueTypes
  <2>2. worker' \in [Workers -> WorkerStates]
    BY <1>1 DEF Queue, QueueTypes, WorkerStates, Idle
  <2> QED
    BY <1>1, <1>4, <1>8, <2>1, <2>2 DEF Queue, QueueTypes
<1>11. ASSUME NEW i \in Jobs PROVE Counted(i)' /\ Queued(i)'
  <2>1. CASE i = j
    <3>1. job[j].attempts \in Nat /\ crashes \in Nat /\ MaxAttempts \in Nat
      BY <1>6, PipelineAssumption DEF Queue, QueueTypes, JobRows
    <3>2. Queued(j)'
      BY <1>2, <1>7, <1>9 DEF Queue, Queued
    <3>3. Counted(j)'
      BY <1>1, <1>7, <1>8, <1>9, <3>1 DEF Queue, Counted
    <3> QED
      BY <2>1, <3>2, <3>3
  <2>2. CASE i # j
    BY <2>2, <1>1, <1>6, <1>9 DEF Queue, Counted, Queued
  <2> QED
    BY <2>1, <2>2
<1>12. ASSUME NEW u \in Workers PROVE InHand(u)'
  <2>1. CASE u = w
    BY <2>1, <1>6 DEF InHand, Idle
  <2>2. CASE u # w
    <3>1. worker[u].pc # "idle" => worker[u].job # j
      BY <1>2, <2>2 DEF Queue, InHand
    <3> QED
      BY <2>2, <3>1, <1>6, <1>9 DEF Queue, InHand
  <2> QED
    BY <2>1, <2>2
<1>13. worker'[w].pc = "idle"
  BY <1>6 DEF Idle
<1> QED
  BY <1>1, <1>6, <1>8, <1>9, <1>10, <1>11, <1>12, <1>13 DEF Queue

LEMMA LostQueue ==
    ASSUME Queue, NEW w \in Workers, NEW j \in Jobs,
           worker[w].pc # "idle", worker[w].job = j, Lost(w, j),
           OnlyLands(j)
    PROVE  /\ Queue'
           /\ verdict[j] = "open" /\ UNCHANGED verdict
           /\ worker'[w].pc = "idle"
           /\ \A u \in Workers : u # w =>
                worker'[u] = worker[u] /\ (worker[u].pc # "idle" => worker[u].job # j)
           /\ \A i \in Jobs : job'[i] = [job[i] EXCEPT !.landed = job'[i].landed]
           /\ \A i \in Jobs : i # j => job'[i] = job[i]
<1>1. /\ holders' = [holders EXCEPT ![j] = {}]
      /\ UNCHANGED verdict
      /\ crashes < MaxCrashes /\ crashes' = crashes + 1
      /\ worker' = [worker EXCEPT ![w] = Idle]
  BY DEF Lost, Ledger!LetGo
<1>2. holders[j] = {w} /\ verdict[j] = "open"
  BY DEF Queue, InHand
<1>3. /\ job' \in [Jobs -> JobRows]
      /\ \A i \in Jobs : i # j => job'[i] = job[i]
      /\ \A i \in Jobs : job'[i] = [job[i] EXCEPT !.landed = job'[i].landed]
  BY LandedRow
<1>4. \A i \in Jobs : /\ job'[i] = [job[i] EXCEPT !.landed = job'[i].landed]
                      /\ job[i] \in JobRows
  BY <1>3 DEF Queue, QueueTypes, JobRows
<1>5. \A i \in Jobs : /\ job'[i].attempts = job[i].attempts
                      /\ job'[i].type = job[i].type
                      /\ job'[i].doc = job[i].doc
  BY <1>4 DEF JobRows
<1>6. /\ worker'[w] = Idle /\ worker' \in [Workers -> WorkerStates]
      /\ \A u \in Workers : u # w => worker'[u] = worker[u]
      /\ holders'[j] = {}
      /\ \A i \in Jobs : i # j => holders'[i] = holders[i]
  BY <1>1 DEF Queue, QueueTypes, WorkerStates, Idle
<1>7. crashes \in Nat /\ crashes' \in 0 .. MaxCrashes /\ MaxAttempts \in Nat
  BY <1>1, PipelineAssumption DEF Queue, QueueTypes
<1>8. QueueTypes'
  BY <1>1, <1>3, <1>6, <1>7 DEF Queue, QueueTypes
<1>9. ASSUME NEW i \in Jobs PROVE Counted(i)' /\ Queued(i)'
  <2>1. job[i].attempts \in Nat
    BY <1>4 DEF JobRows
  <2>2. Counted(i)'
    BY <1>1, <1>5, <1>7, <2>1 DEF Queue, Counted
  <2>3. verdict[i] = "absent" => job'[i] = NoJob
    BY <1>2, <1>3 DEF Queue, Queued
  <2> QED
    BY <1>1, <1>5, <2>2, <2>3 DEF Queue, Queued
<1>10. ASSUME NEW u \in Workers, u # w PROVE worker[u].pc # "idle" => worker[u].job # j
  BY <1>2, <1>10 DEF Queue, InHand
<1>11. ASSUME NEW u \in Workers PROVE InHand(u)'
  <2>1. CASE u = w
    BY <2>1, <1>6 DEF InHand, Idle
  <2>2. CASE u # w
    BY <2>2, <1>1, <1>6, <1>10 DEF Queue, InHand
  <2> QED
    BY <2>1, <2>2
<1>12. worker'[w].pc = "idle"
  BY <1>6 DEF Idle
<1> QED
  BY <1>1, <1>2, <1>3, <1>4, <1>6, <1>8, <1>9, <1>10, <1>11, <1>12 DEF Queue

-----------------------------------------------------------------------------
(***************************************************************************)
(* The queue and the tables.                                               *)
(***************************************************************************)

\* The outcome e of a job of this type on d shows in the tables.
Shown(type, d, e) ==
    /\ e = None /\ type = "extract" => HasDraft(d)
    /\ e = None /\ type = "write" => HasRecord(d)
    /\ e \in ProviderErrors => HasFailure(d)
    /\ e \in CrmErrors => HasWrite(d)

\* Why a write that landed may yet have ended in error e.
Excused(d, landed, e) ==
    \/ Len(runs[d]) > landed.at
    \/ e \in CrmErrors
    \/ approval[d].expired /\ write[<<d, landed.hash>>] # "succeeded"

JobRecorded(j) ==
    /\ verdict[j] = "succeeded" /\ job[j].type = "extract" => HasDraft(job[j].doc)
    /\ verdict[j] = "succeeded" /\ job[j].type = "write" => HasRecord(job[j].doc)
    /\ job[j].error \in ProviderErrors => HasFailure(job[j].doc)
    /\ job[j].error \in CrmErrors => HasWrite(job[j].doc)

JobLanded(j) ==
    LET d == job[j].doc
        landed == job[j].landed
    IN  landed # Nowhere =>
          /\ job[j].type = "write"
          /\ landed.hash \in Hashes /\ landed.at <= Len(runs[d])
          /\ landed.at = Len(runs[d]) => Kept(d, landed.hash)
          /\ verdict[j] = "failed" => Excused(d, landed, job[j].error)

WorkerRecorded(w) ==
    LET j == worker[w].job IN
    worker[w].pc = "dispatched" =>
      /\ Shown(job[j].type, job[j].doc, worker[w].outcome)
      /\ (job[j].landed # Nowhere /\ worker[w].outcome # None)
           => Excused(job[j].doc, job[j].landed, worker[w].outcome)

Records ==
    /\ \A j \in Jobs : JobRecorded(j) /\ JobLanded(j)
    /\ \A w \in Workers : WorkerRecorded(w)

LEMMA ExcuseForward ==
    ASSUME Tables, TableStep, NEW d \in Docs, NEW landed, NEW e,
           landed.hash \in Hashes, landed.at \in Nat, landed.at <= Len(runs[d]),
           landed.at = Len(runs[d]) => Kept(d, landed.hash),
           Excused(d, landed, e)
    PROVE  Excused(d, landed, e)'
<1>1. Len(runs[d]) \in Nat /\ Len(runs'[d]) \in Nat
  BY LenProperties DEF Tables, TableTypes, TableStep
<1>2. Forward(d)
  BY DEF TableStep
<1>3. CASE Len(runs'[d]) > landed.at
  BY <1>3 DEF Excused
<1>4. CASE Len(runs'[d]) <= landed.at
  <2>1. Len(runs'[d]) = Len(runs[d]) /\ landed.at = Len(runs[d])
    BY <1>1, <1>2, <1>4 DEF Forward
  <2> QED
    BY <1>1, <1>2, <2>1 DEF Excused, Forward
<1> QED
  BY <1>1, <1>3, <1>4

\* A job keeps what is said of it while its row does.
LEMMA JobForward ==
    ASSUME Tables, Queue, Records, TableStep, NEW j \in Jobs,
           job'[j].type = job[j].type, job'[j].doc = job[j].doc,
           job'[j].error = job[j].error, job'[j].landed = job[j].landed,
           verdict'[j] = verdict[j]
    PROVE  JobRecorded(j)' /\ JobLanded(j)'
<1>1. CASE verdict[j] = "absent"
  <2>1. job[j] = NoJob
    BY <1>1 DEF Queue, Queued
  <2>2. job[j].landed = Nowhere /\ job[j].error = None
    BY <2>1 DEF NoJob
  <2> QED
    BY <1>1, <2>2, ErrorNames DEF JobRecorded, JobLanded
<1>2. CASE verdict[j] # "absent"
  <2>1. job[j].doc \in Docs
    BY <1>2 DEF Queue, Queued
  <2>2. Forward(job[j].doc)
    BY <2>1 DEF TableStep
  <2>3. JobRecorded(j)'
    BY <2>2 DEF Records, JobRecorded, Forward
  <2>4. PICK d, landed, e : d = job[j].doc /\ landed = job[j].landed /\ e = job[j].error
    OBVIOUS
  <2>5. ASSUME landed # Nowhere
        PROVE  /\ job[j].type = "write"
               /\ landed.hash \in Hashes /\ landed.at <= Len(runs'[d])
               /\ landed.at = Len(runs'[d]) => Kept(d, landed.hash)'
               /\ verdict[j] = "failed" => Excused(d, landed, e)'
    <3>1. /\ job[j].type = "write"
          /\ landed.hash \in Hashes /\ landed.at <= Len(runs[d])
          /\ landed.at = Len(runs[d]) => Kept(d, landed.hash)
          /\ verdict[j] = "failed" => Excused(d, landed, e)
      BY <2>4, <2>5 DEF Records, JobLanded
    <3>2. landed.at \in Nat /\ Len(runs[d]) \in Nat /\ Len(runs'[d]) \in Nat
      BY <2>1, <2>4, LenProperties DEF Queue, QueueTypes, JobRows, Tables, TableTypes, TableStep
    <3>3. Len(runs[d]) <= Len(runs'[d]) /\ Forward(d)
      BY <2>2, <2>4 DEF Forward
    <3>4. ASSUME landed.at = Len(runs'[d]) PROVE Kept(d, landed.hash)'
      <4>1. landed.at = Len(runs[d]) /\ Len(runs[d]) = Len(runs'[d])
        BY <3>1, <3>2, <3>3, <3>4
      <4>2. \A h \in Hashes : Kept(d, h) => Kept(d, h)'
        BY <3>3, <4>1 DEF Forward
      <4>3. PICK hash \in Hashes : hash = landed.hash
        BY <3>1
      <4>4. Kept(d, hash)'
        BY <3>1, <4>1, <4>2, <4>3
      <4> QED
        BY <4>3, <4>4
    <3>5. verdict[j] = "failed" => Excused(d, landed, e)'
      BY <2>1, <2>4, <3>1, <3>2, ExcuseForward
    <3> QED
      BY <3>1, <3>2, <3>3, <3>4, <3>5
  <2>6. JobLanded(j)'
    BY <2>4, <2>5 DEF JobLanded, Excused, Kept, Unsettled, Latest
  <2> QED
    BY <2>3, <2>6
<1> QED
  BY <1>1, <1>2

\* And so does a worker.
LEMMA WorkerForward ==
    ASSUME Tables, Queue, Records, TableStep, NEW w \in Workers,
           worker'[w] = worker[w],
           worker[w].pc # "idle" =>
             LET j == worker[w].job IN
             /\ job'[j].type = job[j].type /\ job'[j].doc = job[j].doc
             /\ job'[j].landed = job[j].landed
    PROVE  WorkerRecorded(w)'
<1> SUFFICES ASSUME worker[w].pc = "dispatched" PROVE WorkerRecorded(w)'
  BY DEF WorkerRecorded
<1> DEFINE j == worker[w].job
           d == job[j].doc
           landed == job[j].landed
           e == worker[w].outcome
<1>1. j \in Jobs /\ verdict[j] = "open"
  BY DEF Queue, InHand
<1>2. d \in Docs
  BY <1>1 DEF Queue, Queued
<1>3. Forward(d)
  BY <1>2 DEF TableStep
<1>4. job'[j].type = job[j].type /\ job'[j].doc = d /\ job'[j].landed = landed
  OBVIOUS
<1>5. Shown(job[j].type, d, e)'
  BY <1>3, <1>4 DEF Records, WorkerRecorded, Shown, Forward
<1>6. ASSUME landed # Nowhere, e # None PROVE Excused(d, landed, e)'
  <2>1. Excused(d, landed, e)
    BY <1>6 DEF Records, WorkerRecorded
  <2>2. /\ landed.hash \in Hashes /\ landed.at <= Len(runs[d])
        /\ landed.at = Len(runs[d]) => Kept(d, landed.hash)
    BY <1>1, <1>6 DEF Records, JobLanded
  <2>3. landed.at \in Nat
    BY <1>1 DEF Queue, QueueTypes, JobRows
  <2> QED
    BY <1>2, <2>1, <2>2, <2>3, <1>4, ExcuseForward DEF Excused
<1> QED
  BY <1>4, <1>5, <1>6 DEF WorkerRecorded, Shown, Excused

\* A step of the tables alone.
LEMMA TablesOnly ==
    ASSUME Tables, Queue, Records, TableStep,
           UNCHANGED <<verdict, holders, job, worker>>,
           crashes' \in 0 .. MaxCrashes, crashes <= crashes'
    PROVE  Tables' /\ Queue' /\ Records'
<1>1. Queue'
  BY QueueStutter
<1>2. \A j \in Jobs : JobRecorded(j)' /\ JobLanded(j)'
  BY JobForward
<1>3. \A w \in Workers : WorkerRecorded(w)'
  BY WorkerForward
<1> QED
  BY <1>1, <1>2, <1>3 DEF Records, TableStep

LEMMA EnqueueRecords ==
    ASSUME Tables, Queue, Records, NEW j \in Jobs, NEW type \in {"extract", "write"},
           NEW d \in Docs, Enqueue(j, type, d)
    PROVE  Tables' /\ Queue' /\ Records'
<1>1. /\ Queue'
      /\ verdict[j] = "absent" /\ job[j] = NoJob
      /\ \A i \in Jobs : i # j => job'[i] = job[i] /\ verdict'[i] = verdict[i]
      /\ verdict'[j] = "open" /\ job'[j] = [NoJob EXCEPT !.type = type, !.doc = d]
  BY EnqueueQueue
<1>2. TableStep
  BY TablesStutter DEF Enqueue
<1>3. ASSUME NEW i \in Jobs PROVE JobRecorded(i)' /\ JobLanded(i)'
  <2>1. CASE i = j
    <3>1. job'[j].landed = Nowhere /\ job'[j].error = None
      BY <1>1 DEF NoJob
    <3> QED
      BY <2>1, <1>1, <3>1, ErrorNames DEF JobRecorded, JobLanded
  <2>2. CASE i # j
    BY <2>2, <1>1, <1>2, JobForward
  <2> QED
    BY <2>1, <2>2
<1>4. ASSUME NEW w \in Workers PROVE WorkerRecorded(w)'
  <2>1. worker' = worker
    BY DEF Enqueue
  <2>2. worker[w].pc # "idle" => worker[w].job \in Jobs /\ worker[w].job # j
    BY <1>1 DEF Queue, InHand
  <2> QED
    BY <1>1, <1>2, <2>1, <2>2, WorkerForward
<1> QED
  BY <1>1, <1>2, <1>3, <1>4 DEF Records, TableStep

LEMMA ClaimRecords ==
    ASSUME Tables, Queue, Records, NEW w \in Workers, NEW j \in Jobs, Claim(w, j)
    PROVE  Tables' /\ Queue' /\ Records'
<1>1. /\ Queue'
      /\ \A i \in Jobs : job'[i] = [job[i] EXCEPT !.attempts = job'[i].attempts]
      /\ worker'[w].pc = "claimed"
      /\ \A u \in Workers : u # w => worker'[u] = worker[u]
      /\ UNCHANGED verdict
  BY ClaimQueue
<1>2. TableStep
  BY TablesStutter DEF Claim
<1>3. \A i \in Jobs : /\ job'[i].type = job[i].type /\ job'[i].doc = job[i].doc
                      /\ job'[i].error = job[i].error /\ job'[i].landed = job[i].landed
  <2>1. \A i \in Jobs : job[i] \in JobRows
    BY DEF Queue, QueueTypes
  <2> QED
    BY <1>1, <2>1 DEF JobRows
<1>4. \A i \in Jobs : JobRecorded(i)' /\ JobLanded(i)'
  BY <1>1, <1>2, <1>3, JobForward
<1>5. ASSUME NEW u \in Workers PROVE WorkerRecorded(u)'
  <2>1. CASE u = w
    BY <2>1, <1>1 DEF WorkerRecorded
  <2>2. CASE u # w
    <3>1. worker[u].pc # "idle" => worker[u].job \in Jobs
      BY DEF Queue, InHand
    <3> QED
      BY <2>2, <1>1, <1>2, <1>3, <3>1, WorkerForward
  <2> QED
    BY <2>1, <2>2
<1> QED
  BY <1>1, <1>2, <1>4, <1>5 DEF Records, TableStep

LEMMA SettleRecords ==
    ASSUME Tables, Queue, Records, NEW w \in Workers, NEW j \in Jobs, Settle(w, j)
    PROVE  Tables' /\ Queue' /\ Records'
<1>1. /\ Queue'
      /\ worker[w].pc = "dispatched" /\ worker[w].job = j
      /\ worker'[w].pc = "idle"
      /\ \A u \in Workers : u # w => worker'[u] = worker[u]
      /\ \A i \in Jobs : i # j => job'[i] = job[i] /\ verdict'[i] = verdict[i]
      /\ job'[j] = [job[j] EXCEPT !.error = worker[w].outcome]
      /\ verdict'[j] = "succeeded" => worker[w].outcome = None
      /\ verdict'[j] = "failed" => worker[w].outcome # None
  BY SettleQueue
<1>2. UNCHANGED <<tables, crm>>
  BY DEF Settle
<1>3. TableStep
  BY <1>2, TablesStutter
<1>4. UNCHANGED <<doc, runs, approval, write, crm>>
  BY <1>2 DEF tables
<1>5. /\ job'[j].type = job[j].type /\ job'[j].doc = job[j].doc
      /\ job'[j].landed = job[j].landed /\ job'[j].error = worker[w].outcome
  BY <1>1 DEF Queue, QueueTypes, JobRows
<1>6. PICK type, d, landed, e :
         type = job[j].type /\ d = job[j].doc /\ landed = job[j].landed /\ e = worker[w].outcome
  OBVIOUS
<1>7. /\ Shown(type, d, e)
      /\ (landed # Nowhere /\ e # None) => Excused(d, landed, e)
  BY <1>1, <1>6 DEF Records, WorkerRecorded
<1>8. landed # Nowhere =>
        /\ type = "write"
        /\ landed.hash \in Hashes /\ landed.at <= Len(runs[d])
        /\ landed.at = Len(runs[d]) => Kept(d, landed.hash)
  BY <1>6 DEF Records, JobLanded
<1>9. JobRecorded(j)'
  BY <1>1, <1>4, <1>5, <1>6, <1>7
  DEF JobRecorded, Shown, HasDraft, HasFailure, HasRecord, HasWrite
<1>10. JobLanded(j)'
  BY <1>1, <1>4, <1>5, <1>6, <1>7, <1>8 DEF JobLanded, Kept, Unsettled, Latest, Excused
<1>11. \A i \in Jobs : i # j => JobRecorded(i)' /\ JobLanded(i)'
  BY <1>1, <1>3, JobForward
<1>12. ASSUME NEW u \in Workers PROVE WorkerRecorded(u)'
  <2>1. CASE u = w
    BY <2>1, <1>1 DEF WorkerRecorded
  <2>2. CASE u # w
    <3>1. worker[u].pc # "idle" => worker[u].job \in Jobs /\ worker[u].job # j
      BY <2>2, <1>1 DEF Queue, InHand
    <3> QED
      BY <2>2, <1>1, <1>3, <3>1, WorkerForward
  <2> QED
    BY <2>1, <2>2
<1> QED
  BY <1>1, <1>3, <1>9, <1>10, <1>11, <1>12 DEF Records, TableStep

\* A worker is lost, with or without its payload at the destination.
LEMMA LoseRecords ==
    ASSUME Tables, Queue, Records, NEW w \in Workers, NEW j \in Jobs, Lose(w, j)
    PROVE  Tables' /\ Queue' /\ Records'
<1>1. worker[w].pc # "idle" /\ worker[w].job = j /\ Lost(w, j) /\ UNCHANGED <<job, tables, crm>>
  BY DEF Lose
<1>2. /\ Queue'
      /\ verdict[j] = "open" /\ UNCHANGED verdict
      /\ worker'[w].pc = "idle"
      /\ \A u \in Workers : u # w =>
           worker'[u] = worker[u] /\ (worker[u].pc # "idle" => worker[u].job # j)
  <2>1. OnlyLands(j)
    BY <1>1 DEF OnlyLands
  <2> QED
    BY <1>1, <2>1, LostQueue
<1>3. TableStep
  BY <1>1, TablesStutter
<1>4. \A i \in Jobs : JobRecorded(i)' /\ JobLanded(i)'
  BY <1>1, <1>2, <1>3, JobForward
<1>5. ASSUME NEW u \in Workers PROVE WorkerRecorded(u)'
  <2>1. CASE u = w
    BY <2>1, <1>2 DEF WorkerRecorded
  <2>2. CASE u # w
    BY <2>2, <1>1, <1>2, <1>3, WorkerForward
  <2> QED
    BY <2>1, <2>2
<1> QED
  BY <1>2, <1>3, <1>4, <1>5 DEF Records, TableStep

LEMMA LoseInWriteRecords ==
    ASSUME Tables, Queue, Records, NEW w \in Workers, NEW j \in Jobs, LoseInWrite(w, j)
    PROVE  Tables' /\ Queue' /\ Records'
<1>1. PICK d : d = job[j].doc
  OBVIOUS
<1>2. PICK landed : landed = Landed(d)
  OBVIOUS
<1>3. /\ worker[w].pc = "claimed" /\ worker[w].job = j
      /\ job[j].type = "write" /\ Calls(d) /\ Lost(w, j)
      /\ crm' = crm \cup {Key(d)}
      /\ job' = [job EXCEPT ![j].landed = landed]
      /\ UNCHANGED tables
  BY <1>1, <1>2 DEF LoseInWrite, Holds
<1>4. verdict[j] = "open" /\ d \in Docs
  BY <1>1, <1>3 DEF Queue, InHand, Queued
<1>5. /\ landed.hash \in Hashes /\ landed.at = Len(runs[d])
      /\ Kept(d, landed.hash)
      /\ landed.at \in 0 .. MaxRuns
      /\ landed = [hash |-> landed.hash, at |-> landed.at]
  <2>1. Len(runs[d]) \in 0 .. MaxRuns
    BY <1>4, LenProperties, PipelineAssumption DEF Tables, TableTypes
  <2>2. doc[d].hash \in Hashes /\ Kept(d, doc[d].hash)
    BY <1>3, <1>4, CallIsKept, PipelineAssumption
  <2>3. landed = [hash |-> doc[d].hash, at |-> Len(runs[d])]
    BY <1>2 DEF Landed
  <2> QED
    BY <2>1, <2>2, <2>3
<1>6. OnlyLands(j)
  BY <1>3, <1>5 DEF OnlyLands, Payloads
<1>7. /\ Queue'
      /\ UNCHANGED verdict
      /\ worker'[w].pc = "idle"
      /\ \A u \in Workers : u # w =>
           worker'[u] = worker[u] /\ (worker[u].pc # "idle" => worker[u].job # j)
      /\ \A i \in Jobs : i # j => job'[i] = job[i]
      /\ job'[j] = [job[j] EXCEPT !.landed = job'[j].landed]
  <2>1. worker[w].pc # "idle"
    BY <1>3
  <2>2. /\ Queue'
        /\ UNCHANGED verdict
        /\ worker'[w].pc = "idle"
        /\ \A u \in Workers : u # w =>
             worker'[u] = worker[u] /\ (worker[u].pc # "idle" => worker[u].job # j)
        /\ \A i \in Jobs : job'[i] = [job[i] EXCEPT !.landed = job'[i].landed]
        /\ \A i \in Jobs : i # j => job'[i] = job[i]
    BY <1>3, <1>6, <2>1, LostQueue
  <2> QED
    BY <2>2
<1>8. TableStep
  BY <1>3, <1>4, LostAnswerStep, PipelineAssumption
<1>9. /\ job'[j].type = job[j].type /\ job'[j].doc = d
      /\ job'[j].error = job[j].error /\ job'[j].landed = landed
  <2>1. job[j] \in JobRows /\ job'[j].landed = landed
    BY <1>3 DEF Queue, QueueTypes, JobRows
  <2> QED
    BY <1>1, <1>7, <2>1 DEF JobRows
<1>10. JobRecorded(j)'
  <2>1. Forward(d)
    BY <1>4, <1>8 DEF TableStep
  <2> QED
    BY <1>1, <1>4, <1>7, <1>9, <2>1 DEF Records, JobRecorded, Forward
<1>11. JobLanded(j)'
  <2>1. UNCHANGED <<doc, runs, approval, write>>
    BY <1>3 DEF tables
  <2>2. Len(runs[d]) \in Nat
    BY <1>4, LenProperties DEF Tables, TableTypes
  <2> QED
    BY <1>3, <1>4, <1>5, <1>7, <1>9, <2>1, <2>2 DEF JobLanded, Kept, Unsettled, Latest
<1>12. \A i \in Jobs : i # j => JobRecorded(i)' /\ JobLanded(i)'
  BY <1>7, <1>8, JobForward
<1>13. ASSUME NEW u \in Workers PROVE WorkerRecorded(u)'
  <2>1. CASE u = w
    BY <2>1, <1>7 DEF WorkerRecorded
  <2>2. CASE u # w
    <3>1. worker[u].pc # "idle" => worker[u].job \in Jobs /\ worker[u].job # j
      BY <2>2, <1>7 DEF Queue, InHand
    <3> QED
      BY <2>2, <1>7, <1>8, <3>1, WorkerForward
  <2> QED
    BY <2>1, <2>2
<1> QED
  BY <1>7, <1>8, <1>10, <1>11, <1>12, <1>13 DEF Records, TableStep

\* A dispatch returns what it has put on record.
LEMMA DispatchRecords ==
    ASSUME Tables, Queue, Records, NEW w \in Workers, NEW j \in Jobs,
           NEW error \in Errors \cup {None}, Dispatch(w, j, error)
    PROVE  Tables' /\ Queue' /\ Records'
<1>1. PICK d, type, landed : d = job[j].doc /\ type = job[j].type /\ landed = job'[j].landed
  OBVIOUS
<1>2. /\ Holds(w, j, "claimed")
      /\ Dispatched(j, error)
      /\ worker' = [worker EXCEPT ![w].pc = "dispatched", ![w].outcome = error]
      /\ UNCHANGED <<verdict, holders, crashes>>
  BY DEF Dispatch
<1>3. /\ worker[w].pc = "claimed" /\ worker[w].job = j
      /\ verdict[j] = "open" /\ d \in Docs
  BY <1>1, <1>2 DEF Holds, Queue, InHand, Queued
<1>4. job \in [Jobs -> JobRows] /\ job[j] \in JobRows
  BY DEF Queue, QueueTypes
\* What the dispatch has done to the tables, and to the job.
<1>5. /\ TableStep
      /\ Shown(type, d, error)'
      /\ OnlyLands(j)
      /\ landed # Nowhere =>
           /\ type = "write"
           /\ landed.hash \in Hashes /\ landed.at <= Len(runs'[d])
           /\ landed.at = Len(runs'[d]) => Kept(d, landed.hash)'
           /\ error # None => Excused(d, landed, error)'
  <2>1. CASE /\ type = "extract"
             /\ Extracts(d, error) \/ (error = "Unclassified" /\ Breaks(d))
             /\ UNCHANGED <<job, crm>>
    <3>1. /\ TableStep
          /\ error = None => HasDraft(d)'
          /\ error \in ProviderErrors => HasFailure(d)'
          /\ error \notin CrmErrors
      <4>1. CASE Extracts(d, error)
        BY <1>3, <2>1, <4>1, ExtractStep, ErrorNames, PipelineAssumption
      <4>2. CASE error = "Unclassified" /\ Breaks(d)
        BY <1>3, <2>1, <4>2, BreakStep, ErrorNames, PipelineAssumption
      <4> QED
        BY <2>1, <4>1, <4>2
    <3>2. landed = Nowhere
      BY <1>1, <2>1 DEF Records, JobLanded
    <3> QED
      BY <2>1, <3>1, <3>2 DEF Shown, OnlyLands
  <2>2. CASE /\ type = "write"
             /\ Writes(d, error)
             /\ job' = IF error = None THEN [job EXCEPT ![j].landed = Landed(d)] ELSE job
    <3>1. /\ TableStep
          /\ error \in CrmErrors \cup {"ApprovalError", None}
          /\ error = None => /\ HasRecord(d)'
                             /\ doc[d].hash \in Hashes /\ Kept(d, doc[d].hash)'
          /\ error \in CrmErrors => HasWrite(d)'
          /\ error = "ApprovalError" =>
               \A h \in Hashes : Kept(d, h) =>
                  approval[d].expired /\ write[<<d, h>>] # "succeeded"
          /\ UNCHANGED runs
      BY <1>3, <2>2, WriteStep, PipelineAssumption
    <3>2. Shown(type, d, error)'
      BY <2>2, <3>1, ErrorNames DEF Shown
    <3>3. Len(runs[d]) \in 0 .. MaxRuns /\ MaxRuns \in Nat
      BY <1>3, LenProperties, PipelineAssumption DEF Tables, TableTypes
    <3>4. CASE error = None
      <4>1. PICK hash : hash = doc[d].hash
        OBVIOUS
      <4>2. job' = [job EXCEPT ![j].landed = [hash |-> hash, at |-> Len(runs[d])]]
        BY <2>2, <3>4, <4>1 DEF Landed
      <4>3. landed = [hash |-> hash, at |-> Len(runs[d])]
        BY <1>1, <1>4, <4>2 DEF JobRows
      <4>4. hash \in Hashes /\ hash \in Payloads
        BY <3>1, <3>4, <4>1 DEF Payloads
      <4>5. Kept(d, hash)'
        <5>1. doc'[d].hash = hash
          <6>1. doc \in [Docs -> [status : DocStatuses, hash : Payloads]]
            BY DEF Tables, TableTypes
          <6>2. doc' = doc \/ doc' = [doc EXCEPT ![d].status = "written"]
            BY <2>2 DEF Writes
          <6> QED
            BY <1>3, <4>1, <6>1, <6>2
        <5> QED
          BY <3>1, <3>4, <5>1 DEF Kept, Unsettled, Latest
      <4>6. landed.hash = hash /\ landed.at = Len(runs[d])
        BY <4>3
      <4>7. Kept(d, landed.hash)'
        BY <4>5, <4>6
      <4>8. OnlyLands(j)
        BY <3>3, <4>2, <4>4 DEF OnlyLands
      <4>9. landed.hash \in Hashes /\ landed.at <= Len(runs'[d])
        BY <3>1, <3>3, <4>4, <4>6
      <4> QED
        BY <2>2, <3>1, <3>2, <3>4, <4>7, <4>8, <4>9
    <3>5. CASE error # None
      <4>1. UNCHANGED job
        BY <2>2, <3>5
      <4>2. landed = job[j].landed
        BY <1>1, <4>1
      <4>3. ASSUME landed # Nowhere
            PROVE  /\ landed.hash \in Hashes /\ landed.at <= Len(runs'[d])
                   /\ landed.at = Len(runs'[d]) => Kept(d, landed.hash)'
                   /\ Excused(d, landed, error)'
        <5>1. /\ landed.hash \in Hashes /\ landed.at <= Len(runs[d])
              /\ landed.at = Len(runs[d]) => Kept(d, landed.hash)
              /\ landed.at \in Nat
          BY <1>1, <4>2, <4>3 DEF Records, JobLanded, Queue, QueueTypes, JobRows
        <5>2. Len(runs'[d]) = Len(runs[d]) /\ Forward(d)
          BY <1>3, <3>1 DEF TableStep
        <5>3. PICK hash \in Hashes : hash = landed.hash
          BY <5>1
        <5>4. ASSUME landed.at = Len(runs'[d]) PROVE Kept(d, hash)'
          BY <5>1, <5>2, <5>3, <5>4 DEF Forward
        <5>5. Excused(d, landed, error)'
          <6>1. CASE landed.at # Len(runs'[d])
            BY <3>3, <5>1, <5>2, <6>1 DEF Excused
          <6>2. CASE landed.at = Len(runs'[d]) /\ error = "ApprovalError"
            <7>1. approval[d].expired /\ write[<<d, hash>>] # "succeeded" /\ Kept(d, hash)
              BY <3>1, <5>1, <5>2, <5>3, <6>2
            <7>2. approval'[d].expired /\ write'[<<d, hash>>] # "succeeded"
              BY <5>2, <7>1 DEF Forward
            <7> QED
              BY <5>3, <7>2 DEF Excused
          <6>3. CASE error \in CrmErrors
            BY <6>3 DEF Excused
          <6> QED
            BY <3>1, <3>5, <6>1, <6>2, <6>3
        <5> QED
          BY <5>1, <5>2, <5>3, <5>4, <5>5
      <4> QED
        BY <2>2, <3>1, <3>2, <4>1, <4>2, <4>3 DEF OnlyLands
    <3> QED
      BY <3>4, <3>5
  <2> QED
    BY <1>1, <1>2, <2>1, <2>2 DEF Dispatched
<1>6. /\ Queue'
      /\ worker'[w] = [pc |-> "dispatched", job |-> j, outcome |-> error]
      /\ \A u \in Workers : u # w => worker'[u] = worker[u]
      /\ \A i \in Jobs : job'[i] = [job[i] EXCEPT !.landed = job'[i].landed]
      /\ \A i \in Jobs : i # j => job'[i] = job[i]
      /\ holders[j] = {w}
  BY <1>2, <1>5, DispatchQueue
<1>7. job'[j].type = type /\ job'[j].doc = d /\ job'[j].error = job[j].error
  <2>1. job'[j] = [job[j] EXCEPT !.landed = landed]
    BY <1>1, <1>6
  <2> QED
    BY <1>1, <1>4, <2>1 DEF JobRows
<1>8. landed = job'[j].landed
  BY <1>1
<1>9. JobRecorded(j)'
  <2>1. Forward(d)
    BY <1>3, <1>5 DEF TableStep
  <2> QED
    BY <1>1, <1>2, <1>3, <1>7, <2>1 DEF Records, JobRecorded, Forward
<1>10. JobLanded(j)'
  BY <1>2, <1>3, <1>5, <1>7, <1>8 DEF JobLanded, Kept, Unsettled, Latest
<1>11. \A i \in Jobs : i # j => JobRecorded(i)' /\ JobLanded(i)'
  BY <1>2, <1>5, <1>6, JobForward
<1>12. ASSUME NEW u \in Workers PROVE WorkerRecorded(u)'
  <2>1. CASE u = w
    <3>1. worker'[w].job = j /\ worker'[w].outcome = error
      <4> DEFINE row == [pc |-> "dispatched", job |-> j, outcome |-> error]
      <4>1. row.job = j /\ row.outcome = error
        OBVIOUS
      <4>2. worker'[w] = row
        BY <1>6
      <4> HIDE DEF row
      <4> QED
        BY <4>1, <4>2
    <3> QED
      BY <2>1, <1>5, <1>7, <1>8, <3>1 DEF WorkerRecorded, Shown, Excused
  <2>2. CASE u # w
    <3>1. worker[u].pc # "idle" => worker[u].job \in Jobs /\ worker[u].job # j
      BY <2>2, <1>6 DEF Queue, InHand
    <3> QED
      BY <2>2, <1>5, <1>6, <3>1, WorkerForward
  <2> QED
    BY <2>1, <2>2
<1> QED
  BY <1>5, <1>6, <1>9, <1>10, <1>11, <1>12 DEF Records, TableStep

-----------------------------------------------------------------------------
PipelineInv == Tables /\ Queue /\ Records

\* A request of the API or the review screen.
LEMMA RequestStep ==
    ASSUME PipelineInv, NEW d \in Docs,
           \/ Receive(d) \/ ExtractNow(d) \/ ApproveNow(d) \/ Expire(d) \/ WriteNowLost(d)
           \/ \E form \in Hashes : ApproveOnScreen(d, form)
           \/ \E route \in {"api", "screen"} : WriteNow(d, route)
    PROVE  PipelineInv'
<1>1. Tables /\ Queue /\ Records
  BY DEF PipelineInv
<1>2. crashes \in Nat /\ MaxCrashes \in Nat /\ crashes \in 0 .. MaxCrashes
  BY PipelineAssumption DEF PipelineInv, Queue, QueueTypes
<1>3. SUFFICES /\ TableStep
               /\ UNCHANGED <<verdict, holders, job, worker>>
               /\ crashes' \in 0 .. MaxCrashes /\ crashes <= crashes'
  BY <1>1, TablesOnly DEF PipelineInv
<1>4. CASE Receive(d)
  <2>1. TableStep
    BY <1>1, <1>4, ReceiveStep, PipelineAssumption
  <2>2. UNCHANGED <<verdict, holders, job, worker, crashes>>
    BY <1>4 DEF Receive, queue
  <2> QED
    BY <1>2, <2>1, <2>2
<1>5. CASE ExtractNow(d)
  <2>1. TableStep
    <3>1. CASE \E error \in ProviderErrors \cup {None} : Extracts(d, error) /\ UNCHANGED crm
      <4>1. PICK error \in ProviderErrors \cup {None} : Extracts(d, error) /\ UNCHANGED crm
        BY <3>1
      <4> QED
        BY <1>1, <4>1, ExtractStep, PipelineAssumption
    <3>2. CASE ApiBreaks(d)
      BY <1>1, <3>2, TablesStutter DEF ApiBreaks
    <3> QED
      BY <1>5, <3>1, <3>2 DEF ExtractNow
  <2>2. UNCHANGED <<verdict, holders, job, worker, crashes>>
    BY <1>5 DEF ExtractNow, queue
  <2> QED
    BY <1>2, <2>1, <2>2
<1>6. CASE Approves(d)
  <2>1. TableStep
    BY <1>1, <1>6, ApproveStep, PipelineAssumption
  <2>2. UNCHANGED <<verdict, holders, job, worker, crashes>>
    BY <1>6 DEF Approves, queue
  <2> QED
    BY <1>2, <2>1, <2>2
<1>7. CASE Expire(d)
  <2>1. TableStep
    BY <1>1, <1>7, ExpireStep, PipelineAssumption
  <2>2. UNCHANGED <<verdict, holders, job, worker, crashes>>
    BY <1>7 DEF Expire, queue
  <2> QED
    BY <1>2, <2>1, <2>2
<1>8. CASE WriteNowLost(d)
  <2>1. /\ Calls(d) /\ crm' = crm \cup {Key(d)} /\ UNCHANGED tables
        /\ crashes < MaxCrashes /\ crashes' = crashes + 1
        /\ UNCHANGED <<verdict, holders, job, worker>>
    BY <1>8 DEF WriteNowLost
  <2>2. TableStep
    BY <1>1, <2>1, LostAnswerStep, PipelineAssumption
  <2> QED
    BY <1>2, <2>1, <2>2
<1>9. CASE \E route \in {"api", "screen"} : WriteNow(d, route)
  <2>1. UNCHANGED queue /\ \E error \in Errors \cup {None} : Writes(d, error)
    BY <1>9 DEF WriteNow
  <2>2. TableStep
    BY <1>1, <2>1, WriteStep, PipelineAssumption
  <2> QED
    BY <1>2, <2>1, <2>2 DEF queue
<1> QED
  BY <1>4, <1>5, <1>6, <1>7, <1>8, <1>9 DEF ApproveNow, ApproveOnScreen

LEMMA PipelineStep == PipelineInv /\ [Next]_vars => PipelineInv'
<1> SUFFICES ASSUME PipelineInv, [Next]_vars PROVE PipelineInv'
  OBVIOUS
<1>1. Tables /\ Queue /\ Records
  BY DEF PipelineInv
<1>2. CASE UNCHANGED vars
  <2>1. UNCHANGED <<tables, crm>> /\ UNCHANGED <<verdict, holders, job, worker, crashes>>
    BY <1>2 DEF vars, queue
  <2>2. crashes \in 0 .. MaxCrashes /\ crashes \in Nat
    BY <1>1 DEF Queue, QueueTypes
  <2>3. TableStep
    BY <1>1, <2>1, TablesStutter
  <2> QED
    BY <1>1, <2>1, <2>2, <2>3, TablesOnly DEF PipelineInv
<1>3. ASSUME NEW d \in Docs, NEW j \in Jobs, NEW type \in {"extract", "write"},
             Enqueue(j, type, d)
      PROVE  PipelineInv'
  BY <1>1, <1>3, EnqueueRecords DEF PipelineInv
<1>4. ASSUME NEW w \in Workers, NEW j \in Jobs,
             Claim(w, j) \/ Work(w, j) \/ Lose(w, j) \/ LoseInWrite(w, j)
      PROVE  PipelineInv'
  <2>1. CASE Claim(w, j)
    BY <1>1, <2>1, ClaimRecords DEF PipelineInv
  <2>2. CASE Work(w, j)
    <3>1. CASE Settle(w, j)
      BY <1>1, <3>1, SettleRecords DEF PipelineInv
    <3>2. CASE \E error \in Errors \cup {None} : Dispatch(w, j, error)
      BY <1>1, <3>2, DispatchRecords DEF PipelineInv
    <3> QED
      BY <2>2, <3>1, <3>2 DEF Work
  <2>3. CASE Lose(w, j)
    BY <1>1, <2>3, LoseRecords DEF PipelineInv
  <2>4. CASE LoseInWrite(w, j)
    BY <1>1, <2>4, LoseInWriteRecords DEF PipelineInv
  <2> QED
    BY <1>4, <2>1, <2>2, <2>3, <2>4
<1>5. ASSUME NEW d \in Docs,
             \/ Receive(d) \/ ExtractNow(d) \/ ApproveNow(d) \/ Expire(d) \/ WriteNowLost(d)
             \/ \E form \in Hashes : ApproveOnScreen(d, form)
             \/ \E route \in {"api", "screen"} : WriteNow(d, route)
      PROVE  PipelineInv'
  BY <1>5, RequestStep
<1> QED
  BY <1>2, <1>3, <1>4, <1>5 DEF Next

LEMMA PipelineStart == Init => PipelineInv
<1> SUFFICES ASSUME Init PROVE PipelineInv
  OBVIOUS
<1>1. /\ verdict = [j \in Jobs |-> "absent"] /\ holders = [j \in Jobs |-> {}]
      /\ job = [j \in Jobs |-> NoJob]
      /\ worker = [w \in Workers |-> Idle]
      /\ doc = [d \in Docs |-> [status |-> "absent", hash |-> NoHash]]
      /\ runs = [d \in Docs |-> << >>]
      /\ requested = [d \in Docs |-> 0]
      /\ approval = [d \in Docs |-> NoApproval]
      /\ write = [k \in Keys |-> "none"]
      /\ crm = {} /\ crashes = 0
  BY DEF Init, Ledger!Init
<1>2. Tables
  <2>1. \A d \in Docs : runs[d] = << >> /\ Len(runs[d]) = 0
    BY <1>1, EmptySeq
  <2>2. TableTypes
    <3>1. runs \in [Docs -> Seq(Payloads)]
      BY <1>1, EmptySeq
    <3>2. doc \in [Docs -> [status : DocStatuses, hash : Payloads]]
      BY <1>1 DEF DocStatuses, Payloads
    <3>3. approval \in [Docs -> [hash : Payloads, expired : BOOLEAN]]
      BY <1>1 DEF NoApproval, Payloads
    <3> QED
      BY <1>1, <2>1, <3>1, <3>2, <3>3, PipelineAssumption DEF TableTypes
  <2>3. \A d \in Docs : Coherent(d)
    BY <1>1 DEF Coherent
  <2> QED
    BY <1>1, <2>2, <2>3 DEF Tables
<1>3. Queue
  <2>1. QueueTypes
    BY <1>1, PipelineAssumption
    DEF QueueTypes, NoJob, JobRows, Nowhere, Payloads, Idle, WorkerStates
  <2>2. \A j \in Jobs : Counted(j) /\ Queued(j)
    BY <1>1, PipelineAssumption DEF Counted, Queued, NoJob
  <2>3. \A w \in Workers : InHand(w)
    BY <1>1 DEF InHand, Idle
  <2> QED
    BY <2>1, <2>2, <2>3 DEF Queue
<1>4. Records
  <2>1. \A j \in Jobs : JobRecorded(j) /\ JobLanded(j)
    BY <1>1, ErrorNames DEF JobRecorded, JobLanded, NoJob
  <2>2. \A w \in Workers : WorkerRecorded(w)
    BY <1>1 DEF WorkerRecorded, Idle
  <2> QED
    BY <2>1, <2>2 DEF Records
<1> QED
  BY <1>2, <1>3, <1>4 DEF PipelineInv

LEMMA PipelineInvariant == Spec => []PipelineInv
<1>1. Init => PipelineInv
  BY PipelineStart
<1>2. PipelineInv /\ [Next]_vars => PipelineInv'
  BY PipelineStep
<1> QED
  BY <1>1, <1>2, PTL DEF Spec

-----------------------------------------------------------------------------
\* The types of the tables, the queue and the workers, and the bound on the
\* attempts of a job: max_attempts, and one for every worker that was lost
\* (queue.claim, queue.fail).
THEOREM TypeCorrect == Spec => []TypeOK
<1>1. PipelineInv => TypeOK
  <2> SUFFICES ASSUME PipelineInv PROVE TypeOK
    OBVIOUS
  <2>1. /\ verdict \in [Jobs -> {"absent", "open", "succeeded", "failed"}]
        /\ holders \in [Jobs -> SUBSET Workers]
        /\ worker \in [Workers -> [ pc      : {"idle", "claimed", "dispatched"},
                                    job     : Jobs \cup {None},
                                    outcome : Errors \cup {None} ]]
        /\ crashes \in 0 .. MaxCrashes
    BY DEF PipelineInv, Queue, QueueTypes, WorkerStates
  <2>2. job \in [Jobs -> [ type     : {"extract", "write", None},
                           doc      : Docs \cup {None},
                           attempts : 0 .. MaxAttempts + MaxCrashes,
                           error    : Errors \cup {None},
                           landed   : [hash : Hashes \cup {NoHash}, at : 0 .. MaxRuns] ]]
    <3>1. job \in [Jobs -> JobRows]
      BY DEF PipelineInv, Queue, QueueTypes
    <3>2. \A j \in Jobs : job[j].attempts \in 0 .. MaxAttempts + MaxCrashes
      <4>1. \A j \in Jobs : job[j].attempts \in Nat /\ job[j].attempts <= MaxAttempts + crashes
        BY <3>1 DEF PipelineInv, Queue, Counted, JobRows
      <4> QED
        BY <2>1, <4>1, PipelineAssumption
    <3> QED
      BY <3>1, <3>2 DEF JobRows, Payloads
  <2>3. /\ doc \in [Docs -> [status : DocStatuses, hash : Hashes \cup {NoHash}]]
        /\ runs \in [Docs -> Seq(Hashes \cup {NoHash})]
        /\ requested \in [Docs -> Nat]
        /\ approval \in [Docs -> [hash : Hashes \cup {NoHash}, expired : BOOLEAN]]
        /\ write \in [Keys -> {"none", "failed", "succeeded"}]
        /\ crm \subseteq Keys
    BY DEF PipelineInv, Tables, TableTypes, Payloads
  <2> QED
    BY <2>1, <2>2, <2>3 DEF TypeOK
<1> QED
  BY <1>1, PipelineInvariant, PTL

\* Whatever workers and requests are lost, what the queue says of a job is in
\* the tables: the dispatch commits before the job is settled, and nothing
\* takes its rows back (Worker.run_once, Worker._dispatch).
THEOREM QueueTellsTheTruth == Spec => []VerdictIsOnRecord
<1>1. PipelineInv => VerdictIsOnRecord
  BY DEF PipelineInv, Records, JobRecorded, VerdictIsOnRecord
<1> QED
  BY <1>1, PipelineInvariant, PTL

\* A write job that has brought its payload to the destination is settled by a
\* retry, unless the document was extracted again or our own record of the
\* write was lost and the retry was refused or came too late
\* (write_approved_record: replays come before the approval).
THEOREM LandedWritesAreFound == Spec => []LostWriteIsFound
<1>1. PipelineInv => LostWriteIsFound
  BY DEF PipelineInv, Records, JobLanded, Excused, LostWriteIsFound
<1> QED
  BY <1>1, PipelineInvariant, PTL

\* Between two handlers, a document whose write may call the destination is
\* approved: mark_written has nothing to refuse (crm_write.py).
THEOREM CalledIsApproved == Spec => [](\A d \in Docs : Calls(d) => doc[d].status = "approved")
<1>1. PipelineInv => \A d \in Docs : Calls(d) => doc[d].status = "approved"
  BY DEF PipelineInv, Tables, Coherent, Calls
<1> QED
  BY <1>1, PipelineInvariant, PTL

-----------------------------------------------------------------------------
(***************************************************************************)
(* The trail: every request is answered.                                   *)
(***************************************************************************)
BrokenJob(rows, states, d, j) ==
    /\ rows[j].doc = d
    /\ \/ rows[j].error = "Unclassified"
       \/ \E w \in Workers : states[w].outcome = "Unclassified" /\ states[w].job = j

BrokenIn(rows, states, d) == {j \in Jobs : BrokenJob(rows, states, d, j)}

\* Only a dispatch has an outcome, and only a failed job an error nobody
\* expected: so a broken job is in one place, and does not run again.
Outcomes ==
    /\ \A w \in Workers : worker[w].pc # "dispatched" => worker[w].outcome = None
    /\ \A j \in Jobs : job[j].error = "Unclassified" => verdict[j] = "failed"

Answered(d) ==
    /\ IsFiniteSet(BrokenIn(job, worker, d))
    /\ Len(runs[d]) <= requested[d]
    /\ requested[d] <= Len(runs[d]) + Cardinality(BrokenIn(job, worker, d)) + crashes

Trail == Outcomes /\ \A d \in Docs : Answered(d)

LEMMA BrokenJobs ==
    ASSUME Queue, Outcomes, NEW d \in Docs
    PROVE  Broken(d) = BrokenIn(job, worker, d)
<1>1. \A w \in Workers : worker[w].outcome = "Unclassified" => worker[w].job \in Jobs
  BY DEF Queue, InHand, Outcomes, None
<1>2. ASSUME NEW j PROVE j \in Broken(d) <=> j \in Jobs /\ BrokenJob(job, worker, d, j)
  <2>1. CASE j \in {i \in Jobs : job[i].doc = d /\ job[i].error = "Unclassified"}
    BY <2>1 DEF Broken, BrokenJob
  <2>2. CASE j \notin {i \in Jobs : job[i].doc = d /\ job[i].error = "Unclassified"}
    <3>1. j \in Broken(d) <=>
            \E w \in Workers : /\ worker[w].outcome = "Unclassified"
                               /\ job[worker[w].job].doc = d
                               /\ j = worker[w].job
      BY <2>2 DEF Broken
    <3> QED
      BY <1>1, <2>2, <3>1 DEF BrokenJob
  <2> QED
    BY <2>1, <2>2
<1> QED
  BY <1>2 DEF BrokenIn

\* The step extracts d once, or not at all.
Paired(d) ==
    \/ requested'[d] = requested[d] /\ Len(runs'[d]) = Len(runs[d])
    \/ requested'[d] = requested[d] + 1 /\ Len(runs'[d]) = Len(runs[d]) + 1

LEMMA RunsPaired ==
    ASSUME TableTypes, NEW d \in Docs, NEW hash \in Payloads, NEW status, Runs(d, hash, status)
    PROVE  \A e \in Docs : Paired(e)
<1>1. runs' = [runs EXCEPT ![d] = Append(runs[d], hash)] /\ runs[d] \in Seq(Payloads)
  BY DEF TableTypes, Runs
<1>2. Len(runs'[d]) = Len(runs[d]) + 1
  BY <1>1, AddedRow DEF TableTypes
<1>3. requested'[d] = requested[d] + 1
  BY DEF TableTypes, Runs, Requests
<1>4. \A e \in Docs : e # d => requested'[e] = requested[e] /\ runs'[e] = runs[e]
  BY <1>1 DEF TableTypes, Runs, Requests
<1> QED
  BY <1>2, <1>3, <1>4 DEF Paired

LEMMA ExtractsPaired ==
    ASSUME TableTypes, NEW d \in Docs, NEW error, Extracts(d, error)
    PROVE  \A e \in Docs : Paired(e)
<1>1. CASE \E hash \in Hashes : Runs(d, hash, Routed(hash))
  BY <1>1, RunsPaired DEF Payloads
<1>2. CASE Runs(d, NoHash, "extraction_failed")
  BY <1>2, RunsPaired DEF Payloads
<1> QED
  BY <1>1, <1>2 DEF Extracts

\* A step that breaks nothing, or loses a worker with at most one broken job.
LEMMA StaysAnswered ==
    ASSUME Tables, Queue, Tables', Queue', NEW d \in Docs, Answered(d), Paired(d),
           NEW lost \in {0, 1}, crashes + lost = crashes',
           \A j \in Jobs : BrokenJob(job', worker', d, j) => BrokenJob(job, worker, d, j),
           NEW i,
           \A j \in Jobs : BrokenJob(job, worker, d, j) =>
                             BrokenJob(job', worker', d, j) \/ (lost = 1 /\ j = i)
    PROVE  Answered(d)'
<1> DEFINE before == BrokenIn(job, worker, d)
           after == BrokenIn(job', worker', d)
<1>1. /\ IsFiniteSet(before) /\ Cardinality(before) \in Nat
      /\ Len(runs[d]) <= requested[d]
      /\ requested[d] <= Len(runs[d]) + Cardinality(before) + crashes
  BY FS_CardinalityType DEF Answered
<1>2. after \subseteq before /\ (after = before \/ (lost = 1 /\ before \ {i} \subseteq after))
  BY DEF BrokenIn
<1>3. (BrokenIn(job, worker, d))' = after
  BY DEF BrokenIn, BrokenJob
<1> HIDE DEF before, after
<1>4. IsFiniteSet(after) /\ Cardinality(after) \in Nat
  BY <1>1, <1>2, FS_Subset, FS_CardinalityType
<1>5. Cardinality(before) <= Cardinality(after) + lost
  <2>1. CASE after = before
    BY <2>1, <1>4
  <2>2. CASE lost = 1 /\ before \ {i} \subseteq after
    <3>1. /\ IsFiniteSet(before \ {i}) /\ Cardinality(before \ {i}) \in Nat
          /\ Cardinality(before \ {i}) =
               IF i \in before THEN Cardinality(before) - 1 ELSE Cardinality(before)
      BY <1>1, FS_RemoveElement, FS_CardinalityType
    <3>2. Cardinality(before \ {i}) <= Cardinality(after)
      BY <2>2, <1>4, FS_Subset
    <3>3. Cardinality(before) <= Cardinality(before \ {i}) + 1
      BY <1>1, <3>1
    <3> QED
      BY <1>1, <1>4, <2>2, <3>1, <3>2, <3>3
  <2> QED
    BY <1>2, <2>1, <2>2
<1>6. /\ Len(runs[d]) \in Nat /\ Len(runs'[d]) \in Nat
      /\ requested[d] \in Nat /\ requested'[d] \in Nat
      /\ crashes \in Nat /\ crashes' \in Nat
  BY LenProperties DEF Tables, TableTypes, Queue, QueueTypes
\* Extractions, requests, broken jobs and losses, before and after.
<1>7. PICK r \in Nat, q \in Nat, b \in Nat, c \in Nat,
           r2 \in Nat, q2 \in Nat, b2 \in Nat, c2 \in Nat :
        /\ r = Len(runs[d]) /\ q = requested[d] /\ b = Cardinality(before) /\ c = crashes
        /\ r2 = Len(runs'[d]) /\ q2 = requested'[d] /\ b2 = Cardinality(after) /\ c2 = crashes'
  BY <1>1, <1>4, <1>6
<1>8. r2 <= q2 /\ q2 <= r2 + b2 + c2
  <2>1. r <= q /\ q <= r + b + c
    BY <1>1, <1>7
  <2>2. (q2 = q /\ r2 = r) \/ (q2 = q + 1 /\ r2 = r + 1)
    BY <1>7 DEF Paired
  <2>3. b <= b2 + lost /\ c + lost = c2
    BY <1>5, <1>7
  <2> QED
    BY <2>1, <2>2, <2>3
<1> QED
  BY <1>3, <1>4, <1>7, <1>8 DEF Answered

\* A dispatch that breaks makes j a broken job of d.
LEMMA BreaksAnswered ==
    ASSUME Tables, Queue, Tables', Queue', NEW d \in Docs, Answered(d),
           requested'[d] = requested[d] + 1,
           Len(runs'[d]) = Len(runs[d]) \/ Len(runs'[d]) = Len(runs[d]) + 1,
           UNCHANGED crashes,
           NEW j \in Jobs, ~BrokenJob(job, worker, d, j), BrokenJob(job', worker', d, j),
           \A i \in Jobs : i # j => (BrokenJob(job', worker', d, i) <=> BrokenJob(job, worker, d, i))
    PROVE  Answered(d)'
<1> DEFINE before == BrokenIn(job, worker, d)
           after == BrokenIn(job', worker', d)
<1>1. /\ IsFiniteSet(before) /\ Cardinality(before) \in Nat
      /\ Len(runs[d]) <= requested[d]
      /\ requested[d] <= Len(runs[d]) + Cardinality(before) + crashes
  BY FS_CardinalityType DEF Answered
<1>2. after = before \cup {j} /\ j \notin before
  BY DEF BrokenIn
<1>3. (BrokenIn(job, worker, d))' = after
  BY DEF BrokenIn, BrokenJob
<1> HIDE DEF before, after
<1>4. IsFiniteSet(after) /\ Cardinality(after) = Cardinality(before) + 1
  BY <1>1, <1>2, FS_AddElement
<1>5. /\ Len(runs[d]) \in Nat /\ Len(runs'[d]) \in Nat
      /\ requested[d] \in Nat /\ requested'[d] \in Nat
      /\ crashes \in Nat /\ crashes' \in Nat /\ Cardinality(after) \in Nat
  BY <1>1, <1>4, LenProperties DEF Tables, TableTypes, Queue, QueueTypes
<1>6. PICK r \in Nat, q \in Nat, b \in Nat, c \in Nat, r2 \in Nat, q2 \in Nat, b2 \in Nat :
        /\ r = Len(runs[d]) /\ q = requested[d] /\ b = Cardinality(before) /\ c = crashes
        /\ r2 = Len(runs'[d]) /\ q2 = requested'[d] /\ b2 = Cardinality(after)
  BY <1>1, <1>4, <1>5
<1>7. r2 <= q2 /\ q2 <= r2 + b2 + c
  <2>1. r <= q /\ q <= r + b + c
    BY <1>1, <1>6
  <2>2. q2 = q + 1 /\ (r2 = r \/ r2 = r + 1) /\ b2 = b + 1
    BY <1>4, <1>6
  <2> QED
    BY <2>1, <2>2
<1> QED
  BY <1>3, <1>4, <1>6, <1>7 DEF Answered

\* The jobs of a step that changes neither outcomes nor errors.
LEMMA TrailForward ==
    ASSUME Tables, Queue, Tables', Queue', Trail, \A d \in Docs : Paired(d),
           UNCHANGED <<verdict, job, worker>>,
           NEW lost \in {0, 1}, crashes + lost = crashes'
    PROVE  Trail'
<1>1. Outcomes'
  BY DEF Trail, Outcomes
<1>2. ASSUME NEW d \in Docs PROVE Answered(d)'
  <2>1. \A j \in Jobs : BrokenJob(job', worker', d, j) <=> BrokenJob(job, worker, d, j)
    BY DEF BrokenJob
  <2> QED
    BY <2>1, StaysAnswered DEF Trail
<1> QED
  BY <1>1, <1>2 DEF Trail

LEMMA RequestTrail ==
    ASSUME PipelineInv, PipelineInv', Trail, NEW d \in Docs,
           \/ Receive(d) \/ ExtractNow(d) \/ ApproveNow(d) \/ Expire(d) \/ WriteNowLost(d)
           \/ \E form \in Hashes : ApproveOnScreen(d, form)
           \/ \E route \in {"api", "screen"} : WriteNow(d, route)
    PROVE  Trail'
<1>1. Tables /\ Queue /\ Tables' /\ Queue' /\ TableTypes
  BY DEF PipelineInv, Tables
<1>2. crashes \in Nat
  BY <1>1 DEF Queue, QueueTypes
<1>3. UNCHANGED <<verdict, job, worker>> /\ \E lost \in {0, 1} : crashes + lost = crashes'
  BY <1>2 DEF Receive, ExtractNow, ApproveNow, Approves, Expire, WriteNowLost, ApproveOnScreen,
              WriteNow, queue
<1>4. \A e \in Docs : Paired(e)
  <2>1. CASE UNCHANGED <<runs, requested>>
    BY <2>1 DEF Paired
  <2>2. CASE ExtractNow(d)
    <3>1. CASE \E error \in ProviderErrors \cup {None} : Extracts(d, error)
      BY <1>1, <3>1, ExtractsPaired
    <3>2. CASE ApiBreaks(d)
      BY <2>1, <3>2 DEF ApiBreaks, tables
    <3> QED
      BY <2>2, <3>1, <3>2 DEF ExtractNow
  <2>3. CASE ~ExtractNow(d)
    <3>1. UNCHANGED <<runs, requested>>
      BY <2>3 DEF Receive, ApproveNow, Approves, Expire, WriteNowLost, ApproveOnScreen,
                  WriteNow, Writes, tables
    <3> QED
      BY <2>1, <3>1
  <2> QED
    BY <2>2, <2>3
<1> QED
  BY <1>1, <1>3, <1>4, TrailForward

LEMMA EnqueueTrail ==
    ASSUME PipelineInv, PipelineInv', Trail, NEW j \in Jobs, NEW type \in {"extract", "write"},
           NEW d \in Docs, Enqueue(j, type, d)
    PROVE  Trail'
<1>1. Tables /\ Queue /\ Tables' /\ Queue'
  BY DEF PipelineInv
<1>2. /\ Queue'
      /\ verdict[j] = "absent" /\ job[j] = NoJob
      /\ \A i \in Jobs : i # j => job'[i] = job[i] /\ verdict'[i] = verdict[i]
      /\ verdict'[j] = "open" /\ job'[j] = [NoJob EXCEPT !.type = type, !.doc = d]
  BY <1>1, EnqueueQueue
<1>3. UNCHANGED <<worker, crashes, tables>> /\ UNCHANGED <<runs, requested>>
  BY DEF Enqueue, tables
<1>4. job[j].error = None /\ job'[j].error = None
  BY <1>2 DEF NoJob
<1>5. Outcomes'
  BY <1>2, <1>3, <1>4 DEF Trail, Outcomes, None
<1>6. \A w \in Workers : worker[w].outcome = "Unclassified" => worker[w].job # j
  BY <1>1, <1>2 DEF Trail, Outcomes, Queue, InHand, None
<1>7. ASSUME NEW e \in Docs, NEW i \in Jobs
      PROVE  BrokenJob(job', worker', e, i) <=> BrokenJob(job, worker, e, i)
  <2>1. CASE i = j
    BY <2>1, <1>3, <1>4, <1>6 DEF BrokenJob, None
  <2>2. CASE i # j
    BY <2>2, <1>2, <1>3 DEF BrokenJob
  <2> QED
    BY <2>1, <2>2
<1>8. ASSUME NEW e \in Docs PROVE Answered(e)'
  <2>1. Paired(e) /\ crashes + 0 = crashes'
    BY <1>1, <1>3 DEF Paired, Queue, QueueTypes
  <2> QED
    BY <1>1, <1>7, <2>1, StaysAnswered DEF Trail
<1> QED
  BY <1>5, <1>8 DEF Trail

LEMMA ClaimTrail ==
    ASSUME PipelineInv, PipelineInv', Trail, NEW w \in Workers, NEW j \in Jobs, Claim(w, j)
    PROVE  Trail'
<1>1. Tables /\ Queue /\ Tables' /\ Queue'
  BY DEF PipelineInv
<1>2. /\ \A i \in Jobs : job'[i] = [job[i] EXCEPT !.attempts = job'[i].attempts]
      /\ \A u \in Workers : u # w => worker'[u] = worker[u]
      /\ UNCHANGED verdict
  BY <1>1, ClaimQueue
<1>3. \A i \in Jobs : job'[i].doc = job[i].doc /\ job'[i].error = job[i].error
  BY <1>1, <1>2 DEF Queue, QueueTypes, JobRows
<1>4. worker[w].outcome = None /\ worker'[w].outcome = None
  BY <1>1 DEF Claim, Trail, Outcomes, Queue, QueueTypes
<1>5. UNCHANGED <<crashes, runs, requested>>
  BY DEF Claim, tables
<1>6. Outcomes'
  BY <1>2, <1>3, <1>4 DEF Trail, Outcomes
<1>7. ASSUME NEW e \in Docs, NEW i \in Jobs
      PROVE  BrokenJob(job', worker', e, i) <=> BrokenJob(job, worker, e, i)
  <2>1. \A u \in Workers : worker'[u] = worker[u] \/
                           (worker[u].outcome = None /\ worker'[u].outcome = None)
    BY <1>2, <1>4
  <2> QED
    BY <1>3, <2>1 DEF BrokenJob, None
<1>8. ASSUME NEW e \in Docs PROVE Answered(e)'
  <2>1. Paired(e) /\ crashes + 0 = crashes'
    BY <1>1, <1>5 DEF Paired, Queue, QueueTypes
  <2> QED
    BY <1>1, <1>7, <2>1, StaysAnswered DEF Trail
<1> QED
  BY <1>6, <1>8 DEF Trail

\* The outcome of a broken dispatch becomes the error of its job.
LEMMA SettleTrail ==
    ASSUME PipelineInv, PipelineInv', Trail, NEW w \in Workers, NEW j \in Jobs, Settle(w, j)
    PROVE  Trail'
<1>1. Tables /\ Queue /\ Tables' /\ Queue'
  BY DEF PipelineInv
<1>2. /\ worker[w].pc = "dispatched" /\ worker[w].job = j
      /\ worker'[w].pc = "idle"
      /\ \A u \in Workers : u # w => worker'[u] = worker[u]
      /\ \A i \in Jobs : i # j => job'[i] = job[i] /\ verdict'[i] = verdict[i]
      /\ job'[j] = [job[j] EXCEPT !.error = worker[w].outcome]
  BY <1>1, SettleQueue
<1>3. job'[j].doc = job[j].doc /\ job'[j].error = worker[w].outcome
  BY <1>1, <1>2 DEF Queue, QueueTypes, JobRows
<1>4. holders[j] = {w} /\ verdict[j] = "open" /\ job[j].error # "Unclassified"
  BY <1>1, <1>2 DEF Queue, InHand, Trail, Outcomes
<1>5. \A u \in Workers : u # w /\ worker[u].outcome = "Unclassified" => worker[u].job # j
  BY <1>1, <1>4 DEF Queue, InHand, Trail, Outcomes, None
<1>6. worker'[w].outcome = None
  BY <1>1 DEF Settle, Idle, Queue, QueueTypes
<1>7. worker[w].outcome = "Unclassified" => verdict'[j] = "failed"
  BY <1>1 DEF Settle, Retried, IsTransient, None, Ledger!Conclude, Queue, QueueTypes
<1>8. Outcomes'
  <2>1. \A u \in Workers : worker'[u].pc # "dispatched" => worker'[u].outcome = None
    BY <1>2, <1>6 DEF Trail, Outcomes
  <2>2. \A i \in Jobs : i # j /\ job'[i].error = "Unclassified" => verdict'[i] = "failed"
    BY <1>2 DEF Trail, Outcomes
  <2> QED
    BY <1>3, <1>7, <2>1, <2>2 DEF Outcomes
<1>9. ASSUME NEW e \in Docs, NEW i \in Jobs
      PROVE  BrokenJob(job', worker', e, i) <=> BrokenJob(job, worker, e, i)
  <2>1. CASE i = j
    <3>1. BrokenJob(job, worker, e, j) <=> job[j].doc = e /\ worker[w].outcome = "Unclassified"
      BY <1>2, <1>4, <1>5 DEF BrokenJob
    <3>2. BrokenJob(job', worker', e, j) <=> job[j].doc = e /\ worker[w].outcome = "Unclassified"
      BY <1>2, <1>3, <1>5, <1>6 DEF BrokenJob, None
    <3> QED
      BY <2>1, <3>1, <3>2
  <2>2. CASE i # j
    BY <2>2, <1>2, <1>6 DEF BrokenJob, None
  <2> QED
    BY <2>1, <2>2
<1>10. UNCHANGED <<crashes, runs, requested>>
  BY DEF Settle, tables
<1>11. ASSUME NEW e \in Docs PROVE Answered(e)'
  <2>1. Paired(e) /\ crashes + 0 = crashes'
    BY <1>1, <1>10 DEF Paired, Queue, QueueTypes
  <2> QED
    BY <1>1, <1>9, <2>1, StaysAnswered DEF Trail
<1> QED
  BY <1>8, <1>11 DEF Trail

\* A loss may take one outcome with it, and is counted.
LEMMA LostTrail ==
    ASSUME PipelineInv, PipelineInv', Trail, NEW w \in Workers, NEW j \in Jobs,
           worker[w].pc # "idle", worker[w].job = j, Lost(w, j), OnlyLands(j),
           UNCHANGED tables
    PROVE  Trail'
<1>1. Tables /\ Queue /\ Tables' /\ Queue'
  BY DEF PipelineInv
<1>2. /\ UNCHANGED verdict
      /\ \A u \in Workers : u # w => worker'[u] = worker[u]
      /\ \A i \in Jobs : job'[i] = [job[i] EXCEPT !.landed = job'[i].landed]
  BY <1>1, LostQueue
<1>3. \A i \in Jobs : job'[i].doc = job[i].doc /\ job'[i].error = job[i].error
  BY <1>1, <1>2 DEF Queue, QueueTypes, JobRows
<1>4. worker'[w].outcome = None /\ crashes' = crashes + 1
  BY <1>1 DEF Lost, Idle, Queue, QueueTypes
<1>5. Outcomes'
  BY <1>2, <1>3, <1>4 DEF Trail, Outcomes
<1>6. ASSUME NEW e \in Docs, NEW i \in Jobs
      PROVE  /\ BrokenJob(job', worker', e, i) => BrokenJob(job, worker, e, i)
             /\ BrokenJob(job, worker, e, i) => BrokenJob(job', worker', e, i) \/ i = j
  BY <1>2, <1>3, <1>4 DEF BrokenJob, None
<1>7. UNCHANGED <<runs, requested>>
  BY DEF tables
<1>8. ASSUME NEW e \in Docs PROVE Answered(e)'
  <2>1. Paired(e) /\ crashes + 1 = crashes'
    BY <1>4, <1>7 DEF Paired
  <2> QED
    BY <1>1, <1>6, <2>1, StaysAnswered DEF Trail
<1> QED
  BY <1>5, <1>8 DEF Trail

LEMMA DispatchTrail ==
    ASSUME PipelineInv, PipelineInv', Trail, NEW w \in Workers, NEW j \in Jobs,
           NEW error \in Errors \cup {None}, Dispatch(w, j, error)
    PROVE  Trail'
<1>1. Tables /\ Queue /\ Tables' /\ Queue' /\ TableTypes
  BY DEF PipelineInv, Tables
<1>2. PICK d : d = job[j].doc
  OBVIOUS
<1>3. /\ worker[w].pc = "claimed" /\ worker[w].job = j
      /\ worker' = [worker EXCEPT ![w].pc = "dispatched", ![w].outcome = error]
      /\ UNCHANGED <<verdict, crashes>>
  BY DEF Dispatch, Holds
<1>4. verdict[j] = "open" /\ d \in Docs /\ holders[j] = {w}
  BY <1>1, <1>2, <1>3 DEF Queue, InHand, Queued
<1>5. /\ worker[w].outcome = None
      /\ worker'[w].pc = "dispatched" /\ worker'[w].outcome = error /\ worker'[w].job = j
      /\ \A u \in Workers : u # w => worker'[u] = worker[u]
  BY <1>1, <1>3 DEF Trail, Outcomes, Queue, QueueTypes, WorkerStates
<1>6. \A i \in Jobs : job'[i].doc = job[i].doc /\ job'[i].error = job[i].error
  BY <1>1 DEF Dispatch, Dispatched, Queue, QueueTypes, JobRows
<1>7. Outcomes'
  BY <1>3, <1>5, <1>6 DEF Trail, Outcomes
<1>8. CASE error # "Unclassified"
  <2>1. ASSUME NEW e \in Docs, NEW i \in Jobs
        PROVE  BrokenJob(job', worker', e, i) <=> BrokenJob(job, worker, e, i)
    BY <1>5, <1>6, <1>8 DEF BrokenJob, None
  <2>2. \A e \in Docs : Paired(e)
    <3>1. CASE Extracts(d, error)
      BY <1>1, <1>4, <3>1, ExtractsPaired
    <3>2. CASE Writes(d, error)
      BY <3>2 DEF Writes, Paired
    <3> QED
      BY <1>2, <1>8, <3>1, <3>2 DEF Dispatch, Dispatched
  <2>3. crashes + 0 = crashes'
    BY <1>1, <1>3 DEF Queue, QueueTypes
  <2>4. \A e \in Docs : Answered(e)'
    BY <1>1, <2>1, <2>2, <2>3, StaysAnswered DEF Trail
  <2> QED
    BY <1>7, <2>4 DEF Trail
<1>9. CASE error = "Unclassified"
  <2>1. Breaks(d)
    BY <1>2, <1>9, ErrorNames DEF Dispatch, Dispatched, Extracts, Writes, None
  <2>2. /\ requested'[d] = requested[d] + 1
        /\ Len(runs'[d]) = Len(runs[d]) \/ Len(runs'[d]) = Len(runs[d]) + 1
        /\ \A e \in Docs : e # d => Paired(e)
    <3>1. CASE Requests(d) /\ UNCHANGED runs
      BY <1>1, <1>4, <3>1 DEF Requests, TableTypes, Paired
    <3>2. CASE \E hash \in Hashes : Runs(d, hash, "extracted")
      <4>1. \A e \in Docs : Paired(e)
        BY <1>1, <1>4, <3>2, RunsPaired DEF Payloads
      <4>2. requested'[d] = requested[d] + 1
        BY <1>1, <1>4, <3>2 DEF Runs, Requests, TableTypes
      <4>3. requested[d] \in Nat
        BY <1>1, <1>4 DEF TableTypes
      <4> QED
        BY <1>4, <4>1, <4>2, <4>3 DEF Paired
    <3> QED
      BY <2>1, <3>1, <3>2 DEF Breaks
  <2>3. job[j].error # "Unclassified"
    BY <1>4 DEF Trail, Outcomes
  <2>4. \A u \in Workers : u # w /\ worker[u].outcome = "Unclassified" => worker[u].job # j
    BY <1>1, <1>4 DEF Queue, InHand, Trail, Outcomes, None
  <2>5. ~BrokenJob(job, worker, d, j) /\ BrokenJob(job', worker', d, j)
    BY <1>2, <1>5, <1>6, <1>9, <2>3, <2>4 DEF BrokenJob, None
  <2>6. ASSUME NEW e \in Docs, NEW i \in Jobs, i # j \/ e # d
        PROVE  BrokenJob(job', worker', e, i) <=> BrokenJob(job, worker, e, i)
    <3>1. CASE i # j
      BY <3>1, <1>3, <1>5, <1>6 DEF BrokenJob
    <3>2. CASE i = j /\ e # d
      BY <3>2, <1>2, <1>6 DEF BrokenJob
    <3> QED
      BY <2>6, <3>1, <3>2
  <2>7. Answered(d)'
    BY <1>1, <1>3, <1>4, <2>2, <2>5, <2>6, BreaksAnswered DEF Trail
  <2>8. ASSUME NEW e \in Docs, e # d PROVE Answered(e)'
    <3>1. Paired(e) /\ crashes + 0 = crashes'
      BY <1>1, <1>3, <2>2, <2>8 DEF Queue, QueueTypes
    <3>2. \A i \in Jobs : BrokenJob(job', worker', e, i) <=> BrokenJob(job, worker, e, i)
      BY <2>6, <2>8
    <3> QED
      BY <1>1, <3>1, <3>2, StaysAnswered DEF Trail
  <2> QED
    BY <1>7, <2>7, <2>8 DEF Trail
<1> QED
  BY <1>8, <1>9

LEMMA TrailStep == PipelineInv /\ Trail /\ [Next]_vars => Trail'
<1> SUFFICES ASSUME PipelineInv, Trail, [Next]_vars PROVE Trail'
  OBVIOUS
<1>1. PipelineInv'
  BY PipelineStep
<1>2. Tables /\ Queue /\ Tables' /\ Queue'
  BY <1>1 DEF PipelineInv
<1>3. CASE UNCHANGED vars
  <2>1. UNCHANGED <<verdict, job, worker, crashes, runs, requested>>
    BY <1>3 DEF vars, queue, tables
  <2>2. crashes + 0 = crashes' /\ \A d \in Docs : Paired(d)
    BY <1>2, <2>1 DEF Paired, Queue, QueueTypes
  <2> QED
    BY <1>2, <2>1, <2>2, TrailForward
<1>4. ASSUME NEW d \in Docs, NEW j \in Jobs, NEW type \in {"extract", "write"},
             Enqueue(j, type, d)
      PROVE  Trail'
  BY <1>1, <1>4, EnqueueTrail
<1>5. ASSUME NEW w \in Workers, NEW j \in Jobs,
             Claim(w, j) \/ Work(w, j) \/ Lose(w, j) \/ LoseInWrite(w, j)
      PROVE  Trail'
  <2>1. CASE Claim(w, j)
    BY <1>1, <2>1, ClaimTrail
  <2>2. CASE Settle(w, j)
    BY <1>1, <2>2, SettleTrail
  <2>3. CASE \E error \in Errors \cup {None} : Dispatch(w, j, error)
    BY <1>1, <2>3, DispatchTrail
  <2>4. CASE Lose(w, j)
    <3>1. /\ worker[w].pc # "idle" /\ worker[w].job = j /\ Lost(w, j)
          /\ OnlyLands(j) /\ UNCHANGED tables
      BY <2>4 DEF Lose, OnlyLands
    <3> QED
      BY <1>1, <3>1, LostTrail
  <2>5. CASE LoseInWrite(w, j)
    <3>1. PICK d : d = job[j].doc
      OBVIOUS
    <3>2. /\ worker[w].pc # "idle" /\ worker[w].job = j /\ Lost(w, j)
          /\ Calls(d) /\ UNCHANGED tables
          /\ job' = [job EXCEPT ![j].landed = [hash |-> doc[d].hash, at |-> Len(runs[d])]]
      BY <2>5, <3>1 DEF LoseInWrite, Holds, Landed
    <3>3. d \in Docs
      BY <1>2, <3>1, <3>2 DEF Queue, InHand, Queued
    <3>4. doc[d].hash \in Payloads /\ Len(runs[d]) \in 0 .. MaxRuns
      BY <1>2, <3>3, LenProperties, PipelineAssumption DEF Tables, TableTypes
    <3>5. OnlyLands(j)
      BY <3>2, <3>4 DEF OnlyLands
    <3> QED
      BY <1>1, <3>2, <3>5, LostTrail
  <2> QED
    BY <1>5, <2>1, <2>2, <2>3, <2>4, <2>5 DEF Work
<1>6. ASSUME NEW d \in Docs,
             \/ Receive(d) \/ ExtractNow(d) \/ ApproveNow(d) \/ Expire(d) \/ WriteNowLost(d)
             \/ \E form \in Hashes : ApproveOnScreen(d, form)
             \/ \E route \in {"api", "screen"} : WriteNow(d, route)
      PROVE  Trail'
  BY <1>1, <1>6, RequestTrail
<1> QED
  BY <1>3, <1>4, <1>5, <1>6 DEF Next

LEMMA TrailStart == Init => Trail
<1> SUFFICES ASSUME Init PROVE Trail
  OBVIOUS
<1>1. /\ verdict = [j \in Jobs |-> "absent"] /\ job = [j \in Jobs |-> NoJob]
      /\ worker = [w \in Workers |-> Idle]
      /\ runs = [d \in Docs |-> << >>] /\ requested = [d \in Docs |-> 0] /\ crashes = 0
  BY DEF Init, Ledger!Init
<1>2. Outcomes
  BY <1>1 DEF Outcomes, Idle, NoJob, None
<1>3. ASSUME NEW d \in Docs PROVE Answered(d)
  <2>1. BrokenIn(job, worker, d) = {}
    BY <1>1 DEF BrokenIn, BrokenJob, Idle, NoJob, None
  <2>2. Len(runs[d]) = 0 /\ requested[d] = 0
    BY <1>1, EmptySeq
  <2>3. IsFiniteSet(BrokenIn(job, worker, d)) /\ Cardinality(BrokenIn(job, worker, d)) = 0
    BY <2>1, FS_EmptySet
  <2> QED
    BY <1>1, <2>2, <2>3 DEF Answered
<1> QED
  BY <1>2, <1>3 DEF Trail

\* Every request for an extraction that is on record is answered there, or by
\* a job that broke or a worker that was lost: a request and its answer are of
\* one transaction, and the API rolls both back when it breaks
\* (extract_document, get_session, Worker._dispatch).
THEOREM RequestsGetAnswers == Spec => []RequestsAreAnswered
<1>1. Init => PipelineInv /\ Trail
  BY PipelineStart, TrailStart
<1>2. PipelineInv /\ Trail /\ [Next]_vars => (PipelineInv /\ Trail)'
  BY PipelineStep, TrailStep
<1>3. PipelineInv /\ Trail => RequestsAreAnswered
  <2> SUFFICES ASSUME PipelineInv, Trail PROVE RequestsAreAnswered
    OBVIOUS
  <2>1. \A d \in Docs : Broken(d) = BrokenIn(job, worker, d)
    BY BrokenJobs DEF PipelineInv, Trail
  <2> QED
    BY <2>1 DEF RequestsAreAnswered, Trail, Answered
<1> QED
  BY <1>1, <1>2, <1>3, PTL DEF Spec
=============================================================================
