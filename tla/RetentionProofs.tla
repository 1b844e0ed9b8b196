--------------------------- MODULE RetentionProofs ---------------------------
(***************************************************************************)
(* Theorems about Retention, for every number of sealings and blobs and    *)
(* every bound: a local receipt means a whole copy, and a check each epoch *)
(* means a second copy in time.                                            *)
(***************************************************************************)
EXTENDS Retention, TLAPS

Whole(p) == [of |-> p, whole |-> TRUE]

-----------------------------------------------------------------------------
(* The inductive invariant.                                                *)

Steps == {"none", "sealing", "sealed", "stored", "put", "copying", "verify"}

Outcomes == {"none", "returned", "raised", "refused"}

Calls ==
    [step : Steps, path : Paths \cup {NULL}, blob : Blobs \cup {NULL},
     asOf : Nat, outcome : Outcomes]

RetentionTypes ==
    /\ epoch \in Nat
    /\ target \in Files \cup {NULL}
    /\ blob \in [Blobs -> BlobRows \cup {NULL}]
    /\ receipts \subseteq [blob : Blobs, of : Paths, end : Nat]
    /\ locals \subseteq Paths
    /\ call \in Calls
    /\ checked \in [Blobs -> Nat \cup {-1}]

\* A call that has a path and a blob has a blob of that sealing, and one that
\* copies is at the file it made.
CallSound ==
    /\ call.step # "none" => call.path \in Paths
    /\ call.step = "stored" => call.blob # NULL
    /\ call.blob # NULL => blob[call.blob] # NULL /\ blob[call.blob].of = call.path
    /\ call.step = "copying" => target = [of |-> call.path, whole |-> FALSE]

ReceiptsSound ==
    \A r \in receipts : blob[r.blob] # NULL /\ blob[r.blob].of = r.of

\* What a check that returned saw to: the blob lasts, or the copy is there.
ChecksSound ==
    \A b \in Blobs :
        checked[b] # -1 =>
            /\ blob[b] # NULL
            /\ blob[b].end > checked[b] + 2 \/ target = Whole(blob[b].of)

RetentionInv ==
    /\ RetentionTypes
    /\ CallSound
    /\ ReceiptsSound
    /\ ChecksSound
    /\ LocalReceiptMeansCopy

-----------------------------------------------------------------------------
(* Steps that leave the blobs and what the process knows as they were.     *)

LEMMA StartsTypes ==
  ASSUME RetentionTypes, NEW step \in Steps, NEW p \in Paths,
         NEW b \in Blobs \cup {NULL}, Starts(step, p, b)
  PROVE  /\ call' \in Calls
         /\ call'.step = step /\ call'.path = p /\ call'.blob = b
  BY DEF RetentionTypes, Calls, Starts, Outcomes

LEMMA GoesTypes ==
  ASSUME RetentionTypes, NEW step \in Steps, Goes(step)
  PROVE  /\ call' \in Calls
         /\ call'.step = step
         /\ call'.path = call.path /\ call'.blob = call.blob
  BY DEF RetentionTypes, Calls, Goes

LEMMA EndsTypes ==
  ASSUME RetentionTypes, NEW outcome \in Outcomes, Ends(outcome)
  PROVE  call' \in Calls /\ call'.step = "none" /\ call'.blob = NULL
  BY DEF RetentionTypes, Calls, Ends, Steps

\* A call that begins, goes on or ends and touches nothing else.
LEMMA CallMoved ==
  ASSUME RetentionInv, call' \in Calls,
         call'.step # "none" => call'.path \in Paths,
         call'.step \notin {"stored", "copying"},
         call'.blob # NULL =>
            blob[call'.blob] # NULL /\ blob[call'.blob].of = call'.path,
         UNCHANGED <<epoch, target, blob, receipts, locals, checked>>
  PROVE  RetentionInv'
  <1>1. RetentionTypes'
    BY DEF RetentionInv, RetentionTypes
  <1>2. CallSound'
    BY DEF CallSound
  <1>3. ReceiptsSound' /\ ChecksSound' /\ LocalReceiptMeansCopy'
    BY DEF RetentionInv, ReceiptsSound, ChecksSound, LocalReceiptMeansCopy
  <1>4. QED
    BY <1>1, <1>2, <1>3 DEF RetentionInv

-----------------------------------------------------------------------------
(* The steps.                                                              *)

LEMMA InitInv == Init => RetentionInv
  <1> SUFFICES ASSUME Init PROVE RetentionInv
    OBVIOUS
  <1>1. RetentionTypes
    BY DEF Init, RetentionTypes, Calls, Steps, Outcomes
  <1>2. CallSound
    BY DEF Init, CallSound
  <1>3. \A b \in Blobs : checked[b] = -1
    BY DEF Init
  <1>4. QED
    BY <1>1, <1>2, <1>3 DEF Init, RetentionInv, ReceiptsSound, ChecksSound,
       LocalReceiptMeansCopy

LEMMA StorePutInv ==
  ASSUME RetentionInv, NEW p \in Paths, NEW b \in Blobs, NEW term \in Nat,
         StorePut(p, b, term)
  PROVE  RetentionInv'
  <1>1. PICK certified \in BOOLEAN :
          blob' = [blob EXCEPT ![b] =
                     [of |-> p, end |-> epoch + term, certified |-> certified]]
    BY DEF StorePut
  <1> DEFINE row == [of |-> p, end |-> epoch + term, certified |-> certified]
  <1>2. row \in BlobRows /\ row # NULL /\ row.of = p
    BY NoRowAssumption DEF BlobRows, RetentionInv, RetentionTypes
  <1>3. /\ blob[b] = NULL
        /\ blob' \in [Blobs -> BlobRows \cup {NULL}]
        /\ blob'[b] = row
        /\ \A c \in Blobs : c # b => blob'[c] = blob[c]
    BY <1>1, <1>2 DEF StorePut, RetentionInv, RetentionTypes
  <1>4. /\ call' \in Calls
        /\ call'.step = "stored" /\ call'.path = p /\ call'.blob = b
    BY StartsTypes DEF StorePut, RetentionInv, Steps, Outcomes
  <1>5. b # NULL
    BY RetentionAssumption
  <1>6. RetentionTypes'
    BY <1>3, <1>4 DEF StorePut, RetentionInv, RetentionTypes
  <1>7. CallSound'
    BY <1>2, <1>3, <1>4, <1>5 DEF CallSound
  <1>8. ReceiptsSound'
    BY <1>3 DEF StorePut, RetentionInv, RetentionTypes, ReceiptsSound
  <1>9. ChecksSound'
    BY <1>3 DEF StorePut, RetentionInv, ChecksSound
  <1>10. LocalReceiptMeansCopy'
    BY DEF StorePut, RetentionInv, LocalReceiptMeansCopy
  <1>11. QED
    BY <1>6, <1>7, <1>8, <1>9, <1>10 DEF RetentionInv

LEMMA StoreVerifyInv ==
  ASSUME RetentionInv, StoreVerify
  PROVE  RetentionInv'
  <1>1. /\ call' \in Calls /\ call'.step = "none" /\ call'.blob = NULL
        /\ UNCHANGED <<epoch, target, blob, locals, checked>>
    BY EndsTypes DEF StoreVerify, RetentionInv, Steps, Outcomes
  <1>2. /\ call.path \in Paths /\ call.blob \in Blobs
        /\ blob[call.blob] \in BlobRows /\ blob[call.blob] # NULL
        /\ blob[call.blob].of = call.path
    BY DEF StoreVerify, At, RetentionInv, RetentionTypes, CallSound, Calls
  <1>3. receipts' \subseteq receipts \cup
           {[blob |-> call.blob, of |-> call.path, end |-> blob[call.blob].end]}
    BY DEF StoreVerify
  <1>4. RetentionTypes'
    <2>1. blob[call.blob].end \in Nat
      BY <1>2 DEF BlobRows
    <2>2. receipts' \subseteq [blob : Blobs, of : Paths, end : Nat]
      BY <1>2, <1>3, <2>1 DEF RetentionInv, RetentionTypes
    <2>3. QED
      BY <1>1, <2>2 DEF RetentionInv, RetentionTypes
  <1>5. CallSound'
    BY <1>1 DEF CallSound
  <1>6. ReceiptsSound'
    BY <1>1, <1>2, <1>3 DEF RetentionInv, ReceiptsSound
  <1>7. ChecksSound' /\ LocalReceiptMeansCopy'
    BY <1>1 DEF RetentionInv, ChecksSound, LocalReceiptMeansCopy
  <1>8. QED
    BY <1>4, <1>5, <1>6, <1>7 DEF RetentionInv

LEMMA WalrusInv ==
  ASSUME RetentionInv, WalrusStep
  PROVE  RetentionInv'
  <1>1. /\ UNCHANGED <<target, receipts, locals, call, checked>>
        /\ epoch' \in Nat
    BY DEF WalrusStep, RetentionInv, RetentionTypes
  <1>2. /\ blob' \in [Blobs -> BlobRows \cup {NULL}]
        /\ \A c \in Blobs :
              blob[c] # NULL => /\ blob'[c] # NULL
                                /\ blob'[c].of = blob[c].of
                                /\ blob'[c].end >= blob[c].end
    <2>1. ASSUME NEW c \in Blobs, blob[c] # NULL
          PROVE  blob[c] \in BlobRows /\ blob[c].end \in Nat
                 /\ blob[c].end >= blob[c].end
      BY <2>1 DEF RetentionInv, RetentionTypes, BlobRows
    <2>2. CASE UNCHANGED blob
      BY <2>1, <2>2 DEF RetentionInv, RetentionTypes
    <2>3. ASSUME NEW b \in Blobs, blob[b] # NULL,
                 \/ blob' = [blob EXCEPT ![b].certified = FALSE]
                 \/ blob' = [blob EXCEPT ![b].end = @ + 1]
          PROVE  /\ blob' \in [Blobs -> BlobRows \cup {NULL}]
                 /\ blob'[b] \in BlobRows
                 /\ blob'[b].of = blob[b].of
                 /\ blob'[b].end >= blob[b].end
                 /\ \A c \in Blobs : c # b => blob'[c] = blob[c]
      <3>1. /\ blob[b] \in BlobRows /\ blob[b].end \in Nat
            /\ blob \in [Blobs -> BlobRows \cup {NULL}]
        BY <2>1, <2>3 DEF RetentionInv, RetentionTypes
      <3>2. CASE blob' = [blob EXCEPT ![b].certified = FALSE]
        <4> DEFINE row == [blob[b] EXCEPT !.certified = FALSE]
        <4>1. row \in BlobRows /\ row.of = blob[b].of /\ row.end = blob[b].end
          BY <3>1 DEF BlobRows
        <4>2. blob' = [blob EXCEPT ![b] = row]
          BY <3>2
        <4> HIDE DEF row
        <4>3. QED
          BY <3>1, <4>1, <4>2
      <3>3. CASE blob' = [blob EXCEPT ![b].end = @ + 1]
        <4> DEFINE row == [blob[b] EXCEPT !.end = @ + 1]
        <4>1. row \in BlobRows /\ row.of = blob[b].of /\ row.end = blob[b].end + 1
          BY <3>1 DEF BlobRows
        <4>2. blob' = [blob EXCEPT ![b] = row]
          BY <3>3
        <4> HIDE DEF row
        <4>3. QED
          BY <3>1, <4>1, <4>2
      <3>4. QED
        BY <2>3, <3>2, <3>3
    <2>4. CASE ~ UNCHANGED blob
      <3>1. PICK b \in Blobs :
              /\ blob[b] # NULL
              /\ \/ blob' = [blob EXCEPT ![b].certified = FALSE]
                 \/ blob' = [blob EXCEPT ![b].end = @ + 1]
        BY <2>4 DEF WalrusStep
      <3>2. QED
        BY <2>1, <2>3, <3>1, NoRowAssumption
    <2>5. QED
      BY <2>2, <2>4
  <1>3. RetentionTypes'
    BY <1>1, <1>2 DEF RetentionInv, RetentionTypes
  <1>4. CallSound'
    BY <1>1, <1>2 DEF RetentionInv, RetentionTypes, Calls, CallSound
  <1>5. ReceiptsSound'
    BY <1>1, <1>2 DEF RetentionInv, RetentionTypes, ReceiptsSound
  <1>6. ChecksSound'
    <2> SUFFICES ASSUME NEW b \in Blobs, checked[b] # -1
                 PROVE  /\ blob'[b] # NULL
                        /\ \/ blob'[b].end > checked[b] + 2
                           \/ target = Whole(blob'[b].of)
      BY <1>1 DEF ChecksSound, Whole
    <2>1. /\ blob[b] # NULL
          /\ blob[b].end > checked[b] + 2 \/ target = Whole(blob[b].of)
      BY DEF RetentionInv, ChecksSound
    <2>2. /\ blob[b].end \in Nat /\ checked[b] \in Nat
          /\ blob'[b] # NULL /\ blob'[b].of = blob[b].of
          /\ blob'[b].end \in Nat /\ blob'[b].end >= blob[b].end
      BY <1>2, <2>1 DEF RetentionInv, RetentionTypes, BlobRows
    <2>3. QED
      BY <2>1, <2>2
  <1>7. LocalReceiptMeansCopy'
    BY <1>1 DEF RetentionInv, LocalReceiptMeansCopy
  <1>8. QED
    BY <1>3, <1>4, <1>5, <1>6, <1>7 DEF RetentionInv

\* A file appears only where there was none, and is then written only until
\* it is whole, so nothing vouched for stands in its way.
LEMMA NothingVouched ==
  ASSUME RetentionInv, target = NULL \/ \E p \in Paths : target = [of |-> p, whole |-> FALSE]
  PROVE  /\ locals = {}
         /\ \A p \in Paths : target # Whole(p)
  <1>1. ASSUME NEW p \in Paths PROVE target # Whole(p)
    <2>1. CASE target = NULL
      <3>1. Whole(p) \in Files
        BY DEF Whole, Files
      <3>2. QED
        BY <2>1, <3>1, NoRowAssumption
    <2>2. CASE \E q \in Paths : target = [of |-> q, whole |-> FALSE]
      BY <2>2 DEF Whole
    <2>3. QED
      BY <2>1, <2>2
  <1>2. QED
    BY <1>1 DEF RetentionInv, RetentionTypes, LocalReceiptMeansCopy, Whole

LEMMA TargetInv ==
  ASSUME RetentionInv,
         target = NULL \/ \E p \in Paths : target = [of |-> p, whole |-> FALSE],
         target' \in Files, call' \in Calls,
         call'.path = call.path, call'.blob = call.blob, call.path \in Paths,
         call'.step # "stored",
         call'.step = "copying" => target' = [of |-> call.path, whole |-> FALSE],
         UNCHANGED <<epoch, blob, receipts, locals, checked>>
  PROVE  RetentionInv'
  <1>1. locals = {} /\ \A p \in Paths : target # Whole(p)
    BY NothingVouched
  <1>2. RetentionTypes'
    BY DEF RetentionInv, RetentionTypes
  <1>3. CallSound'
    BY DEF RetentionInv, CallSound
  <1>4. ReceiptsSound' /\ LocalReceiptMeansCopy'
    BY <1>1 DEF RetentionInv, ReceiptsSound, LocalReceiptMeansCopy
  <1>5. ChecksSound'
    <2>1. \A b \in Blobs : blob[b] # NULL => blob[b].of \in Paths
      BY DEF RetentionInv, RetentionTypes, BlobRows
    <2>2. QED
      BY <1>1, <2>1 DEF RetentionInv, ChecksSound
  <1>6. QED
    BY <1>2, <1>3, <1>4, <1>5 DEF RetentionInv

LEMMA PutStartInv ==
  ASSUME RetentionInv, PutStart
  PROVE  RetentionInv'
  <1>1. call.path \in Paths
    BY DEF PutStart, At, RetentionInv, CallSound
  <1>2. CASE Ends("raised") /\ UNCHANGED target
    <2>1. call' \in Calls /\ call'.step = "none" /\ call'.blob = NULL
      BY <1>2, EndsTypes DEF RetentionInv, Steps, Outcomes
    <2>2. QED
      BY <1>2, <2>1, CallMoved DEF PutStart
  <1>3. CASE /\ target = NULL
             /\ Goes("copying")
             /\ target' = [of |-> call.path, whole |-> FALSE]
    <2>1. /\ call' \in Calls /\ call'.step = "copying"
          /\ call'.path = call.path /\ call'.blob = call.blob
      BY <1>3, GoesTypes DEF RetentionInv, Steps, Outcomes
    <2>2. target' \in Files
      BY <1>1, <1>3 DEF Files
    <2>3. QED
      BY <1>1, <1>3, <2>1, <2>2, TargetInv DEF PutStart
  <1>4. CASE Goes("verify") /\ UNCHANGED target
    <2>1. /\ call' \in Calls /\ call'.step = "verify"
          /\ call'.path = call.path /\ call'.blob = call.blob
      BY <1>4, GoesTypes DEF RetentionInv, Steps, Outcomes
    <2>2. call.blob # NULL =>
             blob[call.blob] # NULL /\ blob[call.blob].of = call.path
      BY DEF RetentionInv, CallSound
    <2>3. QED
      BY <1>1, <1>4, <2>1, <2>2, CallMoved DEF PutStart
  <1>5. QED
    BY <1>2, <1>3, <1>4 DEF PutStart

LEMMA CopyDoneInv ==
  ASSUME RetentionInv, CopyDone
  PROVE  RetentionInv'
  <1>1. /\ call.path \in Paths
        /\ target = [of |-> call.path, whole |-> FALSE]
    BY DEF CopyDone, At, RetentionInv, CallSound
  <1>2. target' = [of |-> call.path, whole |-> TRUE] /\ target' \in Files
    BY <1>1 DEF CopyDone, Files
  <1>3. /\ call' \in Calls /\ call'.step = "verify"
        /\ call'.path = call.path /\ call'.blob = call.blob
    BY GoesTypes DEF CopyDone, RetentionInv, Steps, Outcomes
  <1>4. QED
    BY <1>1, <1>2, <1>3, TargetInv DEF CopyDone

LEMMA PutVerifyInv ==
  ASSUME RetentionInv, PutVerify
  PROVE  RetentionInv'
  <1>1. /\ call.path \in Paths
        /\ call \in Calls
        /\ call.blob # NULL =>
              blob[call.blob] # NULL /\ blob[call.blob].of = call.path
    BY DEF PutVerify, At, RetentionInv, RetentionTypes, CallSound
  <1>2. CASE /\ TargetMatches(call.path)
             /\ locals' = locals \cup {call.path}
             /\ checked' = CheckReturns
             /\ Ends("returned")
    <2>1. call' \in Calls /\ call'.step = "none" /\ call'.blob = NULL
      BY <1>2, EndsTypes DEF RetentionInv, Steps, Outcomes
    <2>2. UNCHANGED <<epoch, target, blob, receipts>> /\ target = Whole(call.path)
      BY <1>2 DEF PutVerify, TargetMatches, Whole
    <2>3. checked' \in [Blobs -> Nat \cup {-1}]
      BY <1>1, <1>2 DEF CheckReturns, Calls, RetentionInv, RetentionTypes
    <2>4. RetentionTypes'
      BY <1>1, <1>2, <2>1, <2>2, <2>3 DEF RetentionInv, RetentionTypes
    <2>5. CallSound'
      BY <2>1 DEF CallSound
    <2>6. ReceiptsSound' /\ LocalReceiptMeansCopy'
      BY <1>2, <2>2 DEF RetentionInv, ReceiptsSound, LocalReceiptMeansCopy, Whole
    <2>7. ChecksSound'
      <3> SUFFICES ASSUME NEW b \in Blobs, checked'[b] # -1
                   PROVE  /\ blob[b] # NULL
                          /\ \/ blob[b].end > checked'[b] + 2
                             \/ target = Whole(blob[b].of)
        BY <2>2 DEF ChecksSound, Whole
      <3>1. CASE checked'[b] = checked[b]
        BY <3>1 DEF RetentionInv, ChecksSound
      <3>2. CASE checked'[b] # checked[b]
        <4>1. call.blob # NULL /\ b = call.blob
          BY <1>2, <3>2 DEF CheckReturns, RetentionInv, RetentionTypes
        <4>2. QED
          BY <1>1, <2>2, <4>1
      <3>3. QED
        BY <3>1, <3>2
    <2>8. QED
      BY <2>4, <2>5, <2>6, <2>7 DEF RetentionInv
  <1>3. CASE /\ Ends(IF call.blob = NULL THEN "raised" ELSE "refused")
             /\ UNCHANGED <<locals, checked>>
    <2>1. call' \in Calls /\ call'.step = "none" /\ call'.blob = NULL
      BY <1>3, EndsTypes DEF RetentionInv, Steps, Outcomes
    <2>2. QED
      BY <1>3, <2>1, CallMoved DEF PutVerify
  <1>4. QED
    BY <1>2, <1>3 DEF PutVerify

LEMMA CheckInv ==
  ASSUME RetentionInv, NEW r \in receipts, Check(r)
  PROVE  RetentionInv'
  <1>1. /\ r.blob \in Blobs /\ r.of \in Paths
        /\ blob[r.blob] # NULL /\ blob[r.blob].of = r.of
    BY DEF RetentionInv, RetentionTypes, ReceiptsSound
  <1>2. UNCHANGED <<epoch, target, blob, receipts, locals>>
    BY DEF Check
  <1>3. CASE /\ Available(r.blob)
             /\ checked' = [checked EXCEPT ![r.blob] = epoch]
             /\ Ends("returned")
    <2>1. call' \in Calls /\ call'.step = "none" /\ call'.blob = NULL
      BY <1>3, EndsTypes DEF RetentionInv, Steps, Outcomes
    <2>2. blob[r.blob].end > epoch + 2
      <3>1. blob[r.blob].end \in Nat /\ epoch \in Nat
        BY <1>1 DEF RetentionInv, RetentionTypes, BlobRows
      <3>2. QED
        BY <1>3, <3>1 DEF Available, RenewalRequired
    <2>3. /\ checked' \in [Blobs -> Nat \cup {-1}]
          /\ checked'[r.blob] = epoch
          /\ \A b \in Blobs : b # r.blob => checked'[b] = checked[b]
      BY <1>1, <1>3 DEF RetentionInv, RetentionTypes
    <2>4. RetentionTypes'
      BY <1>2, <2>1, <2>3 DEF RetentionInv, RetentionTypes
    <2>5. CallSound'
      BY <2>1 DEF CallSound
    <2>6. ReceiptsSound' /\ LocalReceiptMeansCopy'
      BY <1>2 DEF RetentionInv, ReceiptsSound, LocalReceiptMeansCopy
    <2>7. ChecksSound'
      BY <1>1, <1>2, <2>2, <2>3 DEF RetentionInv, ChecksSound, Whole
    <2>8. QED
      BY <2>4, <2>5, <2>6, <2>7 DEF RetentionInv
  <1>4. CASE Starts("put", r.of, r.blob) /\ UNCHANGED checked
    <2>1. /\ call' \in Calls /\ call'.step = "put"
          /\ call'.path = r.of /\ call'.blob = r.blob
      BY <1>1, <1>4, StartsTypes DEF RetentionInv, Steps, Outcomes
    <2>2. QED
      BY <1>1, <1>2, <1>4, <2>1, CallMoved
  <1>5. CASE Ends("raised") /\ UNCHANGED checked
    <2>1. call' \in Calls /\ call'.step = "none" /\ call'.blob = NULL
      BY <1>5, EndsTypes DEF RetentionInv, Steps, Outcomes
    <2>2. QED
      BY <1>2, <1>5, <2>1, CallMoved
  <1>6. QED
    BY <1>3, <1>4, <1>5 DEF Check

\* Sealing, the start of a put and a crash touch the call only.
LEMMA CallOnlyInv ==
  ASSUME RetentionInv, NEW p \in Paths,
         Seal(p) \/ AgeEnds(p) \/ SignEnvelope(p) \/ Put(p) \/ Crash
  PROVE  RetentionInv'
  <1>1. UNCHANGED <<epoch, target, blob, receipts, locals, checked>>
    BY DEF Seal, AgeEnds, SignEnvelope, Put, Crash
  <1>2. CASE Starts("sealing", p, NULL) \/ Starts("put", p, NULL)
    BY <1>1, <1>2, StartsTypes, CallMoved DEF RetentionInv, Steps, Outcomes
  <1>3. CASE Goes("sealed") /\ call.path = p
    <2>1. call.blob # NULL =>
             blob[call.blob] # NULL /\ blob[call.blob].of = call.path
      BY DEF RetentionInv, CallSound
    <2>2. QED
      BY <1>1, <1>3, <2>1, GoesTypes, CallMoved DEF RetentionInv, Steps, Outcomes
  <1>4. CASE Ends("raised") \/ Ends("returned") \/ Ends("none")
    BY <1>1, <1>4, EndsTypes, CallMoved DEF RetentionInv, Steps, Outcomes
  <1>5. QED
    BY <1>2, <1>3, <1>4 DEF Seal, AgeEnds, SignEnvelope, Put, Crash

LEMMA StepInv ==
  ASSUME RetentionInv, [Next]_vars
  PROVE  RetentionInv'
  <1>1. ASSUME NEW p \in Paths, Seal(p) \/ AgeEnds(p) \/ SignEnvelope(p) \/ Put(p)
        PROVE  RetentionInv'
    BY <1>1, CallOnlyInv
  <1>2. ASSUME NEW p \in Paths, NEW b \in Blobs, NEW term \in 1 .. MaxTerm,
               StorePut(p, b, term)
        PROVE  RetentionInv'
    <2>1. term \in Nat
      BY RetentionAssumption
    <2>2. QED
      BY <1>2, <2>1, StorePutInv
  <1>3. CASE StoreVerify
    BY <1>3, StoreVerifyInv
  <1>4. ASSUME NEW r \in receipts, Check(r)
        PROVE  RetentionInv'
    BY <1>4, CheckInv
  <1>5. CASE PutStart \/ CopyDone \/ PutVerify
    BY <1>5, PutStartInv, CopyDoneInv, PutVerifyInv
  <1>6. CASE Crash
    <2>1. call.path \in Paths
      BY <1>6 DEF Crash, At, RetentionInv, CallSound
    <2>2. QED
      BY <1>6, <2>1, CallOnlyInv
  <1>7. CASE WalrusStep
    BY <1>7, WalrusInv
  <1>8. CASE UNCHANGED vars
    BY <1>8 DEF vars, RetentionInv, RetentionTypes, CallSound, ReceiptsSound,
       ChecksSound, LocalReceiptMeansCopy, Whole
  <1>9. QED
    BY <1>1, <1>2, <1>3, <1>4, <1>5, <1>6, <1>7, <1>8 DEF Next

LEMMA InvHolds == Spec => []RetentionInv
  BY InitInv, StepInv, PTL DEF Spec

LEMMA InvInTime == RetentionInv => SecondCopyInTime
  <1> SUFFICES ASSUME RetentionInv, NEW r \in receipts,
                      checked[r.blob] \in {epoch - 1, epoch} \ {-1},
                      blob[r.blob].end <= epoch + 1
               PROVE  target = Whole(r.of)
    BY DEF SecondCopyInTime, Whole
  <1>1. /\ r.blob \in Blobs /\ epoch \in Nat
        /\ blob[r.blob] # NULL /\ blob[r.blob].of = r.of
        /\ blob[r.blob].end \in Nat
    BY DEF RetentionInv, RetentionTypes, ReceiptsSound, BlobRows
  <1>2. blob[r.blob].end > checked[r.blob] + 2 \/ target = Whole(r.of)
    BY <1>1 DEF RetentionInv, ChecksSound
  <1>3. checked[r.blob] \in Nat /\ checked[r.blob] >= epoch - 1
    BY <1>1 DEF RetentionInv, RetentionTypes
  <1>4. QED
    BY <1>1, <1>2, <1>3

-----------------------------------------------------------------------------

\* A receipt of the local backend means the whole ciphertext is there, for
\* good: no later seal, put, check or crash touches it.
THEOREM LocalReceiptsHold == Spec => []LocalReceiptMeansCopy
  <1>1. RetentionInv => LocalReceiptMeansCopy
    BY DEF RetentionInv
  <1>2. QED
    BY <1>1, InvHolds, PTL

\* A check that returned in this epoch or the last means a second copy, one
\* epoch before the blob ends.
THEOREM SecondCopiesInTime == Spec => []SecondCopyInTime
  BY InvInTime, InvHolds, PTL

=============================================================================
