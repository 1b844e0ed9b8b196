----------------------------- MODULE Retention -----------------------------
(***************************************************************************)
(* One encrypted archive and its copies: seal_archive, LocalArchiveBackend,*)
(* WalrusTestnetBackend and enforce_retention_fallback of                  *)
(* src/src/city2core/archive_backend.py.                                   *)
(*                                                                         *)
(* One process calls them, one call at a time, and may die in any.  age    *)
(* makes other bytes each time, so what a file or a blob holds is the      *)
(* sealing it comes from, which is named by the path sealed to; archive_id *)
(* is the same for all.  Writing a file takes two steps, and a file half   *)
(* written is there.  Walrus is external: a blob may lose its certificate  *)
(* or be extended, and ends at its end_epoch.                              *)
(***************************************************************************)
EXTENDS Integers

CONSTANTS
    Paths,      \* files the archive is sealed to
    Blobs,      \* Walrus blob ids
    MaxEpoch,   \* bound: the last Walrus epoch
    MaxTerm,    \* bound: the epochs a store pays for
    NULL

ASSUME RetentionAssumption ==
    /\ {MaxEpoch, MaxTerm} \subseteq Nat
    /\ NULL \notin Paths \cup Blobs

VARIABLES
    epoch,      \* the Walrus epoch
    cipher,     \* what is at each path
    envelopes,  \* paths whose envelope was signed and returned
    target,     \* the local backend's file for archive_id: the path it is
                \* a copy of and whether it is whole; or NULL
    blob,       \* what Walrus holds: a sealing, its end, whether certified
    receipts,   \* Walrus receipts: a blob, a sealing, the end they state
    locals,     \* paths a local receipt was signed for
    call,       \* the call the process is in, and how the last one ended:
                \* refused, when a check found the fallback's file wrong
    checked     \* the epoch of the last retention check that returned, or -1

vars ==
    <<epoch, cipher, envelopes, target, blob, receipts, locals, call, checked>>

-----------------------------------------------------------------------------

Files == [of : Paths, whole : BOOLEAN]

BlobRows == [of : Paths, end : Nat, certified : BOOLEAN]

ASSUME NoRowAssumption == NULL \notin Files \cup BlobRows

Init ==
    /\ epoch = 0
    /\ cipher = [p \in Paths |-> "absent"]
    /\ envelopes = {}
    /\ target = NULL
    /\ blob = [b \in Blobs |-> NULL]
    /\ receipts = {}
    /\ locals = {}
    /\ call = [step |-> "none", path |-> NULL, blob |-> NULL, asOf |-> 0,
               outcome |-> "none"]
    /\ checked = [b \in Blobs |-> -1]

At(step) == call.step = step

Starts(step, p, b) ==
    call' = [step |-> step, path |-> p, blob |-> b, asOf |-> epoch,
             outcome |-> "none"]

Goes(step) == call' = [call EXCEPT !.step = step]

Ends(outcome) ==
    call' = [step |-> "none", path |-> NULL, blob |-> NULL, asOf |-> 0,
             outcome |-> outcome]

-----------------------------------------------------------------------------
(* Sealing.                                                                *)

Seal(p) ==
    /\ At("none")
    /\ cipher[p] = "absent"
    /\ cipher' = [cipher EXCEPT ![p] = "partial"]
    /\ Starts("sealing", p, NULL)
    /\ UNCHANGED <<epoch, envelopes, target, blob, receipts, locals, checked>>

\* age fails and the output is unlinked, or it is whole.
AgeEnds(p) ==
    /\ At("sealing")
    /\ call.path = p
    /\ \/ cipher' = [cipher EXCEPT ![p] = "absent"] /\ Ends("raised")
       \/ cipher' = [cipher EXCEPT ![p] = "whole"] /\ Goes("sealed")
    /\ UNCHANGED <<epoch, envelopes, target, blob, receipts, locals, checked>>

SignEnvelope(p) ==
    /\ At("sealed")
    /\ call.path = p
    /\ envelopes' = envelopes \cup {p}
    /\ Ends("returned")
    /\ UNCHANGED <<epoch, cipher, target, blob, receipts, locals, checked>>

-----------------------------------------------------------------------------
(* Walrus.                                                                 *)

\* The bytes given are checked against the envelope before they are put.
StorePut(p, b, term) ==
    /\ At("none")
    /\ p \in envelopes
    /\ cipher[p] = "whole"
    /\ blob[b] = NULL
    /\ \E certified \in BOOLEAN :
          blob' = [blob EXCEPT ![b] =
                     [of |-> p, end |-> epoch + term, certified |-> certified]]
    /\ Starts("stored", p, b)
    /\ UNCHANGED <<epoch, cipher, envelopes, target, receipts, locals, checked>>

Certified(b, asOf) == blob[b].certified /\ blob[b].end > asOf

\* The status, and the blob read back through the aggregator.
StoreVerify ==
    /\ At("stored")
    /\ \/ /\ Certified(call.blob, call.asOf)
          /\ receipts' = receipts \cup
               {[blob |-> call.blob, of |-> call.path, end |-> blob[call.blob].end]}
          /\ Ends("returned")
       \/ Ends("raised") /\ UNCHANGED receipts
    /\ UNCHANGED <<epoch, cipher, envelopes, target, blob, locals, checked>>

\* External: time passes, a certificate is lost, the operator's wallet pays
\* for another epoch.
WalrusStep ==
    /\ \/ epoch < MaxEpoch /\ epoch' = epoch + 1 /\ UNCHANGED blob
       \/ \E b \in Blobs :
             /\ blob[b] # NULL
             /\ \/ blob' = [blob EXCEPT ![b].certified = FALSE]
                \/ /\ epoch < blob[b].end
                   /\ blob[b].end < MaxEpoch + MaxTerm
                   /\ blob' = [blob EXCEPT ![b].end = @ + 1]
             /\ UNCHANGED epoch
    /\ UNCHANGED <<cipher, envelopes, target, receipts, locals, call, checked>>

-----------------------------------------------------------------------------
(* The local backend.                                                      *)

\* put, called by enforce_retention_fallback or by itself.  A file that is
\* there is not copied again.
PutStart_Overwrites ==
    /\ At("put")
    /\ IF cipher[call.path] # "whole" THEN Ends("raised") /\ UNCHANGED target
       ELSE Goes("copying") /\ target' = [of |-> call.path, whole |-> FALSE]
    /\ UNCHANGED <<epoch, cipher, envelopes, blob, receipts, locals, checked>>

PutStart ==
    /\ At("put")
    /\ IF cipher[call.path] # "whole" THEN Ends("raised") /\ UNCHANGED target
       ELSE IF target = NULL
       THEN Goes("copying") /\ target' = [of |-> call.path, whole |-> FALSE]
       ELSE Goes("verify") /\ UNCHANGED target
    /\ UNCHANGED <<epoch, cipher, envelopes, blob, receipts, locals, checked>>

CopyDone ==
    /\ At("copying")
    /\ target' = [target EXCEPT !.whole = TRUE]
    /\ Goes("verify")
    /\ UNCHANGED <<epoch, cipher, envelopes, blob, receipts, locals, checked>>

\* The hash of the file is that of the envelope.
TargetMatches(p) == target = [of |-> p, whole |-> TRUE]

\* A put that is part of a check has the check's blob.
CheckReturns ==
    IF call.blob = NULL THEN checked
    ELSE [checked EXCEPT ![call.blob] = call.asOf]

PutVerify ==
    /\ At("verify")
    /\ \/ /\ TargetMatches(call.path)
          /\ locals' = locals \cup {call.path}
          /\ checked' = CheckReturns
          /\ Ends("returned")
       \/ /\ ~TargetMatches(call.path)
          /\ Ends(IF call.blob = NULL THEN "raised" ELSE "refused")
          /\ UNCHANGED <<locals, checked>>
    /\ UNCHANGED <<epoch, cipher, envelopes, target, blob, receipts>>

Put(p) ==
    /\ At("none")
    /\ p \in envelopes
    /\ Starts("put", p, NULL)
    /\ UNCHANGED <<epoch, cipher, envelopes, target, blob, receipts, locals, checked>>

-----------------------------------------------------------------------------
(* The retention check.                                                    *)

RenewalRequired_Late(asOf, end) == end <= asOf + 1

RenewalRequired(asOf, end) == end <= asOf + 2

\* certified, not at its end, not near it.
Available(b) ==
    /\ Certified(b, epoch)
    /\ ~RenewalRequired(epoch, blob[b].end)

\* enforce_retention_fallback up to the fallback: the status says the blob
\* will do, or says it will not, or cannot be had; an error of the transport
\* that is not of the kinds listed escapes.
Check(r) ==
    /\ At("none")
    /\ r \in receipts
    /\ \/ /\ Available(r.blob)
          /\ checked' = [checked EXCEPT ![r.blob] = epoch]
          /\ Ends("returned")
       \/ ~Available(r.blob) /\ Starts("put", r.of, r.blob) /\ UNCHANGED checked
       \/ Starts("put", r.of, r.blob) /\ UNCHANGED checked
       \/ Ends("raised") /\ UNCHANGED checked
    /\ UNCHANGED <<epoch, cipher, envelopes, target, blob, receipts, locals>>

Crash ==
    /\ ~At("none")
    /\ Ends("none")
    /\ UNCHANGED <<epoch, cipher, envelopes, target, blob, receipts, locals, checked>>

Next ==
    \/ \E p \in Paths :
          \/ Seal(p) \/ AgeEnds(p) \/ SignEnvelope(p) \/ Put(p)
          \/ \E b \in Blobs, term \in 1 .. MaxTerm : StorePut(p, b, term)
    \/ StoreVerify
    \/ \E r \in receipts : Check(r)
    \/ PutStart \/ CopyDone \/ PutVerify
    \/ Crash
    \/ WalrusStep

Spec == Init /\ [][Next]_vars

-----------------------------------------------------------------------------
(* Properties.                                                             *)

\* A receipt vouches for bytes that are there: a local one for the whole file
\* of its own sealing, which stays so, since no later put, of the same sealing
\* or another, and no crash in one, touches it.
LocalReceiptMeansCopy ==
    \A p \in locals : target = [of |-> p, whole |-> TRUE]

\* COMPANY-OS-SPEC 11.5: one epoch before a blob ends there is a second copy,
\* if a check of the epoch before returned - whatever it returned.
SecondCopyInTime ==
    \A r \in receipts :
      (checked[r.blob] \in {epoch - 1, epoch} \ {-1} /\ blob[r.blob].end <= epoch + 1) =>
          target = [of |-> r.of, whole |-> TRUE]

-----------------------------------------------------------------------------
(* What the documents say and the code does not do.                        *)

\* The docstring of enforce_retention_fallback: a second verified copy is
\* guaranteed before the deadline.  A put that died half way leaves a file
\* that every later one finds, does not write again, and refuses; so does a
\* put of another sealing of the archive.
FallbackWritten == call.outcome # "refused"

=============================================================================
