----------------------------- MODULE Attachments -----------------------------
(***************************************************************************)
(* The gateways that receive attachments for one session.  Each connection *)
(* is a process with a lease of its own: it admits the lease, resolves the *)
(* account, takes uploads into the lease's directory, and at the end       *)
(* removes the directory, keeps a receipt of that, and publishes it.       *)
(***************************************************************************)
EXTENDS Naturals, FiniteSets

CONSTANTS
    Connections,         \* one for each connection
    Batches,        \* batch identities that clients use
    Sizes,          \* sizes that clients declare
    MaxAttachmentBatchBytes,
    MaxBytes,       \* what a lease allows
    MaxEntries

\* Serve refuses any other lease.
ASSUME AttachmentsAssumption ==
    /\ Sizes \subseteq Nat /\ MaxAttachmentBatchBytes \in Nat
    /\ MaxBytes \in 1 .. MaxAttachmentBatchBytes /\ MaxEntries \in Nat \ {0}

VARIABLES
    gate,       \* the step of each gateway
    asked,      \* the leases whose client asked for the cleanup
    seen,       \* batches each has acknowledged
    total,      \* and their bytes
    files,      \* what the session's directory holds, by lease and batch
    receipt,    \* the receipt in hand: {} or {status}
    kept,       \* the receipt on disk, if any
    published,  \* the receipt at the control plane, if any
    shown       \* what the client was told, if anything

avars == <<gate, asked, seen, total, files, receipt, kept, published, shown>>

AInit ==
    /\ gate = [l \in Connections |-> "new"]
    /\ asked = {}
    /\ seen = [l \in Connections |-> {}]
    /\ total = [l \in Connections |-> 0]
    /\ files = {}
    /\ receipt = [l \in Connections |-> {}]
    /\ kept = [l \in Connections |-> {}]
    /\ published = [l \in Connections |-> {}]
    /\ shown = [l \in Connections |-> {}]

To(l, step) == gate' = [gate EXCEPT ![l] = step]

\* What only the process knew.
Forget(l) ==
    /\ asked' = asked \ {l}
    /\ seen' = [seen EXCEPT ![l] = {}]
    /\ total' = [total EXCEPT ![l] = 0]
    /\ receipt' = [receipt EXCEPT ![l] = {}]

Receipts == UNCHANGED <<receipt, kept, published, shown>>

-----------------------------------------------------------------------------
(* Admission: nothing is read before the control plane grants the lease.   *)

VerifyExactAttachment(l) ==
    /\ gate[l] = "new"
    /\ To(l, "resolve") \/ To(l, "refused")
    /\ UNCHANGED <<asked, seen, total, files>> /\ Receipts

\* The one account with a directory for the session, and a lease that has not
\* expired since.
ResolveSessionAccount(l) ==
    /\ gate[l] = "resolve"
    /\ To(l, "offer") \/ To(l, "refused")
    /\ UNCHANGED <<asked, seen, total, files>> /\ Receipts

LeaseOffer(l) ==
    /\ gate[l] = "offer"
    /\ To(l, "first") \/ To(l, "refused")
    /\ UNCHANGED <<asked, seen, total, files>> /\ Receipts

-----------------------------------------------------------------------------
(* Frames.  Whatever ends the loop before the cleanup was asked for runs   *)
(* the cleanup all the same; its receipt then goes to nobody.              *)

OpenFrame(l) ==
    /\ gate[l] = "first"
    /\ To(l, "frame")
    /\ UNCHANGED <<asked, seen, total, files>> /\ Receipts

\* The bounds are what the lease has left; a lease with no bytes left bounds
\* the bytes no more.
UploadFits(l, b, size) ==
    /\ b \notin seen[l]
    /\ size \in 1 .. MaxAttachmentBatchBytes
    /\ total[l] < MaxBytes => size <= MaxBytes - total[l]
    /\ Cardinality(seen[l]) < MaxEntries

UploadFrame(l, b, size) ==
    /\ gate[l] = "frame" /\ UploadFits(l, b, size)
    /\ To(l, "body")
    /\ files' = files \cup {[lease |-> l, batch |-> b, size |-> size]}
    /\ UNCHANGED <<asked, seen, total>> /\ Receipts

\* The directories on the way are private, and none is a link.
PrivateTree(l, f) == f.lease = l /\ f.batch \notin seen[l]

\* The body arrived whole and has the checksum that was declared.
ReceiveUpload(l, f) ==
    /\ gate[l] = "body" /\ f \in files /\ PrivateTree(l, f)
    /\ seen' = [seen EXCEPT ![l] = @ \cup {f.batch}]
    /\ total' = [total EXCEPT ![l] = @ + f.size]
    /\ To(l, "frame")
    /\ UNCHANGED <<asked, files>> /\ Receipts

\* It did not: the file is removed and the loop ends.
UploadBroken(l, f) ==
    /\ gate[l] = "body" /\ f \in files /\ PrivateTree(l, f)
    /\ files' = files \ {f}
    /\ To(l, "remove")
    /\ UNCHANGED <<asked, seen, total>> /\ Receipts

CleanupFrame(l) ==
    /\ gate[l] = "frame"
    /\ asked' = asked \cup {l}
    /\ To(l, "remove")
    /\ UNCHANGED <<seen, total, files>> /\ Receipts

\* The end of the input, a frame that is malformed or not of this lease, one
\* that exceeds the bounds, an expired lease, or a signal.
EndOfFrames(l) ==
    /\ gate[l] \in {"first", "frame"}
    /\ To(l, "remove")
    /\ UNCHANGED <<asked, seen, total, files>> /\ Receipts

-----------------------------------------------------------------------------
(* The cleanup.                                                            *)

Status(l, s) == receipt' = [receipt EXCEPT ![l] = {s}]

OfLease(l) == {f \in files : f.lease = l}

\* The tree goes, or a part of it stays.
RemoveLeaseTree(l) ==
    /\ gate[l] = "remove"
    /\ \/ files' = files \ OfLease(l) /\ Status(l, "cleaned")
       \/ \E left \in SUBSET OfLease(l) :
             files' = (files \ OfLease(l)) \cup left /\ Status(l, "pending")
    /\ To(l, "persist")
    /\ UNCHANGED <<asked, seen, total, kept, published, shown>>

Persist(l) == kept' = [kept EXCEPT ![l] = receipt[l]]

\* Mutant: a receipt that could not be kept is published as it is.
PersistIgnored(l) ==
    /\ gate[l] = "persist"
    /\ Persist(l) \/ UNCHANGED kept
    /\ To(l, "publish")
    /\ UNCHANGED <<asked, seen, total, files, receipt, published, shown>>

\* A receipt that could not be kept says no more than "pending".
PersistReceipt(l) ==
    /\ gate[l] = "persist"
    /\ \/ Persist(l) /\ UNCHANGED receipt
       \/ UNCHANGED kept /\ Status(l, "pending")
    /\ To(l, "publish")
    /\ UNCHANGED <<asked, seen, total, files, published, shown>>

Publish(l) == published' = [published EXCEPT ![l] = receipt[l]]

\* The control plane takes the receipt; the answer may be lost, or the request.
CleanupHook(l) ==
    /\ gate[l] = "publish"
    /\ \/ Publish(l) /\ To(l, "answer") /\ UNCHANGED receipt
       \/ /\ Publish(l) \/ UNCHANGED published
          /\ Status(l, "unknown")
          /\ To(l, "again")
    /\ UNCHANGED <<asked, seen, total, files, kept, shown>>

PersistUnknown(l) ==
    /\ gate[l] = "again"
    /\ Persist(l) \/ UNCHANGED kept
    /\ To(l, "answer")
    /\ UNCHANGED <<asked, seen, total, files, receipt, published, shown>>

Answer(l) ==
    /\ gate[l] = "answer"
    /\ shown' = [shown EXCEPT ![l] = IF l \in asked THEN receipt[l] ELSE {}]
    /\ To(l, "done")
    /\ Forget(l)
    /\ UNCHANGED <<files, kept, published>>

-----------------------------------------------------------------------------
\* The gateway is killed: what it left stays, and nothing says it is gone.
Killed(l) ==
    /\ gate[l] \notin {"new", "refused", "done", "killed"}
    /\ To(l, "killed")
    /\ Forget(l)
    /\ UNCHANGED <<files, kept, published, shown>>

Gateway(l) ==
    \/ VerifyExactAttachment(l) \/ ResolveSessionAccount(l) \/ LeaseOffer(l)
    \/ OpenFrame(l) \/ CleanupFrame(l) \/ EndOfFrames(l)
    \/ \E b \in Batches, size \in Sizes : UploadFrame(l, b, size)
    \/ \E f \in files : ReceiveUpload(l, f) \/ UploadBroken(l, f)
    \/ RemoveLeaseTree(l) \/ PersistReceipt(l) \/ CleanupHook(l) \/ PersistUnknown(l)
    \/ Answer(l) \/ Killed(l)

ANext == \E l \in Connections : Gateway(l)

ASpec == AInit /\ [][ANext]_avars

Uploads == [lease : Connections, batch : Batches, size : Sizes]
ReceiptOf == {{}, {"cleaned"}, {"pending"}, {"unknown"}}
Gates ==
    {"new", "resolve", "offer", "first", "frame", "body", "remove", "persist", "publish", "again",
     "answer", "done", "refused", "killed"}

ATypeOK ==
    /\ gate \in [Connections -> Gates]
    /\ asked \subseteq Connections
    /\ seen \in [Connections -> SUBSET Batches]
    /\ total \in [Connections -> Nat]
    /\ files \subseteq Uploads
    /\ receipt \in [Connections -> ReceiptOf]
    /\ kept \in [Connections -> ReceiptOf]
    /\ published \in [Connections -> ReceiptOf]
    /\ shown \in [Connections -> ReceiptOf]

-----------------------------------------------------------------------------
\* Whoever reads "cleaned" can rely on it: no receipt, on disk, at the control
\* plane or with the client, says it while a file of the lease is left, and
\* the client reads it only when both of the others have it, although removal,
\* storage and publication fail one without the other (Gateway.cleanup).  And
\* until then an attachment that was acknowledged stays where the client was
\* told, and there are no more of them than the lease allows, whatever the
\* other connections of the session do (Gateway.Serve, receiveUpload).
ReceiptTruth ==
    \A l \in Connections :
        /\ "cleaned" \in kept[l] \cup published[l] \cup shown[l] => OfLease(l) = {}
        /\ "cleaned" \in shown[l] => kept[l] = {"cleaned"} /\ published[l] = {"cleaned"}
        /\ gate[l] \in {"frame", "body"} =>
              /\ seen[l] \subseteq {f.batch : f \in OfLease(l)}
              /\ Cardinality(seen[l]) <= MaxEntries

\* What a connection has acknowledged is within the bytes its lease offer
\* announced: the gateway "rejects ... size/checksum violations" of the limits
\* in the offer (UploadFrame.Validate, called with what the lease has left).
UploadsWithinLease ==
    \A l \in Connections : gate[l] \in {"frame", "body"} => total[l] <= MaxBytes
=============================================================================
