--------------------------- MODULE ServicesProofs ---------------------------
(***************************************************************************)
(* The services of the node that share no state with one another, each for *)
(* every value of its constants.                                           *)
(***************************************************************************)
EXTENDS PortForward, TakeoverTransfer, SkillExport, Attachments, DeviceBridge, FiniteSetTheorems, TLAPS

-----------------------------------------------------------------------------
(***************************************************************************)
(* A tunnel stays within its lease and its stream limit, for every length  *)
(* of lease, grace, period and time-out and every number of streams.       *)
(*                                                                         *)
(* TunnelBounded says when a serving tunnel is, not why a renewal is never *)
(* late.  TunnelLease adds it: a renewal is waited for only up to one period  *)
(* after the deadline, and is sent at most a time-out ago.                 *)
(***************************************************************************)

TunnelLease ==
    tunnel = "serving" =>
        /\ renewal \in {"wait", "sent"}
        /\ since <= LeaseFailureDeadline + RenewPeriod
        /\ renewal = "wait" => now <= since \/ now <= LeaseFailureDeadline
        /\ renewal = "sent" => since <= now /\ now <= since + RenewTimeout

SlotInv == Cardinality(Held) <= MaxStreams

PInv == PTypeOK /\ TunnelLease /\ SlotInv

-----------------------------------------------------------------------------
\* One more of what is bounded, while it fits.
LEMMA OneMoreFits ==
    ASSUME NEW S, IsFiniteSet(S), NEW x, x \notin S, NEW limit \in Nat, Cardinality(S) < limit
    PROVE  IsFiniteSet(S \cup {x}) /\ Cardinality(S \cup {x}) <= limit
<1>1. Cardinality(S) \in Nat /\ IsFiniteSet(S \cup {x}) /\ Cardinality(S \cup {x}) = Cardinality(S) + 1
  BY FS_AddElement, FS_CardinalityType
<1>2. QED
  BY <1>1

\* The slots that are held are counted (handler.ServeHTTP's semaphore).
LEMMA HeldFinite ==
    IsFiniteSet(Held) /\ Cardinality(Held) \in Nat
<1>1. Held \subseteq Streams
  BY DEF Held
<1>2. IsFiniteSet(Held)
  BY PortForwardAssumption, <1>1, FS_Subset
<1>3. QED
  BY <1>2, FS_CardinalityType

\* A stream that holds no slot afterwards can only lower the count.
LEMMA SlotsShrink ==
    ASSUME SlotInv, Held' \subseteq Held
    PROVE  SlotInv'
<1>1. Cardinality(Held') <= Cardinality(Held) /\ Cardinality(Held') \in Nat
  BY HeldFinite, FS_Subset, FS_CardinalityType
<1>2. MaxStreams' = MaxStreams /\ MaxStreams \in Nat
  BY PortForwardAssumption DEF MaxStreams
<1>3. QED
  BY <1>1, <1>2, HeldFinite DEF SlotInv

\* Steps that leave the streams alone keep the count.
LEMMA SlotsKept ==
    ASSUME SlotInv, UNCHANGED stream
    PROVE  SlotInv'
BY SlotsShrink DEF Held

\* Steps of a stream, and of the clients, keep the lease's part.
LEMMA LeaseKept ==
    ASSUME TunnelLease, UNCHANGED <<now, tunnel, expires, renewal, since>>
    PROVE  TunnelLease'
BY Zenon DEF TunnelLease, LeaseFailureDeadline

-----------------------------------------------------------------------------
\* Types are kept by every step of the tunnel.
LEMMA TunnelTypeStep ==
    ASSUME PTypeOK, [PNext]_pvars
    PROVE  PTypeOK'
<1>. USE PortForwardAssumption DEF PTypeOK
<1>1. CASE RefuseHandshake
  BY <1>1 DEF RefuseHandshake
<1>2. CASE Serve
  BY <1>2 DEF Serve
<1>3. CASE SendRenewal
  BY <1>3 DEF SendRenewal
<1>4. CASE RenewalGranted
  BY <1>4 DEF RenewalGranted, NextTick
<1>5. CASE RenewalRefused
  BY <1>5 DEF RenewalRefused, Cancel
<1>6. CASE RenewalLost
  BY <1>6 DEF RenewalLost, Cancel, NextTick
<1>7. CASE Revoke
  BY <1>7, Zenon DEF Revoke
<1>8. CASE Disconnect
  BY <1>8 DEF Disconnect, Cancel
<1>9. CASE SnapshotCounters
  BY <1>9 DEF SnapshotCounters
<1>10. CASE ReleasePortForward
  BY <1>10 DEF ReleasePortForward
<1>11. CASE Tick
  BY <1>11 DEF Tick
<1>12. ASSUME NEW s \in Streams, BeginStream(s) \/ StreamDialled(s) \/ StreamFails(s) \/ StreamEnds(s)
       PROVE  PTypeOK'
  BY <1>12 DEF BeginStream, StreamDialled, StreamFails, StreamEnds, Move
<1>13. CASE UNCHANGED pvars
  BY <1>13 DEF pvars
<1>14. QED
  BY <1>1, <1>2, <1>3, <1>4, <1>5, <1>6, <1>7, <1>8, <1>9, <1>10, <1>11, <1>12, <1>13, Zenon DEF PNext

\* A renewal is never sent late nor left unanswered past its time-out
\* (maintainLease).
LEMMA TunnelLeaseStep ==
    ASSUME PTypeOK, TunnelLease, [PNext]_pvars
    PROVE  TunnelLease'
<1>1. CASE RefuseHandshake
  BY <1>1 DEF RefuseHandshake, TunnelLease
<1>2. CASE Serve
  BY PortForwardAssumption, <1>2 DEF Serve, TunnelLease, LeaseFailureDeadline, PTypeOK
<1>3. CASE SendRenewal
  BY PortForwardAssumption, <1>3 DEF SendRenewal, RenewalDue, TunnelLease, LeaseFailureDeadline, PTypeOK
<1>4. CASE RenewalGranted
  BY PortForwardAssumption, <1>4 DEF RenewalGranted, NextTick, TunnelLease, LeaseFailureDeadline, PTypeOK
<1>5. CASE RenewalRefused
  BY <1>5 DEF RenewalRefused, Cancel, TunnelLease
<1>6. CASE RenewalLost
  BY PortForwardAssumption, <1>6 DEF RenewalLost, Cancel, NextTick, TunnelLease, LeaseFailureDeadline, PTypeOK
<1>7. CASE Revoke
  BY <1>7, LeaseKept DEF Revoke
<1>8. CASE Disconnect
  BY <1>8 DEF Disconnect, Cancel, TunnelLease
<1>9. CASE SnapshotCounters
  BY <1>9 DEF SnapshotCounters, TunnelLease
<1>10. CASE ReleasePortForward
  BY <1>10 DEF ReleasePortForward, TunnelLease
<1>11. CASE Tick
  BY PortForwardAssumption, <1>11 DEF Tick, RenewalDue, TunnelLease, LeaseFailureDeadline, PTypeOK
<1>12. ASSUME NEW s \in Streams, BeginStream(s) \/ StreamDialled(s) \/ StreamFails(s) \/ StreamEnds(s)
       PROVE  TunnelLease'
  BY <1>12, LeaseKept DEF BeginStream, StreamDialled, StreamFails, StreamEnds
<1>13. CASE UNCHANGED pvars
  BY <1>13, LeaseKept, Zenon DEF pvars
<1>14. QED
  BY <1>1, <1>2, <1>3, <1>4, <1>5, <1>6, <1>7, <1>8, <1>9, <1>10, <1>11, <1>12, <1>13, Zenon DEF PNext

\* A slot is taken only when one is free (handler.ServeHTTP).
LEMMA SlotStep ==
    ASSUME PTypeOK, SlotInv, [PNext]_pvars
    PROVE  SlotInv'
<1>1. CASE UNCHANGED stream
  BY <1>1, SlotsKept
<1>2. ASSUME NEW s \in Streams, BeginStream(s)
      PROVE  SlotInv'
  <2>1. CASE tunnel # "serving" \/ Cardinality(Held) >= MaxStreams
    <3>1. Held' \subseteq Held
      BY <1>2, <2>1, Zenon DEF BeginStream, Move, Held, PTypeOK
    <3>2. QED
      BY <3>1, SlotsShrink
  <2>2. CASE ~(tunnel # "serving" \/ Cardinality(Held) >= MaxStreams)
    <3>1. Held' = Held \cup {s} /\ s \notin Held
      BY <1>2, <2>2 DEF BeginStream, Move, Held, PTypeOK
    <3>2. Cardinality(Held') = Cardinality(Held) + 1
      BY <3>1, HeldFinite, FS_AddElement
    <3>3. MaxStreams' = MaxStreams /\ MaxStreams \in Nat
      BY PortForwardAssumption DEF MaxStreams
    <3>4. QED
      BY <2>2, <3>2, <3>3, HeldFinite DEF SlotInv
  <2>3. QED
    BY <2>1, <2>2
<1>3. ASSUME NEW s \in Streams, StreamDialled(s) \/ StreamFails(s) \/ StreamEnds(s)
      PROVE  SlotInv'
  <2>1. Held' \subseteq Held
    BY <1>3 DEF StreamDialled, StreamFails, StreamEnds, Move, Held, PTypeOK
  <2>2. QED
    BY <2>1, SlotsShrink
<1>4. QED
  BY <1>1, <1>2, <1>3 DEF PNext, pvars, RefuseHandshake, Serve, SendRenewal, RenewalGranted,
     RenewalRefused, RenewalLost, Revoke, Disconnect, SnapshotCounters, ReleasePortForward, Tick

-----------------------------------------------------------------------------
\* Whatever renewals are lost, late or refused and however streams begin and
\* end, a serving tunnel is at most one renewal past its lease and its grace,
\* and never has more streams than the smaller limit (maintainLease,
\* handler.ServeHTTP).
THEOREM TunnelStaysBounded ==
    PSpec => []TunnelBounded
<1>1. PInit => PInv
  <2>. SUFFICES ASSUME PInit PROVE PInv
    OBVIOUS
  <2>1. PTypeOK
    BY DEF PInit, PTypeOK
  <2>2. TunnelLease
    BY DEF PInit, TunnelLease
  <2>3. Held = {}
    BY DEF PInit, Held
  <2>4. SlotInv
    BY PortForwardAssumption, <2>3, FS_EmptySet DEF SlotInv, MaxStreams
  <2>5. QED
    BY <2>1, <2>2, <2>4 DEF PInv
<1>2. PInv /\ [PNext]_pvars => PInv'
  BY TunnelTypeStep, TunnelLeaseStep, SlotStep DEF PInv
<1>3. PInv => TunnelBounded
  BY PortForwardAssumption DEF PInv, TunnelLease, SlotInv, TunnelBounded, LeaseFailureDeadline, PTypeOK
<1>4. QED
  BY <1>1, <1>2, <1>3, PTL DEF PSpec

-----------------------------------------------------------------------------
(***************************************************************************)
(* The worker's count of a lease never outlives the control plane's, and a *)
(* committed takeover is whole, for every lease, delay and set of objects. *)
(*                                                                         *)
(* LeaseCover ties the three clocks together: the deadline of the budget,  *)
(* the moment a renewal was sent, and the end of the lease.  UploadCover   *)
(* says what an upload has while the worker's copy of its identity is      *)
(* current.                                                                *)
(***************************************************************************)

LeaseCover ==
    /\ until <= clock + Duration
    /\ renew.do # "none" => renew.started <= clock
    /\ renew.do = "granted" => renew.started + Duration <= until
    /\ Running => clock <= budget.deadline /\ budget.deadline <= until

UploadCover ==
    /\ work.do \in {"read", "begin", "put"} => captured
    /\ work.do = "put" => work.upload <= server.upload
    /\ work.do = "put" /\ Current => work.sent \subseteq server.have
    /\ server.status = "committed" => captured /\ server.have = Objects

TInv == TTypeOK /\ LeaseCover /\ UploadCover

-----------------------------------------------------------------------------
\* A begun upload has an identity, and nothing of it was sent yet
\* (BeginSkillTakeover, uploadTakeoverCapture).
LEMMA Begun ==
    ASSUME TTypeOK, BeginSkillTakeover, server.status # "committed"
    PROVE  \E u \in Nat :
              /\ server' = [server EXCEPT !.status = "uploading", !.upload = u]
              /\ work' = [work EXCEPT !.do = "put", !.upload = u, !.sent = {}]
              /\ UNCHANGED <<clock, until, budget, renew, captured, recovery>>
<1>. DEFINE u == IF server.upload = 0 THEN 1 ELSE server.upload
<1>1. server.upload \in Nat
  BY DEF TTypeOK
<1>2. u \in Nat
  BY <1>1
<1>3. /\ server' = [server EXCEPT !.status = "uploading", !.upload = u]
      /\ work' = [work EXCEPT !.do = "put", !.upload = u, !.sent = {}]
      /\ UNCHANGED <<clock, until, budget, renew, captured, recovery>>
  BY Zenon DEF BeginSkillTakeover
<1>. HIDE DEF u
<1>4. QED
  BY <1>2, <1>3, Zenon

\* A begun upload keeps the types.
LEMMA BegunTypes ==
    ASSUME TTypeOK, BeginSkillTakeover, server.status # "committed"
    PROVE  TTypeOK'
<1>1. PICK u \in Nat :
          /\ server' = [server EXCEPT !.status = "uploading", !.upload = u]
          /\ work' = [work EXCEPT !.do = "put", !.upload = u, !.sent = {}]
          /\ UNCHANGED <<clock, until, budget, renew, captured, recovery>>
  BY Begun, Zenon
<1>2. server' \in [status : {"reserved", "uploading", "committed"}, upload : Nat,
                   have : SUBSET Objects, task : {"open", "done"}]
  BY <1>1, Zenon DEF TTypeOK
<1>3. work' \in [do : {"idle", "get", "authorize", "lease", "capture", "read", "begin", "put",
                       "inspect", "recovered", "failed", "report"},
                 kind : {"takeover", "recovery"}, upload : Nat, sent : SUBSET Objects]
  BY <1>1, Zenon DEF TTypeOK
<1>4. QED
  BY <1>1, <1>2, <1>3 DEF TTypeOK

\* Types are kept by every step of the task, its renewals and its upload.
LEMMA TakeoverTypeStep ==
    ASSUME TTypeOK, [TNext]_tvars
    PROVE  TTypeOK'
<1>. USE TakeoverAssumption DEF TTypeOK, NoWork, NoBudget, NoRenewal, GiveUp, Do, WorkDone
<1>1. CASE PollTask
  BY <1>1 DEF PollTask
<1>2. CASE GetSkillTakeover \/ AuthorizeRuntimeRecovery \/ Fail \/ LoseLease
  BY <1>2 DEF GetSkillTakeover, AuthorizeRuntimeRecovery, Fail, LoseLease
<1>3. CASE StartRenewal \/ RenewSkillTakeoverLease
  BY <1>3 DEF StartRenewal, RenewSkillTakeoverLease
<1>4. CASE RenewalReply
  <2>1. CASE clock < RenewTaskBudget(renew.started).deadline
    <3>1. RenewTaskBudget(renew.started) \in [deadline : Nat, due : Int]
      BY <2>1 DEF RenewTaskBudget
    <3>2. QED
      BY <1>4, <3>1 DEF RenewalReply
  <2>2. CASE ~(clock < RenewTaskBudget(renew.started).deadline)
    BY <1>4, <2>2 DEF RenewalReply
  <2>3. QED
    BY <2>1, <2>2
<1>5. CASE CaptureAccountTakeover
  BY <1>5 DEF CaptureAccountTakeover
<1>50. CASE ReadAccountCapture
  BY <1>50 DEF ReadAccountCapture
<1>6. CASE BeginSkillTakeover
  <2>1. CASE server.status = "committed"
    BY <1>6, <2>1 DEF BeginSkillTakeover
  <2>2. CASE server.status # "committed"
    BY <1>6, <2>2, BegunTypes
  <2>3. QED
    BY <2>1, <2>2
<1>7. ASSUME NEW o \in Objects, PutSkillTakeoverFile(o)
      PROVE  TTypeOK'
  BY <1>7 DEF PutSkillTakeoverFile
<1>8. CASE CompleteSkillTakeover
  BY <1>8 DEF CompleteSkillTakeover
<1>80. CASE CompleteTask
  BY <1>80 DEF CompleteTask
<1>9. CASE InspectRuntimeRecovery \/ ReportRuntimeRecovery
  BY <1>9 DEF InspectRuntimeRecovery, ReportRuntimeRecovery
<1>10. CASE ExpireUpload
  BY <1>10, Zenon DEF ExpireUpload
<1>100. CASE TickClock
  BY <1>100 DEF TickClock
<1>11. CASE UNCHANGED tvars
  BY <1>11 DEF tvars
<1>12. QED
  BY <1>1, <1>2, <1>3, <1>4, <1>5, <1>50, <1>6, <1>7, <1>8, <1>80, <1>9, <1>10, <1>100, <1>11, Zenon DEF TNext

\* The worker's count ends first (withTaskLease, maintainTaskLease,
\* renewTaskBudget).
LEMMA TakeoverLeaseStep ==
    ASSUME TTypeOK, LeaseCover, [TNext]_tvars
    PROVE  LeaseCover'
<1>. USE TakeoverAssumption DEF TTypeOK, LeaseCover, Running
<1>1. CASE PollTask
  BY <1>1 DEF PollTask, NoWork, Do
<1>2. CASE GetSkillTakeover \/ AuthorizeRuntimeRecovery
  BY <1>2 DEF GetSkillTakeover, AuthorizeRuntimeRecovery, Do
<1>3. ASSUME GiveUp, UNCHANGED <<clock, until>>
      PROVE  LeaseCover'
  BY <1>3 DEF GiveUp, NoWork, NoRenewal
<1>4. CASE Fail \/ LoseLease \/ CompleteTask \/ ReportRuntimeRecovery
  BY <1>3, <1>4 DEF Fail, LoseLease, CompleteTask, ReportRuntimeRecovery
<1>5. CASE StartRenewal \/ RenewSkillTakeoverLease
  BY <1>5 DEF StartRenewal, RenewSkillTakeoverLease
<1>6. CASE RenewalReply
  <2>1. CASE UNCHANGED budget
    BY <1>3, <1>6, <2>1 DEF RenewalReply, GiveUp, NoWork, NoRenewal, RenewTaskBudget, Do
  <2>2. CASE budget' = RenewTaskBudget(renew.started) /\ clock < RenewTaskBudget(renew.started).deadline
    BY <1>3, <1>6, <2>2 DEF RenewalReply, NoRenewal, RenewTaskBudget, Do
  <2>3. QED
    BY <1>3, <1>6, <2>1, <2>2, Zenon DEF RenewalReply
<1>7. CASE CaptureAccountTakeover \/ ReadAccountCapture \/ InspectRuntimeRecovery
  BY <1>7 DEF CaptureAccountTakeover, ReadAccountCapture, InspectRuntimeRecovery, Do
<1>8. ASSUME WorkDone, UNCHANGED <<clock, until>>
      PROVE  LeaseCover'
  BY <1>8 DEF WorkDone, Do, NoRenewal
<1>9. CASE BeginSkillTakeover
  BY <1>8, <1>9 DEF BeginSkillTakeover
<1>10. ASSUME NEW o \in Objects, PutSkillTakeoverFile(o)
       PROVE  LeaseCover'
  BY <1>3, <1>10 DEF PutSkillTakeoverFile
<1>11. CASE CompleteSkillTakeover
  BY <1>3, <1>8, <1>11, Zenon DEF CompleteSkillTakeover
<1>12. CASE ExpireUpload \/ TickClock
  BY <1>12 DEF ExpireUpload, TickClock
<1>13. CASE UNCHANGED tvars
  BY <1>13, Zenon DEF tvars
<1>14. QED
  BY <1>1, <1>2, <1>4, <1>5, <1>6, <1>7, <1>9, <1>10, <1>11, <1>12, <1>13, Zenon DEF TNext

\* A commit needs every object of the current upload (uploadTakeoverCapture).
LEMMA UploadStep ==
    ASSUME TTypeOK, UploadCover, [TNext]_tvars
    PROVE  UploadCover'
<1>. USE DEF TTypeOK, UploadCover, Current
<1>1. CASE PollTask
  BY <1>1 DEF PollTask, NoWork, Do
<1>2. CASE GetSkillTakeover \/ AuthorizeRuntimeRecovery
  BY <1>2 DEF GetSkillTakeover, AuthorizeRuntimeRecovery, Do
<1>3. CASE Fail \/ LoseLease
  BY <1>3 DEF Fail, LoseLease, GiveUp, NoWork
<1>4. CASE StartRenewal \/ RenewSkillTakeoverLease
  BY <1>4 DEF StartRenewal, RenewSkillTakeoverLease
<1>5. CASE RenewalReply
  BY <1>5 DEF RenewalReply, GiveUp, NoWork, Do
<1>6. CASE CaptureAccountTakeover \/ ReadAccountCapture \/ InspectRuntimeRecovery
  BY <1>6 DEF CaptureAccountTakeover, ReadAccountCapture, InspectRuntimeRecovery, Do
<1>7. CASE BeginSkillTakeover
  <2>1. CASE server.status = "committed"
    BY <1>7, <2>1 DEF BeginSkillTakeover, WorkDone, Do
  <2>2. CASE server.status # "committed"
    <3>1. captured'
      BY <1>7, Zenon DEF BeginSkillTakeover
    <3>2. PICK u \in Nat :
              /\ server' = [server EXCEPT !.status = "uploading", !.upload = u]
              /\ work' = [work EXCEPT !.do = "put", !.upload = u, !.sent = {}]
      BY <1>7, <2>2, Begun, Zenon
    <3>3. /\ server'.status = "uploading" /\ server'.upload = u
          /\ work'.upload = u /\ work'.sent = {}
      BY <3>2
    <3>4. QED
      BY <3>1, <3>3
  <2>3. QED
    BY <2>1, <2>2
<1>8. ASSUME NEW o \in Objects, PutSkillTakeoverFile(o)
      PROVE  UploadCover'
  BY <1>8 DEF PutSkillTakeoverFile, GiveUp, NoWork
<1>9. CASE CompleteSkillTakeover
  <2>1. captured' /\ server'.have = Objects
    BY <1>9 DEF CompleteSkillTakeover
  <2>2. work'.do \notin {"read", "begin", "put"}
    BY <1>9 DEF CompleteSkillTakeover, WorkDone, GiveUp, NoWork, Do
  <2>3. QED
    BY <2>1, <2>2
<1>10. CASE CompleteTask
  BY <1>10 DEF CompleteTask, GiveUp, NoWork
<1>11. CASE ReportRuntimeRecovery
  BY <1>11 DEF ReportRuntimeRecovery, GiveUp, NoWork
<1>12. CASE ExpireUpload
  BY <1>12 DEF ExpireUpload
<1>120. CASE TickClock
  BY <1>120 DEF TickClock
<1>13. CASE UNCHANGED tvars
  BY <1>13 DEF tvars
<1>14. QED
  BY <1>1, <1>2, <1>3, <1>4, <1>5, <1>6, <1>7, <1>8, <1>9, <1>10, <1>11, <1>12, <1>120, <1>13, Zenon DEF TNext

-----------------------------------------------------------------------------
\* Whatever renewals and replies take, and whatever uploads, files and
\* acknowledgements are lost, the worker works only under a lease that the
\* control plane still honours, and commits only a whole capture
\* (withTaskLease, uploadTakeoverCapture).
THEOREM TakeoverIsCovered ==
    TSpec => []TakeoverCovered
<1>1. TInit => TInv
  <2>. SUFFICES ASSUME TInit PROVE TInv
    OBVIOUS
  <2>. USE TakeoverAssumption DEF TInit, NoWork, NoBudget, NoRenewal
  <2>1. TTypeOK
    <3>1. captured \in BOOLEAN
      BY Zenon
    <3>2. /\ server \in [status : {"reserved", "uploading", "committed"}, upload : Nat,
                         have : SUBSET Objects, task : {"open", "done"}]
          /\ clock \in Nat /\ until \in Nat
          /\ recovery \in {"open", "recovered", "failed"}
      OBVIOUS
    <3>3. QED
      BY <3>1, <3>2 DEF TTypeOK
  <2>2. LeaseCover
    BY DEF LeaseCover, Running
  <2>3. UploadCover
    BY DEF UploadCover
  <2>4. QED
    BY <2>1, <2>2, <2>3, Zenon DEF TInv
<1>2. TInv /\ [TNext]_tvars => TInv'
  BY TakeoverTypeStep, TakeoverLeaseStep, UploadStep DEF TInv
<1>3. TInv => TakeoverCovered
  BY DEF TInv, TTypeOK, LeaseCover, UploadCover, TakeoverCovered
<1>4. QED
  BY <1>1, <1>2, <1>3, PTL DEF TSpec

-----------------------------------------------------------------------------
(***************************************************************************)
(* An export obeys a revocation within one recheck and, when it completes, *)
(* is the tree the session ended with, for every recheck, every number of  *)
(* objects and every content.                                              *)
(*                                                                         *)
(* WindowInv follows the moment a permission was asked for through the     *)
(* request in flight into the window.  StreamInv says what the stream has  *)
(* fixed and sent at each of its steps.                                    *)
(***************************************************************************)

WindowInv ==
    /\ auth.live => time <= auth.until /\ auth.until <= time + Recheck
    /\ auth.live /\ ~authority.granted => auth.until <= authority.since + Recheck
    /\ check.do # "none" => check.started <= time
    /\ check.do = "granted" /\ ~authority.granted => check.started <= authority.since

Early == {"grant", "verify", "inspect", "lock", "scan", "failed"}
AtEnd == {"fresh footer", "footer", "done"}

StreamInv ==
    /\ authority.facts # {} => authority.facts = {tree} /\ source # "running"
    /\ check.do # "none" /\ check.forced => export.do \in {"verify", "fresh header", "fresh footer"}
    /\ export.do \in Early => export.sent = 0 /\ export.read = {}
    /\ export.do \notin Early =>
          /\ source # "running" /\ export.digest = {tree}
          /\ export.read = IF export.sent = 0 THEN {} ELSE {tree}
    /\ export.do \in AtEnd => export.sent = Parts

XInv == XTypeOK /\ WindowInv /\ StreamInv

-----------------------------------------------------------------------------
\* A permission that is accepted opens a window of at most one recheck from
\* the moment it was asked for (setWindow).
LEMMA WindowOpens ==
    ASSUME Verify, ~Fails
    PROVE  \E span \in 1 .. Recheck :
               /\ time < check.started + span
               /\ auth' = [auth EXCEPT !.live = TRUE, !.until = check.started + span,
                                       !.refresh = check.started + (span \div 2), !.facts = check.facts]
<1>1. PICK span \in 1 .. Recheck :
          LET w == Window(check.started, span)
          IN  /\ time < w.until
              /\ auth' = [auth EXCEPT !.live = TRUE, !.until = w.until, !.refresh = w.refresh, !.facts = check.facts]
  BY Zenon DEF Verify
<1>2. /\ Window(check.started, span).until = check.started + span
      /\ Window(check.started, span).refresh = check.started + (span \div 2)
  BY DEF Window
<1>3. QED
  BY <1>1, <1>2, Zenon

\* The window keeps the types.
LEMMA WindowTypes ==
    ASSUME auth \in Auths, check \in Checks, Verify, ~Fails
    PROVE  auth' \in Auths
<1>1. PICK span \in 1 .. Recheck :
          auth' = [auth EXCEPT !.live = TRUE, !.until = check.started + span,
                               !.refresh = check.started + (span \div 2), !.facts = check.facts]
  BY WindowOpens, Zenon
<1>2. check.facts \in SUBSET Trees /\ check.started \in Nat
  BY DEF Checks
<1>3. check.started + span \in Nat /\ check.started + (span \div 2) \in Nat
  BY SkillExportAssumption, <1>2
<1>. DEFINE a == check.started + span
            b == check.started + (span \div 2)
<1>4. a \in Nat /\ b \in Nat /\ auth' = [auth EXCEPT !.live = TRUE, !.until = a, !.refresh = b, !.facts = check.facts]
  BY <1>1, <1>3
<1>. HIDE DEF a, b
<1>5. QED
  BY <1>2, <1>4, Zenon DEF Auths

\* The stream moves on (serve).
LEMMA GoesTypes ==
    ASSUME NEW e \in Exports, NEW step \in Steps
    PROVE  [e EXCEPT !.do = step] \in Exports
BY DEF Exports, Steps

\* A stream that fails is emptied, and so are its authorization and its request
\* (the deferred cancels of serve).
LEMMA FailsTypes ==
    ASSUME XTypeOK, Fails, UNCHANGED <<time, tree, source, authority>>
    PROVE  XTypeOK'
<1>1. Blank("failed") \in Exports
  BY DEF Blank, Exports, Steps
<1>2. NoAuth \in Auths
  BY DEF NoAuth, Auths
<1>3. NoCheck \in Checks
  BY DEF NoCheck, Checks
<1>4. QED
  BY <1>1, <1>2, <1>3, Zenon DEF XTypeOK, Fails

\* An observation fixes the digest of a tree, or ends the stream.
LEMMA ObserveTypes ==
    ASSUME XTypeOK, NEW step \in {"hold", "fresh header"}, ObserveDigest(tree, step),
           UNCHANGED <<time, tree, source, authority>>
    PROVE  XTypeOK'
<1>1. CASE Fails
  BY <1>1, FailsTypes
<1>2. CASE ~Fails
  <2>1. tree \in Trees
    BY DEF XTypeOK
  <2>2. [auth EXCEPT !.observed = {tree}] \in Auths
    BY <2>1 DEF XTypeOK, Auths
  <2>3. [export EXCEPT !.do = step, !.digest = {tree}] \in Exports
    BY <2>1 DEF XTypeOK, Exports, Steps
  <2>4. QED
    BY <1>2, <2>2, <2>3 DEF XTypeOK, ObserveDigest
<1>3. QED
  BY <1>1, <1>2

\* Types are kept by every step of the session, the stream and its
\* authorization.
LEMMA ExportTypeStep ==
    ASSUME XTypeOK, StreamInv, [XNext]_xvars
    PROVE  XTypeOK'
<1>. USE DEF XTypeOK
<1>1. CASE Edit \/ SessionStops \/ Freeze \/ Reclaim
  BY <1>1 DEF Edit, SessionStops, Freeze, Reclaim
<1>2. CASE ReportDigest
  <2>1. [authority EXCEPT !.facts = {tree}] \in Authorities
    BY DEF Authorities
  <2>2. QED
    BY <1>2, <2>1 DEF ReportDigest
<1>3. CASE Withdraw
  <2>1. [authority EXCEPT !.granted = FALSE, !.since = time] \in Authorities
    BY Zenon DEF Authorities
  <2>2. QED
    BY <1>3, <2>1 DEF Withdraw
<1>4. ASSUME NEW forced \in BOOLEAN, Requests(forced)
      PROVE  check' \in Checks
  BY <1>4 DEF Requests, Checks
<1>5. CASE ReadGrant
  <2>1. ASSUME NEW again \in BOOLEAN
        PROVE  [export EXCEPT !.do = "verify", !.recovery = again] \in Exports
    BY DEF Exports, Steps
  <2>2. QED
    BY <1>4, <1>5, <2>1, Zenon DEF ReadGrant
<1>6. CASE Renew \/ Refresh
  BY <1>4, <1>6 DEF Renew, Refresh
<1>7. CASE RenewNodeExport
  <2>1. authority.facts \in SUBSET Trees
    BY DEF Authorities
  <2>2. [check EXCEPT !.do = "granted", !.facts = authority.facts] \in Checks
    BY <2>1, Zenon DEF Checks
  <2>3. QED
    BY <1>7, <2>2 DEF RenewNodeExport
<1>8. CASE Verify
  <2>1. CASE Fails
    BY <1>8, <2>1, FailsTypes DEF Verify
  <2>2. CASE ~Fails
    <3>1. check.facts \in SUBSET Trees /\ check.started \in Nat
      BY DEF Checks
    <3>3. auth' \in Auths
      BY <1>8, <2>2, WindowTypes
    <3>4. check' = NoCheck /\ NoCheck \in Checks
      <4>1. check' = NoCheck
        BY <1>8, <2>2 DEF Verify
      <4>2. NoCheck \in Checks
        BY DEF NoCheck, Checks
      <4>3. QED
        BY <4>1, <4>2
    <3>5. (IF check.forced THEN AfterRefresh ELSE export.do) \in Steps
      BY <1>8 DEF AfterRefresh, StreamInv, Verify, Steps, Exports
    <3>6. (IF auth.live THEN export.known ELSE check.facts) \in SUBSET Trees
      BY <3>1 DEF Exports
    <3>7. export' \in Exports
      BY <1>8, <2>2, <3>5, <3>6, Zenon DEF Verify, Exports
    <3>8. QED
      BY <1>8, <2>2, <3>3, <3>4, <3>7 DEF Verify
  <2>3. QED
    BY <2>1, <2>2
<1>9. CASE Refused \/ WatchExpiry \/ Interrupted
  BY <1>9, FailsTypes DEF Refused, WatchExpiry, Interrupted
<1>10. ASSUME NEW step \in Steps, Goes(step)
       PROVE  export' \in Exports
  BY <1>10, GoesTypes DEF Goes
<1>11. CASE InspectSkillFinalization
  <2>1. CASE source = "frozen"
    BY <1>11, <2>1, ObserveTypes DEF InspectSkillFinalization
  <2>2. CASE source # "frozen" /\ export.recovery /\ export.known # {}
    BY <1>11, <2>2, FailsTypes DEF InspectSkillFinalization
  <2>3. CASE source # "frozen" /\ ~(export.recovery /\ export.known # {})
    BY <1>10, <1>11, <2>3 DEF InspectSkillFinalization, Steps
  <2>4. QED
    BY <2>1, <2>2, <2>3
<1>12. CASE HoldSkillFinalization \/ HandleStoppedExport
  BY <1>10, <1>12 DEF HoldSkillFinalization, HandleStoppedExport, Steps
<1>13. CASE OpenStoppedWorkExport \/ OpenStoppedWorkRecovery
  BY <1>13, ObserveTypes DEF OpenStoppedWorkExport, OpenStoppedWorkRecovery
<1>14. CASE WriteHeader
  BY <1>10, <1>14 DEF WriteHeader, Steps
<1>15. CASE SendObject \/ RelayRecoveryEntry
  <2>1. export.sent + 1 \in Nat /\ export.read \cup {tree} \in SUBSET Trees
    BY DEF Exports
  <2>2. ASSUME NEW n \in Nat, NEW r \in SUBSET Trees
        PROVE  [export EXCEPT !.sent = n, !.read = r] \in Exports
    BY Zenon DEF Exports
  <2>3. [export EXCEPT !.sent = @ + 1, !.read = @ \cup {tree}] \in Exports
    BY <2>1, <2>2, Zenon
  <2>4. QED
    BY <1>15, <2>3, Zenon DEF SendObject, RelayRecoveryEntry
<1>16. CASE EndOfObjects
  BY <1>10, <1>16 DEF EndOfObjects, Steps
<1>17. CASE WriteFooter
  <2>1. [export EXCEPT !.do = "done", !.known = {}] \in Exports
    BY DEF Exports, Steps
  <2>2. NoAuth \in Auths /\ NoCheck \in Checks
    BY DEF NoAuth, Auths, NoCheck, Checks
  <2>3. QED
    BY <1>17, <2>1, <2>2, Zenon DEF WriteFooter
<1>18. CASE Passes
  BY <1>18 DEF Passes
<1>19. CASE UNCHANGED xvars
  BY <1>19 DEF xvars
<1>20. QED
  BY <1>1, <1>2, <1>3, <1>5, <1>6, <1>7, <1>8, <1>9, <1>11, <1>12, <1>13, <1>14, <1>15, <1>16,
     <1>17, <1>18, <1>19, Zenon DEF XNext

-----------------------------------------------------------------------------
\* The window and the request are untouched by the session and by the stream.
LEMMA WindowKept ==
    ASSUME WindowInv, UNCHANGED <<time, authority, auth, check>>
    PROVE  WindowInv'
BY DEF WindowInv

\* A failed stream has no window.
LEMMA WindowGone ==
    ASSUME auth' = NoAuth, check' = NoCheck
    PROVE  WindowInv'
BY DEF WindowInv, NoAuth, NoCheck

\* An observation leaves the window alone.
LEMMA WindowObserved ==
    ASSUME XTypeOK, WindowInv, NEW d, NEW step, ObserveDigest(d, step), UNCHANGED <<time, authority>>
    PROVE  WindowInv'
<1>1. CASE Fails
  BY <1>1, WindowGone DEF Fails
<1>2. CASE ~Fails
  <2>1. auth' = [auth EXCEPT !.observed = {d}] /\ check' = check
    BY <1>2 DEF ObserveDigest
  <2>2. auth'.live = auth.live /\ auth'.until = auth.until
    BY <2>1 DEF XTypeOK, Auths
  <2>3. QED
    BY <2>1, <2>2 DEF WindowInv
<1>3. QED
  BY <1>1, <1>2

\* No step lets the window outlive the permission it was asked under
\* (exportAuthorization.verify, setWindow, watchExpiry).
LEMMA WindowStep ==
    ASSUME XTypeOK, WindowInv, [XNext]_xvars
    PROVE  WindowInv'
<1>1. CASE Edit \/ SessionStops \/ Freeze \/ Reclaim \/ HoldSkillFinalization \/ HandleStoppedExport
           \/ WriteHeader \/ SendObject \/ RelayRecoveryEntry \/ EndOfObjects \/ UNCHANGED xvars
  BY <1>1, WindowKept DEF Edit, SessionStops, Freeze, Reclaim, HoldSkillFinalization,
     HandleStoppedExport, WriteHeader, SendObject, RelayRecoveryEntry, EndOfObjects, xvars
<1>2. CASE ReportDigest
  BY <1>2 DEF ReportDigest, WindowInv, XTypeOK, Authorities
<1>3. CASE Withdraw
  <2>1. ~authority'.granted /\ authority'.since = time
    BY <1>3, Zenon DEF Withdraw, XTypeOK, Authorities
  <2>2. QED
    BY <1>3, <2>1 DEF Withdraw, WindowInv, XTypeOK
<1>4. ASSUME NEW forced, Requests(forced), UNCHANGED <<time, authority, auth>>
      PROVE  WindowInv'
  <2>1. check'.do = "sent" /\ check'.started = time
    BY <1>4, Zenon DEF Requests
  <2>2. QED
    BY <1>4, <2>1 DEF WindowInv, XTypeOK
<1>5. CASE ReadGrant \/ Renew \/ Refresh
  BY <1>4, <1>5, Zenon DEF ReadGrant, Renew, Refresh
<1>6. CASE RenewNodeExport
  <2>1. check'.do = "granted" /\ check'.started = check.started /\ authority'.granted
    BY <1>6 DEF RenewNodeExport, XTypeOK, Checks
  <2>2. QED
    BY <1>6, <2>1 DEF RenewNodeExport, WindowInv
<1>7. CASE Verify
  <2>1. CASE Fails
    BY <2>1, WindowGone, Zenon DEF Fails
  <2>2. CASE ~Fails
    <3>1. check.started \in Nat /\ authority.since \in Nat /\ time \in Nat /\ Recheck \in Nat
      BY SkillExportAssumption DEF XTypeOK, Checks, Authorities
    <3>2. \E span \in 1 .. Recheck : auth'.until = check.started + span /\ time < check.started + span
      BY <1>7, <2>2, WindowOpens, Zenon DEF XTypeOK, Auths
    <3>3. check'.do = "none"
      BY <1>7, <2>2 DEF Verify, NoCheck
    <3>4. check.do = "granted" /\ UNCHANGED <<time, authority>>
      BY <1>7 DEF Verify
    <3>5. QED
      BY <3>1, <3>2, <3>3, <3>4 DEF WindowInv
  <2>3. QED
    BY <2>1, <2>2
<1>8. CASE Refused \/ WatchExpiry \/ Interrupted
  BY <1>8, WindowGone DEF Refused, WatchExpiry, Interrupted, Fails
<1>9. CASE WriteFooter
  BY <1>9, WindowGone DEF WriteFooter
<1>10. CASE InspectSkillFinalization
  <2>1. CASE source = "frozen"
    BY <1>10, <2>1, WindowObserved DEF InspectSkillFinalization
  <2>2. CASE source # "frozen" /\ export.recovery /\ export.known # {}
    BY <1>10, <2>2, WindowGone DEF InspectSkillFinalization, Fails
  <2>3. CASE source # "frozen" /\ ~(export.recovery /\ export.known # {})
    BY <1>10, <2>3, WindowKept, Zenon DEF InspectSkillFinalization
  <2>4. QED
    BY <2>1, <2>2, <2>3
<1>11. CASE OpenStoppedWorkExport \/ OpenStoppedWorkRecovery
  BY <1>11, WindowObserved DEF OpenStoppedWorkExport, OpenStoppedWorkRecovery
<1>12. CASE Passes
  <2>1. auth.until \in Nat /\ check.started \in Nat /\ time \in Nat /\ Recheck \in Nat
    BY SkillExportAssumption, Zenon DEF XTypeOK, Checks, Auths
  <2>2. QED
    BY <1>12, <2>1 DEF Passes, WindowInv
<1>13. QED
  BY <1>1, <1>2, <1>3, <1>5, <1>6, <1>7, <1>8, <1>9, <1>10, <1>11, <1>12, Zenon DEF XNext

-----------------------------------------------------------------------------
\* What a stream has fixed and sent stays true while the source only moves on.
LEMMA StreamKept ==
    ASSUME StreamInv, UNCHANGED <<tree, authority, export, check>>,
           source # "running" => source' # "running"
    PROVE  StreamInv'
BY DEF StreamInv

\* A failed stream claims nothing.
LEMMA StreamIsFailed ==
    ASSUME StreamInv, Fails, UNCHANGED <<tree, source, authority>>
    PROVE  StreamInv'
<1>1. export'.do = "failed" /\ export'.sent = 0 /\ export'.read = {} /\ check'.do = "none"
  BY Zenon DEF Fails, Blank, NoCheck
<1>2. QED
  BY <1>1 DEF StreamInv, Early, AtEnd

\* The stream moves on with what it has, and no forced request in flight.
LEMMA StreamGoes ==
    ASSUME XTypeOK, StreamInv, NEW step, Goes(step), UNCHANGED <<tree, source, authority, check>>,
           check.do # "none" => ~check.forced,
           step \in Early <=> export.do \in Early,
           step \in AtEnd => export.sent = Parts
    PROVE  StreamInv'
<1>1. /\ export'.do = step /\ export'.sent = export.sent /\ export'.read = export.read
      /\ export'.digest = export.digest
  BY DEF Goes, XTypeOK, Exports
<1>2. QED
  BY <1>1 DEF StreamInv

\* The first observation, of a session that ended, fixes its tree.
LEMMA StreamObserves ==
    ASSUME XTypeOK, StreamInv, NEW step \in {"hold", "fresh header"}, ObserveDigest(tree, step),
           export.do \in {"inspect", "scan"}, source # "running",
           UNCHANGED <<tree, source, authority>>
    PROVE  StreamInv'
<1>1. CASE Fails
  BY <1>1, StreamIsFailed
<1>2. CASE ~Fails
  <2>1. /\ export'.do = step /\ export'.sent = export.sent /\ export'.read = export.read
        /\ export'.digest = {tree} /\ check' = check
    BY <1>2 DEF ObserveDigest, XTypeOK, Exports
  <2>2. export.sent = 0 /\ export.read = {} /\ ~(check.do # "none" /\ check.forced)
    BY DEF StreamInv, Early
  <2>3. export'.do \notin Early /\ export'.do \notin AtEnd
    BY <2>1 DEF Early, AtEnd
  <2>4. QED
    BY <2>1, <2>2, <2>3 DEF StreamInv
<1>3. QED
  BY <1>1, <1>2

\* Every step keeps what the stream has fixed and sent (serve, RelaySnapshot,
\* streamStoppedSource).
LEMMA StreamStep ==
    ASSUME XTypeOK, StreamInv, [XNext]_xvars
    PROVE  StreamInv'
<1>1. CASE SessionStops \/ Freeze \/ Reclaim \/ Passes \/ UNCHANGED xvars
  BY <1>1, StreamKept, Zenon DEF SessionStops, Freeze, Reclaim, Passes, xvars
<1>2. CASE Edit
  BY <1>2 DEF Edit, StreamInv, Early, AtEnd
<1>3. CASE ReportDigest
  <2>1. authority'.facts = {tree} /\ source = "frozen"
    BY <1>3 DEF ReportDigest, XTypeOK, Authorities
  <2>2. QED
    BY <1>3, <2>1 DEF ReportDigest, StreamInv
<1>4. CASE Withdraw
  <2>1. authority'.facts = authority.facts
    BY <1>4 DEF Withdraw, XTypeOK, Authorities
  <2>2. QED
    BY <1>4, <2>1 DEF Withdraw, StreamInv
<1>5. CASE ReadGrant
  <2>1. export'.do = "verify" /\ export'.sent = export.sent /\ export'.read = export.read
    BY <1>5, Zenon DEF ReadGrant, XTypeOK, Exports
  <2>2. QED
    BY <1>5, <2>1 DEF ReadGrant, StreamInv, Early, AtEnd
<1>6. CASE Renew
  BY <1>6, Zenon DEF Renew, Requests, StreamInv
<1>7. CASE Refresh
  BY <1>7 DEF Refresh, Requests, StreamInv
<1>8. CASE RenewNodeExport
  <2>1. check'.do = "granted" /\ check'.forced = check.forced
    BY <1>8 DEF RenewNodeExport, XTypeOK, Checks
  <2>2. QED
    BY <1>8, <2>1 DEF RenewNodeExport, StreamInv
<1>9. CASE Verify
  <2>1. CASE Fails
    BY <1>9, <2>1, StreamIsFailed, Zenon DEF Verify
  <2>2. CASE ~Fails
    <3>. DEFINE step == IF check.forced THEN AfterRefresh ELSE export.do
    <3>1. /\ export'.do = step /\ export'.sent = export.sent /\ export'.read = export.read
          /\ export'.digest = export.digest
      BY <1>9, <2>2, Zenon DEF Verify, XTypeOK, Exports
    <3>2. check'.do = "none" /\ UNCHANGED <<tree, source, authority>>
      BY <1>9, <2>2 DEF Verify, NoCheck
    <3>3. /\ step \in Early <=> export.do \in Early
          /\ step \in AtEnd => export.do \in AtEnd
      BY <1>9 DEF Verify, AfterRefresh, StreamInv, Early, AtEnd
    <3>. HIDE DEF step
    <3>4. QED
      BY <3>1, <3>2, <3>3 DEF StreamInv
  <2>3. QED
    BY <2>1, <2>2
<1>10. CASE Refused \/ WatchExpiry \/ Interrupted
  BY <1>10, StreamIsFailed DEF Refused, WatchExpiry, Interrupted
<1>11. CASE InspectSkillFinalization
  <2>1. CASE source = "frozen"
    BY <1>11, <2>1, StreamObserves DEF InspectSkillFinalization
  <2>2. CASE source # "frozen" /\ export.recovery /\ export.known # {}
    BY <1>11, <2>2, StreamIsFailed, Zenon DEF InspectSkillFinalization
  <2>3. CASE source # "frozen" /\ ~(export.recovery /\ export.known # {})
    BY <1>11, <2>3, StreamGoes DEF InspectSkillFinalization, StreamInv, Early, AtEnd
  <2>4. QED
    BY <2>1, <2>2, <2>3
<1>12. CASE HoldSkillFinalization
  BY <1>12, StreamGoes, Zenon DEF HoldSkillFinalization, StreamInv, Early, AtEnd
<1>13. CASE HandleStoppedExport
  BY <1>13, StreamGoes, Zenon DEF HandleStoppedExport, StreamInv, Early, AtEnd
<1>14. CASE OpenStoppedWorkExport \/ OpenStoppedWorkRecovery
  BY <1>14, StreamObserves DEF OpenStoppedWorkExport, OpenStoppedWorkRecovery, StoppedExportWriters
<1>15. CASE WriteHeader
  BY <1>15, StreamGoes, Zenon DEF WriteHeader, StreamInv, Early, AtEnd
<1>16. CASE SendObject \/ RelayRecoveryEntry
  <2>1. /\ export.do = "objects" /\ export.sent \in Nat
        /\ export.read = {} \/ export.read = {tree}
    BY <1>16 DEF SendObject, RelayRecoveryEntry, Streaming, StreamInv, Early, XTypeOK, Exports
  <2>2. /\ export'.do = "objects" /\ export'.sent = export.sent + 1
        /\ export'.read = export.read \cup {tree} /\ export'.digest = export.digest
        /\ UNCHANGED <<tree, source, authority, check>>
    BY <1>16, <2>1, Zenon DEF SendObject, RelayRecoveryEntry, XTypeOK, Exports
  <2>3. export'.read = {tree} /\ export'.sent # 0
    BY <2>1, <2>2
  <2>4. QED
    BY <2>1, <2>2, <2>3, Zenon DEF StreamInv, Early, AtEnd
<1>17. CASE EndOfObjects
  BY <1>17, StreamGoes, Zenon DEF EndOfObjects, StreamInv, Early, AtEnd
<1>18. CASE WriteFooter
  <2>1. /\ export'.do = "done" /\ export'.sent = export.sent /\ export'.read = export.read
        /\ export'.digest = export.digest /\ check'.do = "none"
    BY <1>18 DEF WriteFooter, NoCheck, XTypeOK, Exports
  <2>2. QED
    BY <1>18, <2>1 DEF WriteFooter, StreamInv, Early, AtEnd
<1>19. QED
  BY <1>1, <1>2, <1>3, <1>4, <1>5, <1>6, <1>7, <1>8, <1>9, <1>10, <1>11, <1>12, <1>13, <1>14,
     <1>15, <1>16, <1>17, <1>18, Zenon DEF XNext

-----------------------------------------------------------------------------
\* The three hold together in every reachable state.
LEMMA ExportInvariant ==
    XSpec => []XInv
<1>1. XInit => XInv
  <2>. SUFFICES ASSUME XInit PROVE XInv
    OBVIOUS
  <2>1. /\ NoExport \in Exports /\ NoAuth \in Auths /\ NoCheck \in Checks
        /\ authority \in Authorities
    BY Zenon DEF XInit, NoExport, Blank, Exports, Steps, NoAuth, Auths, NoCheck, Checks, Authorities
  <2>2. XTypeOK
    BY <2>1, Zenon DEF XInit, XTypeOK
  <2>3. WindowInv
    BY Zenon DEF XInit, WindowInv, NoAuth, NoCheck
  <2>4. StreamInv
    BY DEF XInit, StreamInv, NoExport, Blank, NoCheck, Early, AtEnd
  <2>5. QED
    BY <2>2, <2>3, <2>4 DEF XInv
<1>2. XInv /\ [XNext]_xvars => XInv'
  BY ExportTypeStep, WindowStep, StreamStep DEF XInv
<1>3. QED
  BY <1>1, <1>2, PTL DEF XSpec

\* However long an answer takes, nothing of an export is written later than one
\* recheck after the permission was withdrawn (exportAuthorization.verify).
THEOREM RevocationIsObeyed ==
    XSpec => []RevocationObeyed
<1>1. XInv => RevocationObeyed
  <2>. SUFFICES ASSUME XInv PROVE RevocationObeyed
    OBVIOUS
  <2>1. auth.until \in Nat /\ authority.since \in Nat /\ time \in Nat /\ Recheck \in Nat
    BY SkillExportAssumption, Zenon DEF XInv, XTypeOK, Auths, Authorities
  <2>2. QED
    BY <2>1 DEF XInv, WindowInv, RevocationObeyed
<1>2. QED
  BY <1>1, ExportInvariant, PTL

\* A complete export is all of the tree that the session ended with, whichever
\* source it was read from (serve, RelaySnapshot, streamStoppedSource).
THEOREM CompleteExportIsFinal ==
    XSpec => []ExportFinal
<1>1. XInv => ExportFinal
  BY SkillExportAssumption DEF XInv, StreamInv, ExportFinal, Early, AtEnd
<1>2. QED
  BY <1>1, ExportInvariant, PTL

-----------------------------------------------------------------------------
(***************************************************************************)
(* Cleanup receipts are true, for every set of connections, batches and    *)
(* sizes and all bounds.                                                   *)
(*                                                                         *)
(* The gateways share the session's directory and nothing else, so the     *)
(* invariant is one statement about each lease, LeaseInv.  Its three parts *)
(* follow the gateway: until the cleanup nothing was said of it; the       *)
(* uploads are those acknowledged and at most one in flight; a receipt is  *)
(* worth no more than what stands behind it.                               *)
(***************************************************************************)

Before == {"new", "resolve", "offer", "first"}

SilentInv(l) ==
    /\ gate[l] \in Before => OfLease(l) = {} /\ seen[l] = {}
    /\ gate[l] \in Before \cup {"frame", "body", "remove"} =>
          receipt[l] = {} /\ kept[l] = {} /\ published[l] = {}
    /\ gate[l] = "persist" => kept[l] = {} /\ published[l] = {}
    /\ gate[l] = "publish" => published[l] = {}
    /\ gate[l] # "done" => shown[l] = {}

UploadInv(l) ==
    /\ IsFiniteSet(seen[l])
    /\ gate[l] \in {"frame", "body"} =>
          /\ seen[l] \subseteq {f.batch : f \in OfLease(l)}
          /\ Cardinality(seen[l]) <= MaxEntries
    /\ gate[l] = "frame" => \A f \in OfLease(l) : f.batch \in seen[l]
    /\ gate[l] = "body" =>
          \A f \in OfLease(l) : f.batch \notin seen[l] =>
              /\ Cardinality(seen[l]) < MaxEntries
              /\ \A g \in OfLease(l) : g.batch \notin seen[l] => g.batch = f.batch

ReceiptInv(l) ==
    /\ "cleaned" \in receipt[l] \cup kept[l] \cup published[l] \cup shown[l] => OfLease(l) = {}
    /\ gate[l] = "publish" /\ "cleaned" \in receipt[l] => kept[l] = {"cleaned"}
    /\ gate[l] = "again" => receipt[l] = {"unknown"}
    /\ gate[l] = "answer" /\ "cleaned" \in receipt[l] =>
          kept[l] = {"cleaned"} /\ published[l] = {"cleaned"}
    /\ "cleaned" \in shown[l] => kept[l] = {"cleaned"} /\ published[l] = {"cleaned"}

LeaseInv(l) == SilentInv(l) /\ UploadInv(l) /\ ReceiptInv(l)

AInv == ATypeOK /\ \A l \in Connections : LeaseInv(l)

-----------------------------------------------------------------------------
\* Types are kept by every step of a gateway.
LEMMA GatewayTypeStep ==
    ASSUME ATypeOK, NEW l \in Connections, Gateway(l)
    PROVE  ATypeOK'
<1>1. ASSUME NEW step \in Gates, To(l, step)
      PROVE  gate' \in [Connections -> Gates]
  BY <1>1 DEF To, ATypeOK
<1>2. ASSUME NEW s \in {"cleaned", "pending", "unknown"}, Status(l, s)
      PROVE  receipt' \in [Connections -> ReceiptOf]
  BY <1>2 DEF Status, ATypeOK, ReceiptOf
<1>3. ASSUME Forget(l)
      PROVE  /\ asked' \subseteq Connections /\ seen' \in [Connections -> SUBSET Batches]
             /\ total' \in [Connections -> Nat] /\ receipt' \in [Connections -> ReceiptOf]
  BY <1>3 DEF Forget, ATypeOK, ReceiptOf
<1>4. {"new", "resolve", "offer", "first", "frame", "body", "remove", "persist", "publish",
       "again", "answer", "done", "refused", "killed"} \subseteq Gates
  BY DEF Gates
<1>. USE DEF Receipts
<1>5. CASE VerifyExactAttachment(l) \/ ResolveSessionAccount(l) \/ LeaseOffer(l)
  BY <1>1, <1>4, <1>5, Zenon DEF VerifyExactAttachment, ResolveSessionAccount, LeaseOffer, ATypeOK
<1>6. CASE OpenFrame(l) \/ CleanupFrame(l) \/ EndOfFrames(l)
  BY <1>1, <1>4, <1>6, Zenon DEF OpenFrame, CleanupFrame, EndOfFrames, ATypeOK
<1>7. ASSUME NEW b \in Batches, NEW size \in Sizes, UploadFrame(l, b, size)
      PROVE  ATypeOK'
  <2>1. [lease |-> l, batch |-> b, size |-> size] \in Uploads
    BY DEF Uploads
  <2>2. QED
    BY <1>1, <1>4, <1>7, <2>1, Zenon DEF UploadFrame, ATypeOK
<1>8. ASSUME NEW f \in files, ReceiveUpload(l, f)
      PROVE  ATypeOK'
  <2>1. f.batch \in Batches /\ f.size \in Nat
    BY AttachmentsAssumption, Zenon DEF ATypeOK, Uploads
  <2>2. seen' \in [Connections -> SUBSET Batches] /\ total' \in [Connections -> Nat]
    BY <1>8, <2>1 DEF ReceiveUpload, ATypeOK
  <2>3. QED
    BY <1>1, <1>4, <1>8, <2>2, Zenon DEF ReceiveUpload, ATypeOK
<1>9. ASSUME NEW f \in files, UploadBroken(l, f)
      PROVE  ATypeOK'
  BY <1>1, <1>4, <1>9, Zenon DEF UploadBroken, ATypeOK
<1>10. CASE RemoveLeaseTree(l)
  <2>1. files' \subseteq Uploads
    BY <1>10 DEF RemoveLeaseTree, OfLease, ATypeOK
  <2>2. QED
    BY <1>1, <1>2, <1>4, <1>10, <2>1, Zenon DEF RemoveLeaseTree, ATypeOK
<1>11. ASSUME Persist(l) \/ UNCHANGED kept
       PROVE  kept' \in [Connections -> ReceiptOf]
  BY <1>11 DEF Persist, ATypeOK
<1>12. CASE PersistReceipt(l) \/ PersistUnknown(l)
  BY <1>1, <1>2, <1>4, <1>11, <1>12, Zenon DEF PersistReceipt, PersistUnknown, ATypeOK
<1>13. CASE CleanupHook(l)
  <2>1. published' \in [Connections -> ReceiptOf]
    BY <1>13 DEF CleanupHook, Publish, ATypeOK
  <2>2. QED
    BY <1>1, <1>2, <1>4, <1>13, <2>1, Zenon DEF CleanupHook, ATypeOK
<1>14. CASE Answer(l)
  <2>1. shown' \in [Connections -> ReceiptOf]
    BY <1>14 DEF Answer, ATypeOK, ReceiptOf
  <2>2. QED
    BY <1>1, <1>3, <1>4, <1>14, <2>1, Zenon DEF Answer, ATypeOK
<1>15. CASE Killed(l)
  BY <1>1, <1>3, <1>4, <1>15, Zenon DEF Killed, ATypeOK
<1>16. QED
  BY <1>5, <1>6, <1>7, <1>8, <1>9, <1>10, <1>12, <1>13, <1>14, <1>15, Zenon DEF Gateway

-----------------------------------------------------------------------------
(* The leases are apart.                                                   *)

\* LeaseInv speaks of what a lease's gateway knows, and of the files it left.
LEMMA OwnSuffices ==
    ASSUME NEW m \in Connections, LeaseInv(m),
           gate'[m] = gate[m], seen'[m] = seen[m], receipt'[m] = receipt[m],
           kept'[m] = kept[m], published'[m] = published[m], shown'[m] = shown[m],
           OfLease(m)' = OfLease(m)
    PROVE  LeaseInv(m)'
<1>1. SilentInv(m)'
  BY Zenon DEF LeaseInv, SilentInv
<1>2. UploadInv(m)'
  <2>. DEFINE o == OfLease(m)
  <2>1. OfLease(m)' = o
    OBVIOUS
  <2>2. QED
    BY <2>1, Zenon DEF LeaseInv, UploadInv
<1>3. ReceiptInv(m)'
  BY Zenon DEF LeaseInv, ReceiptInv
<1>4. QED
  BY <1>1, <1>2, <1>3, Zenon DEF LeaseInv

\* One gateway's step leaves every other lease's files, receipts and counts
\* alone, although they share the session's directory (PrivateTree's lease
\* directory).
LEMMA OthersKept ==
    ASSUME ATypeOK, NEW l \in Connections, Gateway(l), NEW m \in Connections, m # l, LeaseInv(m)
    PROVE  LeaseInv(m)'
<1>1. gate'[m] = gate[m]
  BY Zenon DEF Gateway, VerifyExactAttachment, ResolveSessionAccount, LeaseOffer, OpenFrame, CleanupFrame,
         EndOfFrames, UploadFrame, ReceiveUpload, UploadBroken, RemoveLeaseTree, PersistReceipt,
         CleanupHook, PersistUnknown, Answer, Killed, To, ATypeOK
<1>2. seen'[m] = seen[m]
  BY Zenon DEF Gateway, VerifyExactAttachment, ResolveSessionAccount, LeaseOffer, OpenFrame, CleanupFrame,
         EndOfFrames, UploadFrame, ReceiveUpload, UploadBroken, RemoveLeaseTree, PersistReceipt,
         CleanupHook, PersistUnknown, Answer, Killed, Forget, ATypeOK
<1>3. receipt'[m] = receipt[m] /\ kept'[m] = kept[m]
  BY Zenon DEF Gateway, VerifyExactAttachment, ResolveSessionAccount, LeaseOffer, OpenFrame, CleanupFrame,
         EndOfFrames, UploadFrame, ReceiveUpload, UploadBroken, RemoveLeaseTree, PersistReceipt,
         CleanupHook, PersistUnknown, Answer, Killed, Forget, Receipts, Status, Persist, ATypeOK
<1>4. published'[m] = published[m] /\ shown'[m] = shown[m]
  BY Zenon DEF Gateway, VerifyExactAttachment, ResolveSessionAccount, LeaseOffer, OpenFrame, CleanupFrame,
         EndOfFrames, UploadFrame, ReceiveUpload, UploadBroken, RemoveLeaseTree, PersistReceipt,
         CleanupHook, PersistUnknown, Answer, Killed, Receipts, Publish, ATypeOK
<1>5. OfLease(m)' = OfLease(m)
  <2>1. CASE UNCHANGED files
    BY <2>1 DEF OfLease
  <2>2. ASSUME NEW b \in Batches, NEW size \in Sizes, UploadFrame(l, b, size)
        PROVE  OfLease(m)' = OfLease(m)
    BY <2>2 DEF UploadFrame, OfLease
  <2>3. ASSUME NEW f \in files, UploadBroken(l, f)
        PROVE  OfLease(m)' = OfLease(m)
    BY <2>3, Zenon DEF UploadBroken, PrivateTree, OfLease
  <2>4. CASE RemoveLeaseTree(l)
    BY <2>4, Zenon DEF RemoveLeaseTree, OfLease
  <2>5. QED
    BY <2>1, <2>2, <2>3, <2>4, Zenon DEF Gateway, VerifyExactAttachment, ResolveSessionAccount, LeaseOffer,
       OpenFrame, CleanupFrame, EndOfFrames, ReceiveUpload, PersistReceipt, CleanupHook,
       PersistUnknown, Answer, Killed
<1>6. QED
  BY <1>1, <1>2, <1>3, <1>4, <1>5, OwnSuffices, Zenon

-----------------------------------------------------------------------------
(* The lease of the gateway that takes the step.                           *)

\* A step that only moves on, among gates of which LeaseInv asks no more.
LEMMA GatewayMoves ==
    ASSUME ATypeOK, NEW l \in Connections, LeaseInv(l), NEW step, To(l, step),
           UNCHANGED <<seen, files>>, Receipts,
           \/ gate[l] \in Before /\ step \in Before \cup {"frame", "remove", "refused"}
           \/ gate[l] = "frame" /\ step = "remove"
    PROVE  LeaseInv(l)'
<1>1. gate'[l] = step /\ OfLease(l)' = OfLease(l)
  BY DEF To, ATypeOK, OfLease
<1>2. SilentInv(l)'
  BY <1>1, Zenon DEF LeaseInv, SilentInv, Receipts, Before
<1>3. UploadInv(l)'
  <2>1. CASE step = "frame"
    <3>1. OfLease(l) = {} /\ seen[l] = {}
      BY <2>1, Zenon DEF LeaseInv, SilentInv
    <3>2. Cardinality({}) = 0 /\ IsFiniteSet({})
      BY FS_EmptySet
    <3>3. 0 <= MaxEntries
      BY AttachmentsAssumption
    <3>4. gate'[l] = "frame" /\ seen'[l] = {} /\ OfLease(l)' = {}
      BY <1>1, <2>1, <3>1, Zenon
    <3>5. QED
      BY <3>2, <3>3, <3>4, Zenon DEF UploadInv
  <2>2. CASE step # "frame"
    BY <1>1, <2>2, Zenon DEF LeaseInv, UploadInv, Before
  <2>3. QED
    BY <2>1, <2>2, Zenon
<1>4. ReceiptInv(l)'
  BY <1>1, Zenon DEF LeaseInv, ReceiptInv, SilentInv, Receipts, Before
<1>5. QED
  BY <1>2, <1>3, <1>4, Zenon DEF LeaseInv

\* An upload is in flight, and the lease has an entry left (UploadFrame of Gateway.Serve).
LEMMA UploadBegins ==
    ASSUME ATypeOK, NEW l \in Connections, LeaseInv(l),
           NEW b \in Batches, NEW size \in Sizes, UploadFrame(l, b, size)
    PROVE  LeaseInv(l)'
<1>. DEFINE u == [lease |-> l, batch |-> b, size |-> size]
<1>1. /\ gate[l] = "frame" /\ gate'[l] = "body" /\ OfLease(l)' = OfLease(l) \cup {u}
      /\ u.batch = b /\ u.size = size
  BY DEF UploadFrame, To, ATypeOK, OfLease
<1>2. SilentInv(l)'
  BY <1>1, Zenon DEF LeaseInv, SilentInv, UploadFrame, Receipts, Before
<1>3. UploadInv(l)'
  <2>1. seen'[l] = seen[l]
    BY Zenon DEF UploadFrame
  <2>2. seen[l] \subseteq {f.batch : f \in OfLease(l) \cup {u}}
    BY <1>1, Zenon DEF LeaseInv, UploadInv
  <2>3. \A f \in OfLease(l) \cup {u} : f.batch \notin seen[l] => f = u
    BY <1>1, Zenon DEF LeaseInv, UploadInv
  <2>4. Cardinality(seen[l]) < MaxEntries
    BY Zenon DEF UploadFrame, UploadFits
  <2>. HIDE DEF u
  <2>5. QED
    BY <1>1, <2>1, <2>2, <2>3, <2>4, Zenon DEF LeaseInv, UploadInv
<1>4. ReceiptInv(l)'
  BY <1>1, Zenon DEF LeaseInv, ReceiptInv, SilentInv, UploadFrame, Receipts
<1>5. QED
  BY <1>2, <1>3, <1>4, Zenon DEF LeaseInv

\* An upload that arrived whole is acknowledged within the lease's entries
\* (receiveUpload).
LEMMA UploadArrives ==
    ASSUME ATypeOK, NEW l \in Connections, LeaseInv(l),
           NEW f \in files, ReceiveUpload(l, f)
    PROVE  LeaseInv(l)'
<1>1. /\ gate[l] = "body" /\ gate'[l] = "frame" /\ OfLease(l)' = OfLease(l)
      /\ f \in OfLease(l) /\ f.batch \notin seen[l]
      /\ seen'[l] = seen[l] \cup {f.batch}
  BY DEF ReceiveUpload, PrivateTree, To, ATypeOK, OfLease
<1>2. SilentInv(l)'
  BY <1>1, Zenon DEF LeaseInv, SilentInv, ReceiveUpload, Receipts, Before
<1>3. UploadInv(l)'
  <2>1. MaxEntries \in Nat
    BY AttachmentsAssumption, Zenon
  <2>0. /\ IsFiniteSet(seen[l]) /\ seen[l] \subseteq {g.batch : g \in OfLease(l)}
        /\ \A h \in OfLease(l) : h.batch \notin seen[l] =>
              /\ Cardinality(seen[l]) < MaxEntries
              /\ \A g \in OfLease(l) : g.batch \notin seen[l] => g.batch = h.batch
    BY <1>1, Zenon DEF LeaseInv, UploadInv
  <2>2. Cardinality(seen[l]) < MaxEntries
    BY <1>1, <2>0, Zenon
  <2>3. IsFiniteSet(seen'[l]) /\ Cardinality(seen'[l]) <= MaxEntries
    <3>1. IsFiniteSet(seen[l] \cup {f.batch}) /\ Cardinality(seen[l] \cup {f.batch}) <= MaxEntries
      BY <1>1, <2>0, <2>1, <2>2, OneMoreFits, Zenon
    <3>2. QED
      BY <1>1, <3>1, Zenon
  <2>4. seen'[l] \subseteq {g.batch : g \in OfLease(l)}
    BY <1>1, <2>0, Zenon
  <2>5. \A g \in OfLease(l) : g.batch \in seen'[l]
    BY <1>1, <2>0, Zenon
  <2>6. QED
    BY <1>1, <2>3, <2>4, <2>5, Zenon DEF UploadInv
<1>4. ReceiptInv(l)'
  BY <1>1, Zenon DEF LeaseInv, ReceiptInv, SilentInv, ReceiveUpload, Receipts
<1>5. QED
  BY <1>2, <1>3, <1>4, Zenon DEF LeaseInv

\* After the frames, the uploads are counted no more.
LEMMA UploadsOver ==
    ASSUME NEW l \in Connections, UploadInv(l), gate'[l] \notin {"frame", "body"},
           seen'[l] = seen[l] \/ seen'[l] = {}
    PROVE  UploadInv(l)'
BY FS_EmptySet, Zenon DEF UploadInv

\* The cleanup says what it did: a receipt that is published was kept, and one
\* that is shown was both (Gateway.cleanup).
LEMMA CleanupStep ==
    ASSUME ATypeOK, NEW l \in Connections, LeaseInv(l),
           \/ RemoveLeaseTree(l) \/ PersistReceipt(l) \/ CleanupHook(l) \/ PersistUnknown(l)
           \/ Answer(l) \/ Killed(l)
    PROVE  LeaseInv(l)'
<1>1. CASE RemoveLeaseTree(l)
  <2>1. /\ gate[l] = "remove" /\ gate'[l] = "persist"
        /\ \/ receipt'[l] = {"cleaned"} /\ OfLease(l)' = {}
           \/ receipt'[l] = {"pending"}
    BY <1>1, Zenon DEF RemoveLeaseTree, To, Status, ATypeOK, OfLease
  <2>2. /\ receipt[l] = {} /\ kept[l] = {} /\ published[l] = {} /\ shown[l] = {}
    BY <2>1, Zenon DEF LeaseInv, SilentInv
  <2>3. SilentInv(l)'
    BY <1>1, <2>1, <2>2, Zenon DEF SilentInv, RemoveLeaseTree, Before
  <2>4. UploadInv(l)'
    BY <1>1, <2>1, UploadsOver, Zenon DEF LeaseInv, RemoveLeaseTree
  <2>5. ReceiptInv(l)'
    BY <1>1, <2>1, <2>2, Zenon DEF ReceiptInv, RemoveLeaseTree
  <2>6. QED
    BY <2>3, <2>4, <2>5 DEF LeaseInv
<1>2. ASSUME UNCHANGED files
      PROVE  OfLease(l)' = OfLease(l)
  BY <1>2, Zenon DEF OfLease
<1>3. CASE PersistReceipt(l)
  <2>1. /\ gate[l] = "persist" /\ gate'[l] = "publish"
        /\ \/ kept'[l] = receipt[l] /\ receipt' = receipt
           \/ kept' = kept /\ receipt'[l] = {"pending"}
    BY <1>3 DEF PersistReceipt, Persist, To, Status, ATypeOK
  <2>2. /\ kept[l] = {} /\ published[l] = {} /\ shown[l] = {}
        /\ receipt[l] \in ReceiptOf
    BY <2>1, Zenon DEF LeaseInv, SilentInv, ATypeOK
  <2>3. SilentInv(l)'
    BY <1>3, <2>1, <2>2, Zenon DEF SilentInv, PersistReceipt, Before
  <2>4. UploadInv(l)'
    BY <1>3, <2>1, UploadsOver, Zenon DEF LeaseInv, PersistReceipt
  <2>5. ReceiptInv(l)'
    BY <1>2, <1>3, <2>1, <2>2, Zenon DEF LeaseInv, ReceiptInv, PersistReceipt, ReceiptOf
  <2>6. QED
    BY <2>3, <2>4, <2>5 DEF LeaseInv
<1>4. CASE CleanupHook(l)
  <2>1. /\ gate[l] = "publish"
        /\ \/ /\ gate'[l] = "answer" /\ receipt' = receipt /\ published'[l] = receipt[l]
           \/ /\ gate'[l] = "again" /\ receipt'[l] = {"unknown"}
              /\ published'[l] = receipt[l] \/ published'[l] = published[l]
    BY <1>4, Zenon DEF CleanupHook, Publish, To, Status, ATypeOK
  <2>2. /\ published[l] = {} /\ shown[l] = {} /\ receipt[l] \in ReceiptOf
    BY <2>1, Zenon DEF LeaseInv, SilentInv, ATypeOK
  <2>3. SilentInv(l)'
    BY <1>4, <2>1, <2>2, Zenon DEF SilentInv, CleanupHook, Before
  <2>4. UploadInv(l)'
    BY <1>4, <2>1, UploadsOver, Zenon DEF LeaseInv, CleanupHook
  <2>5. ReceiptInv(l)'
    BY <1>2, <1>4, <2>1, <2>2, Zenon DEF LeaseInv, ReceiptInv, CleanupHook, ReceiptOf
  <2>6. QED
    BY <2>3, <2>4, <2>5 DEF LeaseInv
<1>5. CASE PersistUnknown(l)
  <2>1. /\ gate[l] = "again" /\ gate'[l] = "answer"
        /\ kept'[l] = receipt[l] \/ kept'[l] = kept[l]
    BY <1>5 DEF PersistUnknown, Persist, To, ATypeOK
  <2>2. receipt[l] = {"unknown"} /\ shown[l] = {}
    BY <2>1, Zenon DEF LeaseInv, SilentInv, ReceiptInv
  <2>3. SilentInv(l)'
    BY <1>5, <2>1, <2>2, Zenon DEF SilentInv, PersistUnknown, Before
  <2>4. UploadInv(l)'
    BY <1>5, <2>1, UploadsOver, Zenon DEF LeaseInv, PersistUnknown
  <2>5. ReceiptInv(l)'
    BY <1>2, <1>5, <2>1, <2>2, Zenon DEF LeaseInv, ReceiptInv, PersistUnknown
  <2>6. QED
    BY <2>3, <2>4, <2>5 DEF LeaseInv
<1>6. CASE Answer(l)
  <2>1. /\ gate[l] = "answer" /\ gate'[l] = "done" /\ receipt'[l] = {} /\ seen'[l] = {}
        /\ shown'[l] = receipt[l] \/ shown'[l] = {}
    BY <1>6 DEF Answer, Forget, To, ATypeOK
  <2>2. SilentInv(l)'
    BY <2>1, Zenon DEF SilentInv, Before
  <2>3. UploadInv(l)'
    BY <2>1, UploadsOver, Zenon DEF LeaseInv
  <2>4. ReceiptInv(l)'
    BY <1>2, <1>6, <2>1, Zenon DEF LeaseInv, ReceiptInv, Answer
  <2>5. QED
    BY <2>2, <2>3, <2>4 DEF LeaseInv
<1>7. CASE Killed(l)
  <2>1. /\ gate'[l] = "killed" /\ receipt'[l] = {} /\ seen'[l] = {} /\ gate[l] # "done"
    BY <1>7, Zenon DEF Killed, Forget, To, ATypeOK
  <2>2. SilentInv(l)'
    BY <1>7, <2>1, Zenon DEF LeaseInv, SilentInv, Killed, Before
  <2>3. UploadInv(l)'
    BY <2>1, UploadsOver, Zenon DEF LeaseInv
  <2>4. ReceiptInv(l)'
    BY <1>2, <1>7, <2>1, Zenon DEF LeaseInv, ReceiptInv, Killed
  <2>5. QED
    BY <2>2, <2>3, <2>4 DEF LeaseInv
<1>8. QED
  BY <1>1, <1>3, <1>4, <1>5, <1>6, <1>7, Zenon

\* An upload that did not arrive is removed, and the frames end.
LEMMA UploadBreaks ==
    ASSUME ATypeOK, NEW l \in Connections, LeaseInv(l), NEW f \in files, UploadBroken(l, f)
    PROVE  LeaseInv(l)'
<1>1. gate[l] = "body" /\ gate'[l] = "remove"
  BY DEF UploadBroken, To, ATypeOK
<1>2. SilentInv(l)'
  BY <1>1, Zenon DEF LeaseInv, SilentInv, UploadBroken, Receipts, Before
<1>3. UploadInv(l)'
  BY <1>1, UploadsOver, Zenon DEF LeaseInv, UploadBroken
<1>4. ReceiptInv(l)'
  BY <1>1, Zenon DEF LeaseInv, ReceiptInv, SilentInv, UploadBroken, Receipts
<1>5. QED
  BY <1>2, <1>3, <1>4 DEF LeaseInv

\* The gateway's own lease, step by step.
LEMMA GatewayStep ==
    ASSUME ATypeOK, NEW l \in Connections, LeaseInv(l), Gateway(l)
    PROVE  LeaseInv(l)'
<1>1. CASE VerifyExactAttachment(l) \/ ResolveSessionAccount(l) \/ LeaseOffer(l) \/ OpenFrame(l)
  BY <1>1, GatewayMoves DEF VerifyExactAttachment, ResolveSessionAccount, LeaseOffer, OpenFrame, Before
<1>2. CASE CleanupFrame(l) \/ EndOfFrames(l)
  BY <1>2, GatewayMoves DEF CleanupFrame, EndOfFrames, Before
<1>3. QED
  BY <1>1, <1>2, UploadBegins, UploadArrives, UploadBreaks, CleanupStep, Zenon DEF Gateway

-----------------------------------------------------------------------------
\* Whoever reads "cleaned", on disk, at the control plane or with the client,
\* can rely on it, and an acknowledged attachment stays until then, whatever
\* fails and whatever the other connections do (Gateway.cleanup).
THEOREM ReceiptsAreTrue ==
    ASpec => []ReceiptTruth
<1>1. AInit => AInv
  <2>. SUFFICES ASSUME AInit PROVE AInv
    OBVIOUS
  <2>1. ATypeOK
    BY DEF AInit, ATypeOK, Gates, ReceiptOf
  <2>2. ASSUME NEW l \in Connections
        PROVE  LeaseInv(l)
    <3>1. /\ gate[l] = "new" /\ seen[l] = {} /\ OfLease(l) = {}
          /\ receipt[l] = {} /\ kept[l] = {} /\ published[l] = {} /\ shown[l] = {}
      BY DEF AInit, OfLease
    <3>2. IsFiniteSet({})
      BY FS_EmptySet
    <3>3. QED
      BY <3>1, <3>2, Zenon DEF LeaseInv, SilentInv, UploadInv, ReceiptInv
  <2>3. QED
    BY <2>1, <2>2 DEF AInv
<1>2. AInv /\ [ANext]_avars => AInv'
  <2>. SUFFICES ASSUME AInv, [ANext]_avars PROVE AInv'
    OBVIOUS
  <2>1. ASSUME NEW l \in Connections, Gateway(l)
        PROVE  AInv'
    <3>1. ATypeOK'
      BY <2>1, GatewayTypeStep DEF AInv
    <3>2. \A m \in Connections : LeaseInv(m)'
      BY <2>1, GatewayStep, OthersKept DEF AInv
    <3>3. QED
      BY <3>1, <3>2 DEF AInv
  <2>2. CASE UNCHANGED avars
    <3>1. ATypeOK'
      BY <2>2 DEF AInv, ATypeOK, avars
    <3>2. \A m \in Connections : LeaseInv(m)'
      BY <2>2, OwnSuffices, Zenon DEF AInv, avars, OfLease
    <3>3. QED
      BY <3>1, <3>2, Zenon DEF AInv
  <2>3. QED
    BY <2>1, <2>2 DEF ANext
<1>3. AInv => ReceiptTruth
  BY Zenon DEF AInv, LeaseInv, UploadInv, ReceiptInv, ReceiptTruth
<1>4. QED
  BY <1>1, <1>2, <1>3, PTL DEF ASpec

-----------------------------------------------------------------------------
(***************************************************************************)
(* A live bridge owns its socket path and a stopped one relays nothing,    *)
(* for every set of activations, sessions and connections.                 *)
(*                                                                         *)
(* The path is removed by its name, so it matters that at most one bridge  *)
(* is still at work (LoopInv): a task listens only when the table is empty *)
(* and whom it stopped has ended (TaskInv).  A connection that is entered  *)
(* after the listener was closed has no end that the stop closed; DialInv  *)
(* says that it gets no further than the request for its material.         *)
(***************************************************************************)

Bridges == [act : SUBSET Activations, loop : {"none", "accept", "enter", "done"},
            listening : BOOLEAN, cancelled : BOOLEAN, watching : BOOLEAN]
Handled == {"hello", "register", "answer", "open", "opening", "write", "relay"}
Connected == [to : SUBSET Sessions, do : {"none", "backlog", "accepted", "ended"} \cup Handled,
              known : BOOLEAN, local : BOOLEAN, remote : BOOLEAN]
BridgeTasks == [kind : {"none", "activate", "deactivate", "stop"}, act : Activations,
                do : {"none", "clear", "manifest", "unbridged", "find", "stop", "stopped", "listen"},
                keys : SUBSET Sessions, stopping : SUBSET Sessions]

BridgeTypes ==
    /\ bridge \in [Sessions -> Bridges] /\ table \in SUBSET Sessions
    /\ dial \in [Dials -> Connected] /\ task \in BridgeTasks

Started(s) == bridge[s].loop # "none"
Alive(s) == bridge[s].loop \in {"accept", "enter"}

\* A task that starts a bridge has stopped every other one.
TaskInv ==
    /\ task.do # "none" => task.kind # "none"
    /\ task.do = "stop" => task.keys \subseteq table /\ (task.kind = "activate" => task.keys = table)
    /\ task.do = "listen" => task.kind = "activate" /\ table = {}
    /\ task.stopping # {} => task.do = "stop" /\ table = {}

LoopInv ==
    /\ \A s \in Sessions :
          /\ Alive(s) => s \in table \cup task.stopping
          /\ bridge[s].loop = "done" => bridge[s].cancelled
          /\ bridge[s].listening => Alive(s)
          /\ Started(s) /\ ~bridge[s].listening => bridge[s].cancelled
          /\ bridge[s].cancelled => Started(s)
          /\ Alive(s) /\ ~bridge[s].cancelled => socket = {s}
    /\ \A s, t \in Sessions : Alive(s) /\ Alive(t) => s = t
    /\ \A s, t \in table : s = t
    /\ \A s \in table : Started(s)
    /\ socket # {} => \E s \in Sessions : socket = {s} /\ Started(s)

\* What a connection d may be at.
Sound(d) ==
    /\ d.do # "none" => \E s \in Sessions : d.to = {s} /\ Started(s)
    /\ d.do \in Handled <=> d.known
    /\ d.remote => d.do \in {"write", "relay"}
    /\ d.local /\ d.do \in Handled \ {"hello", "register"} => \A s \in d.to : bridge[s].listening

DialInv == \A c \in Dials : Sound(dial[c])

BridgeInv == BridgeTypes /\ TaskInv /\ LoopInv /\ DialInv

-----------------------------------------------------------------------------
(* Frames.                                                                 *)

LEMMA NoTaskType ==
    NoTask \in BridgeTasks /\ NoTask.do = "none" /\ NoTask.kind = "none" /\ NoTask.keys = {} /\ NoTask.stopping = {}
  BY BridgeAssumption, Zenon DEF NoTask, BridgeTasks

LEMMA DialsLast ==
  ASSUME \A s \in Sessions : (Started(s) => Started(s)') /\ (bridge[s].listening => bridge'[s].listening),
         dial' \in [Dials -> Connected],
         \A c \in Dials : Sound(dial'[c])
  PROVE  DialInv'
  <1> SUFFICES ASSUME NEW c \in Dials PROVE Sound(dial[c])'
    BY Zenon DEF DialInv
  <1>1. dial'[c].to \subseteq Sessions
    BY Zenon DEF Connected
  <1> QED BY <1>1, Zenon DEF Sound

\* The task moves, and no bridge does.
LEMMA TaskMoves ==
  ASSUME BridgeInv, UNCHANGED <<bridge, table, socket, dial>>,
         task' \in BridgeTasks, TaskInv', task'.stopping = task.stopping
  PROVE  BridgeInv'
  <1>1. BridgeTypes'
    BY DEF BridgeInv, BridgeTypes
  <1>2. LoopInv'
    BY Zenon DEF BridgeInv, LoopInv, Alive, Started
  <1>3. DialInv'
    BY DEF BridgeInv, DialInv, Sound, Started
  <1> QED BY <1>1, <1>2, <1>3 DEF BridgeInv

\* The task ends, before it stopped anything or after.
LEMMA TaskEnds ==
  ASSUME BridgeInv, UNCHANGED <<bridge, table, socket, dial>>, EndTask, task.do # "stop"
  PROVE  BridgeInv'
  <1>1. task.stopping = {} /\ TaskInv'
    BY NoTaskType DEF BridgeInv, BridgeTypes, BridgeTasks, TaskInv, EndTask
  <1> QED BY <1>1, NoTaskType, TaskMoves, Zenon DEF EndTask

LEMMA TaskGoes ==
  ASSUME BridgeInv, UNCHANGED <<bridge, table, socket, dial>>, task.do \notin {"stop", "none"},
         NEW step \in {"clear", "manifest", "unbridged", "find"}, TaskTo(step)
  PROVE  BridgeInv'
  <1>1. task' \in BridgeTasks /\ task'.stopping = task.stopping /\ task'.kind = task.kind /\ task'.do = step
    BY DEF BridgeInv, BridgeTypes, BridgeTasks, TaskTo
  <1>2. TaskInv'
    BY <1>1, Zenon DEF BridgeInv, TaskInv
  <1> QED BY <1>1, <1>2, TaskMoves, Zenon

\* One connection moves, and nothing else does.
LEMMA DialMoves ==
  ASSUME BridgeInv, Settled, NEW c \in Dials, NEW d \in Connected, dial' = [dial EXCEPT ![c] = d], Sound(d)
  PROVE  BridgeInv'
  <1>1. BridgeTypes'
    BY DEF BridgeInv, BridgeTypes, Settled
  <1>2. LoopInv' /\ TaskInv'
    BY Zenon DEF BridgeInv, LoopInv, TaskInv, Alive, Started, Settled
  <1>3. \A e \in Dials : Sound(dial'[e])
    BY DEF BridgeInv, BridgeTypes, DialInv
  <1>4. DialInv'
    BY <1>1, <1>3, DialsLast DEF BridgeTypes, Settled, Started
  <1> QED BY <1>1, <1>2, <1>4 DEF BridgeInv

LEMMA HangupKeeps ==
  ASSUME BridgeInv, Settled, NEW c \in Dials, Hangup(c), dial[c].do # "none"
  PROVE  BridgeInv'
  <1> DEFINE d == [dial[c] EXCEPT !.do = "ended", !.known = FALSE, !.local = FALSE, !.remote = FALSE]
  <1>1. dial' = [dial EXCEPT ![c] = d] /\ dial[c] \in Connected /\ Sound(dial[c])
    BY Zenon DEF Hangup, BridgeInv, BridgeTypes, DialInv
  <1>2. d \in Connected /\ d.do = "ended" /\ d.to = dial[c].to /\ ~d.known /\ ~d.local /\ ~d.remote
    BY <1>1, Zenon DEF Connected
  <1> HIDE DEF d
  <1>3. Sound(d)
    BY <1>1, <1>2, Zenon DEF Sound, Handled
  <1> QED BY <1>1, <1>2, <1>3, DialMoves, Zenon

LEMMA DialToKeeps ==
  ASSUME BridgeInv, Settled, NEW c \in Dials, NEW step \in Handled, DialTo(c, step), dial[c].do \in Handled,
         dial[c].remote => step \in {"write", "relay"},
         dial[c].local /\ step \notin {"hello", "register"} => \A s \in dial[c].to : bridge[s].listening
  PROVE  BridgeInv'
  <1> DEFINE d == [dial[c] EXCEPT !.do = step]
  <1>1. dial' = [dial EXCEPT ![c] = d] /\ dial[c] \in Connected /\ Sound(dial[c])
    BY DEF DialTo, BridgeInv, BridgeTypes, DialInv
  <1>2. d \in Connected /\ d.do = step /\ d.to = dial[c].to /\ d.known = dial[c].known
        /\ d.local = dial[c].local /\ d.remote = dial[c].remote
    BY <1>1 DEF Connected
  <1> HIDE DEF d
  <1>3. Sound(d)
    BY <1>1, <1>2, Zenon DEF Sound, Handled
  <1> QED BY <1>1, <1>2, <1>3, DialMoves, Zenon

-----------------------------------------------------------------------------
(* Tasks.                                                                  *)

LEMMA BeginTaskKeeps ==
  ASSUME BridgeInv, BeginTask
  PROVE  BridgeInv'
  <1>1. task' \in BridgeTasks /\ task'.stopping = {} /\ task'.kind # "none" /\ task'.do \in {"clear", "find"}
    BY NoTaskType, Zenon DEF BeginTask, DecodeActivatePayload, DecodeDeactivatePayload, StopToolSession, BridgeTasks
  <1>2. TaskInv'
    BY <1>1, Zenon DEF TaskInv
  <1>3. task.stopping = {}
    BY DEF BeginTask, BridgeInv, TaskInv
  <1> QED BY <1>1, <1>2, <1>3, TaskMoves, Zenon DEF BeginTask

LEMMA UpdateContextKeeps ==
  ASSUME BridgeInv, NEW act \in Activations, UpdateContext(act)
  PROVE  BridgeInv'
  <1>1. UNCHANGED <<bridge, table, socket, dial, task>> /\ task \in BridgeTasks
    BY DEF UpdateContext, BridgeInv, BridgeTypes
  <1>2. TaskInv'
    BY <1>1, Zenon DEF BridgeInv, TaskInv
  <1> QED BY <1>1, <1>2, TaskMoves, Zenon

LEMMA ContextKeeps ==
  ASSUME BridgeInv, ClearContext \/ Activate \/ Deactivate
  PROVE  BridgeInv'
  <1>1. UNCHANGED <<bridge, table, socket, dial>> /\ task.do \in {"clear", "manifest", "unbridged"}
    BY DEF ClearContext, Activate, Deactivate
  <1>2. EndTask \/ \E step \in {"clear", "manifest", "unbridged", "find"} : TaskTo(step)
    BY DEF ClearContext, Activate, Deactivate
  <1> QED BY <1>1, <1>2, TaskEnds, TaskGoes, Zenon

LEMMA FindSessionsKeeps ==
  ASSUME BridgeInv, FindSessions
  PROVE  BridgeInv'
  <1>1. UNCHANGED <<bridge, table, socket, dial>> /\ task.do = "find" /\ task \in BridgeTasks /\ table \subseteq Sessions
    BY DEF FindSessions, BridgeInv, BridgeTypes
  <1>2. CASE EndTask
    BY <1>1, <1>2, TaskEnds, Zenon
  <1>3. ASSUME NEW K \in SUBSET table, K = table \/ task.kind = "deactivate",
               task' = [task EXCEPT !.do = "stop", !.keys = K]
        PROVE  BridgeInv'
    <2>1. task' \in BridgeTasks /\ task'.stopping = task.stopping /\ task'.kind = task.kind /\ task'.do = "stop"
          /\ task'.keys = K
      BY <1>1, <1>3, Zenon DEF BridgeTasks
    <2>2. TaskInv'
      BY <1>1, <1>3, <2>1, Zenon DEF BridgeInv, TaskInv
    <2> QED BY <1>1, <2>1, <2>2, TaskMoves
  <1>4. StopThroughKeys \in SUBSET table /\ table \in SUBSET table
    BY DEF StopThroughKeys
  <1> QED BY <1>2, <1>3, <1>4, Zenon DEF FindSessions

LEMMA AwaitDoneKeeps ==
  ASSUME BridgeInv, AwaitDone
  PROVE  BridgeInv'
  <1>1. /\ UNCHANGED <<bridge, table, socket, dial>> /\ task.do = "stop" /\ task \in BridgeTasks
        /\ \A s \in task.stopping : ~Alive(s)
    BY DEF AwaitDone, BridgeInv, BridgeTypes, Alive
  <1>2. task.kind \in {"activate", "deactivate", "stop"}
    BY <1>1 DEF BridgeInv, TaskInv, BridgeTasks
  <1>3. AfterStops \in {"listen", "clear", "stopped"} /\ (AfterStops = "listen" => task.kind = "activate")
    BY <1>2 DEF AfterStops
  <1>4. /\ task' \in BridgeTasks /\ task'.stopping = {} /\ task'.kind = task.kind /\ task'.keys = task.keys
        /\ task'.do = IF task.keys = {} THEN AfterStops ELSE "stop"
    BY <1>1, <1>3, Zenon DEF AwaitDone, BridgeTasks
  <1>5. TaskInv'
    BY <1>1, <1>2, <1>3, <1>4, Zenon DEF BridgeInv, TaskInv
  <1>6. LoopInv'
    BY <1>1, <1>4, Zenon DEF BridgeInv, BridgeTypes, LoopInv, Alive, Started
  <1>7. BridgeTypes' /\ DialInv'
    BY <1>1, <1>4, Zenon DEF BridgeInv, BridgeTypes, DialInv, Sound, Started
  <1> QED BY <1>5, <1>6, <1>7 DEF BridgeInv

LEMMA EndStopTaskKeeps ==
  ASSUME BridgeInv, EndStopTask
  PROVE  BridgeInv'
  BY TaskEnds DEF EndStopTask

LEMMA HungUpKnown ==
  ASSUME NEW s, NEW c \in Dials, dial[c].to = {s}, dial[c].known, dial[c].do # "backlog"
  PROVE  HungUp(s)[c] = [dial[c] EXCEPT !.local = FALSE]
  BY DEF HungUp

\* Closing the listener of s hangs up what s knows of, and what it did not accept.
LEMMA HaltKeeps ==
  ASSUME BridgeInv, NEW s \in Sessions, Started(s), bridge' \in [Sessions -> Bridges],
         \A t \in Sessions : /\ bridge'[t].loop = bridge[t].loop
                             /\ t # s => bridge'[t] = bridge[t],
         ~bridge'[s].listening, bridge'[s].cancelled, socket' = Unlinked(s), dial' = HungUp(s),
         task' \in BridgeTasks, table' \in SUBSET table, TaskInv',
         \A t \in Sessions : Alive(t) => t \in table' \cup task'.stopping
  PROVE  BridgeInv'
  <1>1. \A t \in Sessions : (Alive(t) <=> Alive(t)') /\ (Started(t) <=> Started(t)')
    BY Zenon DEF Alive, Started
  <1>2. LoopInv'
    <2>1. \A t \in Sessions : t # s /\ Alive(t) /\ ~bridge[t].cancelled => socket' = {t}
      BY Zenon DEF BridgeInv, LoopInv, Unlinked
    <2>2. socket' # {} => \E t \in Sessions : socket' = {t} /\ Started(t)'
      BY <1>1, Zenon DEF BridgeInv, LoopInv, Unlinked
    <2>3. (\A t, u \in table' : t = u) /\ (\A t \in table' : Started(t)')
      BY <1>1, Zenon DEF BridgeInv, BridgeTypes, LoopInv
    <2> QED BY <1>1, <2>1, <2>2, <2>3, Zenon DEF BridgeInv, LoopInv
  <1>3. ASSUME NEW c \in Dials
        PROVE  dial'[c] \in Connected /\ Sound(dial[c])'
    <2> DEFINE d == dial[c]
    <2>1. d \in Connected /\ Sound(d)
      BY Zenon DEF BridgeInv, BridgeTypes, DialInv
    <2>2. CASE d.to = {s} /\ d.known
      <3>1. dial'[c] = [dial[c] EXCEPT !.local = FALSE]
        BY <2>1, <2>2, HungUpKnown DEF Sound, Handled
      <3>2. dial'[c] \in Connected /\ dial'[c].to = d.to /\ dial'[c].do = d.do /\ dial'[c].known = d.known
            /\ ~dial'[c].local /\ dial'[c].remote = d.remote
        BY <2>1, <3>1, Zenon DEF Connected
      <3> QED BY <1>1, <2>1, <3>2, Zenon DEF Sound
    <2>3. CASE d.to = {s} /\ ~d.known /\ d.do = "backlog" /\ bridge[s].listening
      <3>1. dial'[c] = [d EXCEPT !.do = "ended", !.local = FALSE]
        BY <2>3, Zenon DEF HungUp
      <3>2. dial'[c] \in Connected /\ dial'[c].to = d.to /\ dial'[c].do = "ended" /\ dial'[c].known = d.known
            /\ ~dial'[c].local /\ dial'[c].remote = d.remote
        BY <2>1, <3>1, Zenon DEF Connected
      <3> QED BY <1>1, <2>1, <2>3, <3>2, Zenon DEF Sound, Handled
    <2>4. CASE dial'[c] = d /\ ~(d.to = {s} /\ d.known)
      <3>1. d.do \in Handled => d.to # {s}
        BY <2>1, <2>4, Zenon DEF Sound
      <3>2. d.do \in Handled => d.do # "none"
        BY Zenon DEF Handled
      <3>3. d.do \in Handled => \A t \in d.to : t \in Sessions /\ bridge'[t] = bridge[t]
        BY <2>1, <3>1, <3>2, Zenon DEF Sound
      <3> QED BY <1>1, <2>1, <2>4, <3>3, Zenon DEF Sound
    <2> QED BY <2>2, <2>3, <2>4, Zenon DEF HungUp
  <1>4. BridgeTypes'
    BY <1>3, Zenon DEF BridgeInv, BridgeTypes, HungUp
  <1> QED BY <1>2, <1>3, <1>4, Zenon DEF BridgeInv, DialInv

LEMMA HaltedType ==
  ASSUME BridgeInv, NEW s \in Sessions
  PROVE  /\ Halted(s) \in [Sessions -> Bridges]
         /\ \A t \in Sessions : Halted(s)[t].loop = bridge[t].loop /\ (t # s => Halted(s)[t] = bridge[t])
         /\ ~Halted(s)[s].listening /\ Halted(s)[s].cancelled
  <1> DEFINE b == [bridge[s] EXCEPT !.listening = FALSE, !.cancelled = TRUE]
  <1>1. bridge \in [Sessions -> Bridges] /\ bridge[s] \in Bridges
    BY DEF BridgeInv, BridgeTypes
  <1>2. b \in Bridges /\ b.loop = bridge[s].loop /\ ~b.listening /\ b.cancelled
    BY <1>1, Zenon DEF Bridges
  <1>3. Halted(s) = [bridge EXCEPT ![s] = b]
    BY <1>1, Zenon DEF Halted
  <1> HIDE DEF b
  <1> QED BY <1>1, <1>2, <1>3

LEMMA StopKeeps ==
  ASSUME BridgeInv, NEW s \in Sessions, Stop(s)
  PROVE  BridgeInv'
  <1>1. task.do = "stop" /\ s \in task.keys /\ task.stopping = {} /\ task \in BridgeTasks
        /\ table' = table \ {s} /\ s \in table
    BY DEF Stop, BridgeInv, BridgeTypes, TaskInv
  <1>2. /\ task' \in BridgeTasks /\ task'.stopping = {s} /\ task'.kind = task.kind /\ task'.do = "stop"
        /\ task'.keys = task.keys \ {s}
    BY <1>1, Zenon DEF Stop, BridgeTasks
  <1>3. table' = {}
    BY <1>1, Zenon DEF BridgeInv, LoopInv
  <1>4. TaskInv'
    BY <1>1, <1>2, <1>3, Zenon DEF BridgeInv, TaskInv
  <1>5. Started(s) /\ \A t \in Sessions : Alive(t) => t \in table' \cup task'.stopping
    BY <1>1, <1>2, Zenon DEF BridgeInv, LoopInv
  <1> QED BY <1>1, <1>2, <1>4, <1>5, HaltedType, HaltKeeps DEF Stop

LEMMA WatchKeeps ==
  ASSUME BridgeInv, NEW s \in Sessions, Watch(s)
  PROVE  BridgeInv'
  <1> DEFINE h == Halted(s)
  <1>1. h \in [Sessions -> Bridges] /\ bridge' = [h EXCEPT ![s].watching = FALSE]
    BY HaltedType DEF Watch
  <1>2. h[s] \in Bridges
    BY <1>1
  <1>3. LET b == [h[s] EXCEPT !.watching = FALSE] IN
        b \in Bridges /\ b.loop = h[s].loop /\ b.listening = h[s].listening /\ b.cancelled = h[s].cancelled
    BY <1>2, Zenon DEF Bridges
  <1>4. /\ bridge' \in [Sessions -> Bridges]
        /\ \A t \in Sessions : bridge'[t].loop = bridge[t].loop /\ (t # s => bridge'[t] = bridge[t])
        /\ ~bridge'[s].listening /\ bridge'[s].cancelled
    BY <1>1, <1>3, HaltedType, Zenon
  <1>5. task' = task /\ table' = table /\ task \in BridgeTasks /\ table \in SUBSET table
    BY DEF Watch, BridgeInv, BridgeTypes
  <1>6. TaskInv' /\ \A t \in Sessions : Alive(t) => t \in table' \cup task'.stopping
    BY <1>5, Zenon DEF BridgeInv, TaskInv, LoopInv
  <1>7. Started(s)
    BY DEF Watch, BridgeInv, LoopInv
  <1> QED BY <1>4, <1>5, <1>6, <1>7, HaltKeeps, Zenon DEF Watch

LEMMA ListenKeeps ==
  ASSUME BridgeInv, NEW s \in Sessions, Listen(s)
  PROVE  BridgeInv'
  <1> DEFINE b == [act |-> {task.act}, loop |-> "accept", listening |-> TRUE, cancelled |-> FALSE, watching |-> TRUE]
  <1>1. task.do = "listen" /\ task.stopping = {} /\ table = {} /\ table' = {s} /\ socket' = {s} /\ dial' = dial
        /\ task' = NoTask /\ ~Started(s)
    BY Zenon DEF Listen, EndTask, BridgeInv, TaskInv, Started
  <1>2. \A t \in Sessions : ~Alive(t)
    BY <1>1, Zenon DEF BridgeInv, LoopInv
  <1>3. b \in Bridges
    BY Zenon DEF BridgeInv, BridgeTypes, BridgeTasks, Bridges
  <1>4. bridge' = [bridge EXCEPT ![s] = b] /\ b.loop = "accept" /\ b.listening /\ ~b.cancelled
    BY DEF Listen
  <1> HIDE DEF b
  <1>5. BridgeTypes'
    BY <1>1, <1>3, <1>4, NoTaskType, Zenon DEF BridgeInv, BridgeTypes
  <1>6. TaskInv'
    BY <1>1, NoTaskType, Zenon DEF TaskInv
  <1>7. bridge'[s] = b /\ \A t \in Sessions : t # s => bridge'[t] = bridge[t]
    BY <1>4 DEF BridgeInv, BridgeTypes
  <1>8. Alive(s)' /\ Started(s)' /\ bridge'[s].listening /\ ~bridge'[s].cancelled
        /\ \A t \in Sessions : t # s => (Started(t)' <=> Started(t)) /\ ~Alive(t)'
    BY <1>2, <1>4, <1>7, Zenon DEF Alive, Started
  <1>9. LoopInv'
    <2>1. ASSUME NEW t \in Sessions
          PROVE  /\ Alive(t)' => t \in table' \cup task'.stopping
                 /\ bridge'[t].loop = "done" => bridge'[t].cancelled
                 /\ bridge'[t].listening => Alive(t)'
                 /\ Started(t)' /\ ~bridge'[t].listening => bridge'[t].cancelled
                 /\ bridge'[t].cancelled => Started(t)'
                 /\ Alive(t)' /\ ~bridge'[t].cancelled => socket' = {t}
      <3>1. CASE t = s
        BY <1>1, <1>4, <1>7, <1>8, <3>1, Zenon
      <3>2. CASE t # s
        BY <1>2, <1>7, <1>8, <3>2, Zenon DEF BridgeInv, LoopInv
      <3> QED BY <3>1, <3>2, Zenon
    <2>2. (\A t, u \in Sessions : Alive(t)' /\ Alive(u)' => t = u) /\ (\A t, u \in table' : t = u)
          /\ (\A t \in table' : Started(t)') /\ socket' = {s}
      BY <1>1, <1>8, Zenon
    <2> QED BY <1>8, <2>1, <2>2, Zenon DEF LoopInv
  <1>10. DialInv'
    BY <1>1, <1>5, <1>7, <1>8, DialsLast, Zenon DEF BridgeInv, BridgeTypes, DialInv
  <1> QED BY <1>5, <1>6, <1>9, <1>10 DEF BridgeInv

LEMMA ListenFailsKeeps ==
  ASSUME BridgeInv, ListenFails
  PROVE  BridgeInv'
  <1>1. task.do = "listen" /\ task.stopping = {} /\ table = {} /\ table' = {} /\ socket' \in {socket, {}}
        /\ task' = NoTask /\ UNCHANGED <<bridge, dial>>
    BY Zenon DEF ListenFails, EndTask, BridgeInv, TaskInv
  <1>2. \A t \in Sessions : ~Alive(t)
    BY <1>1, Zenon DEF BridgeInv, LoopInv
  <1>3. BridgeTypes' /\ TaskInv'
    BY <1>1, NoTaskType, Zenon DEF BridgeInv, BridgeTypes, TaskInv
  <1>4. LoopInv'
    BY <1>1, <1>2, NoTaskType, Zenon DEF BridgeInv, LoopInv, Alive, Started
  <1>5. DialInv'
    BY <1>1, Zenon DEF BridgeInv, DialInv, Sound, Started
  <1> QED BY <1>3, <1>4, <1>5 DEF BridgeInv

-----------------------------------------------------------------------------
(* The goroutines of a bridge.                                             *)

\* A bridge moves on and keeps its listener.
LEMMA LoopMoves ==
  ASSUME BridgeInv, NEW s \in Sessions, NEW b \in Bridges, bridge' = [bridge EXCEPT ![s] = b],
         b.listening = bridge[s].listening, Started(s), b.loop # "none", bridge[s].cancelled => b.cancelled,
         b.loop = "done" => b.cancelled /\ ~b.listening,
         b.loop \in {"accept", "enter"} => Alive(s),
         socket' = socket \/ (socket' = {} /\ b.loop = "done" /\ Alive(s)),
         UNCHANGED <<table, task>>, dial' \in [Dials -> Connected], \A c \in Dials : Sound(dial'[c])
  PROVE  BridgeInv'
  <1>1. bridge'[s] = b /\ (\A t \in Sessions : t # s => bridge'[t] = bridge[t]) /\ bridge' \in [Sessions -> Bridges]
    BY Zenon DEF BridgeInv, BridgeTypes
  <1>2. /\ \A t \in Sessions : (Started(t)' <=> Started(t)) /\ (Alive(t)' => Alive(t))
        /\ Alive(s)' <=> b.loop \in {"accept", "enter"}
    BY <1>1 DEF Alive, Started
  <1>3. BridgeTypes' /\ TaskInv'
    BY <1>1, Zenon DEF BridgeInv, BridgeTypes, TaskInv
  <1>4. DialInv'
    BY <1>1, <1>2, DialsLast
  <1>5. ASSUME NEW t \in Sessions
        PROVE  /\ Alive(t)' => t \in table' \cup task'.stopping
               /\ bridge'[t].loop = "done" => bridge'[t].cancelled
               /\ bridge'[t].listening => Alive(t)'
               /\ Started(t)' /\ ~bridge'[t].listening => bridge'[t].cancelled
               /\ bridge'[t].cancelled => Started(t)'
               /\ Alive(t)' /\ ~bridge'[t].cancelled => socket' = {t}
    <2>1. CASE t = s
      <3>1. b.listening => b.loop \in {"accept", "enter"}
        BY DEF Bridges
      <3> QED BY <1>1, <1>2, <2>1, <3>1, Zenon DEF BridgeInv, LoopInv, Alive
    <2>2. CASE t # s
      BY <1>1, <1>2, <2>2, Zenon DEF BridgeInv, LoopInv, Alive
    <2> QED BY <2>1, <2>2, Zenon
  <1>6. (\A t, u \in Sessions : Alive(t)' /\ Alive(u)' => t = u) /\ (\A t, u \in table' : t = u)
        /\ (\A t \in table' : Started(t)')
        /\ (socket' # {} => \E t \in Sessions : socket' = {t} /\ Started(t)')
    BY <1>2, Zenon DEF BridgeInv, BridgeTypes, LoopInv
  <1>7. LoopInv'
    BY <1>5, <1>6, Zenon DEF LoopInv
  <1> QED BY <1>3, <1>4, <1>7, Zenon DEF BridgeInv

LEMMA ExpireKeeps ==
  ASSUME BridgeInv, NEW s \in Sessions, Expire(s)
  PROVE  BridgeInv'
  <1> DEFINE b == [bridge[s] EXCEPT !.cancelled = TRUE]
  <1>1. bridge[s] \in Bridges /\ bridge' = [bridge EXCEPT ![s] = b] /\ Started(s) /\ dial' = dial /\ socket' = socket
        /\ UNCHANGED <<table, task>>
    BY DEF Expire, BridgeInv, BridgeTypes, Started
  <1>2. b \in Bridges /\ b.loop = bridge[s].loop /\ b.listening = bridge[s].listening /\ b.cancelled
    BY <1>1, Zenon DEF Bridges
  <1> HIDE DEF b
  <1>3. (b.loop = "done" => ~b.listening) /\ (b.loop \in {"accept", "enter"} => Alive(s)) /\ b.loop # "none"
    BY <1>1, <1>2, Zenon DEF BridgeInv, LoopInv, Alive, Started
  <1>4. dial' \in [Dials -> Connected] /\ \A c \in Dials : Sound(dial'[c])
    BY <1>1 DEF BridgeInv, BridgeTypes, DialInv
  <1> QED BY <1>1, <1>2, <1>3, <1>4, LoopMoves, Zenon

LEMMA AcceptKeeps ==
  ASSUME BridgeInv, NEW s \in Sessions, NEW c \in Dials, Accept(s, c)
  PROVE  BridgeInv'
  <1> DEFINE b == [bridge[s] EXCEPT !.loop = "enter"]
             d == [dial[c] EXCEPT !.do = "accepted"]
  <1>1. bridge[s] \in Bridges /\ bridge' = [bridge EXCEPT ![s] = b] /\ Started(s) /\ Alive(s) /\ socket' = socket
        /\ UNCHANGED <<table, task>>
    BY DEF Accept, BridgeInv, BridgeTypes, Started, Alive
  <1>2. b \in Bridges /\ b.loop = "enter" /\ b.listening = bridge[s].listening /\ b.cancelled = bridge[s].cancelled
    BY <1>1 DEF Bridges
  <1>3. dial[c] \in Connected /\ Sound(dial[c]) /\ dial[c].do = "backlog" /\ dial' = [dial EXCEPT ![c] = d]
    BY DEF Accept, BridgeInv, BridgeTypes, DialInv
  <1>4. d \in Connected /\ d.do = "accepted" /\ d.to = dial[c].to /\ d.known = dial[c].known /\ d.remote = dial[c].remote
    BY <1>3 DEF Connected
  <1> HIDE DEF b, d
  <1>5. Sound(d)
    BY <1>3, <1>4, Zenon DEF Sound, Handled
  <1>6. dial' \in [Dials -> Connected] /\ \A e \in Dials : Sound(dial'[e])
    BY <1>3, <1>4, <1>5 DEF BridgeInv, BridgeTypes, DialInv
  <1> QED BY <1>1, <1>2, <1>6, LoopMoves, Zenon

LEMMA EnterKeeps ==
  ASSUME BridgeInv, NEW s \in Sessions, NEW c \in Dials, Enter(s, c)
  PROVE  BridgeInv'
  <1> DEFINE b == [bridge[s] EXCEPT !.loop = "accept"]
             d == [dial[c] EXCEPT !.do = "hello", !.known = TRUE]
  <1>1. bridge[s] \in Bridges /\ bridge' = [bridge EXCEPT ![s] = b] /\ Started(s) /\ Alive(s) /\ socket' = socket
        /\ UNCHANGED <<table, task>>
    BY DEF Enter, BridgeInv, BridgeTypes, Started, Alive
  <1>2. b \in Bridges /\ b.loop = "accept" /\ b.listening = bridge[s].listening /\ b.cancelled = bridge[s].cancelled
    BY <1>1 DEF Bridges
  <1>3. dial[c] \in Connected /\ Sound(dial[c]) /\ dial[c].do = "accepted" /\ dial' = [dial EXCEPT ![c] = d]
    BY Zenon DEF Enter, BridgeInv, BridgeTypes, DialInv
  <1>4. d \in Connected /\ d.do = "hello" /\ d.to = dial[c].to /\ d.known /\ d.remote = dial[c].remote
    BY <1>3, Zenon DEF Connected, Handled
  <1> HIDE DEF b, d
  <1>5. Sound(d)
    BY <1>3, <1>4, Zenon DEF Sound, Handled
  <1>6. dial' \in [Dials -> Connected] /\ \A e \in Dials : Sound(dial'[e])
    BY <1>3, <1>4, <1>5, Zenon DEF BridgeInv, BridgeTypes, DialInv
  <1> QED BY <1>1, <1>2, <1>6, LoopMoves, Zenon

LEMMA EndLoopKeeps ==
  ASSUME BridgeInv, NEW s \in Sessions, EndLoop(s)
  PROVE  BridgeInv'
  <1> DEFINE b == [bridge[s] EXCEPT !.loop = "done", !.cancelled = TRUE]
  <1>1. bridge[s] \in Bridges /\ bridge' = [bridge EXCEPT ![s] = b] /\ Started(s) /\ Alive(s) /\ dial' = dial /\ socket' = {}
        /\ UNCHANGED <<table, task>> /\ ~bridge[s].listening
    BY Zenon DEF EndLoop, BridgeInv, BridgeTypes, Started, Alive
  <1>2. b \in Bridges /\ b.loop = "done" /\ b.listening = bridge[s].listening /\ b.cancelled
    BY <1>1, Zenon DEF Bridges
  <1> HIDE DEF b
  <1>3. dial' \in [Dials -> Connected] /\ \A c \in Dials : Sound(dial'[c])
    BY <1>1 DEF BridgeInv, BridgeTypes, DialInv
  <1> QED BY <1>1, <1>2, <1>3, LoopMoves, Zenon

-----------------------------------------------------------------------------
(* One connection.                                                         *)

LEMMA ConnectKeeps ==
  ASSUME BridgeInv, NEW c \in Dials, Connect(c)
  PROVE  BridgeInv'
  <1> DEFINE d == [to |-> socket, do |-> "backlog", known |-> FALSE, local |-> TRUE, remote |-> FALSE]
  <1>1. PICK s \in Sessions : socket = {s} /\ Started(s)
    BY Zenon DEF Connect, BridgeInv, LoopInv
  <1>2. d \in Connected /\ Sound(d)
    BY <1>1 DEF Connected, Sound, Handled
  <1> QED BY <1>2, DialMoves, Zenon DEF Connect

LEMMA SessionIsOf ==
  ASSUME BridgeInv, NEW c \in Dials, dial[c].do \in Handled
  PROVE  SessionOf(c) \in Sessions /\ dial[c].to = {SessionOf(c)} /\ Started(SessionOf(c))
  <1>1. PICK s \in Sessions : dial[c].to = {s} /\ Started(s)
    BY Zenon DEF BridgeInv, DialInv, Sound, Handled
  <1>2. SessionOf(c) = s
    BY <1>1 DEF SessionOf
  <1> QED BY <1>1, <1>2, Zenon

\* The handler of a connection goes on, or hangs up.
LEMMA HandlerKeeps ==
  ASSUME BridgeInv, NEW c \in Dials,
         Hello(c) \/ AwaitRelayMaterial(c) \/ MaterialAnswer(c) \/ OpenDeviceRelay(c) \/ WriteBridgeFrame(c)
           \/ CopyOpaqueRelay(c)
  PROVE  BridgeInv'
  <1>1. Settled /\ dial[c].do \in Handled
    BY Zenon DEF Hello, AwaitRelayMaterial, MaterialAnswer, OpenDeviceRelay, WriteBridgeFrame, CopyOpaqueRelay, Handled
  <1>2. CASE Hangup(c)
    BY <1>1, <1>2, HangupKeeps, Zenon DEF Handled
  <1>3. Sound(dial[c])
    BY DEF BridgeInv, DialInv
  <1>4. CASE DialTo(c, "register") /\ dial[c].do \in {"hello", "answer"}
    BY <1>1, <1>3, <1>4, DialToKeeps, Zenon DEF Handled, Sound
  <1>5. CASE DialTo(c, "answer") /\ dial[c].do = "register" /\ ~bridge[SessionOf(c)].cancelled
    <2>1. \A s \in dial[c].to : bridge[s].listening
      BY <1>1, <1>5, SessionIsOf, Zenon DEF BridgeInv, LoopInv
    <2> QED BY <1>1, <1>3, <1>5, <2>1, DialToKeeps, Zenon DEF Handled, Sound
  <1>6. CASE DialTo(c, "open") /\ dial[c].do = "answer"
    BY <1>1, <1>3, <1>6, DialToKeeps, Zenon DEF Handled, Sound
  <1>7. CASE DialTo(c, "opening") /\ dial[c].do = "open"
    BY <1>1, <1>3, <1>7, DialToKeeps, Zenon DEF Handled, Sound
  <1>8. CASE DialTo(c, "relay") /\ dial[c].do = "write"
    BY <1>1, <1>3, <1>8, DialToKeeps, Zenon DEF Handled, Sound
  <1> QED
    BY Zenon, <1>2, <1>4, <1>5, <1>6, <1>7, <1>8
    DEF Hello, AwaitRelayMaterial, MaterialAnswer, OpenDeviceRelay, WriteBridgeFrame, CopyOpaqueRelay

LEMMA RelayOpenedKeeps ==
  ASSUME BridgeInv, NEW c \in Dials, RelayOpened(c)
  PROVE  BridgeInv'
  <1> DEFINE d == [dial[c] EXCEPT !.do = "write", !.remote = TRUE]
  <1>1. Settled /\ dial[c].do = "opening" /\ dial[c] \in Connected /\ Sound(dial[c])
    BY DEF RelayOpened, BridgeInv, BridgeTypes, DialInv
  <1>2. CASE Hangup(c)
    BY <1>1, <1>2, HangupKeeps, Zenon
  <1>3. CASE dial' = [dial EXCEPT ![c] = d]
    <2>1. d \in Connected /\ d.do = "write" /\ d.to = dial[c].to /\ d.known = dial[c].known /\ d.local = dial[c].local
      BY <1>1, Zenon DEF Connected, Handled
    <2> HIDE DEF d
    <2>2. Sound(d)
      BY <1>1, <2>1, Zenon DEF Sound, Handled
    <2> QED BY Zenon, <1>1, <1>3, <2>1, <2>2, DialMoves
  <1> QED BY <1>2, <1>3, Zenon DEF RelayOpened

LEMMA PeerClosesKeeps ==
  ASSUME BridgeInv, NEW c \in Dials, PeerCloses(c)
  PROVE  BridgeInv'
  <1> DEFINE d == [dial[c] EXCEPT !.local = FALSE]
  <1>1. Settled /\ dial[c] \in Connected /\ Sound(dial[c]) /\ dial' = [dial EXCEPT ![c] = d]
    BY DEF PeerCloses, BridgeInv, BridgeTypes, DialInv
  <1>2. d \in Connected /\ d.do = dial[c].do /\ d.to = dial[c].to /\ d.known = dial[c].known /\ d.remote = dial[c].remote
        /\ ~d.local
    BY <1>1, Zenon DEF Connected
  <1> HIDE DEF d
  <1>3. Sound(d)
    BY <1>1, <1>2, Zenon DEF Sound
  <1> QED BY <1>1, <1>2, <1>3, DialMoves, Zenon

-----------------------------------------------------------------------------
(* The theorems.                                                           *)

LEMMA BridgeInit == BInit => BridgeInv
  <1> SUFFICES ASSUME BInit PROVE BridgeInv
    OBVIOUS
  <1>1. BridgeTypes
    BY NoTaskType, Zenon DEF BInit, BridgeTypes, Bridges, Connected
  <1>2. TaskInv /\ LoopInv
    BY NoTaskType, Zenon DEF BInit, TaskInv, LoopInv, Alive, Started
  <1>3. DialInv
    BY Zenon DEF BInit, DialInv, Sound, Handled
  <1> QED BY <1>1, <1>2, <1>3 DEF BridgeInv

LEMMA BridgeSteps == BridgeInv /\ [BNext]_bvars => BridgeInv'
  <1> SUFFICES ASSUME BridgeInv, [BNext]_bvars PROVE BridgeInv'
    OBVIOUS
  <1>1. CASE TaskStep
    BY <1>1, BeginTaskKeeps, UpdateContextKeeps, ContextKeeps, FindSessionsKeeps, AwaitDoneKeeps, EndStopTaskKeeps,
       StopKeeps, ListenKeeps, ListenFailsKeeps, Zenon DEF TaskStep
  <1>2. CASE BridgeStep
    BY <1>2, ExpireKeeps, WatchKeeps, EndLoopKeeps, AcceptKeeps, EnterKeeps, Zenon DEF BridgeStep
  <1>3. CASE DialStep
    BY <1>3, ConnectKeeps, HandlerKeeps, RelayOpenedKeeps, PeerClosesKeeps, Zenon DEF DialStep
  <1>4. CASE UNCHANGED bvars
    <2>1. UNCHANGED <<bridge, table, socket, dial, task>> /\ task' \in BridgeTasks
      BY <1>4 DEF bvars, BridgeInv, BridgeTypes
    <2>2. TaskInv'
      BY <2>1, Zenon DEF BridgeInv, TaskInv
    <2> QED BY <2>1, <2>2, TaskMoves, Zenon
  <1> QED BY <1>1, <1>2, <1>3, <1>4 DEF BNext

LEMMA BridgeInvariant == BSpec => []BridgeInv
  BY BridgeInit, BridgeSteps, PTL DEF BSpec

\* The socket path leads to a bridge whose activation is live, whatever bridge ended
\* before it (BridgeManager.Start, Stop and serve).
THEOREM LiveBridgeIsReached == BSpec => []SocketOwned
  <1>1. BridgeInv => SocketOwned
    BY Zenon DEF BridgeInv, BridgeTypes, Bridges, LoopInv, Alive, Started, SocketOwned
  <1> QED BY <1>1, BridgeInvariant, PTL

\* A relay of a bridge that was stopped has lost its local end (BridgeManager.Stop,
\* serve and handle).
THEOREM StoppedBridgeIsSilent == BSpec => []StoppedRelaysEnd
  <1>1. BridgeInv => StoppedRelaysEnd
    <2> SUFFICES ASSUME BridgeInv, NEW c \in Dials, dial[c].remote, dial[c].local,
                        bridge[SessionOf(c)].loop = "done"
                 PROVE  FALSE
      BY Zenon DEF StoppedRelaysEnd
    <2>1. Sound(dial[c])
      BY Zenon DEF BridgeInv, DialInv
    <2>2. dial[c].do \in Handled \ {"hello", "register"}
      BY <2>1, Zenon DEF Sound, Handled
    <2>3. bridge[SessionOf(c)].listening
      BY <2>1, <2>2, SessionIsOf, Zenon DEF Sound
    <2> QED BY <2>2, <2>3, SessionIsOf, Zenon DEF BridgeInv, LoopInv, Alive
  <1> QED BY <1>1, BridgeInvariant, PTL
=============================================================================
