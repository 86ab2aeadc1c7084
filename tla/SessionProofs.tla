---------------------------- MODULE SessionProofs ----------------------------
(***************************************************************************)
(* Proofs about the session manager, for any number of clients, sessions,  *)
(* utterances, turns and crashes, and any set of faults.                   *)
(*                                                                         *)
(* OwnershipInv is inductive.  Its preservation is split in two: the types *)
(* (TypeStep) and who owns what (OwnershipStep); most steps of a session's *)
(* own tasks leave the lock, the requests and the slot alone, and are      *)
(* dealt with at once by TasksFrame.                                       *)
(*                                                                         *)
(* What is left of a session, its row, its transcript rows and its         *)
(* sidecar, comes last.  StoryInv says in which order a row is inserted,   *)
(* finished and deleted relative to the requests (RowsInOrder), that       *)
(* nothing moves while the process is down (Quiet), and how a live task's  *)
(* ending follows from its capture's (EndsKnown).                          *)
(***************************************************************************)
EXTENDS SessionProps, TLAPS

(* A full queue loses its oldest entry, so offering keeps the bound. *)
LEMMA OfferType ==
  ASSUME NEW q \in Seq(Utt \cup {Done}), Len(q) <= QueueMax,
         NEW x \in Utt \cup {Done}
  PROVE  Offer(q, x) \in Seq(Utt \cup {Done}) /\ Len(Offer(q, x)) <= QueueMax
<1>1. QueueMax \in Nat \ {0}
  BY ConstantsAssumption
<1>2. CASE Len(q) = QueueMax
  <2>1. q # <<>>
    BY <1>1, <1>2
  <2>2. Tail(q) \in Seq(Utt \cup {Done}) /\ Len(Tail(q)) = Len(q) - 1
    BY <2>1
  <2> QED
    BY <1>1, <1>2, <2>2 DEF Offer
<1>3. CASE Len(q) # QueueMax
  BY <1>1, <1>3 DEF Offer
<1> QED
  BY <1>2, <1>3

(* What leaves the capture loop is a typed queue and at most one utterance. *)
LEMMA LeaveLoopType ==
  ASSUME CapType, FeedType, InHand, NEW s \in Sid,
         NEW why \in {"clean", "died", "disk", "cut"},
         LeaveLoop(s, why), UNCHANGED <<stopped, feeding, offered>>
  PROVE  /\ CapType' /\ FeedType'
         /\ \A t \in Sid : cap'[t] = "mark" => heard'[t] \in Utt
<1>1. Offer(queue[s], Done) \in Seq(Utt \cup {Done}) /\ Len(Offer(queue[s], Done)) <= QueueMax
  BY OfferType DEF FeedType
<1>2. CASE cap' = [cap EXCEPT ![s] = "done"] /\ queue' = [queue EXCEPT ![s] = Offer(@, Done)]
           /\ UNCHANGED heard
  BY <1>1, <1>2 DEF LeaveLoop, CapType, FeedType, InHand
<1>3. CASE heard[s] < MaxUtts /\ cap[s] = "recording" /\ heard' = [heard EXCEPT ![s] = @ + 1]
           /\ cap' = [cap EXCEPT ![s] = "mark"] /\ UNCHANGED queue
  <2>1. MaxUtts \in Nat /\ heard[s] \in 0 .. MaxUtts
    BY ConstantsAssumption DEF CapType
  <2>2. heard[s] + 1 \in Utt
    BY <1>3, <2>1 DEF Utt
  <2> QED
    BY <1>3, <2>1, <2>2 DEF LeaveLoop, CapType, FeedType, InHand, Utt
<1> QED
  BY <1>2, <1>3 DEF LeaveLoop

(* Publishing to the session bus keeps its type. *)
LEMMA PublishType ==
  ASSUME StoreType, NEW s \in Sid, NEW e \in Events \cup {Close},
         Publish(s, e), UNCHANGED persist
  PROVE  StoreType'
BY DEF StoreType, Publish

(* A connection that ends settles the turn it has open, if any. *)
LEMMA SettleType ==
  ASSUME StoreType, InHand, NEW s \in Sid, open \in [Sid -> BOOLEAN],
         Settle(s), UNCHANGED persist
  PROVE  StoreType' /\ open' = [open EXCEPT ![s] = FALSE]
<1>1. CASE UNCHANGED bus
  BY <1>1 DEF Settle, StoreType
<1>2. CASE Publish(s, Event("final", turn[s])) /\ open[s]
  <2>1. Event("final", turn[s]) \in Events
    BY <1>2 DEF InHand, Events
  <2> QED
    BY <1>2, <2>1, PublishType DEF Settle
<1> QED
  BY <1>1, <1>2 DEF Settle

(* A step of a request that leaves the sessions' own state alone. *)
LEMMA RequestOnly ==
  ASSUME TypeOK, InHand, ReqType',
         UNCHANGED <<capVars, feedVars, liveVars, storeVars, diskVars, bootVars>>
  PROVE  TypeOK' /\ InHand'
<1>1. CapType' /\ FeedType'
  BY DEF TypeOK, CapType, FeedType, capVars, feedVars
<1>2. LiveType' /\ StoreType'
  BY DEF TypeOK, LiveType, StoreType, liveVars, storeVars
<1>3. DiskType' /\ BootType'
  BY DEF TypeOK, DiskType, BootType, diskVars, bootVars
<1>4. InHand'
  BY DEF InHand, liveVars, capVars
<1> QED
  BY <1>1, <1>2, <1>3, <1>4 DEF TypeOK

(* ... or that changes only what is stored as well. *)
LEMMA StoredOnly ==
  ASSUME TypeOK, InHand, ReqType', DiskType',
         UNCHANGED <<capVars, feedVars, liveVars, storeVars, bootVars>>
  PROVE  TypeOK' /\ InHand'
<1>1. CapType' /\ FeedType'
  BY DEF TypeOK, CapType, FeedType, capVars, feedVars
<1>2. LiveType' /\ StoreType' /\ BootType'
  BY DEF TypeOK, LiveType, StoreType, BootType, liveVars, storeVars, bootVars
<1>3. InHand'
  BY DEF InHand, liveVars, capVars
<1> QED
  BY <1>1, <1>2, <1>3 DEF TypeOK

(* Rewriting the sidecar keeps the types. *)
LEMMA IndexType ==
  ASSUME CapType, DiskType, NEW s \in Sid, WriteIndex(s)
  PROVE  index' \in [Sid -> SUBSET Utt] /\ files' \in [Sid -> SUBSET {"wav", "index"}]
<1>1. heard[s] \in 0 .. MaxUtts
  BY DEF CapType
<1>2. 1 .. heard[s] \subseteq Utt
  BY <1>1, ConstantsAssumption DEF Utt
<1> QED
  BY <1>2 DEF WriteIndex, DiskType

(* Giving the lock back keeps the types. *)
LEMMA ReleaseType ==
  ASSUME ReqType, NEW p \in Proc, Holds(p), Release(p)
  PROVE  /\ lockq' \in Seq(Proc)
         /\ at' = [at EXCEPT ![p] = "idle"]
         /\ at' \in [Proc -> Locked \cup Waiting \cup {"idle", "spawned", "unlink", "unrow"}]
BY DEF ReqType, Holds, Release, Goto

(* The steps of start(), stop() and the delete route keep the types. *)
LEMMA RequestTypes ==
  ASSUME TypeOK, InHand, NEW c \in Clients,
         \/ RequestStart(c) \/ RequestStop(c) \/ \E s \in Sid : RequestDelete(c, s)
         \/ Starting(c) \/ StopTakes(c) \/ StopIdle(c) \/ Deleting(c)
  PROVE  TypeOK' /\ InHand'
<1>c. c \in Proc
  BY DEF Proc
<1>t. ReqType /\ DiskType
  BY DEF TypeOK
<1>a. ASSUME NEW kind, NEW l \in Waiting, Arrive(c, kind, l) PROVE TypeOK' /\ InHand'
  <2>1. ReqType'
    BY <1>c, <1>a, <1>t DEF Arrive, ReqType, Goto, Waiting, Teardown
  <2> QED
    BY <2>1, <1>a, RequestOnly DEF Arrive
<1>1. CASE RequestStart(c)
  BY <1>1, <1>a DEF RequestStart, Waiting
<1>2. CASE RequestStop(c)
  BY <1>2, <1>a DEF RequestStop, Waiting
<1>3. CASE \E s \in Sid : RequestDelete(c, s)
  <2>1. PICK s \in Sid : RequestDelete(c, s)
    BY <1>3
  <2>2. ReqType' /\ DiskType'
    BY <1>c, <2>1, <1>t DEF RequestDelete, ReqType, DiskType, Goto, Teardown
  <2> QED
    BY <2>1, <2>2, StoredOnly DEF RequestDelete
<1>4. CASE Starting(c)
  <2>1. CASE StartRefused(c)
    <3>1. ReqType'
      BY <1>c, <1>t, <2>1, ReleaseType DEF StartRefused, ReqType, Teardown
    <3> QED
      BY <2>1, <3>1, RequestOnly DEF StartRefused
  <2>2. CASE StartPreflight(c)
    <3>1. ReqType'
      BY <1>c, <1>t, <2>2 DEF StartPreflight, ReqType, Goto, Locked, Teardown
    <3> QED
      BY <2>2, <3>1, RequestOnly DEF StartPreflight
  <2>3. CASE StartFails(c)
    <3>1. ReqType'
      BY <1>c, <1>t, <2>3, ReleaseType DEF StartFails, ReqType, Teardown
    <3> QED
      BY <2>3, <3>1, RequestOnly DEF StartFails
  <2>4. CASE StartNamed(c)
    <3>1. born + 1 \in Sid /\ born + 1 \in 0 .. MaxSessions
      BY <1>t, <2>4, ConstantsAssumption DEF StartNamed, ReqType, Sid, Teardown
    <3>2. ReqType' /\ DiskType'
      BY <1>c, <1>t, <2>4, <3>1 DEF StartNamed, ReqType, DiskType, Goto, Locked, Teardown
    <3> QED
      BY <2>4, <3>2, StoredOnly DEF StartNamed, diskVars
  <2>5. CASE StartCreates(c)
    <3>1. ReqType' /\ DiskType'
      BY <1>c, <1>t, <2>5 DEF StartCreates, ReqType, DiskType, Goto, Locked, Teardown
    <3> QED
      BY <2>5, <3>1, StoredOnly DEF StartCreates
  <2>6. CASE StartCreateFails(c)
    <3>1. ReqType'
      BY <1>c, <1>t, <2>6, ReleaseType DEF StartCreateFails, ReqType, Teardown
    <3> QED
      BY <2>6, <3>1, RequestOnly DEF StartCreateFails
  <2>7. CASE \E shape \in Shapes : StartLaunches(c, shape)
    <3>1. PICK shape \in Shapes : StartLaunches(c, shape)
      BY <2>7
    <3>2. ReqType'
      BY <1>c, <1>t, <3>1, ReleaseType DEF StartLaunches, ReqType, Teardown
    <3>3. CapType' /\ FeedType'
      BY <3>1 DEF StartLaunches, TypeOK, CapType, FeedType
    <3>4. LiveType' /\ StoreType'
      BY <3>1 DEF StartLaunches, TypeOK, LiveType, StoreType
    <3>5. DiskType' /\ BootType'
      BY <3>1 DEF StartLaunches, TypeOK, DiskType, BootType, diskVars, bootVars
    <3>6. InHand'
      BY <3>1 DEF StartLaunches, TypeOK, InHand, LiveType, CapType
    <3> QED
      BY <3>2, <3>3, <3>4, <3>5, <3>6 DEF TypeOK
  <2> QED
    BY <1>4, <2>1, <2>2, <2>3, <2>4, <2>5, <2>6, <2>7 DEF Starting
<1>5. CASE StopTakes(c)
  <2>1. ReqType' /\ CapType'
    BY <1>c, <1>5 DEF StopTakes, Take, TypeOK, ReqType, CapType, Goto, Locked, Teardown
  <2>2. FeedType' /\ LiveType' /\ StoreType'
    BY <1>5 DEF StopTakes, Take, TypeOK, FeedType, LiveType, StoreType, feedVars, liveVars, storeVars
  <2>3. DiskType' /\ BootType' /\ InHand'
    BY <1>5 DEF StopTakes, Take, TypeOK, DiskType, BootType, InHand, diskVars, bootVars, liveVars
  <2> QED
    BY <2>1, <2>2, <2>3 DEF TypeOK
<1>6. CASE StopIdle(c)
  <2>1. ReqType'
    BY <1>c, <1>t, <1>6, ReleaseType DEF StopIdle, ReqType, Teardown
  <2> QED
    BY <1>6, <2>1, RequestOnly DEF StopIdle
<1>7. CASE Deleting(c)
  <2>1. CASE DeleteFiles(c)
    <3>1. ReqType' /\ DiskType'
      BY <1>c, <1>t, <2>1 DEF DeleteFiles, ReqType, DiskType, Goto, Teardown
    <3> QED
      BY <2>1, <3>1, StoredOnly DEF DeleteFiles
  <2>2. CASE DeleteRow(c)
    <3>1. ReqType' /\ DiskType'
      BY <1>c, <1>t, <2>2 DEF DeleteRow, ReqType, DiskType, Goto, Teardown
    <3> QED
      BY <2>2, <3>1, StoredOnly DEF DeleteRow
  <2> QED
    BY <1>7, <2>1, <2>2 DEF Deleting
<1> QED
  BY <1>1, <1>2, <1>3, <1>4, <1>5, <1>6, <1>7

(* The steps of a teardown keep the types. *)
LEMMA EndingTypes ==
  ASSUME TypeOK, InHand, NEW p \in Proc, Holds(p), Ending(p)
  PROVE  TypeOK' /\ InHand'
<1>t. ReqType /\ DiskType /\ StoreType
  BY DEF TypeOK
<1>1. CASE Drained(p)
  <2>s. target[p] \in Sid /\ Close \in Events \cup {Close}
    BY <1>t, <1>1 DEF Drained, ReqType, Teardown
  <2>1. StoreType'
    BY <1>t, <1>1, <2>s, PublishType DEF Drained
  <2>2. ReqType'
    BY <1>t, <1>1 DEF Drained, ReqType, Goto, Locked, Teardown
  <2>3. CapType' /\ FeedType' /\ LiveType' /\ InHand'
    BY <1>1 DEF Drained, TypeOK, CapType, FeedType, LiveType, InHand, capVars, feedVars, liveVars
  <2>4. DiskType' /\ BootType'
    BY <1>1 DEF Drained, TypeOK, DiskType, BootType, diskVars, bootVars
  <2> QED
    BY <2>1, <2>2, <2>3, <2>4 DEF TypeOK
<1>2. CASE PersistAwaited(p)
  <2>1. ReqType'
    BY <1>t, <1>2 DEF PersistAwaited, ReqType, Goto, Locked, Teardown
  <2> QED
    BY <1>2, <2>1, RequestOnly DEF PersistAwaited
<1>3. CASE InterimsDeleted(p)
  <2>1. ReqType' /\ DiskType'
    BY <1>t, <1>3 DEF InterimsDeleted, ReqType, DiskType, Goto, Locked, Teardown, Settled
  <2> QED
    BY <1>3, <2>1, StoredOnly DEF InterimsDeleted
<1>4. CASE WriterCloses(p)
  <2>1. ReqType'
    BY <1>t, <1>4 DEF WriterCloses, ReqType, Goto, Locked, Teardown
  <2>2. target[p] \in Sid
    BY <1>t, <1>4 DEF WriterCloses, ReqType, Teardown
  <2>3. DiskType'
    BY <1>t, <1>4, <2>2, IndexType DEF WriterCloses, TypeOK, DiskType
  <2> QED
    BY <1>4, <2>1, <2>3, StoredOnly DEF WriterCloses
<1>5. CASE RowFinishes(p)
  <2>1. ReqType' /\ DiskType'
    BY <1>t, <1>5 DEF RowFinishes, ReqType, DiskType, Goto, Locked, Teardown, FinalStatus
  <2> QED
    BY <1>5, <2>1, StoredOnly DEF RowFinishes
<1>6. CASE Returns(p)
  <2>1. ReqType'
    BY <1>t, <1>6, ReleaseType DEF Returns, ReqType, Teardown
  <2> QED
    BY <1>6, <2>1, RequestOnly DEF Returns
<1> QED
  BY <1>1, <1>2, <1>3, <1>4, <1>5, <1>6 DEF Ending

(* Cutting a drain short keeps the types. *)
LEMMA DrainTimeoutTypes ==
  ASSUME TypeOK, InHand, NEW p \in Proc, DrainTimeout(p)
  PROVE  TypeOK' /\ InHand'
<1>s. PICK s \in Sid : s = target[p]
  BY DEF DrainTimeout, TypeOK, ReqType, Teardown
<1>1. ReqType' /\ BootType'
  BY DEF DrainTimeout, TypeOK, ReqType, BootType, reqVars, bootVars
<1>2. CASE live[s] = "join"
  <2>1. LeaveLoop(s, "cut") /\ UNCHANGED <<live, open, bus, calling>>
    BY <1>s, <1>2 DEF DrainTimeout
  <2>2. CapType' /\ FeedType' /\ \A t \in Sid : cap'[t] = "mark" => heard'[t] \in Utt
    BY <2>1, LeaveLoopType DEF TypeOK, DrainTimeout
  <2>3. LiveType' /\ StoreType'
    BY <2>1 DEF DrainTimeout, TypeOK, LiveType, StoreType
  <2>5. DiskType'
    <3>1. CASE WriteIndex(s)
      BY <3>1, IndexType DEF DrainTimeout, TypeOK, DiskType
    <3>2. CASE UNCHANGED <<index, files>>
      BY <3>2 DEF DrainTimeout, TypeOK, DiskType
    <3> QED
      BY <1>s, <1>2, <3>1, <3>2 DEF DrainTimeout
  <2>6. InHand'
    BY <2>1, <2>2 DEF DrainTimeout, InHand
  <2> QED
    BY <1>1, <2>2, <2>3, <2>5, <2>6 DEF TypeOK
<1>3. CASE live[s] # "join"
  <2>1. /\ LiveGoes(s, "join") /\ calling' = [calling EXCEPT ![s] = 0] /\ Settle(s)
        /\ UNCHANGED <<cap, capEnd, heard, queue, index, files>>
    BY <1>s, <1>3 DEF DrainTimeout
  <2>2. StoreType' /\ open' = [open EXCEPT ![s] = FALSE]
    BY <2>1, SettleType DEF TypeOK, LiveType, DrainTimeout
  <2>3. CapType' /\ FeedType' /\ DiskType'
    BY <2>1 DEF DrainTimeout, TypeOK, CapType, FeedType, DiskType
  <2>4. LiveType'
    BY <2>1, <2>2 DEF DrainTimeout, TypeOK, LiveType, LiveGoes
  <2>5. InHand'
    BY <2>1, <2>2 DEF DrainTimeout, TypeOK, LiveType, InHand, LiveGoes
  <2> QED
    BY <1>1, <2>2, <2>3, <2>4, <2>5 DEF TypeOK
<1> QED
  BY <1>2, <1>3

(* The steps of a capture task keep the types. *)
LEMMA CaptureTypes ==
  ASSUME TypeOK, InHand, NEW s \in Sid,
         Capturing(s) \/ CaptureCompletes(s) \/ CaptureBreaks(s)
  PROVE  TypeOK' /\ InHand'
<1>u. UNCHANGED <<reqVars, liveVars, storeVars, bootVars, row, rows>>
  BY DEF Capturing, CaptureCompletes, CaptureBreaks, CaptureOpens, CaptureStops, CaptureMarks,
         CaptureDies, CaptureDiskFull, CaptureMarkFails, diskVars
<1>1. ReqType' /\ LiveType' /\ StoreType' /\ BootType'
  BY <1>u DEF TypeOK, ReqType, LiveType, StoreType, BootType, reqVars, liveVars, storeVars, bootVars
<1>2. (\A t \in Sid : cap'[t] = "mark" => heard'[t] \in Utt) => InHand'
  BY <1>u DEF InHand, liveVars
<1>3. ASSUME NEW why \in {"clean", "died", "disk", "cut"}, LeaveLoop(s, why),
             UNCHANGED <<stopped, feeding, offered, diskVars>>
      PROVE  TypeOK' /\ InHand'
  <2>1. CapType' /\ FeedType' /\ \A t \in Sid : cap'[t] = "mark" => heard'[t] \in Utt
    BY <1>3, LeaveLoopType DEF TypeOK
  <2>2. DiskType'
    BY <1>3 DEF TypeOK, DiskType, diskVars
  <2> QED
    BY <1>1, <1>2, <2>1, <2>2 DEF TypeOK
<1>4. CASE CaptureOpens(s)
  <2>1. CapType' /\ \A t \in Sid : cap'[t] = "mark" => heard'[t] \in Utt
    BY <1>4 DEF CaptureOpens, TypeOK, CapType, InHand
  <2>2. FeedType' /\ DiskType'
    BY <1>4 DEF CaptureOpens, TypeOK, FeedType, DiskType, feedVars, diskVars
  <2> QED
    BY <1>1, <1>2, <2>1, <2>2 DEF TypeOK
<1>5. CASE CaptureStops(s)
  BY <1>3, <1>5 DEF CaptureStops
<1>6. CASE CaptureMarks(s)
  <2>1. heard[s] \in Utt \cup {Done} /\ Done \in Utt \cup {Done}
    BY <1>6 DEF CaptureMarks, InHand
  <2>2. \A q \in Seq(Utt \cup {Done}), x \in Utt \cup {Done} :
          Len(q) <= QueueMax => /\ Offer(q, x) \in Seq(Utt \cup {Done})
                                /\ Len(Offer(q, x)) <= QueueMax
    BY OfferType
  <2>3. queue[s] \in Seq(Utt \cup {Done}) /\ Len(queue[s]) <= QueueMax
    BY DEF TypeOK, FeedType
  <2>4. /\ (IF feeding[s] THEN Offer(queue[s], heard[s]) ELSE queue[s]) \in Seq(Utt \cup {Done})
        /\ Len(IF feeding[s] THEN Offer(queue[s], heard[s]) ELSE queue[s]) <= QueueMax
    BY <2>1, <2>2, <2>3
  <2>5. /\ queue' \in [Sid -> Seq(Utt \cup {Done})]
        /\ \A t \in Sid : Len(queue'[t]) <= QueueMax
    BY <1>6, <2>1, <2>2, <2>4 DEF CaptureMarks, TypeOK, FeedType
  <2>6. FeedType'
    BY <1>6, <2>1, <2>5 DEF CaptureMarks, TypeOK, FeedType, InHand
  <2>7. CapType' /\ \A t \in Sid : cap'[t] = "mark" => heard'[t] \in Utt
    BY <1>6 DEF CaptureMarks, TypeOK, CapType, InHand
  <2>8. DiskType'
    BY <1>6, IndexType DEF CaptureMarks, TypeOK, DiskType
  <2> QED
    BY <1>1, <1>2, <2>6, <2>7, <2>8 DEF TypeOK
<1>7. CASE CaptureCompletes(s)
  <2>1. heard[s] + 1 \in Utt /\ heard[s] + 1 \in 0 .. MaxUtts
    BY <1>7, ConstantsAssumption DEF CaptureCompletes, TypeOK, CapType, Utt
  <2>2. CapType' /\ \A t \in Sid : cap'[t] = "mark" => heard'[t] \in Utt
    BY <1>7, <2>1 DEF CaptureCompletes, TypeOK, CapType, InHand
  <2>3. FeedType' /\ DiskType'
    BY <1>7 DEF CaptureCompletes, TypeOK, FeedType, DiskType, feedVars, diskVars
  <2> QED
    BY <1>1, <1>2, <2>2, <2>3 DEF TypeOK
<1>8. CASE CaptureBreaks(s)
  <2>1. CASE CaptureDies(s)
    BY <1>3, <2>1 DEF CaptureDies
  <2>2. CASE CaptureDiskFull(s)
    BY <1>3, <2>2 DEF CaptureDiskFull
  <2>3. CASE CaptureMarkFails(s)
    BY <1>3, <2>3 DEF CaptureMarkFails
  <2> QED
    BY <1>8, <2>1, <2>2, <2>3 DEF CaptureBreaks
<1> QED
  BY <1>4, <1>5, <1>6, <1>7, <1>8 DEF Capturing

(* The steps of a persist task keep the types. *)
LEMMA PersistTypes ==
  ASSUME TypeOK, InHand, NEW s \in Sid, Persisting(s)
  PROVE  TypeOK' /\ InHand'
<1>u. UNCHANGED <<reqVars, capVars, feedVars, liveVars, bootVars>>
  BY DEF Persisting, PersistAdds, PersistPublishes, PersistFails, PersistEnds
<1>1. ReqType' /\ CapType' /\ FeedType'
  BY <1>u DEF TypeOK, ReqType, CapType, FeedType, reqVars, capVars, feedVars
<1>2. LiveType' /\ BootType' /\ InHand'
  BY <1>u DEF TypeOK, LiveType, BootType, InHand, liveVars, bootVars, capVars
<1>3. StoreType' /\ DiskType'
  <2>1. CASE PersistAdds(s)
    <3>1. Head(bus[s]) \in Events /\ Tail(bus[s]) \in Seq(Events \cup {Close})
      BY <2>1 DEF PersistAdds, TypeOK, StoreType
    <3>2. Upsert(rows[s], Head(bus[s])) \in SUBSET Events
      BY <3>1 DEF Upsert, TypeOK, DiskType
    <3> QED
      BY <2>1, <3>1, <3>2 DEF PersistAdds, TypeOK, StoreType, DiskType
  <2>2. CASE PersistPublishes(s)
    BY <2>2 DEF PersistPublishes, TypeOK, StoreType, DiskType, diskVars
  <2>3. CASE PersistFails(s)
    BY <2>3 DEF PersistFails, TypeOK, StoreType, DiskType, diskVars
  <2>4. CASE PersistEnds(s)
    BY <2>4 DEF PersistEnds, TypeOK, StoreType, DiskType, diskVars
  <2> QED
    BY <2>1, <2>2, <2>3, <2>4 DEF Persisting
<1> QED
  BY <1>1, <1>2, <1>3 DEF TypeOK

(* The steps of an _end_unattended task keep the types. *)
LEMMA UnattendedTypes ==
  ASSUME TypeOK, InHand, NEW s \in Sid, Unattended(s)
  PROVE  TypeOK' /\ InHand'
<1>t. ReqType /\ s \in Proc
  BY DEF TypeOK, Proc
<1>1. CASE EndQueues(s)
  <2>1. ReqType'
    BY <1>t, <1>1 DEF EndQueues, ReqType, Goto, Waiting, Teardown
  <2> QED
    BY <1>1, <2>1, RequestOnly DEF EndQueues
<1>2. CASE EndTakes(s)
  <2>1. ReqType' /\ CapType'
    BY <1>t, <1>2 DEF EndTakes, Take, TypeOK, ReqType, CapType, Goto, Locked, Teardown
  <2>2. FeedType' /\ LiveType' /\ StoreType'
    BY <1>2 DEF EndTakes, Take, TypeOK, FeedType, LiveType, StoreType, feedVars, liveVars, storeVars
  <2>3. DiskType' /\ BootType' /\ InHand'
    BY <1>2 DEF EndTakes, Take, TypeOK, DiskType, BootType, InHand, diskVars, bootVars, liveVars
  <2> QED
    BY <2>1, <2>2, <2>3 DEF TypeOK
<1>3. CASE EndStale(s)
  <2>1. ReqType'
    BY <1>t, <1>3, ReleaseType DEF EndStale, ReqType, Teardown
  <2> QED
    BY <1>3, <2>1, RequestOnly DEF EndStale
<1> QED
  BY <1>1, <1>2, <1>3 DEF Unattended

(* The steps of a live task keep the types. *)
LEMMA LiveTypes ==
  ASSUME TypeOK, InHand, NEW s \in Sid,
         Living(s) \/ LiveBreaks(s) \/ Streaming(s)
  PROVE  TypeOK' /\ InHand'
<1>u. UNCHANGED <<capVars, diskVars, bootVars, offered, persist, lockq, target, slot, liveView, born>>
  BY DEF Living, LiveBreaks, Streaming, RouterPulls, RouterPublishes, LiveDiscards, StreamEnds,
         LiveJoins, LiveFinished, RouterDrops, RouterExhausted, StreamHandsOff, StreamExhausted,
         StreamOpensTurn, StreamClosesTurn, reqVars, storeVars, feedVars
<1>1. CapType' /\ DiskType' /\ BootType'
  BY <1>u DEF TypeOK, CapType, DiskType, BootType, capVars, diskVars, bootVars
<1>2. ASSUME UNCHANGED <<at, queue, feeding>> PROVE ReqType' /\ FeedType'
  BY <1>u, <1>2 DEF TypeOK, ReqType, FeedType
<1>3. ASSUME UNCHANGED bus PROVE StoreType'
  BY <1>u, <1>3 DEF TypeOK, StoreType
<1>4. ASSUME queue[s] # <<>>
      PROVE  Head(queue[s]) \in Utt \cup {Done} /\ Tail(queue[s]) \in Seq(Utt \cup {Done})
             /\ Len(Tail(queue[s])) <= QueueMax
  BY <1>4, ConstantsAssumption DEF TypeOK, FeedType
<1>5. CASE RouterPulls(s)
  <2>1. LiveType' /\ InHand'
    BY <1>4, <1>5, <1>u DEF RouterPulls, TypeOK, LiveType, InHand, LiveGoes, capVars, Done
  <2>2. FeedType' /\ ReqType' /\ StoreType'
    BY <1>3, <1>4, <1>5, <1>u DEF RouterPulls, TypeOK, FeedType, ReqType, reqVars, storeVars
  <2> QED
    BY <1>1, <2>1, <2>2 DEF TypeOK
<1>6. CASE RouterPublishes(s)
  <2>1. Event("utt", calling[s]) \in Events
    BY <1>6 DEF RouterPublishes, InHand, Events
  <2>2. StoreType'
    BY <1>6, <2>1, PublishType DEF RouterPublishes, TypeOK
  <2>3. LiveType' /\ InHand'
    BY <1>6, <1>u DEF RouterPublishes, TypeOK, LiveType, InHand, LiveGoes, capVars
  <2>4. FeedType' /\ ReqType'
    BY <1>2, <1>6 DEF RouterPublishes, feedVars, reqVars
  <2> QED
    BY <1>1, <2>2, <2>3, <2>4 DEF TypeOK
<1>7. CASE LiveDiscards(s)
  <2>1. LiveType' /\ InHand'
    BY <1>7, <1>u DEF LiveDiscards, TypeOK, LiveType, InHand, LiveGoes, capVars
  <2>2. FeedType' /\ ReqType' /\ StoreType'
    BY <1>3, <1>4, <1>7, <1>u DEF LiveDiscards, TypeOK, FeedType, ReqType, reqVars, storeVars
  <2> QED
    BY <1>1, <2>1, <2>2 DEF TypeOK
<1>8. CASE RouterDrops(s) \/ RouterExhausted(s)
  <2>1. LiveType' /\ InHand'
    BY <1>8, <1>u DEF RouterDrops, RouterExhausted, TypeOK, LiveType, InHand, LiveGoes, capVars
  <2>2. FeedType' /\ ReqType' /\ StoreType'
    BY <1>2, <1>3, <1>8 DEF RouterDrops, RouterExhausted, feedVars, reqVars, storeVars
  <2> QED
    BY <1>1, <2>1, <2>2 DEF TypeOK
<1>9. CASE StreamOpensTurn(s)
  <2>1. turn[s] + 1 \in Turn
    BY <1>9, ConstantsAssumption DEF StreamOpensTurn, TypeOK, LiveType, Turn
  <2>2. Event("interim", turn[s] + 1) \in Events
    BY <2>1 DEF Events
  <2>3. StoreType'
    BY <1>9, <2>2, PublishType DEF StreamOpensTurn, TypeOK
  <2>4. LiveType' /\ InHand'
    BY <1>9, <2>1, <1>u DEF StreamOpensTurn, TypeOK, LiveType, InHand, Turn, capVars
  <2>5. FeedType' /\ ReqType'
    BY <1>2, <1>9 DEF StreamOpensTurn, feedVars, reqVars
  <2> QED
    BY <1>1, <2>3, <2>4, <2>5 DEF TypeOK
<1>10. CASE StreamClosesTurn(s)
  <2>1. Event("final", turn[s]) \in Events
    BY <1>10 DEF StreamClosesTurn, InHand, Events
  <2>2. StoreType'
    BY <1>10, <2>1, PublishType DEF StreamClosesTurn, TypeOK
  <2>3. LiveType' /\ InHand'
    BY <1>10, <1>u DEF StreamClosesTurn, TypeOK, LiveType, InHand, capVars
  <2>4. FeedType' /\ ReqType'
    BY <1>2, <1>10 DEF StreamClosesTurn, feedVars, reqVars
  <2> QED
    BY <1>1, <2>2, <2>3, <2>4 DEF TypeOK
<1>11. CASE StreamEnds(s) \/ StreamHandsOff(s) \/ StreamExhausted(s)
  <2>1. Settle(s) /\ UNCHANGED <<liveEnd, calling, turn, cut, noticed, persist, queue, at>>
    BY <1>11 DEF StreamEnds, StreamHandsOff, StreamExhausted, feedVars, reqVars
  <2>2. StoreType' /\ open' = [open EXCEPT ![s] = FALSE]
    BY <2>1, SettleType DEF TypeOK, LiveType
  <2>3. PICK l \in {"join", "pull", "discard"} : live[s] = "stream" /\ live' = [live EXCEPT ![s] = l]
    BY <1>11 DEF StreamEnds, StreamHandsOff, StreamExhausted, LiveGoes
  <2>4. LiveType' /\ InHand'
    BY <2>1, <2>2, <2>3, <1>u DEF TypeOK, LiveType, InHand, capVars
  <2>5. feeding' \in [Sid -> BOOLEAN]
    BY <1>11 DEF StreamEnds, StreamHandsOff, StreamExhausted, feedVars, TypeOK, FeedType
  <2>6. FeedType' /\ ReqType'
    BY <2>1, <2>5, <1>u DEF TypeOK, FeedType, ReqType
  <2> QED
    BY <1>1, <2>2, <2>4, <2>6 DEF TypeOK
<1>12. CASE LiveJoins(s)
  <2>1. LiveType' /\ InHand'
    BY <1>12, <1>u DEF LiveJoins, TypeOK, LiveType, InHand, LiveGoes, capVars
  <2>2. FeedType' /\ ReqType' /\ StoreType'
    BY <1>2, <1>3, <1>12 DEF LiveJoins, feedVars, reqVars, storeVars
  <2> QED
    BY <1>1, <2>1, <2>2 DEF TypeOK
<1>13. CASE LiveFinished(s)
  <2>1. LiveType' /\ InHand'
    BY <1>13, <1>u DEF LiveFinished, TypeOK, LiveType, InHand, capVars
  <2>2. FeedType' /\ StoreType'
    BY <1>3, <1>13, <1>u DEF LiveFinished, TypeOK, FeedType, feedVars, storeVars
  <2>3. ReqType'
    BY <1>13, <1>u DEF LiveFinished, TypeOK, ReqType, Goto, Teardown
  <2> QED
    BY <1>1, <2>1, <2>2, <2>3 DEF TypeOK
<1> QED
  BY <1>5, <1>6, <1>7, <1>8, <1>9, <1>10, <1>11, <1>12, <1>13 DEF Living, LiveBreaks, Streaming

(* Death and boot keep the types. *)
LEMMA BootTypes ==
  ASSUME TypeOK, InHand, Crash \/ BootMarks \/ BootServes \/ \E s \in Sid : BootSweeps(s)
  PROVE  TypeOK' /\ InHand'
<1>1. CASE Crash
  <2>1. ReqType'
    BY <1>1 DEF Crash, TypeOK, ReqType, Teardown
  <2>2. CapType' /\ FeedType'
    BY <1>1, ConstantsAssumption DEF Crash, TypeOK, CapType, FeedType
  <2>3. LiveType' /\ StoreType' /\ InHand'
    BY <1>1 DEF Crash, TypeOK, LiveType, StoreType, InHand
  <2>4. DiskType' /\ BootType'
    BY <1>1, ConstantsAssumption DEF Crash, TypeOK, DiskType, BootType, diskVars
  <2> QED
    BY <2>1, <2>2, <2>3, <2>4 DEF TypeOK
<1>2. CASE BootMarks \/ BootServes \/ \E s \in Sid : BootSweeps(s)
  <2>u. UNCHANGED <<reqVars, capVars, feedVars, liveVars, storeVars, crashes, files, index>>
    BY <1>2 DEF BootMarks, BootServes, BootSweeps, diskVars
  <2>1. ReqType' /\ CapType' /\ FeedType'
    BY <2>u DEF TypeOK, ReqType, CapType, FeedType, reqVars, capVars, feedVars
  <2>2. LiveType' /\ StoreType' /\ InHand'
    BY <2>u DEF TypeOK, LiveType, StoreType, InHand, liveVars, storeVars, capVars
  <2>3. DiskType' /\ BootType'
    BY <1>2, <2>u DEF BootMarks, BootServes, BootSweeps, TypeOK, DiskType, BootType, diskVars, Settled
  <2> QED
    BY <2>1, <2>2, <2>3 DEF TypeOK
<1> QED
  BY <1>1, <1>2

-----------------------------------------------------------------------------
(* Who owns what. *)

Ownership == LockedAlone /\ TasksOwned /\ OwnersShow /\ Joined

(* Only one process is inside start() or a teardown. *)
LEMMA OneInside ==
  ASSUME LockedAlone, NEW p \in Proc, NEW q \in Proc, at[p] \in Locked, at[q] \in Locked
  PROVE  p = q
BY DEF LockedAlone, Holds

(* With a process inside, a session with a running task is the one that
   process is tearing down. *)
LEMMA InsideOwns ==
  ASSUME LockedAlone, TasksOwned, NEW p \in Proc, at[p] \in Locked,
         NEW s \in Sid, Alive(s) \/ Storing(s)
  PROVE  TearingDown(p, s)
<1>1. slot = None
  BY DEF LockedAlone
<1>2. slot # s
  BY <1>1 DEF Sid, None
<1>3. PICK q \in Proc : TearingDown(q, s)
  BY <1>2 DEF TasksOwned, Owned
<1>4. q = p
  BY <1>3, OneInside DEF TearingDown, Locked
<1> QED
  BY <1>3, <1>4

(* A step that touches neither the lock nor a request nor the slot, and starts
   no task - or only one of a session being drained - leaves ownership alone. *)
LEMMA TasksFrame ==
  ASSUME ReqType, Ownership,
         UNCHANGED <<lockq, at, target, slot, liveView>>,
         \A s \in Sid : /\ Alive(s)' => Alive(s) \/ \E p \in Proc : at[p] = "drain" /\ target[p] = s
                        /\ Storing(s)' => Storing(s)
                        /\ live'[s] = "done" => ~Recording(s)'
  PROVE  Ownership'
<1>1. LockedAlone'
  BY DEF Ownership, LockedAlone, Holds
<1>2. \A s \in Sid : Owned(s)' = Owned(s)
  BY DEF Owned, TearingDown
<1>3. TasksOwned'
  BY <1>2 DEF Ownership, TasksOwned, Owned, TearingDown, Teardown
<1>4. OwnersShow'
  BY <1>2 DEF Ownership, OwnersShow
<1>5. Joined'
  <2>1. ASSUME NEW p \in Proc, at[p] \in Teardown \ {"drain"} PROVE ~Alive(target[p])'
    <3>1. PICK s \in Sid : s = target[p] /\ s = target'[p]
      BY <2>1 DEF ReqType
    <3>2. ~Alive(s)
      BY <2>1, <3>1 DEF Ownership, Joined
    <3>3. \A q \in Proc : at[q] # "drain"
      BY <2>1, OneInside DEF Ownership, Locked, Teardown
    <3>4. ~Alive(s)'
      BY <3>2, <3>3
    <3> QED
      BY <3>1, <3>4 DEF Alive, Recording
  <2>2. ASSUME NEW p \in Proc, at[p] \in Teardown \ {"drain", "persist"} PROVE ~Storing(target[p])'
    <3>1. PICK s \in Sid : s = target[p] /\ s = target'[p]
      BY <2>2 DEF ReqType
    <3>2. ~Storing(s)
      BY <2>2, <3>1 DEF Ownership, Joined
    <3> QED
      BY <3>1, <3>2 DEF Storing
  <2> QED
    BY <2>1, <2>2 DEF Joined
<1> QED
  BY <1>1, <1>3, <1>4, <1>5 DEF Ownership

(* The steps of a session's own tasks start none. *)
LEMMA TaskSteps ==
  ASSUME TypeOK, Ownership, NEW s \in Sid,
         \/ Capturing(s) \/ CaptureCompletes(s) \/ CaptureBreaks(s)
         \/ (Living(s) /\ ~LiveFinished(s)) \/ LiveBreaks(s) \/ Streaming(s)
         \/ Persisting(s)
  PROVE  Ownership'
<1>t. ReqType /\ CapType /\ LiveType /\ StoreType
  BY DEF TypeOK
<1>j. \A t \in Sid : live[t] = "done" => ~Recording(t)
  BY DEF Ownership, Joined
<1>1. CASE Capturing(s) \/ CaptureCompletes(s) \/ CaptureBreaks(s)
  <2>1. UNCHANGED <<reqVars, liveVars, storeVars>>
    BY <1>1 DEF Capturing, CaptureCompletes, CaptureBreaks, CaptureOpens, CaptureStops,
                CaptureMarks, CaptureDies, CaptureDiskFull, CaptureMarkFails
  <2>2. \A t \in Sid : Recording(t)' => Recording(t)
    BY <1>t, <1>1 DEF Capturing, CaptureCompletes, CaptureBreaks, CaptureOpens, CaptureStops, CapType,
                CaptureMarks, CaptureDies, CaptureDiskFull, CaptureMarkFails, LeaveLoop, Recording
  <2> QED
    BY <1>t, <1>j, <2>1, <2>2, TasksFrame DEF Alive, Storing, reqVars, liveVars, storeVars
<1>2. CASE (Living(s) /\ ~LiveFinished(s)) \/ LiveBreaks(s) \/ Streaming(s)
  <2>1. UNCHANGED <<reqVars, capVars, persist>>
    BY <1>2 DEF Living, LiveBreaks, Streaming, RouterPulls, RouterPublishes, LiveDiscards, StreamEnds,
         LiveJoins, RouterDrops, RouterExhausted, StreamHandsOff, StreamExhausted,
         StreamOpensTurn, StreamClosesTurn, storeVars
  <2>2. \A t \in Sid :
          /\ live'[t] \notin {"none", "done"} => live[t] \notin {"none", "done"}
          /\ live'[t] = "done" => live[t] = "done" \/ cap[t] = "done"
    BY <1>t, <1>2 DEF Living, LiveBreaks, Streaming, RouterPulls, RouterPublishes, LiveDiscards, StreamEnds,
         LiveJoins, RouterDrops, RouterExhausted, StreamHandsOff, StreamExhausted,
         StreamOpensTurn, StreamClosesTurn, LiveGoes, LiveType
  <2> QED
    BY <1>t, <1>j, <2>1, <2>2, TasksFrame DEF Alive, Recording, Storing, reqVars, capVars
<1>3. CASE Persisting(s)
  <2>1. UNCHANGED <<reqVars, capVars, liveVars>>
    BY <1>3 DEF Persisting, PersistAdds, PersistPublishes, PersistFails, PersistEnds
  <2>2. \A t \in Sid : Storing(t)' => Storing(t)
    BY <1>t, <1>3 DEF Persisting, PersistAdds, PersistPublishes, PersistFails, PersistEnds, Storing, StoreType
  <2> QED
    BY <1>t, <1>j, <2>1, <2>2, TasksFrame DEF Alive, Recording, reqVars, capVars, liveVars
<1> QED
  BY <1>1, <1>2, <1>3

(* A step of one process outside every teardown moves no ownership. *)
LEMMA OutsideFrame ==
  ASSUME ReqType, Ownership, NEW p \in Proc,
         at[p] \notin Teardown, at'[p] \notin Teardown,
         \A q \in Proc \ {p} : at'[q] = at[q] /\ target'[q] = target[q],
         UNCHANGED <<cap, live, persist, slot, liveView>>,
         LockedAlone'
  PROVE  Ownership'
<1>1. \A q \in Proc, s \in Sid : TearingDown(q, s)' = TearingDown(q, s)
  BY DEF TearingDown
<1>2. \A s \in Sid : Owned(s)' = Owned(s) /\ Alive(s)' = Alive(s) /\ Storing(s)' = Storing(s)
  BY <1>1 DEF Owned, Alive, Recording, Storing
<1>3. TasksOwned' /\ OwnersShow'
  BY <1>2 DEF Ownership, TasksOwned, OwnersShow
<1>4. ASSUME NEW q \in Proc, at'[q] \in Teardown
      PROVE  q # p /\ at'[q] = at[q] /\ target'[q] = target[q]
  BY <1>4
<1>5. Joined'
  BY <1>4 DEF Ownership, Joined, Alive, Recording, Storing
<1> QED
  BY <1>3, <1>5 DEF Ownership

(* Queueing for the lock, and giving it back, put nobody inside. *)
LEMMA QueueAlone ==
  ASSUME ReqType, LockedAlone, NEW p \in Proc, NEW l, l \notin Locked,
         lockq' = Append(lockq, p), Goto(p, l), UNCHANGED slot
  PROVE  LockedAlone'
<1>1. ASSUME NEW q \in Proc, at'[q] \in Locked PROVE at[q] \in Locked
  BY <1>1 DEF Goto, ReqType
<1>2. lockq # <<>> => lockq' # <<>> /\ Head(lockq') = Head(lockq)
  BY DEF ReqType
<1> QED
  BY <1>1, <1>2 DEF LockedAlone, Holds

LEMMA ReleaseAlone ==
  ASSUME ReqType, LockedAlone, NEW p \in Proc, Holds(p), Release(p)
  PROVE  \A q \in Proc : at'[q] \notin Locked
<1>1. at' = [at EXCEPT ![p] = "idle"] /\ "idle" \notin Locked
  BY DEF Release, Goto, Locked, Teardown
<1>2. ASSUME NEW q \in Proc, at[q] \in Locked PROVE q = p
  BY <1>2 DEF LockedAlone, Holds
<1> QED
  BY <1>1, <1>2 DEF ReqType

(* Arriving, being refused, failing: the steps of a request outside the
   launch and outside a teardown. *)
LEMMA OutsideSteps ==
  ASSUME TypeOK, Ownership, NEW p \in Proc,
         \/ \E kind \in RequestKinds, l \in Waiting : Arrive(p, kind, l)
         \/ StartRefused(p) \/ StartPreflight(p) \/ StartFails(p) \/ StartNamed(p)
         \/ StartCreates(p) \/ StartCreateFails(p) \/ StopIdle(p)
         \/ \E s \in Sid : RequestDelete(p, s)
         \/ DeleteFiles(p) \/ DeleteRow(p)
         \/ p \in Sid /\ EndQueues(p)
         \/ p \in Sid /\ EndStale(p)
  PROVE  Ownership'
<1>t. ReqType /\ LockedAlone
  BY DEF TypeOK, Ownership
<1>w. Waiting \cap Locked = {}
  BY DEF Waiting, Locked, Teardown
<1>f. ASSUME UNCHANGED <<cap, live, persist, slot, liveView>>, LockedAlone',
             NEW l, l \notin Teardown, Goto(p, l), at[p] \notin Teardown,
             \A q \in Proc \ {p} : target'[q] = target[q]
      PROVE  Ownership'
  <2>1. at'[p] \notin Teardown /\ \A q \in Proc \ {p} : at'[q] = at[q]
    BY <1>t, <1>f DEF Goto, ReqType
  <2> QED
    BY <1>t, <1>f, <2>1, OutsideFrame
<1>1. CASE \E kind \in RequestKinds, l \in Waiting : Arrive(p, kind, l)
  <2>1. PICK kind \in RequestKinds, l \in Waiting : Arrive(p, kind, l)
    BY <1>1
  <2>2. LockedAlone'
    BY <1>t, <1>w, <2>1, QueueAlone DEF Arrive
  <2> QED
    BY <1>f, <1>w, <2>1, <2>2 DEF Arrive, capVars, liveVars, storeVars, Locked, Teardown
<1>2. CASE StartRefused(p) \/ StartFails(p) \/ StartCreateFails(p) \/ StopIdle(p)
           \/ (p \in Sid /\ EndStale(p))
  <2>1. Holds(p) /\ Release(p) /\ UNCHANGED <<cap, live, persist, slot, liveView>>
    BY <1>2 DEF StartRefused, StartFails, StartCreateFails, StopIdle, EndStale, capVars, liveVars, storeVars
  <2>2. LockedAlone'
    BY <1>t, <2>1, ReleaseAlone DEF LockedAlone
  <2>3. \A q \in Proc \ {p} : target'[q] = target[q]
    BY <1>t, <1>2 DEF StartRefused, StartFails, StartCreateFails, StopIdle, EndStale, ReqType
  <2>4. at[p] \notin Teardown /\ "idle" \notin Teardown
    BY <1>2 DEF StartRefused, StartFails, StartCreateFails, StopIdle, EndStale, Teardown
  <2> QED
    BY <1>f, <2>1, <2>2, <2>3, <2>4 DEF Release
<1>3. CASE StartPreflight(p) \/ StartNamed(p) \/ StartCreates(p)
  <2>1. Holds(p) /\ slot = None /\ UNCHANGED <<lockq, cap, live, persist, slot, liveView>>
    BY <1>t, <1>3 DEF StartPreflight, StartNamed, StartCreates, capVars, liveVars, storeVars,
                      LockedAlone, Locked
  <2>2. PICK l \in {"preflight", "create", "launch"} : Goto(p, l)
    BY <1>3 DEF StartPreflight, StartNamed, StartCreates
  <2>3. LockedAlone'
    BY <1>t, <2>1, <2>2 DEF LockedAlone, Holds, Goto, ReqType
  <2>4. \A q \in Proc \ {p} : target'[q] = target[q]
    BY <1>t, <1>3 DEF StartPreflight, StartNamed, StartCreates, ReqType
  <2>5. at[p] \notin Teardown /\ l \notin Teardown
    BY <1>3, <2>2 DEF StartPreflight, StartNamed, StartCreates, Teardown
  <2> QED
    BY <1>f, <2>1, <2>2, <2>3, <2>4, <2>5
<1>4. CASE (\E s \in Sid : RequestDelete(p, s)) \/ DeleteFiles(p) \/ DeleteRow(p)
  <2>1. UNCHANGED <<lockq, cap, live, persist, slot, liveView>>
    BY <1>4 DEF RequestDelete, DeleteFiles, DeleteRow, capVars, liveVars, storeVars
  <2>2. PICK l \in {"unlink", "unrow", "idle"} : Goto(p, l)
    BY <1>4 DEF RequestDelete, DeleteFiles, DeleteRow
  <2>3. l \notin Locked /\ l \notin Teardown
    BY <2>2 DEF Locked, Teardown
  <2>4. LockedAlone'
    BY <1>t, <2>1, <2>2, <2>3 DEF LockedAlone, Holds, Goto, ReqType
  <2>5. \A q \in Proc \ {p} : target'[q] = target[q]
    BY <1>t, <1>4 DEF RequestDelete, DeleteFiles, DeleteRow, ReqType
  <2>6. at[p] \notin Teardown
    BY <1>4 DEF RequestDelete, DeleteFiles, DeleteRow, Teardown
  <2> QED
    BY <1>f, <2>1, <2>2, <2>3, <2>4, <2>5, <2>6
<1>5. CASE p \in Sid /\ EndQueues(p)
  <2>1. LockedAlone'
    BY <1>t, <1>w, <1>5, QueueAlone DEF EndQueues, Waiting
  <2>2. at[p] \notin Teardown /\ "wait.end" \notin Teardown
    BY <1>5 DEF EndQueues, Teardown
  <2> QED
    BY <1>f, <1>5, <2>1, <2>2 DEF EndQueues, capVars, liveVars, storeVars
<1> QED
  BY <1>1, <1>2, <1>3, <1>4, <1>5

(* A start that launches finds no task of any other session running. *)
LEMMA LaunchStep ==
  ASSUME TypeOK, Ownership, NEW c \in Clients, NEW shape \in Shapes, StartLaunches(c, shape)
  PROVE  Ownership'
<1>t. ReqType /\ CapType /\ LiveType /\ StoreType /\ LockedAlone /\ c \in Proc
  BY DEF TypeOK, Ownership, Proc
<1>s. PICK s \in Sid \cup {None} : s = target[c]
  BY <1>t DEF ReqType
<1>1. \A q \in Proc : at'[q] \notin Locked
  BY <1>t, ReleaseAlone DEF StartLaunches
<1>2. at[c] = "launch" /\ Holds(c) /\ slot' = s /\ liveView' = s
  BY <1>s DEF StartLaunches
<1>3. \A t \in Sid : (~Alive(t) /\ ~Storing(t)) \/ TearingDown(c, t)
  BY <1>t, <1>2, InsideOwns DEF Ownership, Locked
<1>4. \A t \in Sid : ~Alive(t) /\ ~Storing(t)
  BY <1>2, <1>3 DEF TearingDown, Teardown
<1>5. \A t \in Sid : Owned(t)' <=> t = s
  BY <1>1, <1>2 DEF Owned, TearingDown, Locked
<1>6. \A t \in Sid : t # s => cap'[t] = cap[t] /\ live'[t] = live[t] /\ persist'[t] = persist[t]
  BY <1>s DEF StartLaunches, TypeOK, CapType, LiveType, StoreType
<1>7. \A t \in Sid : t # s => ~Alive(t)' /\ ~Storing(t)'
  BY <1>4, <1>6 DEF Alive, Recording, Storing
<1>8. s \in Sid => live'[s] # "done"
  BY <1>s, <1>t DEF StartLaunches, LiveType
<1>9. LockedAlone' /\ TasksOwned' /\ OwnersShow'
  BY <1>1, <1>2, <1>5, <1>7 DEF LockedAlone, TasksOwned, OwnersShow
<1>10. Joined'
  BY <1>1, <1>7, <1>8 DEF Joined, Alive, Locked
<1> QED
  BY <1>9, <1>10 DEF Ownership

(* Taking the runtime out of the slot moves the session to the taker. *)
LEMMA TakeStep ==
  ASSUME TypeOK, Ownership, NEW p \in Proc, NEW s \in Sid, Take(p, s), at[p] \in Waiting
  PROVE  Ownership'
<1>t. ReqType /\ LockedAlone /\ Holds(p) /\ slot = s /\ slot' = None
  BY DEF TypeOK, Ownership, Take
<1>1. \A q \in Proc : at[q] \notin Locked
  BY <1>t DEF LockedAlone, Sid, None
<1>2. \A q \in Proc : at'[q] = (IF q = p THEN "drain" ELSE at[q])
  BY <1>t DEF Take, Goto, ReqType
<1>3. target'[p] = s /\ lockq' = lockq /\ liveView' = liveView
  BY <1>t DEF Take, ReqType
<1>4. LockedAlone'
  BY <1>t, <1>1, <1>2, <1>3 DEF LockedAlone, Holds
<1>5. \A q \in Proc, r \in Sid : TearingDown(q, r)' <=> q = p /\ r = s
  BY <1>1, <1>2, <1>3 DEF TearingDown, Locked, Teardown
<1>6. \A r \in Sid : Owned(r) <=> r = s
  BY <1>t, <1>1 DEF Owned, TearingDown, Locked
<1>7. \A r \in Sid : Owned(r)' <=> r = s
  BY <1>t, <1>5 DEF Owned, Sid, None
<1>8. UNCHANGED <<cap, live, persist>>
  BY DEF Take, liveVars, storeVars
<1>9. TasksOwned' /\ OwnersShow'
  BY <1>3, <1>6, <1>7, <1>8 DEF Ownership, TasksOwned, OwnersShow, Alive, Recording, Storing
<1>10. Joined'
  BY <1>1, <1>2, <1>8 DEF Ownership, Joined, Recording, Locked
<1> QED
  BY <1>4, <1>9, <1>10 DEF Ownership

(* The teardown is the only process inside while it walks its steps, and
   leaves when neither task of its session is running. *)
LEMMA EndingStep ==
  ASSUME TypeOK, Ownership, NEW p \in Proc, Ending(p)
  PROVE  Ownership'
<1>t. ReqType /\ StoreType /\ LiveType /\ LockedAlone
  BY DEF TypeOK, Ownership
<1>1. at[p] \in Teardown
  BY DEF Ending, Drained, PersistAwaited, InterimsDeleted, WriterCloses, RowFinishes, Returns, Teardown
<1>s. PICK s \in Sid : s = target[p]
  BY <1>t, <1>1 DEF ReqType
<1>2. Holds(p) /\ slot = None /\ \A q \in Proc \ {p} : at[q] \notin Locked
  BY <1>t, <1>1, OneInside DEF LockedAlone, Locked
<1>3. UNCHANGED <<cap, live, slot>> /\ \A t \in Sid : Storing(t)' = Storing(t)
  <2>1. UNCHANGED <<cap, live, slot, persist>>
    BY DEF Ending, Drained, PersistAwaited, InterimsDeleted, WriterCloses, RowFinishes, Returns,
           capVars, liveVars, storeVars
  <2> QED
    BY <2>1 DEF Storing
<1>4. CASE Returns(p)
  <2>1. ~Alive(s) /\ ~Storing(s)
    BY <1>s, <1>4 DEF Returns, Ownership, Joined, Teardown
  <2>2. \A q \in Proc : at'[q] \notin Locked
    BY <1>t, <1>2, <1>4, ReleaseAlone DEF Returns
  <2>3. \A t \in Sid : ~Alive(t) /\ ~Storing(t)
    BY <1>t, <1>1, <1>s, <2>1, InsideOwns DEF Ownership, TearingDown, Locked
  <2>4. \A t \in Sid : ~Alive(t)' /\ ~Storing(t)' /\ ~Owned(t)'
    BY <1>2, <1>3, <2>2, <2>3 DEF Alive, Recording, Owned, TearingDown, Locked, Sid, None
  <2>5. LockedAlone' /\ TasksOwned' /\ OwnersShow'
    BY <2>2, <2>4 DEF LockedAlone, TasksOwned, OwnersShow
  <2>6. Joined'
    BY <1>3, <2>2 DEF Ownership, Joined, Recording, Locked
  <2> QED
    BY <2>5, <2>6 DEF Ownership
<1>5. CASE ~Returns(p)
  <2>1. UNCHANGED <<lockq, target, liveView>>
    BY <1>5 DEF Ending, Drained, PersistAwaited, InterimsDeleted, WriterCloses, RowFinishes
  <2>2. PICK l \in Teardown : Goto(p, l)
    BY <1>5 DEF Ending, Drained, PersistAwaited, InterimsDeleted, WriterCloses, RowFinishes, Teardown
  <2>3. \A q \in Proc : at'[q] = (IF q = p THEN l ELSE at[q])
    BY <1>t, <2>2 DEF Goto, ReqType
  <2>4. \A q \in Proc, t \in Sid : TearingDown(q, t)' = TearingDown(q, t)
    BY <1>1, <2>1, <2>2, <2>3 DEF TearingDown
  <2>5. LockedAlone'
    BY <1>2, <1>3, <2>1, <2>3 DEF LockedAlone, Holds
  <2>6. \A t \in Sid : Owned(t)' = Owned(t) /\ Alive(t)' = Alive(t)
    BY <1>3, <2>4 DEF Owned, Alive, Recording
  <2>7. TasksOwned' /\ OwnersShow'
    BY <1>3, <2>1, <2>6 DEF Ownership, TasksOwned, OwnersShow
  <2>8. ~Alive(s) /\ (l \notin {"drain", "persist"} => ~Storing(s))
    BY <1>s, <1>t, <1>5, <2>2 DEF Ending, Drained, PersistAwaited, InterimsDeleted, WriterCloses,
       RowFinishes, Goto, ReqType, Ownership, Joined, Alive, Storing, Teardown
  <2>9. Joined'
    <3>1. \A t \in Sid : live'[t] = "done" => ~Recording(t)'
      BY <1>3 DEF Ownership, Joined, Recording
    <3>2. ~Alive(target[p])' /\ (l \notin {"drain", "persist"} => ~Storing(target[p])')
      BY <1>3, <1>s, <2>1, <2>6, <2>8 DEF Alive, Recording, Storing
    <3> QED
      BY <1>2, <2>3, <3>1, <3>2 DEF Joined, Locked
  <2> QED
    BY <2>5, <2>7, <2>9 DEF Ownership
<1> QED
  BY <1>4, <1>5

(* The drain timeout starts nothing but the cancelled task's own join. *)
LEMMA DrainTimeoutStep ==
  ASSUME TypeOK, Ownership, NEW p \in Proc, DrainTimeout(p)
  PROVE  Ownership'
<1>t. ReqType /\ CapType /\ LiveType
  BY DEF TypeOK
<1>s. PICK s \in Sid : s = target[p]
  BY <1>t DEF DrainTimeout, ReqType, Teardown
<1>1. UNCHANGED <<lockq, at, target, slot, liveView, persist>> /\ at[p] = "drain" /\ live[s] # "done"
  BY <1>s DEF DrainTimeout, reqVars
<1>2. \A t \in Sid : t # s => cap'[t] = cap[t] /\ live'[t] = live[t]
  BY <1>s, <1>t DEF DrainTimeout, LeaveLoop, LiveGoes, CapType, LiveType
<1>3. live'[s] # "done"
  BY <1>s, <1>t DEF DrainTimeout, LiveGoes, LiveType
<1>4. \A t \in Sid :
        /\ Alive(t)' => Alive(t) \/ \E q \in Proc : at[q] = "drain" /\ target[q] = t
        /\ Storing(t)' => Storing(t)
        /\ live'[t] = "done" => ~Recording(t)'
  BY <1>s, <1>1, <1>2, <1>3 DEF Alive, Recording, Storing, Ownership, Joined
<1> QED
  BY <1>t, <1>1, <1>4, TasksFrame

(* The done callback runs with the slot taken, so nobody is inside. *)
LEMMA LiveFinishedStep ==
  ASSUME TypeOK, Ownership, NEW s \in Sid, LiveFinished(s)
  PROVE  Ownership'
<1>t. ReqType /\ LockedAlone /\ s \in Proc
  BY DEF TypeOK, Ownership, Proc
<1>u. UNCHANGED <<lockq, cap, live, persist, slot, liveView, target>>
  BY DEF LiveFinished, capVars, storeVars
<1>1. CASE slot = s /\ Goto(s, "spawned")
  <2>1. \A q \in Proc : at[q] \notin Locked
    BY <1>t, <1>1 DEF LockedAlone, Sid, None
  <2>2. \A q \in Proc : at'[q] = (IF q = s THEN "spawned" ELSE at[q])
    BY <1>t, <1>1 DEF Goto, ReqType
  <2>3. "spawned" \notin Locked /\ Teardown \subseteq Locked
    BY DEF Locked, Teardown
  <2>4. LockedAlone'
    BY <2>1, <2>2, <2>3 DEF LockedAlone
  <2> QED
    BY <1>t, <1>u, <2>1, <2>2, <2>3, <2>4, OutsideFrame
<1>2. CASE UNCHANGED at
  <2>1. \A t \in Sid : /\ Alive(t)' = Alive(t) /\ Storing(t)' = Storing(t)
                       /\ live'[t] = "done" => ~Recording(t)'
    BY <1>u DEF Alive, Recording, Storing, Ownership, Joined
  <2> QED
    BY <1>t, <1>u, <1>2, <2>1, TasksFrame
<1> QED
  BY <1>1, <1>2 DEF LiveFinished

(* Death empties the slot and every task; a boot leaves them empty. *)
LEMMA BootStep ==
  ASSUME TypeOK, Ownership, Crash \/ BootMarks \/ BootServes \/ \E s \in Sid : BootSweeps(s)
  PROVE  Ownership'
<1>1. CASE Crash
  BY <1>1 DEF Crash, Ownership, LockedAlone, TasksOwned, OwnersShow, Joined, Alive, Recording,
              Storing, Owned, TearingDown, Locked, Teardown, Sid, None
<1>2. CASE BootMarks \/ BootServes \/ \E s \in Sid : BootSweeps(s)
  <2>1. UNCHANGED <<reqVars, capVars, liveVars, storeVars>>
    BY <1>2 DEF BootMarks, BootServes, BootSweeps
  <2>2. \A t \in Sid : /\ Alive(t)' = Alive(t) /\ Storing(t)' = Storing(t)
                       /\ live'[t] = "done" => ~Recording(t)'
    BY <2>1 DEF Alive, Recording, Storing, Ownership, Joined, capVars, liveVars, storeVars
  <2> QED
    BY <2>1, <2>2, TasksFrame DEF TypeOK, reqVars
<1> QED
  BY <1>1, <1>2

-----------------------------------------------------------------------------
(* The invariant. *)

LEMMA OwnershipInit == Init => OwnershipInv
<1> SUFFICES ASSUME Init PROVE OwnershipInv
  OBVIOUS
<1>1. ReqType /\ CapType /\ FeedType
  BY ConstantsAssumption DEF Init, ReqType, CapType, FeedType, Teardown, None
<1>2. LiveType /\ StoreType /\ DiskType /\ BootType
  BY ConstantsAssumption DEF Init, LiveType, StoreType, DiskType, BootType
<1>3. InHand /\ LockedAlone
  BY DEF Init, InHand, LockedAlone, Locked, Teardown
<1>4. TasksOwned /\ OwnersShow /\ Joined
  BY DEF Init, TasksOwned, OwnersShow, Joined, Alive, Recording, Storing, Owned, TearingDown,
         Teardown, Sid, None
<1> QED
  BY <1>1, <1>2, <1>3, <1>4 DEF OwnershipInv, TypeOK

LEMMA TypeStep ==
  ASSUME TypeOK, InHand, LockedAlone, [Next]_vars
  PROVE  TypeOK' /\ InHand'
<1>1. ASSUME NEW c \in Clients,
             \/ RequestStart(c) \/ RequestStop(c) \/ \E s \in Sid : RequestDelete(c, s)
             \/ Starting(c) \/ StopTakes(c) \/ StopIdle(c) \/ Deleting(c)
      PROVE  TypeOK' /\ InHand'
  BY <1>1, RequestTypes
<1>2. ASSUME NEW p \in Proc, Ending(p) PROVE TypeOK' /\ InHand'
  <2>1. at[p] \in Locked
    BY <1>2 DEF Ending, Drained, PersistAwaited, InterimsDeleted, WriterCloses, RowFinishes, Returns,
                Locked, Teardown
  <2> QED
    BY <1>2, <2>1, EndingTypes DEF LockedAlone
<1>3. ASSUME NEW p \in Proc, DrainTimeout(p) PROVE TypeOK' /\ InHand'
  BY <1>3, DrainTimeoutTypes
<1>4. ASSUME NEW s \in Sid, Capturing(s) \/ CaptureCompletes(s) \/ CaptureBreaks(s)
      PROVE  TypeOK' /\ InHand'
  BY <1>4, CaptureTypes
<1>5. ASSUME NEW s \in Sid, Living(s) \/ LiveBreaks(s) \/ Streaming(s) PROVE TypeOK' /\ InHand'
  BY <1>5, LiveTypes
<1>6. ASSUME NEW s \in Sid, Persisting(s) PROVE TypeOK' /\ InHand'
  BY <1>6, PersistTypes
<1>7. ASSUME NEW s \in Sid, Unattended(s) PROVE TypeOK' /\ InHand'
  BY <1>7, UnattendedTypes
<1>8. CASE Crash \/ BootMarks \/ BootServes \/ \E s \in Sid : BootSweeps(s)
  BY <1>8, BootTypes
<1>9. CASE UNCHANGED vars
  <2>1. UNCHANGED <<reqVars, capVars, feedVars, liveVars, storeVars, diskVars, bootVars>>
    BY <1>9 DEF vars
  <2>2. ReqType'
    BY <2>1 DEF TypeOK, ReqType, reqVars
  <2> QED
    BY <2>1, <2>2, RequestOnly
<1> QED
  BY <1>1, <1>2, <1>3, <1>4, <1>5, <1>6, <1>7, <1>8, <1>9 DEF Next

LEMMA OwnershipStep ==
  ASSUME TypeOK, Ownership, [Next]_vars
  PROVE  Ownership'
<1>c. Clients \subseteq Proc /\ Sid \subseteq Proc
  BY DEF Proc
<1>1. ASSUME NEW c \in Clients,
             \/ RequestStart(c) \/ RequestStop(c) \/ \E s \in Sid : RequestDelete(c, s)
             \/ StopIdle(c) \/ Deleting(c)
      PROVE  Ownership'
  BY <1>c, <1>1, OutsideSteps DEF RequestStart, RequestStop, Deleting, RequestKinds, Waiting
<1>2. ASSUME NEW c \in Clients, Starting(c) PROVE Ownership'
  BY <1>c, <1>2, OutsideSteps, LaunchStep DEF Starting
<1>3. ASSUME NEW c \in Clients, StopTakes(c) PROVE Ownership'
  <2>1. slot \in Sid /\ Take(c, slot) /\ at[c] \in Waiting
    BY <1>3 DEF StopTakes, TypeOK, ReqType, Waiting
  <2>2. PICK s \in Sid : s = slot /\ Take(c, s)
    BY <2>1
  <2> QED
    BY <1>c, <2>1, <2>2, TakeStep
<1>4. ASSUME NEW p \in Proc, Ending(p) \/ DrainTimeout(p) PROVE Ownership'
  BY <1>4, EndingStep, DrainTimeoutStep
<1>5. ASSUME NEW s \in Sid,
             \/ Capturing(s) \/ CaptureCompletes(s) \/ CaptureBreaks(s)
             \/ Living(s) \/ LiveBreaks(s) \/ Streaming(s) \/ Persisting(s)
      PROVE  Ownership'
  BY <1>5, TaskSteps, LiveFinishedStep
<1>6. ASSUME NEW s \in Sid, Unattended(s) PROVE Ownership'
  <2>1. CASE EndTakes(s)
    BY <1>c, <2>1, TakeStep DEF EndTakes, Waiting
  <2>2. CASE EndQueues(s) \/ EndStale(s)
    BY <1>c, <2>2, OutsideSteps
  <2> QED
    BY <1>6, <2>1, <2>2 DEF Unattended
<1>7. CASE Crash \/ BootMarks \/ BootServes \/ \E s \in Sid : BootSweeps(s)
  BY <1>7, BootStep
<1>8. CASE UNCHANGED vars
  <2>1. UNCHANGED <<reqVars, capVars, liveVars, storeVars>>
    BY <1>8 DEF vars
  <2>2. \A t \in Sid : /\ Alive(t)' = Alive(t) /\ Storing(t)' = Storing(t)
                       /\ live'[t] = "done" => ~Recording(t)'
    BY <2>1 DEF Alive, Recording, Storing, Ownership, Joined, capVars, liveVars, storeVars
  <2> QED
    BY <2>1, <2>2, TasksFrame DEF TypeOK, reqVars
<1> QED
  BY <1>1, <1>2, <1>3, <1>4, <1>5, <1>6, <1>7, <1>8 DEF Next

(* OwnershipInv holds in every reachable state: the types, the lock's mutual
   exclusion, an owner for every running task, and the order of the joins. *)
THEOREM OwnershipInvariant == Spec => []OwnershipInv
<1>1. OwnershipInv /\ [Next]_vars => OwnershipInv'
  BY TypeStep, OwnershipStep DEF OwnershipInv, Ownership
<1> QED
  BY <1>1, OwnershipInit, PTL DEF Spec

(* The variables keep their types, and no utterance queue outgrows its bound. *)
THEOREM TypeCorrect == Spec => []TypeOK
<1>1. OwnershipInv => TypeOK
  BY DEF OwnershipInv
<1> QED
  BY <1>1, OwnershipInvariant, PTL

(* Never two sessions with a running task, and no microphone pre-flighted
   while one has any (SessionManager.start, stop: one lock over a start and
   over a whole teardown). *)
THEOREM OneRecorderAlways == Spec => []OneRecorder
<1>1. OwnershipInv => OneRecorder
  <2> SUFFICES ASSUME OwnershipInv PROVE OneRecorder
    OBVIOUS
  <2>1. ReqType /\ LockedAlone /\ TasksOwned
    BY DEF OwnershipInv, TypeOK
  <2>2. ASSUME NEW s \in Sid, NEW t \in Sid, Alive(s) \/ Storing(s), Alive(t) \/ Storing(t)
        PROVE  s = t
    <3>1. CASE \E p \in Proc : at[p] \in Locked
      BY <2>1, <2>2, <3>1, InsideOwns DEF TearingDown
    <3>2. CASE \A p \in Proc : at[p] \notin Locked
      BY <2>1, <2>2, <3>2 DEF TasksOwned, Owned, TearingDown, Locked
    <3> QED
      BY <3>1, <3>2
  <2>3. ASSUME NEW c \in Clients, at[c] = "preflight", NEW s \in Sid
        PROVE  ~Alive(s) /\ ~Storing(s)
    <3>1. c \in Proc /\ at[c] \in Locked /\ at[c] \notin Teardown
      BY <2>3 DEF Proc, Locked, Teardown
    <3> QED
      BY <2>1, <3>1, InsideOwns DEF TearingDown
  <2> QED
    BY <2>2, <2>3 DEF OneRecorder
<1> QED
  BY <1>1, OwnershipInvariant, PTL

(* One caller per teardown, and always an owner for a running session (the
   swap of _runtime under the lock). *)
THEOREM OneOwnerAlways == Spec => []OneOwner
<1>1. OwnershipInv => OneOwner
  <2> SUFFICES ASSUME OwnershipInv, NEW s \in Sid
      PROVE  /\ \A p, q \in Proc : TearingDown(p, s) /\ TearingDown(q, s) => p = q
             /\ \A p \in Proc : TearingDown(p, s) => slot # s
             /\ Alive(s) => slot = s \/ \E p \in Proc : TearingDown(p, s)
    BY DEF OneOwner
  <2>1. LockedAlone /\ TasksOwned
    BY DEF OwnershipInv
  <2>2. \A p, q \in Proc : TearingDown(p, s) /\ TearingDown(q, s) => p = q
    BY <2>1, OneInside DEF TearingDown, Locked
  <2>3. \A p \in Proc : TearingDown(p, s) => slot # s
    BY <2>1 DEF LockedAlone, TearingDown, Locked, Sid, None
  <2> QED
    BY <2>1, <2>2, <2>3 DEF TasksOwned, Owned
<1> QED
  BY <1>1, OwnershipInvariant, PTL

(* What the persist task publishes is shown: the live view is that session's,
   teardown included (live_view_session_id). *)
THEOREM LiveViewFollowsAlways == Spec => []LiveViewFollows
<1>1. OwnershipInv => LiveViewFollows
  BY DEF OwnershipInv, LiveViewFollows, TasksOwned, OwnersShow, Storing
<1> QED
  BY <1>1, OwnershipInvariant, PTL

-----------------------------------------------------------------------------
(* The session manager implements the abstract recorder.  The refinement mapping
   is PhaseOf.  Seven kinds of step move a phase or a name (Turning); every other
   one is a stutter of the recorder, because it changes neither the slot nor who
   is inside a start or a teardown. *)
Named == {"create", "launch"}

Naming(c, s) == at[c] \in Named /\ target[c] = s
Closing(s)   == \E p \in Proc : TearingDown(p, s)
Unborn(s)    == born < s \/ \E c \in Clients : Naming(c, s)

(* Whoever names, owns or ends a session holds an id that was given out. *)
NamesGiven ==
  /\ slot <= born
  /\ \A p \in Proc : at[p] \in Named \cup Teardown => target[p] \in 1 .. born

RecorderInv == OwnershipInv /\ NamesGiven

Phases == [s \in Sid |-> PhaseOf(s)]

(* The four cases of PhaseOf exclude each other. *)
PhaseRight ==
  \A s \in Sid :
    /\ slot = s => PhaseOf(s) = "recording"
    /\ Closing(s) => PhaseOf(s) = "ending"
    /\ Unborn(s) => PhaseOf(s) = "unborn"
    /\ slot # s /\ ~Closing(s) /\ ~Unborn(s) => PhaseOf(s) = "ended"

(* The steps that are not a stutter of the recorder, or that give out a name. *)
Turning ==
  \/ \E c \in Clients : \/ StartNamed(c) \/ StartCreateFails(c) \/ StopTakes(c)
                        \/ \E shape \in Shapes : StartLaunches(c, shape)
  \/ \E s \in Sid : EndTakes(s)
  \/ \E p \in Proc : Returns(p)
  \/ Crash

LEMMA PhaseFacts == RecorderInv => PhaseRight
<1> SUFFICES ASSUME RecorderInv, NEW s \in Sid
    PROVE  /\ slot = s => PhaseOf(s) = "recording"
           /\ Closing(s) => PhaseOf(s) = "ending"
           /\ Unborn(s) => PhaseOf(s) = "unborn"
           /\ slot # s /\ ~Closing(s) /\ ~Unborn(s) => PhaseOf(s) = "ended"
  BY DEF PhaseRight
<1>t. LockedAlone /\ NamesGiven /\ born \in Nat /\ s \in Nat \ {0} /\ Clients \subseteq Proc
  BY ConstantsAssumption DEF RecorderInv, OwnershipInv, TypeOK, ReqType, Sid, Proc
<1>1. slot = s => ~Closing(s) /\ ~Unborn(s)
  BY <1>t DEF LockedAlone, NamesGiven, Closing, Unborn, TearingDown, Naming, Locked, Named, None
<1>2. Closing(s) => ~Unborn(s)
  <2> SUFFICES ASSUME NEW p \in Proc, TearingDown(p, s), Unborn(s) PROVE FALSE
    BY DEF Closing
  <2>1. ~(born < s)
    BY <1>t DEF NamesGiven, TearingDown
  <2>2. PICK c \in Clients : Naming(c, s)
    BY <2>1 DEF Unborn
  <2>3. c = p
    BY <1>t, <2>2, OneInside DEF TearingDown, Naming, Named, Locked
  <2> QED
    BY <2>2, <2>3 DEF TearingDown, Naming, Named, Teardown
<1>3. PhaseOf(s) = CASE slot = s -> "recording" [] Closing(s) -> "ending"
                     [] Unborn(s) -> "unborn" [] OTHER -> "ended"
  BY DEF PhaseOf, Closing, Unborn, Naming, Named
<1>4. CASE slot = s
  BY <1>1, <1>3, <1>4
<1>5. CASE Closing(s)
  BY <1>1, <1>2, <1>3, <1>5
<1>6. CASE Unborn(s)
  BY <1>1, <1>2, <1>3, <1>6
<1>7. CASE slot # s /\ ~Closing(s) /\ ~Unborn(s)
  BY <1>3, <1>7
<1> QED
  BY <1>1, <1>2, <1>4, <1>5, <1>6, <1>7

LEMMA PhaseFactsNext == RecorderInv' => PhaseRight'
BY PhaseFacts, PTL

(* A step of one process that neither enters nor leaves a start or a teardown
   leaves every phase alone. *)
LEMMA MovesFrame ==
  ASSUME NamesGiven, NEW p \in Proc, UNCHANGED <<slot, born>>,
         \A q \in Proc \ {p} : at'[q] = at[q] /\ target'[q] = target[q],
         at'[p] \in Named <=> at[p] \in Named,
         at'[p] \in Teardown <=> at[p] \in Teardown,
         at'[p] \in Named \cup Teardown => target'[p] = target[p]
  PROVE  NamesGiven' /\ UNCHANGED Phases
<1>1. \A q \in Proc, s \in Sid : TearingDown(q, s)' = TearingDown(q, s)
  BY DEF TearingDown
<1>2. \A c \in Clients, s \in Sid : Naming(c, s)' = Naming(c, s)
  BY DEF Naming, Proc
<1>3. \A s \in Sid : PhaseOf(s)' = PhaseOf(s)
  <2> SUFFICES ASSUME NEW s \in Sid PROVE PhaseOf(s)' = PhaseOf(s)
    OBVIOUS
  <2>1. (\E q \in Proc : TearingDown(q, s))' <=> \E q \in Proc : TearingDown(q, s)
    BY <1>1
  <2>2. (\E c \in Clients : target[c] = s /\ at[c] \in {"create", "launch"})'
          <=> \E c \in Clients : target[c] = s /\ at[c] \in {"create", "launch"}
    BY <1>2 DEF Naming, Named
  <2> QED
    BY <2>1, <2>2 DEF PhaseOf
<1>4. NamesGiven'
  BY DEF NamesGiven
<1> QED
  BY <1>3, <1>4 DEF Phases

(* ... so does a step that touches no request at all. *)
LEMMA RequestsAlone ==
  ASSUME NamesGiven, UNCHANGED <<at, target, slot, born>>
  PROVE  NamesGiven' /\ UNCHANGED Phases
<1>1. NamesGiven'
  BY DEF NamesGiven
<1>2. \A s \in Sid : PhaseOf(s)' = PhaseOf(s)
  BY DEF PhaseOf, TearingDown
<1> QED
  BY <1>1, <1>2 DEF Phases

-----------------------------------------------------------------------------
(* The steps that are a stutter. *)

(* A request on its way, outside a launch and a teardown. *)
LEMMA RequestFrame ==
  ASSUME RecorderInv, NEW p \in Proc,
         \/ \E kind \in RequestKinds, l \in Waiting : Arrive(p, kind, l)
         \/ StartRefused(p) \/ StartPreflight(p) \/ StartFails(p) \/ StartCreates(p)
         \/ StopIdle(p) \/ \E s \in Sid : RequestDelete(p, s)
         \/ DeleteFiles(p) \/ DeleteRow(p)
         \/ p \in Sid /\ (EndQueues(p) \/ EndStale(p))
  PROVE  NamesGiven' /\ UNCHANGED Phases
<1>t. ReqType /\ NamesGiven
  BY DEF RecorderInv, OwnershipInv, TypeOK
<1>f. ASSUME NEW l, l \notin Named \cup Teardown, Goto(p, l), UNCHANGED <<slot, born>>,
             at[p] \notin Named \cup Teardown,
             \A q \in Proc \ {p} : target'[q] = target[q]
      PROVE  NamesGiven' /\ UNCHANGED Phases
  <2>1. at'[p] = l /\ \A q \in Proc \ {p} : at'[q] = at[q]
    BY <1>t, <1>f DEF Goto, ReqType
  <2> QED
    BY <1>t, <1>f, <2>1, MovesFrame
<1>1. CASE \E kind \in RequestKinds, l \in Waiting : Arrive(p, kind, l)
  <2>1. PICK kind \in RequestKinds, l \in Waiting : Arrive(p, kind, l)
    BY <1>1
  <2>2. l \notin Named \cup Teardown /\ at[p] \notin Named \cup Teardown
    BY <2>1 DEF Arrive, Waiting, Named, Teardown
  <2> QED
    BY <1>f, <2>1, <2>2 DEF Arrive
<1>2. CASE StartRefused(p) \/ StartFails(p) \/ StopIdle(p) \/ (p \in Sid /\ EndStale(p))
  <2>1. Goto(p, "idle") /\ UNCHANGED <<target, slot, born>>
    BY <1>2 DEF StartRefused, StartFails, StopIdle, EndStale, Release
  <2>2. "idle" \notin Named \cup Teardown /\ at[p] \notin Named \cup Teardown
    BY <1>2 DEF StartRefused, StartFails, StopIdle, EndStale, Named, Teardown
  <2> QED
    BY <1>f, <2>1, <2>2
<1>3. CASE StartPreflight(p)
  <2>1. Goto(p, "preflight") /\ UNCHANGED <<target, slot, born>>
    BY <1>3 DEF StartPreflight
  <2>2. "preflight" \notin Named \cup Teardown /\ at[p] \notin Named \cup Teardown
    BY <1>3 DEF StartPreflight, Named, Teardown
  <2> QED
    BY <1>f, <2>1, <2>2
<1>4. CASE StartCreates(p)
  <2>1. at[p] = "create" /\ UNCHANGED <<target, slot, born>>
    BY <1>4 DEF StartCreates
  <2>2. at'[p] = "launch" /\ \A q \in Proc \ {p} : at'[q] = at[q]
    BY <1>t, <1>4 DEF StartCreates, Goto, ReqType
  <2>3. at[p] \notin Teardown /\ at'[p] \notin Teardown
    BY <2>1, <2>2 DEF Teardown
  <2> QED
    BY <1>t, <2>1, <2>2, <2>3, MovesFrame DEF Named
<1>5. CASE (\E s \in Sid : RequestDelete(p, s)) \/ DeleteFiles(p) \/ DeleteRow(p)
  <2>1. PICK l \in {"unlink", "unrow", "idle"} : Goto(p, l)
    BY <1>5 DEF RequestDelete, DeleteFiles, DeleteRow
  <2>2. UNCHANGED <<slot, born>> /\ \A q \in Proc \ {p} : target'[q] = target[q]
    BY <1>t, <1>5 DEF RequestDelete, DeleteFiles, DeleteRow, ReqType
  <2>3. l \notin Named \cup Teardown /\ at[p] \notin Named \cup Teardown
    BY <1>5, <2>1 DEF RequestDelete, DeleteFiles, DeleteRow, Named, Teardown
  <2> QED
    BY <1>f, <2>1, <2>2, <2>3
<1>6. CASE p \in Sid /\ EndQueues(p)
  <2>1. Goto(p, "wait.end") /\ UNCHANGED <<target, slot, born>>
    BY <1>6 DEF EndQueues
  <2>2. "wait.end" \notin Named \cup Teardown /\ at[p] \notin Named \cup Teardown
    BY <1>6 DEF EndQueues, Named, Teardown
  <2> QED
    BY <1>f, <2>1, <2>2
<1> QED
  BY <1>1, <1>2, <1>3, <1>4, <1>5, <1>6

(* A teardown on its way from one of its steps to the next. *)
LEMMA EndingFrame ==
  ASSUME RecorderInv, NEW p \in Proc, Ending(p), ~Returns(p)
  PROVE  NamesGiven' /\ UNCHANGED Phases
<1>t. ReqType /\ NamesGiven
  BY DEF RecorderInv, OwnershipInv, TypeOK
<1>1. at[p] \in Teardown /\ UNCHANGED <<target, slot, born>>
  BY DEF Ending, Drained, PersistAwaited, InterimsDeleted, WriterCloses, RowFinishes, Teardown
<1>2. PICK l \in Teardown : Goto(p, l)
  BY DEF Ending, Drained, PersistAwaited, InterimsDeleted, WriterCloses, RowFinishes, Teardown
<1>3. at'[p] = l /\ \A q \in Proc \ {p} : at'[q] = at[q]
  BY <1>t, <1>2 DEF Goto, ReqType
<1>4. at[p] \notin Named /\ l \notin Named
  BY <1>1 DEF Teardown, Named
<1> QED
  BY <1>t, <1>1, <1>3, <1>4, MovesFrame

(* The tasks of a session, and a boot, move no request; the callback of a live
   task that ends finds the slot taken, so nobody inside. *)
LEMMA TaskFrame ==
  ASSUME RecorderInv, NEW s \in Sid,
         \/ Capturing(s) \/ CaptureCompletes(s) \/ CaptureBreaks(s)
         \/ Living(s) \/ LiveBreaks(s) \/ Streaming(s) \/ Persisting(s)
  PROVE  NamesGiven' /\ UNCHANGED Phases
<1>t. ReqType /\ NamesGiven /\ LockedAlone /\ s \in Proc
  BY DEF RecorderInv, OwnershipInv, TypeOK, Proc
<1>1. CASE LiveFinished(s)
  <2>1. CASE UNCHANGED at
    BY <1>t, <1>1, <2>1, RequestsAlone DEF LiveFinished
  <2>2. CASE slot = s /\ Goto(s, "spawned")
    <3>1. at[s] \notin Named \cup Teardown /\ "spawned" \notin Named \cup Teardown
      BY <1>t, <2>2 DEF LockedAlone, Locked, Named, Teardown, Sid, None
    <3>2. at'[s] = "spawned" /\ \A q \in Proc \ {s} : at'[q] = at[q]
      BY <1>t, <2>2 DEF Goto, ReqType
    <3> QED
      BY <1>t, <1>1, <3>1, <3>2, MovesFrame DEF LiveFinished
  <2> QED
    BY <1>1, <2>1, <2>2 DEF LiveFinished
<1>2. CASE ~LiveFinished(s)
  <2>1. UNCHANGED reqVars
    BY <1>2 DEF Capturing, CaptureCompletes, CaptureBreaks, CaptureOpens, CaptureStops, CaptureMarks,
         CaptureDies, CaptureDiskFull, CaptureMarkFails, Living, LiveBreaks, Streaming, RouterPulls,
         RouterPublishes, LiveDiscards, StreamEnds, LiveJoins, RouterDrops, RouterExhausted,
         StreamHandsOff, StreamExhausted, StreamOpensTurn, StreamClosesTurn,
         Persisting, PersistAdds, PersistPublishes, PersistFails, PersistEnds
  <2> QED
    BY <1>t, <2>1, RequestsAlone DEF reqVars
<1> QED
  BY <1>1, <1>2

-----------------------------------------------------------------------------
(* The steps that are not: names first. *)

LEMMA TurningNames ==
  ASSUME RecorderInv, Turning
  PROVE  NamesGiven'
<1>t. ReqType /\ NamesGiven /\ LockedAlone /\ born \in Nat /\ MaxSessions \in Nat
  BY ConstantsAssumption DEF RecorderInv, OwnershipInv, TypeOK, ReqType
<1>c. Clients \subseteq Proc /\ Sid \subseteq Proc
  BY DEF Proc
<1>1. ASSUME NEW c \in Clients, StartNamed(c) PROVE NamesGiven'
  <2>1. born' = born + 1 /\ slot' = slot
    BY <1>1 DEF StartNamed
  <2>2. target'[c] = born + 1 /\ \A q \in Proc \ {c} : at'[q] = at[q] /\ target'[q] = target[q]
    BY <1>t, <1>c, <1>1 DEF StartNamed, Goto, ReqType
  <2>3. \A q \in Proc : at'[q] \in Named \cup Teardown => target'[q] \in 1 .. born + 1
    BY <1>t, <2>2 DEF NamesGiven
  <2> QED
    BY <1>t, <2>1, <2>3 DEF NamesGiven, ReqType, Sid, None
<1>2. ASSUME NEW p \in Proc, Holds(p), Release(p), born' = born, slot' \in 0 .. born PROVE NamesGiven'
  <2>1. \A q \in Proc : at'[q] \notin Locked
    BY <1>t, <1>2, ReleaseAlone
  <2> QED
    BY <1>t, <1>2, <2>1 DEF NamesGiven, Locked, Named
<1>3. ASSUME NEW c \in Clients, StartCreateFails(c) \/ \E shape \in Shapes : StartLaunches(c, shape)
      PROVE  NamesGiven'
  <2>1. Holds(c) /\ Release(c) /\ born' = born
    BY <1>3 DEF StartCreateFails, StartLaunches
  <2>2. at[c] \in Named /\ slot' \in {slot, target[c]}
    BY <1>3 DEF StartCreateFails, StartLaunches, Named
  <2>3. slot' \in 0 .. born
    BY <1>t, <1>c, <2>2 DEF NamesGiven, ReqType, Sid, None
  <2> QED
    BY <1>2, <1>c, <2>1, <2>3
<1>4. ASSUME NEW p \in Proc, Returns(p) PROVE NamesGiven'
  <2>1. at[p] \in Locked
    BY <1>4 DEF Returns, Locked, Teardown
  <2> QED
    BY <1>t, <1>2, <1>4, <2>1 DEF Returns, LockedAlone, NamesGiven, ReqType, Sid, None
<1>5. ASSUME NEW p \in Proc, NEW s \in Sid, Take(p, s) PROVE NamesGiven'
  <2>1. target'[p] = s /\ born' = born /\ slot' = None /\ slot = s
    BY <1>t, <1>5 DEF Take, ReqType
  <2>2. \A q \in Proc \ {p} : at'[q] = at[q] /\ target'[q] = target[q]
    BY <1>t, <1>5 DEF Take, Goto, ReqType
  <2> QED
    BY <1>t, <2>1, <2>2 DEF NamesGiven, Sid, None
<1>6. CASE Crash
  BY <1>t, <1>6 DEF Crash, NamesGiven, Named, Teardown, None
<1>7. ASSUME NEW c \in Clients, StopTakes(c) PROVE NamesGiven'
  BY <1>t, <1>c, <1>5, <1>7 DEF StopTakes, Take, ReqType
<1>8. ASSUME NEW s \in Sid, EndTakes(s) PROVE NamesGiven'
  BY <1>c, <1>5, <1>8 DEF EndTakes
<1> QED
  BY <1>1, <1>3, <1>4, <1>6, <1>7, <1>8 DEF Turning

LEMMA StepSorted ==
  ASSUME RecorderInv, [Next]_vars, ~Turning
  PROVE  NamesGiven' /\ UNCHANGED Phases
<1>t. NamesGiven /\ Clients \subseteq Proc /\ Sid \subseteq Proc
  BY DEF RecorderInv, Proc
<1>1. ASSUME NEW c \in Clients,
             \/ RequestStart(c) \/ RequestStop(c) \/ \E s \in Sid : RequestDelete(c, s)
             \/ StopIdle(c) \/ Deleting(c)
      PROVE  NamesGiven' /\ UNCHANGED Phases
  BY <1>t, <1>1, RequestFrame DEF RequestStart, RequestStop, Deleting, RequestKinds, Waiting
<1>2. ASSUME NEW c \in Clients, Starting(c) \/ StopTakes(c) PROVE NamesGiven' /\ UNCHANGED Phases
  <2>1. StartRefused(c) \/ StartPreflight(c) \/ StartFails(c) \/ StartCreates(c)
    BY <1>2 DEF Turning, Starting
  <2> QED
    BY <1>t, <2>1, RequestFrame
<1>3. ASSUME NEW p \in Proc, Ending(p) PROVE NamesGiven' /\ UNCHANGED Phases
  BY <1>3, EndingFrame DEF Turning
<1>4. ASSUME NEW p \in Proc, DrainTimeout(p) PROVE NamesGiven' /\ UNCHANGED Phases
  <2>1. UNCHANGED reqVars
    BY <1>4 DEF DrainTimeout
  <2> QED
    BY <1>t, <2>1, RequestsAlone DEF reqVars
<1>5. ASSUME NEW s \in Sid,
             \/ Capturing(s) \/ CaptureCompletes(s) \/ CaptureBreaks(s)
             \/ Living(s) \/ LiveBreaks(s) \/ Streaming(s) \/ Persisting(s)
      PROVE  NamesGiven' /\ UNCHANGED Phases
  BY <1>5, TaskFrame
<1>6. ASSUME NEW s \in Sid, Unattended(s) PROVE NamesGiven' /\ UNCHANGED Phases
  <2>1. EndQueues(s) \/ EndStale(s)
    BY <1>6 DEF Turning, Unattended
  <2> QED
    BY <1>t, <2>1, RequestFrame
<1>7. CASE BootMarks \/ BootServes \/ \E s \in Sid : BootSweeps(s)
  <2>1. UNCHANGED reqVars
    BY <1>7 DEF BootMarks, BootServes, BootSweeps
  <2> QED
    BY <1>t, <2>1, RequestsAlone DEF reqVars
<1>8. CASE UNCHANGED vars
  BY <1>t, <1>8, RequestsAlone DEF vars, reqVars
<1> QED
  BY <1>1, <1>2, <1>3, <1>4, <1>5, <1>6, <1>7, <1>8 DEF Next, Turning

LEMMA RecorderStep == RecorderInv /\ [Next]_vars => RecorderInv'
<1> SUFFICES ASSUME RecorderInv, [Next]_vars PROVE RecorderInv'
  OBVIOUS
<1>1. OwnershipInv'
  BY TypeStep, OwnershipStep DEF RecorderInv, OwnershipInv, Ownership
<1>2. NamesGiven'
  BY TurningNames, StepSorted
<1> QED
  BY <1>1, <1>2 DEF RecorderInv

LEMMA RecorderInitially == Init => RecorderInv
<1>1. Init => NamesGiven
  BY DEF Init, NamesGiven, Named, Teardown, None
<1> QED
  BY <1>1, OwnershipInit DEF RecorderInv

-----------------------------------------------------------------------------
(* ... and then the phase each of them moves. *)

LEMMA TurningRefines ==
  ASSUME RecorderInv, NamesGiven', PhaseRight, PhaseRight', Turning
  PROVE  R!Next \/ UNCHANGED Phases
<1>t. ReqType /\ NamesGiven /\ LockedAlone /\ born \in Nat /\ MaxSessions \in Nat
  BY ConstantsAssumption DEF RecorderInv, OwnershipInv, TypeOK, ReqType
<1>c. Clients \subseteq Proc /\ Sid \subseteq Proc /\ Sid \subseteq Nat \ {0}
  BY DEF Proc, Sid
(* With the slot empty and nobody tearing down, the recorder is idle. *)
<1>i. ASSUME slot = None, \A s \in Sid : ~Closing(s) PROVE \A s \in Sid : Phases[s] \in {"unborn", "ended"}
  BY <1>i, <1>c DEF PhaseRight, Phases, None
<1>1. ASSUME NEW c \in Clients, StartNamed(c) PROVE UNCHANGED Phases
  <2>1. born' = born + 1 /\ slot' = slot /\ at[c] = "preflight" /\ at'[c] = "create" /\ target'[c] = born + 1
    BY <1>t, <1>c, <1>1 DEF StartNamed, Goto, ReqType
  <2>2. \A q \in Proc \ {c} : at'[q] = at[q] /\ target'[q] = target[q]
    BY <1>t, <1>c, <1>1 DEF StartNamed, Goto, ReqType
  <2>3. ASSUME NEW s \in Sid PROVE PhaseOf(s)' = PhaseOf(s)
    <3>1. \A q \in Proc : TearingDown(q, s)' <=> TearingDown(q, s)
      BY <2>1, <2>2 DEF TearingDown, Teardown
    <3>2. Closing(s)' <=> Closing(s)
      BY <3>1 DEF Closing
    <3>3. \A q \in Clients : Naming(q, s)' <=> (Naming(q, s) \/ (q = c /\ s = born + 1))
      BY <1>c, <2>1, <2>2 DEF Naming, Named
    <3>4. Unborn(s)' <=> Unborn(s)
      BY <1>t, <1>c, <2>1, <3>3 DEF Unborn
    <3> QED
      BY <2>1, <3>2, <3>4 DEF PhaseRight
  <2> QED
    BY <2>3 DEF Phases
(* Whoever gives the lock back leaves nobody inside. *)
<1>r. ASSUME NEW p \in Proc, Holds(p), Release(p), born' = born
      PROVE  \A s \in Sid : ~Closing(s)' /\ (Unborn(s)' <=> born < s)
  BY <1>t, <1>c, <1>r, ReleaseAlone DEF Closing, Unborn, TearingDown, Naming, Locked, Named
<1>2. ASSUME NEW c \in Clients, Holds(c), at[c] \in Named
      PROVE  /\ target[c] \in Sid /\ target[c] <= born /\ slot = None
             /\ Unborn(target[c])
             /\ \A s \in Sid : ~Closing(s) /\ (Unborn(s) <=> born < s \/ s = target[c])
  <2>1. slot = None /\ \A q \in Proc \ {c} : at[q] \notin Locked
    BY <1>t, <1>c, <1>2, OneInside DEF LockedAlone, Locked, Named
  <2>2. at[c] \notin Teardown
    BY <1>2 DEF Named, Teardown
  <2>3. target[c] \in Sid /\ target[c] <= born
    BY <1>t, <1>c, <1>2 DEF NamesGiven, ReqType, Sid
  <2> QED
    BY <1>c, <1>2, <2>1, <2>2, <2>3 DEF Closing, Unborn, TearingDown, Naming, Locked, Named
<1>3. ASSUME NEW c \in Clients, StartCreateFails(c) PROVE R!Next
  <2>1. PICK s \in Sid : s = target[c]
    BY <1>2, <1>3 DEF StartCreateFails, Named
  <2>2. Holds(c) /\ Release(c) /\ born' = born /\ slot' = slot /\ at[c] \in Named
    BY <1>3 DEF StartCreateFails, Named
  <2>3. \A t \in Sid : Phases[t] = (IF born < t \/ t = s THEN "unborn" ELSE "ended")
    BY <1>c, <1>2, <2>1, <2>2 DEF PhaseRight, Phases, None
  <2>4. \A t \in Sid : Phases'[t] = (IF born < t THEN "unborn" ELSE "ended")
    BY <1>c, <1>2, <1>r, <2>2 DEF PhaseRight, Phases, None
  <2>b. ~(born < s)
    BY <1>t, <1>c, <1>2, <2>1, <2>2
  <2>5. Phases' = [Phases EXCEPT ![s] = "ended"]
    BY <2>b, <2>3, <2>4 DEF Phases
  <2>6. R!Abandon(s)
    BY <2>3, <2>5 DEF R!Abandon, R!Idle, Phases
  <2> QED
    BY <2>6 DEF R!Next
<1>4. ASSUME NEW c \in Clients, NEW shape \in Shapes, StartLaunches(c, shape) PROVE R!Next
  <2>2. Holds(c) /\ Release(c) /\ born' = born /\ slot' = target[c] /\ at[c] \in Named
    BY <1>4 DEF StartLaunches, Named
  <2>1. PICK s \in Sid : s = target[c]
    BY <1>2, <2>2
  <2>3. \A t \in Sid : Phases[t] = (IF born < t \/ t = s THEN "unborn" ELSE "ended")
    BY <1>c, <1>2, <2>1, <2>2 DEF PhaseRight, Phases, None
  <2>4. \A t \in Sid : Phases'[t] = (IF t = s THEN "recording" ELSE IF born < t THEN "unborn" ELSE "ended")
    BY <1>c, <1>r, <2>1, <2>2 DEF PhaseRight, Phases, None
  <2>5. Phases' = [Phases EXCEPT ![s] = "recording"]
    BY <2>3, <2>4 DEF Phases
  <2>6. R!Begin(s)
    BY <2>3, <2>5 DEF R!Begin, R!Idle, Phases
  <2> QED
    BY <2>6 DEF R!Next
<1>5. ASSUME NEW p \in Proc, NEW s \in Sid, Take(p, s), at[p] \in Waiting PROVE R!Next
  <2>1. slot = s /\ slot' = None /\ born' = born /\ target'[p] = s /\ at'[p] = "drain"
    BY <1>t, <1>5 DEF Take, Goto, ReqType
  <2>2. \A q \in Proc : at[q] \notin Locked
    BY <1>t, <1>c, <2>1 DEF LockedAlone, None
  <2>3. \A q \in Proc \ {p} : at'[q] \notin Locked
    BY <1>t, <1>5, <2>2 DEF Take, Goto, ReqType
  <2>4. \A t \in Sid : ~Closing(t) /\ (Unborn(t) <=> born < t)
    BY <1>c, <2>2 DEF Closing, Unborn, TearingDown, Naming, Locked, Named
  <2>5. \A t \in Sid : (Closing(t)' <=> t = s) /\ (Unborn(t)' <=> born < t)
    BY <1>c, <2>1, <2>3 DEF Closing, Unborn, TearingDown, Naming, Locked, Named, Teardown
  <2>6. \A t \in Sid : Phases[t] = (IF t = s THEN "recording" ELSE IF born < t THEN "unborn" ELSE "ended")
    BY <2>1, <2>4 DEF PhaseRight, Phases
  <2>7. \A t \in Sid : Phases'[t] = (IF t = s THEN "ending" ELSE IF born < t THEN "unborn" ELSE "ended")
    BY <1>c, <2>1, <2>5 DEF PhaseRight, Phases, None
  <2>8. Phases' = [Phases EXCEPT ![s] = "ending"]
    BY <2>6, <2>7 DEF Phases
  <2>9. R!End(s)
    BY <2>6, <2>8 DEF R!End, Phases
  <2> QED
    BY <2>9 DEF R!Next
<1>6. ASSUME NEW p \in Proc, Returns(p) PROVE R!Next
  <2>1. at[p] \in Teardown /\ Release(p) /\ born' = born /\ slot' = slot
    BY <1>6 DEF Returns, Teardown
  <2>2. Holds(p) /\ slot = None /\ \A q \in Proc \ {p} : at[q] \notin Locked
    BY <1>t, <2>1, OneInside DEF LockedAlone, Locked
  <2>3. PICK s \in Sid : s = target[p] /\ s <= born
    BY <1>t, <2>1 DEF NamesGiven, ReqType
  <2>4. \A t \in Sid : (Closing(t) <=> t = s) /\ (Unborn(t) <=> born < t)
    BY <1>c, <2>1, <2>2, <2>3 DEF Closing, Unborn, TearingDown, Naming, Locked, Named, Teardown
  <2>5. \A t \in Sid : Phases[t] = (IF t = s THEN "ending" ELSE IF born < t THEN "unborn" ELSE "ended")
    BY <1>c, <2>2, <2>4 DEF PhaseRight, Phases, None
  <2>6. \A t \in Sid : Phases'[t] = (IF born < t THEN "unborn" ELSE "ended")
    BY <1>c, <1>r, <2>1, <2>2 DEF PhaseRight, Phases, None
  <2>b. ~(born < s)
    BY <1>t, <1>c, <2>3
  <2>7. Phases' = [Phases EXCEPT ![s] = "ended"]
    BY <2>b, <2>5, <2>6 DEF Phases
  <2>8. R!Finish(s)
    BY <2>5, <2>7 DEF R!Finish, Phases
  <2> QED
    BY <2>8 DEF R!Next
<1>7. CASE Crash
  <2>1. slot' = None /\ born' = born /\ \A q \in Proc : at'[q] = "idle"
    BY <1>7 DEF Crash
  <2>2. \A t \in Sid : ~Closing(t)' /\ (Unborn(t)' <=> born < t)
    BY <1>c, <2>1 DEF Closing, Unborn, TearingDown, Naming, Named, Teardown
  <2>3. \A t \in Sid : Phases'[t] = (IF born < t THEN "unborn" ELSE "ended")
    BY <1>c, <2>1, <2>2 DEF PhaseRight, Phases, None
  <2>4. \A t \in Sid : born < t => Phases[t] = "unborn"
    BY DEF PhaseRight, Phases, Unborn
  <2> DEFINE spent == {s \in Sid : Phases[s] = "unborn" /\ ~(born < s)}
  <2>5. spent \in SUBSET {s \in Sid : Phases[s] = "unborn"}
    OBVIOUS
  <2>6. Phases' = [s \in Sid |-> IF s \in spent \/ Phases[s] # "unborn" THEN "ended" ELSE "unborn"]
    BY <2>3, <2>4 DEF Phases
  <2>7. R!Die
    BY <2>5, <2>6 DEF R!Die, Phases
  <2> QED
    BY <2>7 DEF R!Next
<1>8. ASSUME NEW c \in Clients, StopTakes(c) PROVE R!Next
  <2>1. slot \in Sid /\ Take(c, slot) /\ at[c] \in Waiting
    BY <1>t, <1>8 DEF StopTakes, ReqType, Waiting
  <2> QED
    BY <1>c, <1>5, <2>1
<1>9. ASSUME NEW s \in Sid, EndTakes(s) PROVE R!Next
  BY <1>c, <1>5, <1>9 DEF EndTakes, Waiting
<1> QED
  BY <1>1, <1>3, <1>4, <1>6, <1>7, <1>8, <1>9 DEF Turning

(* Everyone outside sees an abstract recorder: a session begins only when
   every other one has finished ending, an id is spent once, and a death ends
   whatever was going on (SessionManager.start, stop, _end_unattended,
   _finish). *)
THEOREM RecorderImplemented == Spec => ImplementsRecorder
<1>1. RecorderInv /\ RecorderInv' /\ PhaseRight /\ PhaseRight' /\ [Next]_vars
        => R!Next \/ UNCHANGED Phases
  BY TurningRefines, StepSorted DEF RecorderInv
<1>2. Init => R!Init
  <2> SUFFICES ASSUME Init PROVE \A s \in Sid : PhaseOf(s) = "unborn"
    BY DEF R!Init
  <2>1. PhaseRight /\ \A s \in Sid : born < s
    BY PhaseFacts, RecorderInitially DEF Init, Sid
  <2> QED
    BY <2>1 DEF PhaseRight, Unborn
<1>3. (R!Next \/ UNCHANGED Phases) <=> [R!Next]_[s \in Sid |-> PhaseOf(s)]
  BY DEF Phases
<1> QED
  BY <1>1, <1>2, <1>3, RecorderStep, RecorderInitially, PhaseFacts, PTL
  DEF Spec, ImplementsRecorder, R!Spec

-----------------------------------------------------------------------------
(* What is left of a session. *)
Erasing == {"unlink", "unrow"}

(* While the process is down or sweeping, no request and no task exists. *)
Quiet ==
  up # "serving" =>
    /\ slot = None /\ \A p \in Proc : at[p] = "idle"
    /\ \A s \in Sid : /\ cap[s] = "none" /\ live[s] = "none"
                      /\ persist[s] = "none" /\ bus[s] = <<>>

(* A row is inserted once, by the start that named it; it says ended only
   when its teardown has nothing left to do; a delete names a row that is
   there, and none that a start is about to launch. *)
RowsInOrder ==
  /\ \A s \in Sid : born < s => row[s] = "none"
  /\ \A p \in Proc : at[p] \in Named => p \in Clients
  /\ \A p \in Proc : at[p] = "create" => row[target[p]] = "none"
  /\ \A p \in Proc : at[p] = "launch" => row[target[p]] = "capturing"
  /\ \A p \in Proc : at[p] \in Erasing =>
       /\ target[p] \in 1 .. born /\ row[target[p]] # "none"
       /\ \A q \in Proc : at[q] \in Named => target[q] # target[p]
  /\ \A s \in Sid : row[s] \in Ended =>
       slot # s /\ \A p \in Proc : TearingDown(p, s) => at[p] = "return"

(* A live task ends as its capture did. *)
EndsKnown ==
  /\ \A s \in Sid : live[s] = "done" =>
       cap[s] = "done" /\ (liveEnd[s] = "died" <=> capEnd[s] = "died")
  /\ \A p \in Proc : at[p] \in Teardown \ {"drain"} => live[target[p]] = "done"
  /\ HonestEnding

StoryInv == RecorderInv /\ Quiet /\ RowsInOrder /\ EndsKnown

-----------------------------------------------------------------------------
(* Only a death and a boot move the process. *)
LEMMA BootAlone ==
  ASSUME [Next]_vars
  PROVE  \/ Crash \/ BootMarks \/ BootServes \/ \E s \in Sid : BootSweeps(s)
         \/ UNCHANGED bootVars
<1>1. ASSUME NEW c \in Clients, RequestStart(c) \/ RequestStop(c) \/ StopTakes(c) \/ StopIdle(c)
      PROVE UNCHANGED bootVars
  BY <1>1 DEF RequestStart, RequestStop, Arrive, StopTakes, Take, StopIdle
<1>2. ASSUME NEW c \in Clients, Deleting(c) \/ \E s \in Sid : RequestDelete(c, s)
      PROVE UNCHANGED bootVars
  BY <1>2 DEF Deleting, DeleteFiles, DeleteRow, RequestDelete
<1>3. ASSUME NEW c \in Clients, Starting(c) PROVE UNCHANGED bootVars
  BY <1>3 DEF Starting, StartRefused, StartPreflight, StartFails, StartNamed, StartCreates,
              StartCreateFails, StartLaunches
<1>4. ASSUME NEW p \in Proc, Ending(p) \/ DrainTimeout(p) PROVE UNCHANGED bootVars
  BY <1>4 DEF Ending, Drained, PersistAwaited, InterimsDeleted, WriterCloses, RowFinishes, Returns,
              DrainTimeout
<1>5. ASSUME NEW s \in Sid, Capturing(s) \/ CaptureCompletes(s) \/ CaptureBreaks(s) PROVE UNCHANGED bootVars
  BY <1>5 DEF Capturing, CaptureCompletes, CaptureBreaks, CaptureOpens, CaptureStops, CaptureMarks,
              CaptureDies, CaptureDiskFull, CaptureMarkFails
<1>6. ASSUME NEW s \in Sid, Living(s) \/ LiveBreaks(s) \/ Streaming(s) PROVE UNCHANGED bootVars
  BY <1>6 DEF Living, LiveBreaks, Streaming, RouterPulls, RouterPublishes, LiveDiscards, StreamEnds,
         LiveJoins, LiveFinished, RouterDrops, RouterExhausted, StreamHandsOff, StreamExhausted,
         StreamOpensTurn, StreamClosesTurn
<1>7. ASSUME NEW s \in Sid, Persisting(s) \/ Unattended(s) PROVE UNCHANGED bootVars
  BY <1>7 DEF Persisting, PersistAdds, PersistPublishes, PersistFails, PersistEnds, Unattended,
              EndQueues, EndTakes, Take, EndStale
<1>8. CASE UNCHANGED vars
  BY <1>8 DEF vars
<1> QED
  BY <1>1, <1>2, <1>3, <1>4, <1>5, <1>6, <1>7, <1>8 DEF Next

(* ... and while it is not serving, nothing else happens. *)
LEMMA QuietSteps ==
  ASSUME TypeOK, Quiet, up # "serving", [Next]_vars
  PROVE  \/ Crash \/ BootMarks \/ BootServes \/ \E s \in Sid : BootSweeps(s)
         \/ UNCHANGED vars
<1>q. /\ \A p \in Proc : at[p] = "idle"
      /\ \A s \in Sid : cap[s] = "none" /\ live[s] = "none" /\ persist[s] = "none" /\ bus[s] = <<>>
      /\ Clients \subseteq Proc /\ Sid \subseteq Proc
  BY DEF Quiet, Proc
<1>1. ASSUME NEW c \in Clients,
             \/ RequestStart(c) \/ RequestStop(c) \/ \E s \in Sid : RequestDelete(c, s)
             \/ StopTakes(c) \/ StopIdle(c) \/ Deleting(c) \/ Starting(c)
      PROVE FALSE
  BY <1>1, <1>q DEF RequestStart, RequestStop, Arrive, RequestDelete, StopTakes, StopIdle,
     Deleting, DeleteFiles, DeleteRow, Starting, StartRefused, StartPreflight, StartFails,
     StartNamed, StartCreates, StartCreateFails, StartLaunches
<1>2. ASSUME NEW p \in Proc, Ending(p) \/ DrainTimeout(p) PROVE FALSE
  BY <1>2, <1>q DEF Ending, Drained, PersistAwaited, InterimsDeleted, WriterCloses, RowFinishes,
     Returns, DrainTimeout
<1>3. ASSUME NEW s \in Sid, Capturing(s) \/ CaptureCompletes(s) \/ CaptureBreaks(s) PROVE FALSE
  BY <1>3, <1>q DEF Capturing, CaptureCompletes, CaptureBreaks, CaptureOpens, CaptureStops,
     CaptureMarks, CaptureDies, CaptureDiskFull, CaptureMarkFails, Recording
<1>4. ASSUME NEW s \in Sid, Living(s) \/ LiveBreaks(s) \/ Streaming(s) PROVE FALSE
  BY <1>4, <1>q DEF Living, LiveBreaks, Streaming, RouterPulls, RouterPublishes, LiveDiscards,
     StreamEnds, LiveJoins, LiveFinished, RouterDrops, RouterExhausted, StreamHandsOff,
     StreamExhausted, StreamOpensTurn, StreamClosesTurn
<1>5. ASSUME NEW s \in Sid, Persisting(s) \/ Unattended(s) PROVE FALSE
  BY <1>5, <1>q DEF Persisting, PersistAdds, PersistPublishes, PersistFails, PersistEnds,
     Unattended, EndQueues, EndTakes, EndStale
<1> QED
  BY <1>1, <1>2, <1>3, <1>4, <1>5 DEF Next

LEMMA QuietStep ==
  ASSUME TypeOK, Quiet, [Next]_vars
  PROVE  Quiet'
<1>1. CASE Crash
  BY <1>1 DEF Crash, Quiet
<1>2. CASE BootMarks \/ BootServes \/ \E s \in Sid : BootSweeps(s)
  <2>1. up # "serving" /\ UNCHANGED <<reqVars, capVars, liveVars, storeVars>>
    BY <1>2 DEF BootMarks, BootServes, BootSweeps
  <2> QED
    BY <2>1 DEF Quiet, reqVars, capVars, liveVars, storeVars
<1>3. CASE UNCHANGED bootVars /\ up = "serving"
  BY <1>3 DEF Quiet, bootVars
<1>4. CASE UNCHANGED vars
  BY <1>4 DEF Quiet, vars, reqVars, capVars, liveVars, storeVars, bootVars
<1> QED
  BY <1>1, <1>2, <1>3, <1>4, BootAlone, QuietSteps

-----------------------------------------------------------------------------
(* RowsInOrder. *)

(* A step that writes no row, gives out no name, and moves at most one process,
   to a place where it has nothing in hand. *)
LEMMA RowsFrame ==
  ASSUME RowsInOrder, NEW p \in Proc, UNCHANGED <<row, slot, born>>,
         \A q \in Proc \ {p} : at'[q] = at[q] /\ target'[q] = target[q],
         \/ at'[p] \notin Named \cup Erasing \cup Teardown
         \/ at'[p] = at[p] /\ target'[p] = target[p]
  PROVE  RowsInOrder'
<1>1. \A q \in Proc : at'[q] \in Named \cup Erasing \cup Teardown
                        => at'[q] = at[q] /\ target'[q] = target[q]
  OBVIOUS
<1>n. \A q \in Proc : at'[q] = "create" \/ at'[q] = "launch" => at'[q] \in Named
  BY DEF Named
<1>2. /\ \A s \in Sid : born' < s => row'[s] = "none"
      /\ \A q \in Proc : at'[q] \in Named => q \in Clients
      /\ \A q \in Proc : at'[q] = "create" => row'[target'[q]] = "none"
      /\ \A q \in Proc : at'[q] = "launch" => row'[target'[q]] = "capturing"
  BY <1>1, <1>n DEF RowsInOrder
<1>3. \A q \in Proc : at'[q] \in Erasing =>
        /\ target'[q] \in 1 .. born' /\ row'[target'[q]] # "none"
        /\ \A r \in Proc : at'[r] \in Named => target'[r] # target'[q]
  BY <1>1 DEF RowsInOrder
<1>4. \A s \in Sid : row'[s] \in Ended =>
        slot' # s /\ \A q \in Proc : TearingDown(q, s)' => at'[q] = "return"
  BY <1>1 DEF RowsInOrder, TearingDown
<1> QED
  BY <1>2, <1>3, <1>4 DEF RowsInOrder

LEMMA RowsAlone ==
  ASSUME RowsInOrder, UNCHANGED <<row, at, target, slot, born>>
  PROVE  RowsInOrder'
BY DEF RowsInOrder, TearingDown

(* Requests that are neither inserting, launching nor deleting. *)
LEMMA RowsRequest ==
  ASSUME StoryInv, NEW p \in Proc,
         \/ \E kind \in RequestKinds, l \in Waiting : Arrive(p, kind, l)
         \/ StartRefused(p) \/ StartPreflight(p) \/ StartFails(p) \/ StartCreateFails(p)
         \/ StopIdle(p) \/ (p \in Sid /\ (EndQueues(p) \/ EndStale(p)))
  PROVE  RowsInOrder'
<1>t. ReqType /\ RowsInOrder
  BY DEF StoryInv, RecorderInv, OwnershipInv, TypeOK
<1>1. PICK l \in Waiting \cup {"idle", "preflight"} : Goto(p, l)
  BY DEF Arrive, StartRefused, StartPreflight, StartFails, StartCreateFails, StopIdle, EndQueues,
         EndStale, Release, Waiting
<1>2. UNCHANGED <<row, slot, born>> /\ \A q \in Proc \ {p} : target'[q] = target[q]
  BY <1>t DEF Arrive, StartRefused, StartPreflight, StartFails, StartCreateFails, StopIdle, EndQueues,
         EndStale, diskVars, ReqType
<1>3. at'[p] = l /\ \A q \in Proc \ {p} : at'[q] = at[q]
  BY <1>t, <1>1 DEF Goto, ReqType
<1>4. l \notin Named \cup Erasing \cup Teardown
  BY <1>1 DEF Named, Erasing, Teardown, Waiting
<1> QED
  BY <1>t, <1>2, <1>3, <1>4, RowsFrame

LEMMA RowsNamed ==
  ASSUME StoryInv, NEW c \in Clients, StartNamed(c)
  PROVE  RowsInOrder'
<1>t. ReqType /\ RowsInOrder /\ LockedAlone /\ born \in Nat /\ MaxSessions \in Nat /\ c \in Proc
  BY ConstantsAssumption DEF StoryInv, RecorderInv, OwnershipInv, TypeOK, ReqType, Proc
<1>1. born' = born + 1 /\ born + 1 \in Sid /\ row' = row /\ slot' = slot
  BY <1>t DEF StartNamed, Sid
<1>2. at'[c] = "create" /\ target'[c] = born + 1
  BY <1>t DEF StartNamed, Goto, ReqType
<1>3. \A q \in Proc \ {c} : at'[q] = at[q] /\ target'[q] = target[q] /\ at[q] \notin Locked
  BY <1>t, OneInside DEF StartNamed, Goto, ReqType, Locked
<1>4. row[born + 1] = "none"
  BY <1>t, <1>1 DEF RowsInOrder
<1>5. /\ \A s \in Sid : born' < s => row'[s] = "none"
      /\ \A q \in Proc : at'[q] \in Named => q = c
      /\ \A q \in Proc : at'[q] \in Erasing =>
           target'[q] \in 1 .. born' /\ row'[target'[q]] # "none" /\ target'[q] # born + 1
  BY <1>t, <1>1, <1>2, <1>3 DEF RowsInOrder, Named, Erasing, Locked, Sid
<1>6. \A s \in Sid : row'[s] \in Ended =>
        slot' # s /\ \A q \in Proc : TearingDown(q, s)' => at'[q] = "return"
  BY <1>t, <1>1, <1>2, <1>3 DEF RowsInOrder, TearingDown, Teardown
<1> QED
  BY <1>1, <1>2, <1>4, <1>5, <1>6 DEF RowsInOrder, Named

LEMMA RowsCreated ==
  ASSUME StoryInv, NEW c \in Clients, StartCreates(c)
  PROVE  RowsInOrder'
<1>t. ReqType /\ DiskType /\ RowsInOrder /\ LockedAlone /\ c \in Proc
  BY DEF StoryInv, RecorderInv, OwnershipInv, TypeOK, Proc
<1>s. PICK s \in Sid : s = target[c] /\ ~(born < s)
  <2>1. target[c] \in 1 .. born /\ target[c] \in Sid \cup {None} /\ born \in Nat
    BY <1>t, ConstantsAssumption DEF StoryInv, RecorderInv, NamesGiven, StartCreates, Named, ReqType
  <2> QED
    BY <2>1 DEF Sid, None
<1>1. UNCHANGED <<target, slot, born>> /\ row' = [row EXCEPT ![s] = "capturing"]
  BY <1>s DEF StartCreates
<1>2. at[c] = "create" /\ at'[c] = "launch"
      /\ \A q \in Proc \ {c} : at'[q] = at[q] /\ at[q] \notin Locked
  BY <1>t, OneInside DEF StartCreates, Goto, ReqType, Locked
<1>3. row'[s] = "capturing" /\ \A r \in Sid \ {s} : row'[r] = row[r]
  BY <1>t, <1>1 DEF DiskType
<1>4. \A r \in Sid : born' < r => row'[r] = "none"
  BY <1>t, <1>s, <1>1, <1>3 DEF RowsInOrder
<1>5. \A q \in Proc : at'[q] \in Named => q = c
  BY <1>2 DEF Locked, Named
<1>6. \A q \in Proc : at'[q] \in Erasing =>
        target'[q] \in 1 .. born' /\ row'[target'[q]] # "none" /\ target'[q] # s
  <2> SUFFICES ASSUME NEW q \in Proc, at'[q] \in Erasing
      PROVE target'[q] \in 1 .. born' /\ row'[target'[q]] # "none" /\ target'[q] # s
    OBVIOUS
  <2>1. at[q] \in Erasing
    BY <1>2, <1>5 DEF Erasing
  <2>2. target[q] \in 1 .. born /\ row[target[q]] # "none" /\ target[q] # s
    BY <1>t, <1>s, <1>2, <2>1 DEF RowsInOrder, Named
  <2>3. row'[target[q]] = row[target[q]]
    BY <1>1, <2>2
  <2> QED
    BY <1>1, <2>2, <2>3
<1>7. \A r \in Sid : row'[r] \in Ended =>
        slot' # r /\ \A q \in Proc : TearingDown(q, r)' => at'[q] = "return"
  BY <1>t, <1>1, <1>2, <1>3 DEF RowsInOrder, TearingDown, Teardown, Ended
<1>8. /\ \A q \in Proc : at'[q] = "create" => row'[target'[q]] = "none"
      /\ \A q \in Proc : at'[q] = "launch" => row'[target'[q]] = "capturing"
  BY <1>1, <1>2, <1>s, <1>3, <1>5 DEF Named
<1>9. \A q \in Proc : at'[q] \in Named => q \in Clients /\ target'[q] = s
  BY <1>1, <1>s, <1>5
<1> QED
  BY <1>4, <1>6, <1>7, <1>8, <1>9 DEF RowsInOrder

LEMMA RowsLaunched ==
  ASSUME StoryInv, NEW c \in Clients, NEW shape \in Shapes, StartLaunches(c, shape)
  PROVE  RowsInOrder'
<1>t. ReqType /\ RowsInOrder /\ LockedAlone /\ c \in Proc
  BY DEF StoryInv, RecorderInv, OwnershipInv, TypeOK, Proc
<1>1. at[c] = "launch" /\ slot' = target[c] /\ UNCHANGED <<row, born>> /\ Holds(c) /\ Release(c)
  BY DEF StartLaunches, diskVars
<1>2. \A q \in Proc : at'[q] \notin Locked
  BY <1>t, <1>1, ReleaseAlone
<1>3. \A q \in Proc : at'[q] \in Erasing => at'[q] = at[q] /\ target'[q] = target[q]
  BY <1>t DEF StartLaunches, Release, Goto, ReqType, Erasing
<1>4. row[target[c]] = "capturing"
  BY <1>t, <1>1 DEF RowsInOrder
<1>5. \A q \in Proc : at'[q] \notin Named \cup Teardown /\ at'[q] \notin {"create", "launch"}
  BY <1>2 DEF Locked, Named
<1>6. \A s \in Sid : row'[s] \in Ended =>
        slot' # s /\ \A q \in Proc : TearingDown(q, s)' => at'[q] = "return"
  BY <1>1, <1>4, <1>5 DEF Ended, TearingDown
<1> QED
  BY <1>t, <1>1, <1>3, <1>5, <1>6 DEF RowsInOrder

LEMMA RowsTaken ==
  ASSUME StoryInv, NEW p \in Proc, NEW s \in Sid, Take(p, s)
  PROVE  RowsInOrder'
<1>t. ReqType /\ RowsInOrder /\ LockedAlone
  BY DEF StoryInv, RecorderInv, OwnershipInv, TypeOK
<1>1. slot = s /\ slot' = None /\ UNCHANGED <<row, born>> /\ target'[p] = s /\ at'[p] = "drain"
  BY <1>t DEF Take, Goto, ReqType, diskVars
<1>2. \A q \in Proc \ {p} : at'[q] = at[q] /\ target'[q] = target[q]
  BY <1>t DEF Take, Goto, ReqType
<1>3. \A q \in Proc : at[q] \notin Locked
  BY <1>t, <1>1 DEF LockedAlone, Sid, None
<1>4. row[s] \notin Ended
  BY <1>t, <1>1 DEF RowsInOrder
<1>5. \A q \in Proc : at'[q] \notin Named /\ at'[q] \notin {"create", "launch"}
  BY <1>1, <1>2, <1>3 DEF Named, Locked
<1>6. \A r \in Sid : row'[r] \in Ended =>
        slot' # r /\ \A q \in Proc : TearingDown(q, r)' => at'[q] = "return"
  BY <1>1, <1>2, <1>3, <1>4 DEF TearingDown, Locked, Sid, None
<1>7. \A q \in Proc : at'[q] \in Erasing => at'[q] = at[q] /\ target'[q] = target[q]
  BY <1>1, <1>2 DEF Erasing
<1> QED
  BY <1>t, <1>1, <1>5, <1>6, <1>7 DEF RowsInOrder

(* A teardown writes its row only once nothing of the session is running. *)
LEMMA RowsEnding ==
  ASSUME StoryInv, NEW p \in Proc, Ending(p)
  PROVE  RowsInOrder'
<1>t. ReqType /\ DiskType /\ RowsInOrder /\ LockedAlone
  BY DEF StoryInv, RecorderInv, OwnershipInv, TypeOK
<1>1. at[p] \in Teardown /\ Teardown \subseteq Locked
  BY DEF Ending, Drained, PersistAwaited, InterimsDeleted, WriterCloses, RowFinishes, Returns, Teardown, Locked
<1>2. slot = None /\ \A q \in Proc \ {p} : at[q] \notin Locked
  BY <1>t, <1>1, OneInside DEF LockedAlone
<1>s. PICK s \in Sid : s = target[p] /\ ~(born < s)
  <2>1. target[p] \in Sid /\ target[p] \in 1 .. born /\ born \in Nat
    BY <1>t, <1>1, ConstantsAssumption DEF ReqType, StoryInv, RecorderInv, NamesGiven
  <2> QED
    BY <2>1
<1>3. CASE Returns(p)
  <2>1. UNCHANGED <<row, slot, born>> /\ at'[p] = "idle"
    BY <1>t, <1>3 DEF Returns, Release, Goto, ReqType, diskVars
  <2>2. \A q \in Proc \ {p} : at'[q] = at[q] /\ target'[q] = target[q]
    BY <1>t, <1>3 DEF Returns, Release, Goto, ReqType
  <2> QED
    BY <1>t, <2>1, <2>2, RowsFrame DEF Named, Erasing, Teardown
<1>4. CASE ~Returns(p)
  <2>1. UNCHANGED <<target, slot, born>>
    BY <1>4 DEF Ending, Drained, PersistAwaited, InterimsDeleted, WriterCloses, RowFinishes
  <2>2. at'[p] \in Teardown /\ (at'[p] = "return" \/ row' = row)
        /\ \A q \in Proc \ {p} : at'[q] = at[q]
    BY <1>t, <1>4 DEF Ending, Drained, PersistAwaited, InterimsDeleted, WriterCloses, RowFinishes,
       Goto, ReqType, Teardown, diskVars
  <2>3. /\ \A r \in Sid \ {s} : row'[r] = row[r]
        /\ row'[s] # row[s] => row'[s] \in Ended /\ at'[p] = "return"
    BY <1>t, <1>s, <1>4 DEF Ending, Drained, PersistAwaited, InterimsDeleted, WriterCloses, RowFinishes,
       Goto, ReqType, DiskType, diskVars, FinalStatus, Ended
  <2>4. row[s] \in Ended => at[p] = "return"
    BY <1>t, <1>1, <1>s DEF RowsInOrder, TearingDown
  <2>5. at[p] # "return"
    BY <1>4 DEF Ending, Drained, PersistAwaited, InterimsDeleted, WriterCloses, RowFinishes
  <2>6. \A q \in Proc : at'[q] \notin Named /\ at'[q] \notin {"create", "launch"}
    BY <1>2, <2>2 DEF Named, Locked, Teardown
  <2>7. \A q \in Proc : at'[q] \in Erasing =>
          target'[q] \in 1 .. born' /\ row'[target'[q]] # "none"
    <3> SUFFICES ASSUME NEW q \in Proc, at'[q] \in Erasing
        PROVE target'[q] \in 1 .. born' /\ row'[target'[q]] # "none"
      OBVIOUS
    <3>1. at[q] \in Erasing /\ target'[q] = target[q]
      BY <2>1, <2>2 DEF Erasing, Teardown
    <3>2. target[q] \in 1 .. born /\ row[target[q]] # "none" /\ target[q] \in Sid
      BY <1>t, <3>1, ConstantsAssumption DEF RowsInOrder, ReqType, Sid
    <3> QED
      BY <2>1, <2>3, <3>1, <3>2 DEF Ended
  <2>8. \A r \in Sid : row'[r] \in Ended =>
          slot' # r /\ \A q \in Proc : TearingDown(q, r)' => at'[q] = "return"
    <3> SUFFICES ASSUME NEW r \in Sid, row'[r] \in Ended, NEW q \in Proc, TearingDown(q, r)'
        PROVE at'[q] = "return"
      BY <1>2, <2>1 DEF Sid, None
    <3>1. q = p /\ r = s
      BY <1>1, <1>2, <1>s, <2>1, <2>2 DEF TearingDown, Locked
    <3> QED
      BY <2>3, <2>4, <2>5, <3>1
  <2>9. \A r \in Sid : born' < r => row'[r] = "none"
    BY <1>t, <1>s, <2>1, <2>3 DEF RowsInOrder
  <2> QED
    BY <2>6, <2>7, <2>8, <2>9 DEF RowsInOrder
<1> QED
  BY <1>3, <1>4

LEMMA RowsErased ==
  ASSUME StoryInv, NEW c \in Clients,
         (\E s \in Sid : RequestDelete(c, s)) \/ DeleteFiles(c) \/ DeleteRow(c)
  PROVE  RowsInOrder'
<1>t. /\ ReqType /\ DiskType /\ RowsInOrder /\ c \in Proc
      /\ born \in Nat /\ Sid \subseteq Nat \ {0}
  BY ConstantsAssumption DEF StoryInv, RecorderInv, OwnershipInv, TypeOK, Proc, ReqType, Sid
<1>n. \A q \in Proc : at[q] = "create" \/ at[q] = "launch" <=> at[q] \in Named
  BY DEF Named
<1>1. ASSUME NEW s \in Sid, RequestDelete(c, s) PROVE RowsInOrder'
  <2>1. UNCHANGED <<row, slot, born>> /\ at'[c] = "unlink" /\ target'[c] = s
    BY <1>t, <1>1 DEF RequestDelete, Goto, ReqType
  <2>2. \A q \in Proc \ {c} : at'[q] = at[q] /\ target'[q] = target[q]
    BY <1>t, <1>1 DEF RequestDelete, Goto, ReqType
  <2>3. row[s] # "none" /\ s \in 1 .. born
    BY <1>t, <1>1 DEF RequestDelete, RowsInOrder, Ended
  <2>4. \A q \in Proc : at[q] \in Named => target[q] # s
    BY <1>t, <1>1, <1>n, <2>3 DEF RequestDelete, RowsInOrder
  <2>5. \A q \in Proc : at'[q] \in Named => q # c /\ at[q] \in Named
    BY <2>1, <2>2 DEF Named
  <2>6. \A q \in Proc : at'[q] \in Erasing =>
          /\ target'[q] \in 1 .. born' /\ row'[target'[q]] # "none"
          /\ \A r \in Proc : at'[r] \in Named => target'[r] # target'[q]
    BY <1>t, <2>1, <2>2, <2>3, <2>4, <2>5 DEF RowsInOrder
  <2>7. \A r \in Sid : row'[r] \in Ended =>
          slot' # r /\ \A q \in Proc : TearingDown(q, r)' => at'[q] = "return"
    BY <1>t, <2>1, <2>2 DEF RowsInOrder, TearingDown, Teardown
  <2> QED
    BY <1>t, <2>1, <2>2, <2>5, <2>6, <2>7 DEF RowsInOrder
<1>2. CASE DeleteFiles(c)
  <2>1. UNCHANGED <<row, slot, born, target>> /\ at[c] = "unlink" /\ at'[c] = "unrow"
    BY <1>t, <1>2 DEF DeleteFiles, Goto, ReqType
  <2>2. \A q \in Proc \ {c} : at'[q] = at[q]
    BY <1>t, <1>2 DEF DeleteFiles, Goto, ReqType
  <2>3. \A q \in Proc : /\ at'[q] \in Named <=> at[q] \in Named
                        /\ at'[q] \in Erasing <=> at[q] \in Erasing
                        /\ at'[q] \in Teardown <=> at[q] \in Teardown
                        /\ at'[q] \in {"create", "launch", "return"} => at'[q] = at[q]
                        /\ at[q] = "return" => at'[q] = "return"
    BY <2>1, <2>2 DEF Named, Erasing, Teardown
  <2> QED
    BY <1>t, <2>1, <2>3 DEF RowsInOrder, TearingDown
<1>3. CASE DeleteRow(c)
  <2>s. PICK s \in Sid : s = target[c] /\ s \in 1 .. born /\ row[s] # "none"
                        /\ \A q \in Proc : at[q] \in Named => target[q] # s
    <3>1. target[c] \in 1 .. born /\ row[target[c]] # "none" /\ target[c] \in Sid
          /\ \A q \in Proc : at[q] \in Named => target[q] # target[c]
      BY <1>t, <1>3 DEF DeleteRow, RowsInOrder, Erasing, ReqType, None
    <3> QED
      BY <3>1
  <2>1. UNCHANGED <<slot, born>> /\ row' = [row EXCEPT ![s] = "deleted"] /\ at'[c] = "idle"
    BY <1>t, <1>3, <2>s DEF DeleteRow, Goto, ReqType
  <2>2. \A q \in Proc \ {c} : at'[q] = at[q] /\ target'[q] = target[q]
    BY <1>t, <1>3 DEF DeleteRow, Goto, ReqType
  <2>3. row'[s] = "deleted" /\ \A r \in Sid \ {s} : row'[r] = row[r]
    BY <1>t, <2>1 DEF DiskType
  <2>4. \A q \in Proc : at'[q] \in Named \cup Erasing \cup Teardown
                         => at'[q] = at[q] /\ target'[q] = target[q]
    BY <2>1, <2>2 DEF Named, Erasing, Teardown
  <2>i. \A q \in Proc : at[q] \in Named \cup Erasing => target[q] \in Sid
    BY <1>t, ConstantsAssumption DEF StoryInv, RecorderInv, NamesGiven, RowsInOrder, ReqType, Sid
  <2>5. \A r \in Sid : born' < r => row'[r] = "none"
    BY <1>t, <2>s, <2>1, <2>3 DEF RowsInOrder
  <2>6. \A q \in Proc : at'[q] \in Named =>
          /\ q \in Clients
          /\ at'[q] = "create" => row'[target'[q]] = "none"
          /\ at'[q] = "launch" => row'[target'[q]] = "capturing"
    <3> SUFFICES ASSUME NEW q \in Proc, at'[q] \in Named
        PROVE  /\ q \in Clients
               /\ at'[q] = "create" => row'[target'[q]] = "none"
               /\ at'[q] = "launch" => row'[target'[q]] = "capturing"
      OBVIOUS
    <3>1. at'[q] = at[q] /\ target'[q] = target[q] /\ at[q] \in Named
      BY <2>4
    <3>2. row'[target[q]] = row[target[q]]
      BY <2>s, <2>i, <2>3, <3>1
    <3> QED
      BY <1>t, <3>1, <3>2 DEF RowsInOrder
  <2>7. \A q \in Proc : at'[q] \in Erasing =>
          /\ target'[q] \in 1 .. born' /\ row'[target'[q]] # "none"
          /\ \A r \in Proc : at'[r] \in Named => target'[r] # target'[q]
    BY <1>t, <2>i, <2>1, <2>3, <2>4 DEF RowsInOrder
  <2>8. \A r \in Sid : row'[r] \in Ended =>
          slot' # r /\ \A q \in Proc : TearingDown(q, r)' => at'[q] = "return"
    BY <1>t, <2>1, <2>3, <2>4 DEF RowsInOrder, TearingDown, Ended
  <2> QED
    BY <2>5, <2>6, <2>7, <2>8 DEF RowsInOrder, Named
<1> QED
  BY <1>1, <1>2, <1>3

LEMMA RowsStep ==
  ASSUME StoryInv, [Next]_vars
  PROVE  RowsInOrder'
<1>t. /\ ReqType /\ LockedAlone /\ RowsInOrder /\ Quiet
      /\ Clients \subseteq Proc /\ Sid \subseteq Proc
  BY DEF StoryInv, RecorderInv, OwnershipInv, TypeOK, Proc
<1>1. ASSUME NEW c \in Clients,
             \/ RequestStart(c) \/ RequestStop(c) \/ \E s \in Sid : RequestDelete(c, s)
             \/ StopIdle(c) \/ Deleting(c) \/ Starting(c)
      PROVE  RowsInOrder'
  <2>1. CASE RequestStart(c) \/ RequestStop(c) \/ StopIdle(c)
    <3>1. StopIdle(c) \/ \E kind \in RequestKinds, l \in Waiting : Arrive(c, kind, l)
      BY <2>1 DEF RequestStart, RequestStop, RequestKinds, Waiting
    <3> QED
      BY <1>t, <3>1, RowsRequest
  <2>2. CASE (\E s \in Sid : RequestDelete(c, s)) \/ Deleting(c)
    BY <2>2, RowsErased DEF Deleting
  <2>3. CASE Starting(c)
    BY <1>t, <2>3, RowsRequest, RowsNamed, RowsCreated, RowsLaunched DEF Starting
  <2> QED
    BY <1>1, <2>1, <2>2, <2>3
<1>2. ASSUME NEW c \in Clients, StopTakes(c) PROVE RowsInOrder'
  <2>1. slot \in Sid /\ Take(c, slot)
    BY <1>t, <1>2 DEF StopTakes, ReqType
  <2> QED
    BY <1>t, <2>1, RowsTaken
<1>3. ASSUME NEW p \in Proc, Ending(p) PROVE RowsInOrder'
  BY <1>3, RowsEnding
<1>4. ASSUME NEW p \in Proc, DrainTimeout(p) PROVE RowsInOrder'
  BY <1>t, <1>4, RowsAlone DEF DrainTimeout, reqVars
<1>5. ASSUME NEW s \in Sid, Capturing(s) \/ CaptureCompletes(s) \/ CaptureBreaks(s) PROVE RowsInOrder'
  BY <1>t, <1>5, RowsAlone DEF Capturing, CaptureCompletes, CaptureBreaks, CaptureOpens, CaptureStops,
     CaptureMarks, CaptureDies, CaptureDiskFull, CaptureMarkFails, reqVars, diskVars
<1>6. ASSUME NEW s \in Sid, LiveFinished(s) PROVE RowsInOrder'
  <2>1. UNCHANGED <<row, slot, born, target>>
    BY <1>6 DEF LiveFinished, diskVars
  <2>2. (at'[s] = "spawned" \/ at'[s] = at[s]) /\ \A q \in Proc \ {s} : at'[q] = at[q]
    BY <1>t, <1>6 DEF LiveFinished, Goto, ReqType
  <2> QED
    BY <1>t, <2>1, <2>2, RowsFrame DEF Named, Erasing, Teardown
<1>7. ASSUME NEW s \in Sid, (Living(s) /\ ~LiveFinished(s)) \/ LiveBreaks(s) \/ Streaming(s)
      PROVE  RowsInOrder'
  <2>1. UNCHANGED <<reqVars, row>>
    BY <1>7 DEF Living, LiveBreaks, Streaming, RouterPulls, RouterPublishes, LiveDiscards, StreamEnds,
         LiveJoins, RouterDrops, RouterExhausted, StreamHandsOff, StreamExhausted,
         StreamOpensTurn, StreamClosesTurn, diskVars
  <2> QED
    BY <1>t, <2>1, RowsAlone DEF reqVars
<1>8. ASSUME NEW s \in Sid, Persisting(s) PROVE RowsInOrder'
  BY <1>t, <1>8, RowsAlone DEF Persisting, PersistAdds, PersistPublishes, PersistFails, PersistEnds,
     reqVars, diskVars
<1>9. ASSUME NEW s \in Sid, Unattended(s) PROVE RowsInOrder'
  BY <1>t, <1>9, RowsRequest, RowsTaken DEF Unattended, EndTakes
<1>10. CASE Crash
  BY <1>t, <1>10 DEF Crash, RowsInOrder, TearingDown, Named, Erasing, Teardown, diskVars, Sid, None
<1>11. CASE BootMarks
  <2>1. UNCHANGED reqVars /\ row' = [s \in Sid |-> IF row[s] = "capturing" THEN "error" ELSE row[s]]
        /\ up = "down"
    BY <1>11 DEF BootMarks
  <2>2. \A p \in Proc : at'[p] = "idle" /\ slot' = None
    BY <1>t, <2>1 DEF Quiet, reqVars
  <2> QED
    BY <1>t, <2>1, <2>2 DEF RowsInOrder, TearingDown, Named, Erasing, Teardown, reqVars, Sid, None, Quiet
<1>12. CASE BootServes \/ \E s \in Sid : BootSweeps(s)
  BY <1>t, <1>12, RowsAlone DEF BootServes, BootSweeps, reqVars, diskVars
<1>13. CASE UNCHANGED vars
  BY <1>t, <1>13, RowsAlone DEF vars, reqVars, diskVars
<1> QED
  BY <1>1, <1>2, <1>3, <1>4, <1>5, <1>6, <1>7, <1>8, <1>9, <1>10, <1>11, <1>12, <1>13 DEF Next

-----------------------------------------------------------------------------
(* EndsKnown. *)

(* Nothing of a session whose row says it ended is running. *)
LEMMA EndedRests ==
  ASSUME StoryInv, NEW s \in Sid, row[s] \in Ended
  PROVE  ~Alive(s) /\ ~Storing(s)
<1>1. slot # s /\ \A p \in Proc : TearingDown(p, s) => at[p] = "return"
  BY DEF StoryInv, RowsInOrder
<1>2. TasksOwned /\ Joined
  BY DEF StoryInv, RecorderInv, OwnershipInv
<1>3. \A p \in Proc : TearingDown(p, s) => ~Alive(s) /\ ~Storing(s)
  BY <1>1, <1>2 DEF Joined, TearingDown, Teardown
<1> QED
  BY <1>1, <1>2, <1>3 DEF TasksOwned, Owned

(* A step that leaves captures and live tasks alone, and writes no ending. *)
LEMMA EndsFrame ==
  ASSUME EndsKnown, UNCHANGED <<cap, capEnd, live, liveEnd>>,
         \A s \in Sid : row'[s] \in Ended => row'[s] = row[s],
         \A p \in Proc : at'[p] \in Teardown \ {"drain"}
           => live[target'[p]] = "done"
  PROVE  EndsKnown'
BY DEF EndsKnown, HonestEnding

LEMMA EndsRequest ==
  ASSUME StoryInv, NEW p \in Proc,
         \/ \E kind \in RequestKinds, l \in Waiting : Arrive(p, kind, l)
         \/ StartRefused(p) \/ StartPreflight(p) \/ StartFails(p) \/ StartNamed(p)
         \/ StartCreates(p) \/ StartCreateFails(p) \/ StopIdle(p)
         \/ \E s \in Sid : RequestDelete(p, s)
         \/ DeleteFiles(p) \/ DeleteRow(p)
         \/ p \in Sid /\ (EndQueues(p) \/ EndStale(p) \/ LiveFinished(p))
         \/ \E s \in Sid : Take(p, s)
  PROVE  EndsKnown'
<1>t. ReqType /\ DiskType /\ EndsKnown
  BY DEF StoryInv, RecorderInv, OwnershipInv, TypeOK
<1>1. UNCHANGED <<cap, capEnd, live, liveEnd>>
  BY DEF Arrive, StartRefused, StartPreflight, StartFails, StartNamed, StartCreates, StartCreateFails,
         StopIdle, RequestDelete, DeleteFiles, DeleteRow, EndQueues, EndStale, LiveFinished, Take,
         capVars, liveVars
<1>2. \A s \in Sid : row'[s] \in Ended => row'[s] = row[s]
  <2>1. CASE StartCreates(p) \/ DeleteRow(p)
    BY <1>t, <2>1 DEF StartCreates, DeleteRow, DiskType, Ended
  <2>2. CASE ~(StartCreates(p) \/ DeleteRow(p))
    BY <2>2 DEF Arrive, StartRefused, StartPreflight, StartFails, StartNamed, StartCreateFails,
         StopIdle, RequestDelete, DeleteFiles, EndQueues, EndStale, LiveFinished, Take, diskVars
  <2> QED
    BY <2>1, <2>2
<1>3. \A q \in Proc \ {p} : at'[q] = at[q] /\ target'[q] = target[q]
  BY <1>t DEF Arrive, StartRefused, StartPreflight, StartFails, StartNamed, StartCreates, StartCreateFails,
         StopIdle, RequestDelete, DeleteFiles, DeleteRow, EndQueues, EndStale, LiveFinished, Take,
         Goto, Release, ReqType
<1>4. at'[p] \notin Teardown \ {"drain"} \/ (at'[p] = at[p] /\ target'[p] = target[p])
  <2>1. CASE p \in Sid /\ LiveFinished(p)
    BY <1>t, <2>1 DEF LiveFinished, Goto, ReqType, Teardown
  <2>2. CASE ~(p \in Sid /\ LiveFinished(p))
    <3>1. PICK l \in Waiting \cup {"idle", "preflight", "create", "launch", "unlink", "unrow", "drain"} :
            Goto(p, l)
      BY <2>2 DEF Arrive, StartRefused, StartPreflight, StartFails, StartNamed, StartCreates,
         StartCreateFails, StopIdle, RequestDelete, DeleteFiles, DeleteRow, EndQueues, EndStale, Take,
         Release, Waiting
    <3>2. at'[p] = l
      BY <1>t, <3>1 DEF Goto, ReqType
    <3> QED
      BY <3>1, <3>2 DEF Teardown, Waiting
  <2> QED
    BY <2>1, <2>2
<1>5. \A q \in Proc : at'[q] \in Teardown \ {"drain"} => live[target'[q]] = "done"
  BY <1>t, <1>3, <1>4 DEF EndsKnown
<1> QED
  BY <1>t, <1>1, <1>2, <1>5, EndsFrame

LEMMA EndsLaunch ==
  ASSUME StoryInv, NEW c \in Clients, NEW shape \in Shapes, StartLaunches(c, shape)
  PROVE  EndsKnown'
<1>t. ReqType /\ CapType /\ LiveType /\ RowsInOrder /\ EndsKnown /\ LockedAlone /\ c \in Proc
  BY DEF StoryInv, RecorderInv, OwnershipInv, TypeOK, Proc
<1>1. \A q \in Proc : at'[q] \notin Locked
  BY <1>t, ReleaseAlone DEF StartLaunches
<1>2. row' = row /\ row[target[c]] = "capturing" /\ UNCHANGED <<capEnd, liveEnd>>
  BY <1>t DEF StartLaunches, RowsInOrder, diskVars
<1>3. \A r \in Sid : \/ cap'[r] = cap[r] /\ live'[r] = live[r]
                     \/ r = target[c] /\ live'[r] # "done"
  BY <1>t DEF StartLaunches, CapType, LiveType
<1> QED
  BY <1>t, <1>1, <1>2, <1>3 DEF EndsKnown, HonestEnding, Locked, Ended

LEMMA EndsEnding ==
  ASSUME StoryInv, NEW p \in Proc, Ending(p)
  PROVE  EndsKnown'
<1>t. ReqType /\ DiskType /\ EndsKnown /\ LockedAlone
  BY DEF StoryInv, RecorderInv, OwnershipInv, TypeOK
<1>1. at[p] \in Teardown /\ UNCHANGED <<cap, capEnd, live, liveEnd>>
  BY DEF Ending, Drained, PersistAwaited, InterimsDeleted, WriterCloses, RowFinishes, Returns, Teardown,
         capVars, liveVars
<1>s. PICK s \in Sid : s = target[p]
  BY <1>t, <1>1 DEF ReqType
<1>2. \A q \in Proc \ {p} : at'[q] = at[q] /\ target'[q] = target[q]
  BY <1>t DEF Ending, Drained, PersistAwaited, InterimsDeleted, WriterCloses, RowFinishes, Returns,
              Goto, Release, ReqType
<1>3. at'[p] \in Teardown => target'[p] = s /\ live[s] = "done"
  BY <1>t, <1>s DEF Ending, Drained, PersistAwaited, InterimsDeleted, WriterCloses, RowFinishes, Returns,
              Goto, Release, ReqType, Teardown, EndsKnown
<1>4. \A q \in Proc : at'[q] \in Teardown \ {"drain"} => live[target'[q]] = "done"
  BY <1>t, <1>2, <1>3 DEF EndsKnown
<1>5. CASE ~RowFinishes(p)
  <2>1. row' = row
    BY <1>5 DEF Ending, Drained, PersistAwaited, InterimsDeleted, WriterCloses, Returns, diskVars
  <2> QED
    BY <1>t, <1>1, <1>4, <2>1, EndsFrame
<1>6. CASE RowFinishes(p)
  <2>1. live[s] = "done" /\ (liveEnd[s] = "died" <=> capEnd[s] = "died")
    BY <1>t, <1>s, <1>6 DEF RowFinishes, EndsKnown, Teardown
  <2>2. \A r \in Sid : row'[r] = row[r] \/ (r = s /\ row'[r] = FinalStatus(s))
    BY <1>t, <1>s, <1>6 DEF RowFinishes, DiskType
  <2>3. HonestEnding'
    BY <1>t, <1>1, <2>1, <2>2 DEF HonestEnding, EndsKnown, FinalStatus
  <2> QED
    BY <1>t, <1>1, <1>4, <2>3 DEF EndsKnown
<1> QED
  BY <1>5, <1>6

(* A capture's ending moves only while it records, a live task's when it joins. *)
LEMMA EndsTasks ==
  ASSUME StoryInv, NEW s \in Sid,
         \/ Capturing(s) \/ CaptureCompletes(s) \/ CaptureBreaks(s)
         \/ (Living(s) /\ ~LiveFinished(s)) \/ LiveBreaks(s) \/ Streaming(s) \/ Persisting(s)
  PROVE  EndsKnown'
<1>t. ReqType /\ CapType /\ LiveType /\ EndsKnown
  BY DEF StoryInv, RecorderInv, OwnershipInv, TypeOK
<1>e. Alive(s) => row[s] \notin Ended
  BY EndedRests
<1>1. CASE Capturing(s) \/ CaptureCompletes(s) \/ CaptureBreaks(s)
  <2>1. UNCHANGED <<at, target, live, liveEnd, row>> /\ Recording(s)
    BY <1>1 DEF Capturing, CaptureCompletes, CaptureBreaks, CaptureOpens, CaptureStops,
       CaptureMarks, CaptureDies, CaptureDiskFull, CaptureMarkFails, reqVars, liveVars, diskVars, Recording
  <2>2. \A r \in Sid \ {s} : cap'[r] = cap[r] /\ capEnd'[r] = capEnd[r]
    BY <1>t, <1>1 DEF Capturing, CaptureCompletes, CaptureBreaks, CaptureOpens, CaptureStops,
       CaptureMarks, CaptureDies, CaptureDiskFull, CaptureMarkFails, LeaveLoop, CapType
  <2>3. live[s] # "done" /\ row[s] \notin Ended
    BY <1>t, <1>e, <2>1 DEF EndsKnown, Recording, Alive
  <2> QED
    BY <1>t, <2>1, <2>2, <2>3 DEF EndsKnown, HonestEnding
<1>2. CASE (Living(s) /\ ~LiveFinished(s)) \/ LiveBreaks(s) \/ Streaming(s)
  <2>1. UNCHANGED <<at, target, cap, capEnd, row>> /\ live[s] # "done"
    BY <1>2 DEF Living, LiveBreaks, Streaming, RouterPulls, RouterPublishes, LiveDiscards, StreamEnds,
         LiveJoins, RouterDrops, RouterExhausted, StreamHandsOff, StreamExhausted,
         StreamOpensTurn, StreamClosesTurn, reqVars, capVars, diskVars
  <2>2. \A r \in Sid \ {s} : live'[r] = live[r] /\ liveEnd'[r] = liveEnd[r]
    BY <1>t, <1>2 DEF Living, LiveBreaks, Streaming, RouterPulls, RouterPublishes, LiveDiscards, StreamEnds,
         LiveJoins, RouterDrops, RouterExhausted, StreamHandsOff, StreamExhausted,
         StreamOpensTurn, StreamClosesTurn, LiveGoes, LiveType
  <2>3. live'[s] = "done" => cap[s] = "done" /\ (liveEnd'[s] = "died" <=> capEnd[s] = "died")
    BY <1>t, <1>2 DEF Living, LiveBreaks, Streaming, RouterPulls, RouterPublishes, LiveDiscards, StreamEnds,
         LiveJoins, RouterDrops, RouterExhausted, StreamHandsOff, StreamExhausted,
         StreamOpensTurn, StreamClosesTurn, LiveGoes, LiveType
  <2>4. \A q \in Proc : at'[q] \in Teardown \ {"drain"} => live'[target'[q]] = "done"
    <3> SUFFICES ASSUME NEW q \in Proc, at[q] \in Teardown \ {"drain"} PROVE live'[target[q]] = "done"
      BY <2>1
    <3>1. live[target[q]] = "done" /\ target[q] \in Sid
      BY <1>t DEF EndsKnown, ReqType
    <3> QED
      BY <2>1, <2>2, <3>1
  <2> QED
    BY <1>t, <2>1, <2>2, <2>3, <2>4 DEF EndsKnown, HonestEnding
<1>3. CASE Persisting(s)
  <2>1. UNCHANGED <<at, target, cap, capEnd, live, liveEnd, row>>
    BY <1>3 DEF Persisting, PersistAdds, PersistPublishes, PersistFails, PersistEnds,
       reqVars, capVars, liveVars, diskVars
  <2> QED
    BY <1>t, <2>1, EndsFrame DEF EndsKnown
<1> QED
  BY <1>1, <1>2, <1>3

LEMMA EndsCut ==
  ASSUME StoryInv, NEW p \in Proc, DrainTimeout(p)
  PROVE  EndsKnown'
<1>t. ReqType /\ CapType /\ LiveType /\ EndsKnown /\ LockedAlone
  BY DEF StoryInv, RecorderInv, OwnershipInv, TypeOK
<1>s. PICK s \in Sid : s = target[p]
  BY <1>t DEF DrainTimeout, ReqType, Teardown
<1>1. UNCHANGED <<at, target, row, liveEnd>> /\ at[p] = "drain" /\ live[s] # "done" /\ live'[s] # "done"
  BY <1>t, <1>s DEF DrainTimeout, reqVars, LiveGoes, LiveType
<1>2. \A r \in Sid \ {s} : cap'[r] = cap[r] /\ capEnd'[r] = capEnd[r] /\ live'[r] = live[r]
  BY <1>t, <1>s DEF DrainTimeout, LeaveLoop, LiveGoes, CapType, LiveType
<1>3. row[s] \notin Ended
  BY <1>s, <1>1 DEF StoryInv, RowsInOrder, TearingDown, Teardown
<1>4. \A q \in Proc : at'[q] \notin Teardown \ {"drain"}
  BY <1>t, <1>1, OneInside DEF Locked, Teardown
<1> QED
  BY <1>t, <1>1, <1>2, <1>3, <1>4 DEF EndsKnown, HonestEnding

LEMMA EndsStep ==
  ASSUME StoryInv, [Next]_vars
  PROVE  EndsKnown'
<1>t. ReqType /\ Quiet /\ EndsKnown /\ Clients \subseteq Proc /\ Sid \subseteq Proc
  BY DEF StoryInv, RecorderInv, OwnershipInv, TypeOK, Proc
<1>1. ASSUME NEW c \in Clients,
             \/ RequestStart(c) \/ RequestStop(c) \/ \E s \in Sid : RequestDelete(c, s)
             \/ StopIdle(c) \/ Deleting(c) \/ Starting(c)
      PROVE  EndsKnown'
  BY <1>t, <1>1, EndsRequest, EndsLaunch
  DEF RequestStart, RequestStop, RequestKinds, Waiting, Deleting, Starting
<1>2. ASSUME NEW c \in Clients, StopTakes(c) PROVE EndsKnown'
  <2>1. slot \in Sid /\ Take(c, slot)
    BY <1>t, <1>2 DEF StopTakes, ReqType
  <2> QED
    BY <1>t, <2>1, EndsRequest
<1>3. ASSUME NEW p \in Proc, Ending(p) \/ DrainTimeout(p) PROVE EndsKnown'
  BY <1>3, EndsEnding, EndsCut
<1>4. ASSUME NEW s \in Sid,
             \/ Capturing(s) \/ CaptureCompletes(s) \/ CaptureBreaks(s)
             \/ Living(s) \/ LiveBreaks(s) \/ Streaming(s) \/ Persisting(s)
      PROVE  EndsKnown'
  BY <1>t, <1>4, EndsTasks, EndsRequest
<1>5. ASSUME NEW s \in Sid, Unattended(s) PROVE EndsKnown'
  BY <1>t, <1>5, EndsRequest DEF Unattended, EndTakes
<1>6. CASE Crash
  BY <1>6 DEF Crash, EndsKnown, HonestEnding, Teardown
<1>7. CASE BootMarks \/ BootServes \/ \E s \in Sid : BootSweeps(s)
  <2>1. up # "serving" /\ UNCHANGED <<reqVars, capVars, liveVars>>
    BY <1>7 DEF BootMarks, BootServes, BootSweeps
  <2> QED
    BY <1>t, <2>1 DEF Quiet, EndsKnown, HonestEnding, Teardown, reqVars, capVars, liveVars
<1>8. CASE UNCHANGED vars
  BY <1>t, <1>8, EndsFrame DEF vars, reqVars, capVars, liveVars, diskVars, EndsKnown
<1> QED
  BY <1>1, <1>2, <1>3, <1>4, <1>5, <1>6, <1>7, <1>8 DEF Next

LEMMA StoryStep == StoryInv /\ [Next]_vars => StoryInv'
<1> SUFFICES ASSUME StoryInv, [Next]_vars PROVE StoryInv'
  OBVIOUS
<1>1. RecorderInv'
  BY RecorderStep DEF StoryInv
<1>2. Quiet'
  BY QuietStep DEF StoryInv, RecorderInv, OwnershipInv
<1> QED
  BY <1>1, <1>2, RowsStep, EndsStep DEF StoryInv

LEMMA StoryInitially == Init => StoryInv
<1>1. Init => Quiet /\ RowsInOrder /\ EndsKnown
  BY DEF Init, Quiet, RowsInOrder, EndsKnown, HonestEnding, TearingDown, Named, Erasing, Teardown, Ended
<1> QED
  BY <1>1, RecorderInitially DEF StoryInv

(* A row says error exactly when its capture died, whatever became of the live
   task, the drain and the persist task in between, and whoever ended the
   session (_finish, _live_finished, _close_capture). *)
THEOREM EndingsAreHonest == Spec => []HonestEnding
<1>1. StoryInv => HonestEnding
  BY DEF StoryInv, EndsKnown
<1> QED
  BY <1>1, StoryStep, StoryInitially, PTL DEF Spec

-----------------------------------------------------------------------------
(* A deleted session stays deleted. *)

(* Who writes the two tables. *)
LEMMA Writers ==
  ASSUME [Next]_vars
  PROVE  \/ \E c \in Clients : StartCreates(c) \/ DeleteRow(c) \/ \E s \in Sid : RequestDelete(c, s)
         \/ \E p \in Proc : InterimsDeleted(p) \/ RowFinishes(p)
         \/ \E s \in Sid : PersistAdds(s) \/ BootSweeps(s)
         \/ BootMarks
         \/ UNCHANGED <<row, rows>>
<1> DEFINE Same == UNCHANGED <<row, rows>>
<1>1. ASSUME NEW c \in Clients, RequestStart(c) \/ RequestStop(c) \/ StopTakes(c) \/ StopIdle(c) \/ DeleteFiles(c)
      PROVE Same
  BY <1>1 DEF RequestStart, RequestStop, Arrive, StopTakes, Take, StopIdle, DeleteFiles, diskVars
<1>2. ASSUME NEW c \in Clients, Starting(c), ~StartCreates(c) PROVE Same
  BY <1>2 DEF Starting, StartRefused, StartPreflight, StartFails, StartNamed,
              StartCreateFails, StartLaunches, diskVars
<1>3. ASSUME NEW p \in Proc, Ending(p) \/ DrainTimeout(p), ~InterimsDeleted(p), ~RowFinishes(p)
      PROVE Same
  BY <1>3 DEF Ending, Drained, PersistAwaited, WriterCloses, Returns, DrainTimeout, diskVars
<1>4. ASSUME NEW s \in Sid, Capturing(s) \/ CaptureCompletes(s) \/ CaptureBreaks(s) PROVE Same
  BY <1>4 DEF Capturing, CaptureCompletes, CaptureBreaks, CaptureOpens, CaptureStops, CaptureMarks,
              CaptureDies, CaptureDiskFull, CaptureMarkFails, diskVars
<1>5. ASSUME NEW s \in Sid, Living(s) \/ LiveBreaks(s) \/ Streaming(s) PROVE Same
  BY <1>5 DEF Living, LiveBreaks, Streaming, RouterPulls, RouterPublishes, LiveDiscards, StreamEnds,
         LiveJoins, LiveFinished, RouterDrops, RouterExhausted, StreamHandsOff, StreamExhausted,
         StreamOpensTurn, StreamClosesTurn, diskVars
<1>6. ASSUME NEW s \in Sid, Persisting(s) \/ Unattended(s), ~PersistAdds(s) PROVE Same
  BY <1>6 DEF Persisting, PersistPublishes, PersistFails, PersistEnds, Unattended,
              EndQueues, EndTakes, Take, EndStale, diskVars
<1>7. ASSUME Crash \/ BootServes \/ UNCHANGED vars PROVE Same
  BY <1>7 DEF Crash, BootServes, vars, diskVars
<1> QED
  BY <1>1, <1>2, <1>3, <1>4, <1>5, <1>6, <1>7 DEF Next, Deleting

DeletedEmpty == \A s \in Sid : row[s] = "deleted" => rows[s] = {}

LEMMA DeletedStep ==
  ASSUME StoryInv, DeletedEmpty, [Next]_vars
  PROVE  /\ DeletedEmpty'
         /\ \A s \in Sid : row[s] = "deleted" => row'[s] = "deleted" /\ rows'[s] = {}
<1>t. /\ ReqType /\ DiskType /\ RowsInOrder /\ Clients \subseteq Proc
      /\ \A p \in Proc : at[p] \in Teardown => target[p] \in Sid
  BY DEF StoryInv, RecorderInv, OwnershipInv, TypeOK, Proc, ReqType
<1> DEFINE Kept(s) == /\ row[s] = "deleted" => row'[s] = "deleted" /\ rows'[s] = {}
                      /\ row'[s] = "deleted" => rows'[s] = {}
<1>1. ASSUME NEW s \in Sid PROVE Kept(s)
  <2>e. row[s] = "deleted" => rows[s] = {}
    BY DEF DeletedEmpty
  <2>1. ASSUME NEW c \in Clients, StartCreates(c) PROVE Kept(s)
    <3>1. row[target[c]] = "none" /\ rows' = rows
      BY <1>t, <2>1 DEF StartCreates, RowsInOrder
    <3>2. row' = [row EXCEPT ![target[c]] = "capturing"]
      BY <2>1 DEF StartCreates
    <3>3. row'[s] = row[s] \/ (row[s] = "none" /\ row'[s] = "capturing")
      BY <1>t, <3>1, <3>2 DEF DiskType
    <3> QED
      BY <2>e, <3>1, <3>3
  <2>2. ASSUME NEW c \in Clients, DeleteRow(c) PROVE Kept(s)
    BY <1>t, <2>e, <2>2 DEF DeleteRow, DiskType
  <2>3. ASSUME NEW c \in Clients, NEW r \in Sid, RequestDelete(c, r) PROVE Kept(s)
    BY <1>t, <2>e, <2>3 DEF RequestDelete, DiskType
  <2>4. ASSUME NEW p \in Proc, InterimsDeleted(p) PROVE Kept(s)
    <3>1. row' = row /\ (rows'[s] = rows[s] \/ rows'[s] = Settled(rows[s]))
      BY <1>t, <2>4 DEF InterimsDeleted, DiskType
    <3> QED
      BY <2>e, <3>1 DEF Settled
  <2>5. ASSUME NEW p \in Proc, RowFinishes(p) PROVE Kept(s)
    <3>1. rows' = rows /\ (row'[s] = row[s] \/ (row[s] # "deleted" /\ row'[s] = FinalStatus(s)))
      BY <1>t, <2>5 DEF RowFinishes, DiskType
    <3> QED
      BY <2>e, <3>1 DEF FinalStatus
  <2>6. ASSUME NEW r \in Sid, PersistAdds(r) PROVE Kept(s)
    <3>1. row' = row /\ row[r] # "deleted" /\ (s # r => rows'[s] = rows[s])
      BY <1>t, <2>6 DEF PersistAdds, DiskType
    <3> QED
      BY <2>e, <3>1
  <2>7. ASSUME NEW r \in Sid, BootSweeps(r) PROVE Kept(s)
    <3>1. row' = row /\ (rows'[s] = rows[s] \/ rows'[s] = Settled(rows[s]))
      BY <1>t, <2>7 DEF BootSweeps, DiskType
    <3> QED
      BY <2>e, <3>1 DEF Settled
  <2>8. CASE BootMarks
    BY <1>t, <2>e, <2>8 DEF BootMarks
  <2>9. CASE UNCHANGED <<row, rows>>
    BY <2>e, <2>9
  <2> QED
    BY <2>1, <2>2, <2>3, <2>4, <2>5, <2>6, <2>7, <2>8, <2>9, Writers
<1> QED
  BY <1>1 DEF DeletedEmpty

(* No teardown, persist task or boot that outlives a session writes anything
   under a row that was deleted (delete_session and its cascade; add_segment's
   foreign key; finish_session's update of a row that is gone). *)
THEOREM DeletedStaysDeleted == Spec => DeletedIsFinal
<1>1. Init => DeletedEmpty
  BY DEF Init, DeletedEmpty
<1>2. StoryInv /\ DeletedEmpty /\ [Next]_vars
        => DeletedEmpty' /\ [\A s \in Sid : row[s] = "deleted" => row'[s] = "deleted" /\ rows'[s] = {}]_vars
  BY DeletedStep
<1> QED
  BY <1>1, <1>2, StoryStep, StoryInitially, PTL DEF Spec, DeletedIsFinal

-----------------------------------------------------------------------------
(* No zombie row. *)

Owner(p, s) == target[p] = s /\ at[p] \in (Teardown \ {"return"}) \cup {"launch"}

CapturingOwned ==
  /\ up = "serving" =>
       \A s \in Sid : row[s] = "capturing" => slot = s \/ \E p \in Proc : Owner(p, s)
  /\ up = "sweeping" => \A s \in Sid : row[s] # "capturing"

(* Whoever has a capturing session in hand keeps it or hands it on. *)
LEMMA OwnersStay ==
  ASSUME CapturingOwned, NEW p \in Proc, UNCHANGED <<up, slot>>, up = "serving",
         \A q \in Proc \ {p} : at'[q] = at[q] /\ target'[q] = target[q],
         \A s \in Sid : row'[s] = "capturing" =>
           (row[s] = "capturing" /\ (Owner(p, s) => Owner(p, s)')) \/ Owner(p, s)'
  PROVE  CapturingOwned'
<1>1. \A q \in Proc \ {p}, s \in Sid : Owner(q, s)' = Owner(q, s)
  BY DEF Owner
<1> QED
  BY <1>1 DEF CapturingOwned

LEMMA OwnedRequest ==
  ASSUME StoryInv, CapturingOwned, up = "serving", UNCHANGED bootVars, NEW p \in Proc,
         \/ \E kind \in RequestKinds, l \in Waiting : Arrive(p, kind, l)
         \/ StartRefused(p) \/ StartPreflight(p) \/ StartFails(p) \/ StartNamed(p)
         \/ StartCreateFails(p) \/ StopIdle(p)
         \/ \E s \in Sid : RequestDelete(p, s)
         \/ DeleteFiles(p) \/ DeleteRow(p)
         \/ p \in Sid /\ (EndQueues(p) \/ EndStale(p) \/ LiveFinished(p))
  PROVE  CapturingOwned'
<1>t. ReqType /\ DiskType /\ LockedAlone
  BY DEF StoryInv, RecorderInv, OwnershipInv, TypeOK
<1>1. UNCHANGED <<up, slot>> /\ \A q \in Proc \ {p} : at'[q] = at[q] /\ target'[q] = target[q]
  BY <1>t DEF Arrive, StartRefused, StartPreflight, StartFails, StartNamed, StartCreateFails,
         StopIdle, RequestDelete, DeleteFiles, DeleteRow, EndQueues, EndStale, LiveFinished,
         Goto, Release, ReqType, bootVars
<1>2. \A s \in Sid : row'[s] = "capturing" => row[s] = "capturing"
  <2>1. CASE DeleteRow(p)
    BY <1>t, <2>1 DEF DeleteRow, DiskType
  <2>2. CASE ~DeleteRow(p)
    BY <2>2 DEF Arrive, StartRefused, StartPreflight, StartFails, StartNamed, StartCreateFails,
         StopIdle, RequestDelete, DeleteFiles, EndQueues, EndStale, LiveFinished, diskVars
  <2> QED
    BY <2>1, <2>2
<1>3. \A s \in Sid : Owner(p, s) => Owner(p, s)'
  <2>1. CASE p \in Sid /\ LiveFinished(p)
    <3>1. UNCHANGED <<at, target>> \/ slot = p
      BY <2>1 DEF LiveFinished
    <3>2. slot = p => at[p] \notin Locked
      BY <1>t, <2>1 DEF LockedAlone, Sid, None
    <3> QED
      BY <3>1, <3>2 DEF Owner, Locked
  <2>2. CASE ~(p \in Sid /\ LiveFinished(p))
    <3>1. at[p] \in {"idle", "wait.start", "preflight", "create", "wait.stop", "wait.end",
                     "spawned", "unlink", "unrow"}
      BY <2>2 DEF Arrive, StartRefused, StartPreflight, StartFails, StartNamed, StartCreateFails,
         StopIdle, RequestDelete, DeleteFiles, DeleteRow, EndQueues, EndStale
    <3> QED
      BY <3>1 DEF Owner, Teardown
  <2> QED
    BY <2>1, <2>2
<1> QED
  BY <1>1, <1>2, <1>3, OwnersStay

LEMMA OwnedCreated ==
  ASSUME StoryInv, CapturingOwned, up = "serving", NEW c \in Clients, StartCreates(c)
  PROVE  CapturingOwned'
<1>t. ReqType /\ DiskType /\ c \in Proc
  BY DEF StoryInv, RecorderInv, OwnershipInv, TypeOK, Proc
<1>1. UNCHANGED <<up, slot, target>> /\ row' = [row EXCEPT ![target[c]] = "capturing"]
  BY DEF StartCreates, bootVars
<1>2. at[c] = "create" /\ at'[c] = "launch" /\ \A q \in Proc \ {c} : at'[q] = at[q]
  BY <1>t DEF StartCreates, Goto, ReqType
<1>3. \A s \in Sid : Owner(c, s)' <=> s = target[c]
  BY <1>1, <1>2 DEF Owner
<1>4. \A s \in Sid : ~Owner(c, s) /\ (s # target[c] => row'[s] = row[s])
  BY <1>t, <1>1, <1>2 DEF Owner, Teardown, DiskType
<1> QED
  BY <1>t, <1>1, <1>2, <1>3, <1>4, OwnersStay

LEMMA OwnedLaunched ==
  ASSUME StoryInv, CapturingOwned, up = "serving", NEW c \in Clients, NEW shape \in Shapes,
         StartLaunches(c, shape)
  PROVE  CapturingOwned'
<1>t. LockedAlone /\ c \in Proc
  BY DEF StoryInv, RecorderInv, OwnershipInv, Proc
<1>1. at[c] = "launch" /\ slot' = target[c] /\ UNCHANGED <<row, up>> /\ slot = None
  BY <1>t DEF StartLaunches, diskVars, bootVars, LockedAlone, Locked
<1>2. \A q \in Proc \ {c} : at[q] \notin Locked
  BY <1>t, <1>1, OneInside DEF Locked
<1>3. \A s \in Sid : row[s] = "capturing" => s = target[c]
  BY <1>1, <1>2 DEF CapturingOwned, Owner, Locked, Sid, None
<1> QED
  BY <1>1, <1>3 DEF CapturingOwned

LEMMA OwnedTaken ==
  ASSUME StoryInv, CapturingOwned, up = "serving", NEW p \in Proc, NEW s \in Sid, Take(p, s)
  PROVE  CapturingOwned'
<1>t. ReqType /\ LockedAlone
  BY DEF StoryInv, RecorderInv, OwnershipInv, TypeOK
<1>1. slot = s /\ UNCHANGED <<row, up>> /\ target'[p] = s /\ at'[p] = "drain"
  BY <1>t DEF Take, Goto, ReqType, diskVars, bootVars
<1>2. \A q \in Proc : at[q] \notin Locked
  BY <1>t, <1>1 DEF LockedAlone, Sid, None
<1>3. \A r \in Sid : row[r] = "capturing" => r = s
  BY <1>1, <1>2 DEF CapturingOwned, Owner, Locked
<1> QED
  BY <1>1, <1>3 DEF CapturingOwned, Owner, Teardown

LEMMA OwnedEnding ==
  ASSUME "finish" \notin Faults, StoryInv, CapturingOwned, up = "serving", NEW p \in Proc, Ending(p)
  PROVE  CapturingOwned'
<1>t. ReqType /\ DiskType
  BY DEF StoryInv, RecorderInv, OwnershipInv, TypeOK
<1>1. UNCHANGED <<up, slot>> /\ \A q \in Proc \ {p} : at'[q] = at[q] /\ target'[q] = target[q]
  BY <1>t DEF Ending, Drained, PersistAwaited, InterimsDeleted, WriterCloses, RowFinishes, Returns,
              Goto, Release, ReqType, bootVars
<1>2. CASE RowFinishes(p)
  <2>1. \A s \in Sid : row'[s] = "capturing" => row[s] = "capturing" /\ ~Owner(p, s)
    BY <1>t, <1>2 DEF RowFinishes, DiskType, FinalStatus, Owner
  <2> QED
    BY <1>1, <2>1, OwnersStay
<1>3. CASE Returns(p)
  <2>1. row' = row /\ \A s \in Sid : ~Owner(p, s)
    BY <1>3 DEF Returns, Owner, Teardown, diskVars
  <2> QED
    BY <1>1, <2>1, OwnersStay
<1>4. CASE Drained(p) \/ PersistAwaited(p) \/ InterimsDeleted(p) \/ WriterCloses(p)
  <2>1. row' = row /\ target' = target
    BY <1>4 DEF Drained, PersistAwaited, InterimsDeleted, WriterCloses, diskVars
  <2>2. at'[p] \in Teardown \ {"return"}
    BY <1>t, <1>4 DEF Drained, PersistAwaited, InterimsDeleted, WriterCloses, Goto, ReqType, Teardown
  <2>3. \A s \in Sid : Owner(p, s) => Owner(p, s)'
    BY <2>1, <2>2 DEF Owner
  <2> QED
    BY <1>1, <2>1, <2>3, OwnersStay
<1> QED
  BY <1>2, <1>3, <1>4 DEF Ending

(* A step that leaves the requests and the rows alone. *)
LEMMA OwnedAlone ==
  ASSUME CapturingOwned, UNCHANGED <<row, at, target, slot, up>>
  PROVE  CapturingOwned'
BY DEF CapturingOwned, Owner

LEMMA OwnedStep ==
  ASSUME "finish" \notin Faults, StoryInv, CapturingOwned, [Next]_vars
  PROVE  CapturingOwned'
<1>t. TypeOK /\ ReqType /\ Quiet /\ Clients \subseteq Proc /\ Sid \subseteq Proc
  BY DEF StoryInv, RecorderInv, OwnershipInv, TypeOK, Proc
<1>1. CASE Crash
  BY <1>1 DEF Crash, CapturingOwned
<1>2. CASE BootMarks
  BY <1>2 DEF BootMarks, CapturingOwned
<1>3. CASE BootServes
  BY <1>3 DEF BootServes, CapturingOwned, diskVars
<1>4. CASE \E s \in Sid : BootSweeps(s)
  BY <1>4 DEF BootSweeps, CapturingOwned
<1>5. CASE UNCHANGED vars
  BY <1>5, OwnedAlone DEF vars, reqVars, diskVars, bootVars
<1>6. CASE up = "serving" /\ UNCHANGED bootVars
  <2>1. ASSUME NEW c \in Clients,
               \/ RequestStart(c) \/ RequestStop(c) \/ \E s \in Sid : RequestDelete(c, s)
               \/ StopIdle(c) \/ Deleting(c)
        PROVE  CapturingOwned'
    <3>1. \/ \E kind \in RequestKinds, l \in Waiting : Arrive(c, kind, l)
          \/ StopIdle(c) \/ \E s \in Sid : RequestDelete(c, s)
          \/ DeleteFiles(c) \/ DeleteRow(c)
      BY <2>1 DEF RequestStart, RequestStop, RequestKinds, Waiting, Deleting
    <3> QED
      BY <1>t, <1>6, <3>1, OwnedRequest
  <2>2. ASSUME NEW c \in Clients, Starting(c) PROVE CapturingOwned'
    BY <1>t, <1>6, <2>2, OwnedRequest, OwnedCreated, OwnedLaunched DEF Starting
  <2>3. ASSUME NEW c \in Clients, StopTakes(c) PROVE CapturingOwned'
    <3>1. slot \in Sid /\ Take(c, slot)
      BY <1>t, <2>3 DEF StopTakes, ReqType
    <3> QED
      BY <1>t, <1>6, <3>1, OwnedTaken
  <2>4. ASSUME NEW p \in Proc, Ending(p) PROVE CapturingOwned'
    BY <1>6, <2>4, OwnedEnding
  <2>5. ASSUME NEW p \in Proc, DrainTimeout(p) PROVE CapturingOwned'
    BY <1>6, <2>5, OwnedAlone DEF DrainTimeout, reqVars, bootVars
  <2>6. ASSUME NEW s \in Sid, Capturing(s) \/ CaptureCompletes(s) \/ CaptureBreaks(s) PROVE CapturingOwned'
    BY <1>6, <2>6, OwnedAlone DEF Capturing, CaptureCompletes, CaptureBreaks, CaptureOpens, CaptureStops,
       CaptureMarks, CaptureDies, CaptureDiskFull, CaptureMarkFails, reqVars, diskVars, bootVars
  <2>7. ASSUME NEW s \in Sid, LiveFinished(s) PROVE CapturingOwned'
    BY <1>t, <1>6, <2>7, OwnedRequest
  <2>8. ASSUME NEW s \in Sid, (Living(s) /\ ~LiveFinished(s)) \/ LiveBreaks(s) \/ Streaming(s)
        PROVE  CapturingOwned'
    <3>1. UNCHANGED <<reqVars, row>>
      BY <2>8 DEF Living, LiveBreaks, Streaming, RouterPulls, RouterPublishes, LiveDiscards, StreamEnds,
         LiveJoins, RouterDrops, RouterExhausted, StreamHandsOff, StreamExhausted,
         StreamOpensTurn, StreamClosesTurn, diskVars
    <3> QED
      BY <1>6, <3>1, OwnedAlone DEF reqVars, bootVars
  <2>9. ASSUME NEW s \in Sid, Persisting(s) PROVE CapturingOwned'
    BY <1>6, <2>9, OwnedAlone DEF Persisting, PersistAdds, PersistPublishes, PersistFails, PersistEnds,
       reqVars, diskVars, bootVars
  <2>10. ASSUME NEW s \in Sid, Unattended(s) PROVE CapturingOwned'
    BY <1>t, <1>6, <2>10, OwnedRequest, OwnedTaken DEF Unattended, EndTakes
  <2>11. BootMarks \/ BootServes \/ (\E s \in Sid : BootSweeps(s)) => CapturingOwned'
    BY <1>2, <1>3, <1>4
  <2> QED
    BY <1>1, <1>5, <2>1, <2>2, <2>3, <2>4, <2>5, <2>6, <2>7, <2>8, <2>9, <2>10, <2>11 DEF Next
<1> QED
  BY <1>t, <1>1, <1>2, <1>3, <1>4, <1>5, <1>6, BootAlone, QuietSteps

(* While the application serves, a row at capturing has somebody to end it,
   unless the write that finishes it fails: the slot, the start about to launch
   it or a teardown under way (start, _finish, mark_interrupted). *)
THEOREM NoZombieRows ==
  ASSUME "finish" \notin Faults
  PROVE  Spec => []NoZombieRow
<1>1. Init => CapturingOwned
  BY DEF Init, CapturingOwned
<1>2. StoryInv /\ CapturingOwned /\ [Next]_vars => CapturingOwned'
  BY OwnedStep
<1>3. CapturingOwned => NoZombieRow
  BY DEF CapturingOwned, NoZombieRow, Owner
<1> QED
  BY <1>1, <1>2, <1>3, StoryStep, StoryInitially, PTL DEF Spec

-----------------------------------------------------------------------------
(* The recording is kept. *)

KeptAt(s) ==
  /\ offered[s] \subseteq index[s] /\ index[s] \subseteq 1 .. heard[s]
  /\ 1 .. (heard[s] - 1) \subseteq index[s]
  /\ cap[s] \in {"opening", "recording"} => 1 .. heard[s] \subseteq index[s]

(* A session that has not been launched heard nothing. *)
FreshIsSilent ==
  /\ \A s \in Sid : born < s => heard[s] = 0
  /\ \A p \in Proc : at[p] \in Named => heard[target[p]] = 0

IndexKept ==
  /\ \A s \in Sid : KeptAt(s)
  /\ FreshIsSilent
  /\ \A p \in Proc : at[p] \notin Erasing

(* A running session is neither unnamed nor about to be launched. *)
LEMMA RunningIsNotFresh ==
  ASSUME StoryInv, NEW s \in Sid, Alive(s)
  PROVE  ~(born < s) /\ \A p \in Proc : at[p] \in Named => target[p] # s
<1>t. LockedAlone /\ TasksOwned /\ NamesGiven /\ born \in Nat /\ Sid \subseteq Nat
  BY ConstantsAssumption DEF StoryInv, RecorderInv, OwnershipInv, TypeOK, ReqType, Sid
<1>1. ~(born < s)
  BY <1>t DEF TasksOwned, Owned, TearingDown, NamesGiven
<1>2. ASSUME NEW p \in Proc, at[p] \in Named PROVE FALSE
  BY <1>t, <1>2, InsideOwns DEF TearingDown, Named, Locked, Teardown
<1> QED
  BY <1>1, <1>2

(* A step of one running session's own tasks. *)
LEMMA KeptFrame ==
  ASSUME StoryInv, IndexKept, NEW s \in Sid, Alive(s), UNCHANGED reqVars, KeptAt(s)',
         \A r \in Sid \ {s} : /\ heard'[r] = heard[r] /\ offered'[r] = offered[r]
                              /\ index'[r] = index[r] /\ cap'[r] = cap[r]
  PROVE  IndexKept'
<1>1. \A r \in Sid : KeptAt(r)'
  BY DEF IndexKept, KeptAt
<1>2. ReqType /\ NamesGiven
  BY DEF StoryInv, RecorderInv, OwnershipInv, TypeOK
<1>3. \A p \in Proc : at[p] \in Named => target[p] \in Sid \ {s}
  BY <1>2, RunningIsNotFresh DEF NamesGiven, ReqType, Sid, None
<1>4. FreshIsSilent'
  BY <1>3, RunningIsNotFresh DEF IndexKept, FreshIsSilent, reqVars
<1> QED
  BY <1>1, <1>4 DEF IndexKept, reqVars

(* What leaves the capture loop is indexed as far as it was. *)
LEMMA KeptLeaving ==
  ASSUME CapType, NEW s \in Sid, NEW why, KeptAt(s), LeaveLoop(s, why),
         UNCHANGED <<offered, index>>
  PROVE  KeptAt(s)'
<1>1. heard[s] \in Nat
  BY ConstantsAssumption DEF CapType
<1>2. CASE cap'[s] = "done" /\ heard' = heard
  BY <1>2 DEF KeptAt
<1>3. CASE cap[s] = "recording" /\ heard'[s] = heard[s] + 1 /\ cap'[s] = "mark"
  <2>1. 1 .. heard[s] \subseteq index[s] /\ index[s] \subseteq 1 .. heard[s] /\ offered[s] \subseteq index[s]
    BY <1>3 DEF KeptAt
  <2>2. 1 .. heard[s] \subseteq 1 .. heard'[s] /\ heard'[s] - 1 = heard[s]
    BY <1>1, <1>3
  <2>3. index[s] \subseteq 1 .. heard'[s] /\ 1 .. (heard'[s] - 1) \subseteq index[s]
    BY <2>1, <2>2
  <2> QED
    BY <1>3, <2>1, <2>3 DEF KeptAt
<1> QED
  BY <1>2, <1>3 DEF LeaveLoop, CapType

(* Rewriting the sidecar lists everything heard. *)
LEMMA KeptWriting ==
  ASSUME CapType, DiskType, NEW s \in Sid, KeptAt(s), WriteIndex(s), heard' = heard,
         offered'[s] \subseteq offered[s] \cup (1 .. heard[s])
  PROVE  KeptAt(s)'
<1>1. heard[s] \in Nat /\ index'[s] = 1 .. heard[s]
  BY ConstantsAssumption DEF CapType, DiskType, WriteIndex
<1>2. 1 .. (heard[s] - 1) \subseteq 1 .. heard[s]
  BY <1>1
<1>3. offered'[s] \subseteq 1 .. heard[s]
  BY DEF KeptAt
<1> QED
  BY <1>1, <1>2, <1>3 DEF KeptAt

LEMMA KeptCapture ==
  ASSUME StoryInv, IndexKept, NEW s \in Sid,
         Capturing(s) \/ CaptureCompletes(s) \/ CaptureBreaks(s)
  PROVE  IndexKept'
<1>t. CapType /\ FeedType /\ DiskType /\ InHand /\ KeptAt(s)
  BY DEF StoryInv, RecorderInv, OwnershipInv, TypeOK, IndexKept
<1>1. UNCHANGED reqVars /\ Alive(s)
  BY DEF Capturing, CaptureCompletes, CaptureBreaks, CaptureOpens, CaptureStops,
         CaptureMarks, CaptureDies, CaptureDiskFull, CaptureMarkFails, Recording, Alive
<1>2. \A r \in Sid \ {s} : /\ heard'[r] = heard[r] /\ offered'[r] = offered[r]
                           /\ index'[r] = index[r] /\ cap'[r] = cap[r]
  BY <1>t DEF Capturing, CaptureCompletes, CaptureBreaks, CaptureOpens, CaptureStops,
         CaptureMarks, CaptureDies, CaptureDiskFull, CaptureMarkFails, LeaveLoop, WriteIndex,
         CapType, FeedType, DiskType, feedVars, diskVars
<1>3. CASE CaptureOpens(s)
  <2>1. UNCHANGED <<heard, offered, index>> /\ cap[s] = "opening"
    BY <1>3 DEF CaptureOpens, feedVars, diskVars
  <2>2. KeptAt(s)'
    BY <1>t, <2>1 DEF KeptAt
  <2> QED
    BY <1>1, <1>2, <2>2, KeptFrame
<1>4. CASE CaptureStops(s) \/ CaptureBreaks(s)
  <2>1. UNCHANGED <<offered, index>> /\ \E why \in {"clean", "died", "disk"} : LeaveLoop(s, why)
    BY <1>4 DEF CaptureStops, CaptureBreaks, CaptureDies, CaptureDiskFull, CaptureMarkFails, diskVars
  <2>2. KeptAt(s)'
    BY <1>t, <2>1, KeptLeaving
  <2> QED
    BY <1>1, <1>2, <2>2, KeptFrame
<1>5. CASE CaptureCompletes(s)
  <2>1. UNCHANGED <<offered, index>> /\ cap[s] = "recording"
        /\ heard'[s] = heard[s] + 1 /\ cap'[s] = "mark" /\ heard[s] \in Nat
    BY <1>t, <1>5, ConstantsAssumption DEF CaptureCompletes, CapType, feedVars, diskVars
  <2>2. heard'[s] - 1 = heard[s] /\ 1 .. heard[s] \subseteq 1 .. heard'[s]
    BY <2>1
  <2>3. KeptAt(s)'
    BY <1>t, <2>1, <2>2 DEF KeptAt
  <2> QED
    BY <1>1, <1>2, <2>3, KeptFrame
<1>6. CASE CaptureMarks(s)
  <2>1. heard' = heard /\ WriteIndex(s) /\ heard[s] \in Utt
    BY <1>t, <1>6 DEF CaptureMarks, InHand
  <2>2. heard[s] \in 1 .. heard[s]
    BY <2>1, ConstantsAssumption DEF Utt
  <2>3. offered'[s] \subseteq offered[s] \cup {heard[s]}
    BY <1>t, <1>6 DEF CaptureMarks, FeedType
  <2>4. KeptAt(s)'
    BY <1>t, <2>1, <2>2, <2>3, KeptWriting
  <2> QED
    BY <1>1, <1>2, <2>4, KeptFrame
<1> QED
  BY <1>3, <1>4, <1>5, <1>6 DEF Capturing

LEMMA KeptCut ==
  ASSUME StoryInv, IndexKept, NEW p \in Proc, DrainTimeout(p)
  PROVE  IndexKept'
<1>t. ReqType /\ CapType /\ FeedType /\ LiveType /\ DiskType
  BY DEF StoryInv, RecorderInv, OwnershipInv, TypeOK
<1>s. PICK s \in Sid : s = target[p]
  BY <1>t DEF DrainTimeout, ReqType, Teardown
<1>k. KeptAt(s)
  BY DEF IndexKept
<1>1. UNCHANGED <<reqVars, offered>> /\ live[s] # "done"
  BY <1>s DEF DrainTimeout
<1>2. CASE live[s] = "join"
  <2>1. Alive(s)
    BY <1>2 DEF Alive
  <2>2. \A r \in Sid \ {s} : /\ heard'[r] = heard[r] /\ index'[r] = index[r] /\ cap'[r] = cap[r]
    BY <1>t, <1>s, <1>2 DEF DrainTimeout, LeaveLoop, WriteIndex, CapType, DiskType
  <2>3. LeaveLoop(s, "cut")
    BY <1>s, <1>2 DEF DrainTimeout
  <2>4. CASE UNCHANGED index
    <3>1. KeptAt(s)'
      BY <1>t, <1>k, <1>1, <2>3, <2>4, KeptLeaving
    <3> QED
      BY <1>1, <2>1, <2>2, <3>1, KeptFrame
  <2>5. CASE cap[s] = "mark" /\ WriteIndex(s)
    <3>1. heard' = heard
      BY <2>3, <2>5 DEF LeaveLoop
    <3>2. KeptAt(s)'
      BY <1>t, <1>k, <1>1, <2>5, <3>1, KeptWriting
    <3> QED
      BY <1>1, <2>1, <2>2, <3>2, KeptFrame
  <2> QED
    BY <1>s, <1>2, <2>4, <2>5 DEF DrainTimeout
<1>3. CASE live[s] # "join"
  <2>1. UNCHANGED <<heard, index, cap>>
    BY <1>s, <1>3 DEF DrainTimeout
  <2> QED
    BY <1>1, <2>1 DEF IndexKept, KeptAt, FreshIsSilent, reqVars
<1> QED
  BY <1>2, <1>3

(* A step that leaves what was heard, offered and indexed alone, opens no
   capture, and brings at most one process to a place with nothing in hand. *)
LEMMA KeptAlone ==
  ASSUME IndexKept, UNCHANGED <<heard, offered, index, born>>,
         \A s \in Sid : cap'[s] = cap[s] \/ cap'[s] = "none",
         \A p \in Proc : /\ at'[p] \notin Erasing
                         /\ at'[p] \in Named => at[p] \in Named /\ target'[p] = target[p]
  PROVE  IndexKept'
BY DEF IndexKept, KeptAt, FreshIsSilent

LEMMA KeptRequest ==
  ASSUME StoryInv, IndexKept, NEW p \in Proc,
         \/ \E kind \in RequestKinds, l \in Waiting : Arrive(p, kind, l)
         \/ StartRefused(p) \/ StartPreflight(p) \/ StartFails(p)
         \/ StartCreates(p) \/ StartCreateFails(p) \/ StopIdle(p)
         \/ p \in Sid /\ (EndQueues(p) \/ EndStale(p) \/ LiveFinished(p))
         \/ \E s \in Sid : Take(p, s)
         \/ Ending(p) /\ ~WriterCloses(p)
  PROVE  IndexKept'
<1>t. ReqType
  BY DEF StoryInv, RecorderInv, OwnershipInv, TypeOK
<1>1. UNCHANGED <<heard, offered, index, cap, born>>
  BY DEF Arrive, StartRefused, StartPreflight, StartFails, StartCreates, StartCreateFails, StopIdle,
         EndQueues, EndStale, LiveFinished, Take, Ending, Drained, PersistAwaited, InterimsDeleted,
         RowFinishes, Returns, capVars, feedVars, diskVars
<1>2. \A q \in Proc \ {p} : at'[q] = at[q] /\ target'[q] = target[q]
  BY <1>t DEF Arrive, StartRefused, StartPreflight, StartFails, StartCreates, StartCreateFails, StopIdle,
         EndQueues, EndStale, LiveFinished, Take, Ending, Drained, PersistAwaited, InterimsDeleted,
         RowFinishes, Returns, Goto, Release, ReqType
<1>3. CASE StartCreates(p)
  <2>1. at[p] \in Named /\ at'[p] = "launch" /\ target' = target
    BY <1>t, <1>3 DEF StartCreates, Goto, ReqType, Named
  <2> QED
    BY <1>1, <1>2, <2>1, KeptAlone DEF IndexKept, Erasing
<1>4. CASE p \in Sid /\ LiveFinished(p)
  <2>1. target' = target /\ (at'[p] = at[p] \/ at'[p] = "spawned")
    BY <1>t, <1>4 DEF LiveFinished, Goto, ReqType
  <2> QED
    BY <1>1, <1>2, <2>1, KeptAlone DEF IndexKept, Erasing, Named
<1>5. CASE ~StartCreates(p) /\ ~(p \in Sid /\ LiveFinished(p))
  <2>1. PICK l \in Waiting \cup Teardown \cup {"idle", "preflight"} : Goto(p, l)
    BY <1>5 DEF Arrive, StartRefused, StartPreflight, StartFails, StartCreateFails, StopIdle,
         EndQueues, EndStale, Take, Ending, Drained, PersistAwaited, InterimsDeleted,
         RowFinishes, Returns, Release, Waiting, Teardown
  <2>2. at'[p] = l /\ l \notin Named \cup Erasing
    BY <1>t, <2>1 DEF Goto, ReqType, Named, Erasing, Waiting, Teardown
  <2> QED
    BY <1>1, <1>2, <2>2, KeptAlone DEF IndexKept
<1> QED
  BY <1>3, <1>4, <1>5

LEMMA KeptNamed ==
  ASSUME StoryInv, IndexKept, NEW c \in Clients, StartNamed(c)
  PROVE  IndexKept'
<1>t. ReqType /\ born \in Nat /\ MaxSessions \in Nat /\ c \in Proc
  BY ConstantsAssumption DEF StoryInv, RecorderInv, OwnershipInv, TypeOK, ReqType, Proc
<1>1. UNCHANGED <<heard, offered, index, cap>> /\ born' = born + 1 /\ born + 1 \in Sid
  BY <1>t DEF StartNamed, capVars, feedVars, Sid
<1>2. at'[c] = "create" /\ target'[c] = born + 1
      /\ \A q \in Proc \ {c} : at'[q] = at[q] /\ target'[q] = target[q]
  BY <1>t DEF StartNamed, Goto, ReqType
<1>3. heard[born + 1] = 0
  BY <1>t, <1>1 DEF IndexKept, FreshIsSilent
<1>4. FreshIsSilent'
  BY <1>t, <1>1, <1>2, <1>3 DEF IndexKept, FreshIsSilent, Sid
<1> QED
  BY <1>1, <1>2, <1>4 DEF IndexKept, KeptAt, Erasing

LEMMA KeptLaunched ==
  ASSUME StoryInv, IndexKept, NEW c \in Clients, NEW shape \in Shapes, StartLaunches(c, shape)
  PROVE  IndexKept'
<1>t. ReqType /\ CapType /\ LockedAlone /\ c \in Proc
  BY DEF StoryInv, RecorderInv, OwnershipInv, TypeOK, Proc
<1>1. UNCHANGED <<heard, offered, index, born>> /\ at[c] = "launch"
  BY DEF StartLaunches, diskVars
<1>2. heard[target[c]] = 0
  BY <1>t, <1>1 DEF IndexKept, FreshIsSilent, Named
<1>3. \A r \in Sid : cap'[r] = cap[r] \/ r = target[c]
  BY <1>t DEF StartLaunches, CapType
<1>4. \A r \in Sid : KeptAt(r)'
  <2> SUFFICES ASSUME NEW r \in Sid PROVE KeptAt(r)'
    OBVIOUS
  <2>1. KeptAt(r)
    BY DEF IndexKept
  <2>2. 1 .. 0 = {}
    OBVIOUS
  <2> QED
    BY <1>1, <1>2, <1>3, <2>1, <2>2 DEF KeptAt
<1>5. \A q \in Proc : at'[q] \notin Named
  BY <1>t, ReleaseAlone DEF StartLaunches, Named, Locked
<1>6. \A q \in Proc : at'[q] = "idle" \/ at'[q] = at[q]
  BY <1>t DEF StartLaunches, Release, Goto, ReqType
<1> QED
  BY <1>1, <1>4, <1>5, <1>6 DEF IndexKept, FreshIsSilent, Erasing

LEMMA KeptClosed ==
  ASSUME StoryInv, IndexKept, NEW p \in Proc, WriterCloses(p)
  PROVE  IndexKept'
<1>t. ReqType /\ CapType /\ DiskType
  BY DEF StoryInv, RecorderInv, OwnershipInv, TypeOK
<1>s. PICK s \in Sid : s = target[p]
  BY <1>t DEF WriterCloses, ReqType, Teardown
<1>1. UNCHANGED <<heard, offered, cap, born, target>>
  BY DEF WriterCloses, capVars, feedVars
<1>2. at'[p] = "finish" /\ \A q \in Proc \ {p} : at'[q] = at[q]
  BY <1>t DEF WriterCloses, Goto, ReqType
<1>3. \A r \in Sid \ {s} : index'[r] = index[r]
  BY <1>t, <1>s DEF WriterCloses, WriteIndex, DiskType
<1>k. KeptAt(s)
  BY DEF IndexKept
<1>4. KeptAt(s)'
  <2>1. CASE WriteIndex(s)
    BY <1>t, <1>k, <1>1, <2>1, KeptWriting
  <2>2. CASE UNCHANGED index
    BY <1>k, <1>1, <2>2 DEF KeptAt
  <2> QED
    BY <1>s, <2>1, <2>2 DEF WriterCloses
<1>5. \A r \in Sid : KeptAt(r)'
  BY <1>1, <1>3, <1>4 DEF IndexKept, KeptAt
<1> QED
  BY <1>1, <1>2, <1>5 DEF IndexKept, FreshIsSilent, Named, Erasing

LEMMA KeptStep ==
  ASSUME "delete" \notin Requests, StoryInv, IndexKept, [Next]_vars
  PROVE  IndexKept'
<1>t. ReqType /\ Clients \subseteq Proc /\ Sid \subseteq Proc
  BY DEF StoryInv, RecorderInv, OwnershipInv, TypeOK, Proc
<1>1. ASSUME NEW c \in Clients, RequestStart(c) \/ RequestStop(c) \/ StopIdle(c) PROVE IndexKept'
  <2>1. StopIdle(c) \/ \E kind \in RequestKinds, l \in Waiting : Arrive(c, kind, l)
    BY <1>1 DEF RequestStart, RequestStop, RequestKinds, Waiting
  <2> QED
    BY <1>t, <2>1, KeptRequest
<1>2. ASSUME NEW c \in Clients, Deleting(c) \/ \E s \in Sid : RequestDelete(c, s) PROVE IndexKept'
  BY <1>t, <1>2 DEF Deleting, DeleteFiles, DeleteRow, RequestDelete, IndexKept, Erasing
<1>3. ASSUME NEW c \in Clients, Starting(c) PROVE IndexKept'
  BY <1>t, <1>3, KeptRequest, KeptNamed, KeptLaunched DEF Starting
<1>4. ASSUME NEW c \in Clients, StopTakes(c) PROVE IndexKept'
  <2>1. slot \in Sid /\ Take(c, slot)
    BY <1>t, <1>4 DEF StopTakes, ReqType
  <2> QED
    BY <1>t, <2>1, KeptRequest
<1>5. ASSUME NEW p \in Proc, Ending(p) \/ DrainTimeout(p) PROVE IndexKept'
  BY <1>5, KeptRequest, KeptClosed, KeptCut
<1>6. ASSUME NEW s \in Sid, Capturing(s) \/ CaptureCompletes(s) \/ CaptureBreaks(s) PROVE IndexKept'
  BY <1>6, KeptCapture
<1>7. ASSUME NEW s \in Sid, LiveFinished(s) PROVE IndexKept'
  BY <1>t, <1>7, KeptRequest
<1>8. ASSUME NEW s \in Sid, (Living(s) /\ ~LiveFinished(s)) \/ LiveBreaks(s) \/ Streaming(s)
      PROVE  IndexKept'
  <2>1. UNCHANGED <<reqVars, heard, cap, offered, index>>
    BY <1>8 DEF Living, LiveBreaks, Streaming, RouterPulls, RouterPublishes, LiveDiscards, StreamEnds,
         LiveJoins, RouterDrops, RouterExhausted, StreamHandsOff, StreamExhausted,
         StreamOpensTurn, StreamClosesTurn, capVars, feedVars, diskVars
  <2> QED
    BY <2>1, KeptAlone DEF reqVars, IndexKept
<1>9. ASSUME NEW s \in Sid, Persisting(s) PROVE IndexKept'
  BY <1>9, KeptAlone DEF Persisting, PersistAdds, PersistPublishes, PersistFails, PersistEnds,
     reqVars, capVars, feedVars, diskVars, IndexKept
<1>10. ASSUME NEW s \in Sid, Unattended(s) PROVE IndexKept'
  BY <1>t, <1>10, KeptRequest DEF Unattended, EndTakes
<1>11. CASE Crash
  BY <1>11, KeptAlone DEF Crash, Named, Erasing, diskVars
<1>12. CASE BootMarks \/ BootServes \/ \E s \in Sid : BootSweeps(s)
  BY <1>12, KeptAlone DEF BootMarks, BootServes, BootSweeps, reqVars, capVars, feedVars, diskVars, IndexKept
<1>13. CASE UNCHANGED vars
  BY <1>13, KeptAlone DEF vars, reqVars, capVars, feedVars, diskVars, IndexKept
<1> QED
  BY <1>1, <1>2, <1>3, <1>4, <1>5, <1>6, <1>7, <1>8, <1>9, <1>10, <1>11, <1>12, <1>13 DEF Next

(* As long as nobody deletes it, a recording can be transcribed again: every
   utterance the transcriber was ever offered is in the sidecar on disk, and
   all of an ended session's but perhaps the last one, whatever failed, was
   cut short or was killed (SessionAudioWriter, _dispatch, _close_capture). *)
THEOREM RecordingsAreKept ==
  ASSUME "delete" \notin Requests
  PROVE  Spec => []RecordingKept
<1>1. Init => IndexKept
  <2>1. 1 .. 0 = {} /\ 1 .. (0 - 1) = {}
    OBVIOUS
  <2> QED
    BY <2>1 DEF Init, IndexKept, KeptAt, FreshIsSilent, Named, Erasing
<1>2. StoryInv /\ IndexKept /\ [Next]_vars => IndexKept'
  BY KeptStep
<1>3. IndexKept => RecordingKept
  BY DEF IndexKept, KeptAt, RecordingKept, OfferedIsIndexed, LosesAtMostTheLast
<1> QED
  BY <1>1, <1>2, <1>3, StoryStep, StoryInitially, PTL DEF Spec

-----------------------------------------------------------------------------
(* An ended session is settled: its events first. *)

(* Nothing follows the sentinel, which is sent once the live task is over and
   the drain has ended; whoever owns a session has a persist task to wait
   for, and a persist task that is over left no event behind. *)
BusBooks ==
  /\ \A s \in Sid : persist[s] \in {"done", "failed"} => bus[s] = <<>>
  /\ \A s \in Sid : slot = s => persist[s] # "none"
  /\ \A p \in Proc : at[p] \in Teardown => persist[target[p]] # "none"
  /\ \A s \in Sid : \A i \in 1 .. Len(bus[s]) : bus[s][i] = Close =>
       /\ i = Len(bus[s]) /\ live[s] = "done" /\ slot # s
       /\ \A p \in Proc : TearingDown(p, s) => at[p] # "drain"
  /\ \A s \in Sid : born < s => bus[s] = <<>>
  /\ \A p \in Proc : at[p] \in Named => bus[target[p]] = <<>>
  /\ \A s \in Sid : row[s] \in Ended => bus[s] = <<>>

(* A step of requests that are already inside, or not yet. *)
LEMMA BusAlone ==
  ASSUME BusBooks, UNCHANGED <<bus, persist, live, born>>, slot' \in {slot, None},
         \A s \in Sid : row'[s] \in Ended => row[s] \in Ended,
         \A p \in Proc : /\ at'[p] \in Teardown => at[p] \in Teardown /\ target'[p] = target[p]
                         /\ at'[p] \in Named => at[p] \in Named /\ target'[p] = target[p]
                         /\ at'[p] = "drain" => at[p] = "drain"
  PROVE  BusBooks'
<1>n. \A s \in Sid : s # None
  BY DEF Sid, None
<1>1. \A s \in Sid : \A i \in 1 .. Len(bus'[s]) : bus'[s][i] = Close =>
       /\ i = Len(bus'[s]) /\ live'[s] = "done" /\ slot' # s
       /\ \A p \in Proc : TearingDown(p, s)' => at'[p] # "drain"
  BY <1>n DEF BusBooks, TearingDown
<1>2. \A s \in Sid : slot' = s => persist'[s] # "none"
  BY <1>n DEF BusBooks
<1> QED
  BY <1>1, <1>2 DEF BusBooks

(* Without a sentinel on it, a bus takes one more event. *)
LEMMA BusGrows ==
  ASSUME StoryInv, BusBooks, NEW s \in Sid, Alive(s), live[s] # "done", NEW e \in Events,
         UNCHANGED <<reqVars, persist, row>>,
         \A r \in Sid \ {s} : bus'[r] = bus[r] /\ live'[r] = live[r],
         \/ bus'[s] = bus[s]
         \/ Subscribed(s) /\ bus'[s] = Append(bus[s], e)
  PROVE  BusBooks'
<1>t. ReqType /\ StoreType /\ NamesGiven
  BY DEF StoryInv, RecorderInv, OwnershipInv, TypeOK
<1>c. e # Close
  BY DEF Events, Event, Close
<1>1. \A i \in 1 .. Len(bus[s]) : bus[s][i] # Close
  BY DEF BusBooks
<1>2. \A i \in 1 .. Len(bus'[s]) : bus'[s][i] # Close
  <2>1. CASE bus'[s] = bus[s]
    BY <1>1, <2>1
  <2>2. CASE bus'[s] = Append(bus[s], e)
    <3>1. bus[s] \in Seq(Events \cup {Close})
      BY <1>t DEF StoreType
    <3> QED
      BY <1>1, <1>c, <2>2, <3>1
  <2> QED
    BY <2>1, <2>2
<1>3. row[s] \notin Ended
  BY EndedRests
<1>4. ~(born < s) /\ \A p \in Proc : at[p] \in Named => target[p] \in Sid \ {s}
  BY <1>t, RunningIsNotFresh DEF NamesGiven, ReqType, Sid, None
<1>5. \A r \in Sid : persist'[r] \in {"done", "failed"} => bus'[r] = <<>>
  BY DEF BusBooks, Subscribed
<1>6. \A r \in Sid : \A i \in 1 .. Len(bus'[r]) : bus'[r][i] = Close =>
       /\ i = Len(bus'[r]) /\ live'[r] = "done" /\ slot' # r
       /\ \A p \in Proc : TearingDown(p, r)' => at'[p] # "drain"
  <2> SUFFICES ASSUME NEW r \in Sid \ {s}
      PROVE \A i \in 1 .. Len(bus'[r]) : bus'[r][i] = Close =>
              /\ i = Len(bus'[r]) /\ live'[r] = "done" /\ slot' # r
              /\ \A p \in Proc : TearingDown(p, r)' => at'[p] # "drain"
    BY <1>2
  <2> QED
    BY DEF BusBooks, TearingDown, reqVars
<1>7. /\ \A r \in Sid : slot' = r => persist'[r] # "none"
      /\ \A p \in Proc : at'[p] \in Teardown => persist'[target'[p]] # "none"
  BY DEF BusBooks, reqVars
<1>8. /\ \A r \in Sid : born' < r => bus'[r] = <<>>
      /\ \A p \in Proc : at'[p] \in Named => bus'[target'[p]] = <<>>
      /\ \A r \in Sid : row'[r] \in Ended => bus'[r] = <<>>
  BY <1>3, <1>4 DEF BusBooks, reqVars
<1> QED
  BY <1>5, <1>6, <1>7, <1>8 DEF BusBooks

LEMMA BusLiving ==
  ASSUME StoryInv, BusBooks, NEW s \in Sid,
         (Living(s) /\ ~LiveFinished(s)) \/ LiveBreaks(s) \/ Streaming(s)
  PROVE  BusBooks'
<1>t. StoreType /\ LiveType /\ InHand /\ CapType
  BY DEF StoryInv, RecorderInv, OwnershipInv, TypeOK
<1>1. UNCHANGED <<reqVars, persist, row>> /\ Alive(s) /\ live[s] # "done"
  BY DEF Living, LiveBreaks, Streaming, RouterPulls, RouterPublishes, LiveDiscards, StreamEnds,
         LiveJoins, RouterDrops, RouterExhausted, StreamHandsOff, StreamExhausted,
         StreamOpensTurn, StreamClosesTurn, storeVars, diskVars, Alive
<1>2. \A r \in Sid \ {s} : live'[r] = live[r]
  BY <1>t DEF Living, LiveBreaks, Streaming, RouterPulls, RouterPublishes, LiveDiscards, StreamEnds,
         LiveJoins, RouterDrops, RouterExhausted, StreamHandsOff, StreamExhausted,
         StreamOpensTurn, StreamClosesTurn, LiveGoes, LiveType
<1>p. ASSUME NEW e \in Events, Publish(s, e) PROVE BusBooks'
  <2>1. /\ \A r \in Sid \ {s} : bus'[r] = bus[r]
        /\ bus'[s] = bus[s] \/ (Subscribed(s) /\ bus'[s] = Append(bus[s], e))
    BY <1>t, <1>p DEF Publish, StoreType
  <2> QED
    BY <1>1, <1>2, <2>1, BusGrows
<1>u. ASSUME UNCHANGED bus PROVE BusBooks'
  <2>2. \A i \in 1 .. Len(bus[s]) : bus[s][i] # Close
    BY <1>1 DEF BusBooks
  <2>3. \A r \in Sid : \A i \in 1 .. Len(bus'[r]) : bus'[r][i] = Close =>
          /\ i = Len(bus'[r]) /\ live'[r] = "done" /\ slot' # r
          /\ \A p \in Proc : TearingDown(p, r)' => at'[p] # "drain"
    BY <1>u, <1>1, <1>2, <2>2 DEF BusBooks, TearingDown, reqVars
  <2> QED
    BY <1>u, <1>1, <2>3 DEF BusBooks, reqVars
<1>3. CASE RouterPublishes(s)
  <2>1. Event("utt", calling[s]) \in Events
    BY <1>t, <1>3 DEF RouterPublishes, InHand, Events
  <2> QED
    BY <1>3, <1>p, <2>1 DEF RouterPublishes
<1>4. CASE StreamOpensTurn(s)
  <2>1. turn[s] + 1 \in Turn
    BY <1>t, <1>4, ConstantsAssumption DEF StreamOpensTurn, LiveType, Turn
  <2>2. Event("interim", turn[s] + 1) \in Events
    BY <2>1 DEF Events
  <2> QED
    BY <1>4, <1>p, <2>2 DEF StreamOpensTurn
<1>5. CASE StreamClosesTurn(s) \/ StreamEnds(s) \/ StreamHandsOff(s) \/ StreamExhausted(s)
  <2>1. (open[s] /\ Publish(s, Event("final", turn[s]))) \/ UNCHANGED bus
    BY <1>5 DEF StreamClosesTurn, StreamEnds, StreamHandsOff, StreamExhausted, Settle
  <2>2. open[s] => Event("final", turn[s]) \in Events
    BY <1>t DEF InHand, Events
  <2> QED
    BY <1>p, <1>u, <2>1, <2>2
<1>6. CASE UNCHANGED bus
  BY <1>6, <1>u
<1> QED
  BY <1>3, <1>4, <1>5, <1>6 DEF Living, LiveBreaks, Streaming, RouterPulls, LiveDiscards,
     LiveJoins, RouterDrops, RouterExhausted, storeVars

LEMMA BusCut ==
  ASSUME StoryInv, BusBooks, NEW p \in Proc, DrainTimeout(p)
  PROVE  BusBooks'
<1>t. ReqType /\ StoreType /\ LiveType /\ InHand
  BY DEF StoryInv, RecorderInv, OwnershipInv, TypeOK
<1>s. PICK s \in Sid : s = target[p]
  BY <1>t DEF DrainTimeout, ReqType, Teardown
<1>1. UNCHANGED <<reqVars, persist, row>> /\ live[s] # "done"
  BY <1>s DEF DrainTimeout
<1>2. CASE UNCHANGED <<bus, live>>
  BY <1>1, <1>2, BusAlone DEF reqVars
<1>3. CASE live[s] # "join"
  <2>1. /\ \A r \in Sid \ {s} : live'[r] = live[r]
        /\ (open[s] /\ Publish(s, Event("final", turn[s]))) \/ UNCHANGED bus
    BY <1>s, <1>t, <1>3 DEF DrainTimeout, LiveGoes, LiveType, Settle
  <2>l. at[p] = "drain" /\ live'[s] = "join"
    BY <1>s, <1>t, <1>3 DEF DrainTimeout, LiveGoes, LiveType
  <2>2. CASE UNCHANGED bus
    <3>1. \A i \in 1 .. Len(bus[s]) : bus[s][i] # Close
      BY <1>1 DEF BusBooks
    <3>2. \A r \in Sid : \A i \in 1 .. Len(bus'[r]) : bus'[r][i] = Close =>
            /\ i = Len(bus'[r]) /\ live'[r] = "done" /\ slot' # r
            /\ \A q \in Proc : TearingDown(q, r)' => at'[q] # "drain"
      BY <1>1, <2>1, <2>2, <3>1 DEF BusBooks, TearingDown, reqVars
    <3> QED
      BY <1>1, <2>2, <3>2 DEF BusBooks, reqVars
  <2>3. CASE open[s] /\ Publish(s, Event("final", turn[s]))
    <3>1. Event("final", turn[s]) \in Events
      BY <1>t, <2>3 DEF InHand, Events
    <3>2. /\ \A r \in Sid \ {s} : bus'[r] = bus[r]
          /\ bus'[s] = bus[s] \/ (Subscribed(s) /\ bus'[s] = Append(bus[s], Event("final", turn[s])))
      BY <1>t, <2>3 DEF Publish, StoreType
    <3>3. CASE Alive(s)
      BY <1>1, <2>1, <3>1, <3>2, <3>3, BusGrows
    <3>4. CASE ~Alive(s)
      <4>1. live[s] = "none"
        BY <1>1, <3>4 DEF Alive
      <4>2. row[s] \notin Ended /\ ~(born < s)
        <5>1. TearingDown(p, s) /\ s \in 1 .. born
          BY <1>s, <2>l DEF TearingDown, Teardown, StoryInv, RecorderInv, NamesGiven
        <5> QED
          BY <2>l, <5>1, ConstantsAssumption DEF StoryInv, RecorderInv, OwnershipInv, TypeOK, ReqType, RowsInOrder
      <4>3. \A q \in Proc : at[q] \notin Named
        BY <2>l, OneInside DEF StoryInv, RecorderInv, OwnershipInv, Locked, Teardown, Named
      <4>4. \A i \in 1 .. Len(bus'[s]) : bus'[s][i] # Close
        <5>1. \A i \in 1 .. Len(bus[s]) : bus[s][i] # Close
          BY <1>1 DEF BusBooks
        <5>2. bus[s] \in Seq(Events \cup {Close}) /\ Event("final", turn[s]) # Close
          BY <1>t DEF StoreType, Event, Close
        <5>3. CASE bus'[s] = bus[s]
          BY <5>1, <5>3
        <5>4. CASE bus'[s] = Append(bus[s], Event("final", turn[s]))
          BY <5>1, <5>2, <5>4
        <5> QED
          BY <3>2, <5>3, <5>4
      <4>5. \A r \in Sid : \A i \in 1 .. Len(bus'[r]) : bus'[r][i] = Close =>
              /\ i = Len(bus'[r]) /\ live'[r] = "done" /\ slot' # r
              /\ \A q \in Proc : TearingDown(q, r)' => at'[q] # "drain"
        <5> SUFFICES ASSUME NEW r \in Sid \ {s}
            PROVE \A i \in 1 .. Len(bus'[r]) : bus'[r][i] = Close =>
                    /\ i = Len(bus'[r]) /\ live'[r] = "done" /\ slot' # r
                    /\ \A q \in Proc : TearingDown(q, r)' => at'[q] # "drain"
          BY <4>4
        <5> QED
          BY <1>1, <2>1, <3>2 DEF BusBooks, TearingDown, reqVars
      <4>6. \A r \in Sid : persist'[r] \in {"done", "failed"} => bus'[r] = <<>>
        BY <1>1, <3>2 DEF BusBooks, Subscribed
      <4> QED
        BY <1>1, <3>2, <4>2, <4>3, <4>5, <4>6 DEF BusBooks, reqVars
    <3> QED
      BY <3>3, <3>4
  <2> QED
    BY <2>1, <2>2, <2>3
<1> QED
  BY <1>s, <1>2, <1>3 DEF DrainTimeout

LEMMA TailOfOne ==
  ASSUME NEW S, NEW q \in Seq(S), Len(q) = 1
  PROVE  Tail(q) = <<>>
<1>1. \A r \in Seq(S) : r # <<>> => Len(r) \in Nat \ {0}
  OBVIOUS
<1>2. Tail(q) \in Seq(S) /\ Len(Tail(q)) = 0
  <2>1. q # <<>>
    OBVIOUS
  <2> QED
    BY <2>1
<1> QED
  BY <1>1, <1>2

LEMMA BusPersisting ==
  ASSUME StoryInv, BusBooks, NEW s \in Sid, Persisting(s)
  PROVE  BusBooks'
<1>t. ReqType /\ StoreType /\ NamesGiven
  BY DEF StoryInv, RecorderInv, OwnershipInv, TypeOK
<1>1. UNCHANGED <<reqVars, live, row>> /\ Storing(s)
  BY DEF Persisting, PersistAdds, PersistPublishes, PersistFails, PersistEnds, liveVars, diskVars, Storing
<1>2. \A r \in Sid \ {s} : bus'[r] = bus[r] /\ persist'[r] = persist[r]
  BY <1>t DEF Persisting, PersistAdds, PersistPublishes, PersistFails, PersistEnds, StoreType
<1>b. bus[s] \in Seq(Events \cup {Close})
  BY <1>t DEF StoreType
<1>3. /\ bus'[s] \in {bus[s], <<>>} \/ (bus[s] # <<>> /\ bus'[s] = Tail(bus[s]))
      /\ persist'[s] # "none"
      /\ persist'[s] \in {"done", "failed"} => bus'[s] = <<>>
  <2>1. CASE PersistAdds(s) \/ PersistPublishes(s) \/ PersistFails(s)
    BY <1>t, <2>1 DEF PersistAdds, PersistPublishes, PersistFails, StoreType
  <2>2. CASE PersistEnds(s)
    <3>1. bus[s] # <<>> /\ bus[s][1] = Close /\ bus'[s] = Tail(bus[s]) /\ persist'[s] = "done"
      BY <1>t, <1>b, <2>2 DEF PersistEnds, StoreType
    <3>2. 1 \in 1 .. Len(bus[s])
      BY <1>b, <3>1
    <3>3. Len(bus[s]) = 1
      BY <3>1, <3>2 DEF BusBooks
    <3>4. Tail(bus[s]) = <<>>
      BY <1>b, <3>3, TailOfOne
    <3> QED
      BY <3>1, <3>4
  <2> QED
    BY <2>1, <2>2 DEF Persisting
<1>4. \A i \in 1 .. Len(bus'[s]) : bus'[s][i] = Close =>
        /\ i = Len(bus'[s]) /\ live[s] = "done" /\ slot # s
        /\ \A p \in Proc : TearingDown(p, s) => at[p] # "drain"
  <2>1. CASE bus'[s] \in {bus[s], <<>>}
    BY <2>1 DEF BusBooks
  <2>2. CASE bus[s] # <<>> /\ bus'[s] = Tail(bus[s])
    <3>1. Len(bus'[s]) = Len(bus[s]) - 1 /\ Len(bus[s]) \in Nat
          /\ \A i \in 1 .. Len(bus'[s]) : bus'[s][i] = bus[s][i + 1] /\ i + 1 \in 1 .. Len(bus[s])
      BY <1>b, <2>2
    <3>2. \A j \in 1 .. Len(bus[s]) : bus[s][j] = Close =>
            /\ j = Len(bus[s]) /\ live[s] = "done" /\ slot # s
            /\ \A p \in Proc : TearingDown(p, s) => at[p] # "drain"
      BY DEF BusBooks
    <3> QED
      BY <3>1, <3>2
  <2> QED
    BY <1>3, <2>1, <2>2
<1>5. \A r \in Sid : \A i \in 1 .. Len(bus'[r]) : bus'[r][i] = Close =>
        /\ i = Len(bus'[r]) /\ live'[r] = "done" /\ slot' # r
        /\ \A p \in Proc : TearingDown(p, r)' => at'[p] # "drain"
  BY <1>1, <1>2, <1>4 DEF BusBooks, TearingDown, reqVars
<1>6. \A r \in Sid : bus[r] = <<>> => bus'[r] = <<>>
  BY <1>2, <1>3
<1>7. \A p \in Proc : at[p] \in Named \cup Teardown => target[p] \in Sid
  BY <1>t, ConstantsAssumption DEF NamesGiven, ReqType, Sid, None
<1>8. \A r \in Sid : persist[r] # "none" => persist'[r] # "none"
  BY <1>2, <1>3
<1>9. \A r \in Sid : persist'[r] \in {"done", "failed"} => bus'[r] = <<>>
  BY <1>2, <1>3 DEF BusBooks
<1> QED
  BY <1>1, <1>5, <1>6, <1>7, <1>8, <1>9 DEF BusBooks, reqVars

LEMMA BusNamed ==
  ASSUME StoryInv, BusBooks, NEW c \in Clients, StartNamed(c)
  PROVE  BusBooks'
<1>t. ReqType /\ LockedAlone /\ born \in Nat /\ MaxSessions \in Nat /\ c \in Proc
  BY ConstantsAssumption DEF StoryInv, RecorderInv, OwnershipInv, TypeOK, ReqType, Proc
<1>1. UNCHANGED <<bus, persist, live, row, slot>> /\ born' = born + 1 /\ born + 1 \in Sid
  BY <1>t DEF StartNamed, storeVars, liveVars, Sid
<1>2. at'[c] = "create" /\ target'[c] = born + 1
      /\ \A q \in Proc \ {c} : at'[q] = at[q] /\ target'[q] = target[q]
  BY <1>t DEF StartNamed, Goto, ReqType
<1>3. bus[born + 1] = <<>>
  BY <1>t, <1>1 DEF BusBooks
<1>4. \A q \in Proc : at'[q] \in Teardown => at'[q] = at[q] /\ target'[q] = target[q]
  BY <1>2 DEF Teardown
<1>5. \A r \in Sid : \A i \in 1 .. Len(bus'[r]) : bus'[r][i] = Close =>
        /\ i = Len(bus'[r]) /\ live'[r] = "done" /\ slot' # r
        /\ \A p \in Proc : TearingDown(p, r)' => at'[p] # "drain"
  BY <1>1, <1>4 DEF BusBooks, TearingDown
<1>6. /\ \A r \in Sid : born' < r => bus'[r] = <<>>
      /\ \A q \in Proc : at'[q] \in Named => bus'[target'[q]] = <<>>
  BY <1>t, <1>1, <1>2, <1>3 DEF BusBooks, Sid
<1> QED
  BY <1>1, <1>4, <1>5, <1>6 DEF BusBooks

LEMMA BusLaunched ==
  ASSUME StoryInv, BusBooks, NEW c \in Clients, NEW shape \in Shapes, StartLaunches(c, shape)
  PROVE  BusBooks'
<1>t. ReqType /\ StoreType /\ LiveType /\ LockedAlone /\ NamesGiven /\ c \in Proc
  BY DEF StoryInv, RecorderInv, OwnershipInv, TypeOK, Proc
<1>1. at[c] = "launch" /\ slot' = target[c] /\ UNCHANGED <<row, bus, born>> /\ Holds(c) /\ Release(c)
  BY DEF StartLaunches, diskVars
<1>s. PICK s \in Sid : s = target[c]
  BY <1>t, <1>1, ConstantsAssumption DEF NamesGiven, ReqType, Named, None
<1>2. \A q \in Proc : at'[q] \notin Locked
  BY <1>t, <1>1, ReleaseAlone
<1>3. bus[s] = <<>>
  BY <1>s, <1>1 DEF BusBooks, Named, Proc
<1>4. persist'[s] = "pull" /\ \A r \in Sid \ {s} : persist'[r] = persist[r] /\ live'[r] = live[r]
  BY <1>t, <1>s DEF StartLaunches, StoreType, LiveType
<1>5. \A r \in Sid : \A i \in 1 .. Len(bus'[r]) : bus'[r][i] = Close =>
        /\ i = Len(bus'[r]) /\ live'[r] = "done" /\ slot' # r
        /\ \A p \in Proc : TearingDown(p, r)' => at'[p] # "drain"
  <2> SUFFICES ASSUME NEW r \in Sid \ {s}, NEW i \in 1 .. Len(bus[r]), bus[r][i] = Close
      PROVE i = Len(bus[r]) /\ live'[r] = "done"
    BY <1>1, <1>2, <1>3, <1>s DEF TearingDown, Locked
  <2> QED
    BY <1>4 DEF BusBooks
<1>6. \A r \in Sid : persist'[r] \in {"done", "failed"} => bus'[r] = <<>>
  BY <1>1, <1>3, <1>4 DEF BusBooks
<1> QED
  BY <1>1, <1>2, <1>s, <1>4, <1>5, <1>6 DEF BusBooks, Locked, Named

LEMMA BusTaken ==
  ASSUME StoryInv, BusBooks, NEW p \in Proc, NEW s \in Sid, Take(p, s)
  PROVE  BusBooks'
<1>t. ReqType /\ LockedAlone
  BY DEF StoryInv, RecorderInv, OwnershipInv, TypeOK
<1>1. slot = s /\ slot' = None /\ UNCHANGED <<row, bus, live, persist, born>>
      /\ target'[p] = s /\ at'[p] = "drain"
  BY <1>t DEF Take, Goto, ReqType, diskVars, storeVars, liveVars
<1>2. \A q \in Proc : at[q] \notin Locked
  BY <1>t, <1>1 DEF LockedAlone, Sid, None
<1>3. \A q \in Proc \ {p} : at'[q] = at[q] /\ target'[q] = target[q]
  BY <1>t DEF Take, Goto, ReqType
<1>4. \A q \in Proc : at'[q] \in Teardown => q = p
  BY <1>2, <1>3 DEF Locked
<1>5. \A r \in Sid : \A i \in 1 .. Len(bus'[r]) : bus'[r][i] = Close =>
        /\ i = Len(bus'[r]) /\ live'[r] = "done" /\ slot' # r
        /\ \A q \in Proc : TearingDown(q, r)' => at'[q] # "drain"
  <2> SUFFICES ASSUME NEW r \in Sid, NEW i \in 1 .. Len(bus[r]), bus[r][i] = Close
      PROVE i = Len(bus[r]) /\ live[r] = "done" /\ r # s
    BY <1>1, <1>4 DEF TearingDown, Sid, None
  <2> QED
    BY <1>1 DEF BusBooks
<1>6. \A q \in Proc : at'[q] \notin Named
  BY <1>1, <1>2, <1>3 DEF Named, Locked
<1>7. \A r \in Sid : slot' # r
  BY <1>1 DEF Sid, None
<1> QED
  BY <1>1, <1>4, <1>5, <1>6, <1>7 DEF BusBooks

LEMMA BusEnding ==
  ASSUME StoryInv, BusBooks, NEW p \in Proc, Ending(p)
  PROVE  BusBooks'
<1>t. ReqType /\ StoreType /\ LockedAlone /\ DiskType
  BY DEF StoryInv, RecorderInv, OwnershipInv, TypeOK
<1>1. at[p] \in Teardown /\ UNCHANGED <<slot, born, persist, live>>
      /\ \A q \in Proc \ {p} : at'[q] = at[q] /\ target'[q] = target[q]
  BY <1>t DEF Ending, Drained, PersistAwaited, InterimsDeleted, WriterCloses, RowFinishes, Returns,
         Goto, Release, ReqType, Teardown, storeVars, liveVars
<1>o. \A q \in Proc \ {p} : at[q] \notin Locked
  BY <1>t, <1>1, OneInside DEF Locked
<1>s. PICK s \in Sid : s = target[p] /\ s \in 1 .. born
  BY <1>t, <1>1, ConstantsAssumption DEF StoryInv, RecorderInv, NamesGiven, ReqType, Sid, None
<1>2. CASE Drained(p)
  <2>1. at[p] = "drain" /\ live[s] = "done" /\ UNCHANGED <<target, row>> /\ at'[p] = "persist"
        /\ TearingDown(p, s)
    BY <1>t, <1>s, <1>1, <1>2 DEF Drained, Goto, ReqType, diskVars, TearingDown
  <2>2. \A i \in 1 .. Len(bus[s]) : bus[s][i] # Close
    BY <2>1 DEF BusBooks
  <2>3. bus[s] \in Seq(Events \cup {Close}) /\ Close \in Events \cup {Close}
    BY <1>t DEF StoreType
  <2>4. /\ \A r \in Sid \ {s} : bus'[r] = bus[r]
        /\ bus'[s] = IF Subscribed(s) THEN Append(bus[s], Close) ELSE bus[s]
    BY <1>t, <1>s, <1>2 DEF Drained, Publish, StoreType
  <2>5. \A i \in 1 .. Len(bus'[s]) : bus'[s][i] = Close => i = Len(bus'[s])
    <3>1. CASE Subscribed(s)
      <4>1. bus'[s] = Append(bus[s], Close)
        BY <2>4, <3>1
      <4> QED
        BY <2>2, <2>3, <4>1
    <3>2. CASE ~Subscribed(s)
      BY <2>2, <2>4, <3>2
    <3> QED
      BY <3>1, <3>2
  <2>6. slot = None /\ slot # s
    BY <1>t, <1>1, <1>s DEF LockedAlone, Locked, Sid, None
  <2>7. \A q \in Proc : at'[q] # "drain"
    BY <1>1, <1>o, <2>1 DEF Locked, Teardown
  <2>8. \A r \in Sid : \A i \in 1 .. Len(bus'[r]) : bus'[r][i] = Close =>
          /\ i = Len(bus'[r]) /\ live'[r] = "done" /\ slot' # r
          /\ \A q \in Proc : TearingDown(q, r)' => at'[q] # "drain"
    <3> SUFFICES ASSUME NEW r \in Sid, NEW i \in 1 .. Len(bus'[r]), bus'[r][i] = Close
        PROVE i = Len(bus'[r]) /\ live'[r] = "done" /\ slot' # r
      BY <2>7
    <3>1. CASE r = s
      BY <1>1, <2>1, <2>5, <2>6, <3>1
    <3>2. CASE r # s
      BY <1>1, <2>4, <3>2 DEF BusBooks
    <3> QED
      BY <3>1, <3>2
  <2>9. \A r \in Sid : persist'[r] \in {"done", "failed"} => bus'[r] = <<>>
    BY <1>1, <2>4 DEF BusBooks, Subscribed
  <2>10. row[s] \notin Ended /\ ~(born < s) /\ \A q \in Proc : at'[q] \notin Named
    <3>1. row[s] \notin Ended
      BY <2>1 DEF StoryInv, RowsInOrder
    <3>2. ~(born < s)
      BY <1>t, <1>s DEF ReqType
    <3> QED
      BY <1>1, <1>o, <2>1, <3>1, <3>2 DEF Named, Locked
  <2>11. \A q \in Proc : at'[q] \in Teardown => at[q] \in Teardown /\ target'[q] = target[q]
    BY <1>1, <2>1
  <2> QED
    BY <1>1, <2>1, <2>4, <2>8, <2>9, <2>10, <2>11 DEF BusBooks
<1>3. CASE RowFinishes(p)
  <2>1. UNCHANGED <<bus, target>> /\ \A r \in Sid \ {s} : row'[r] = row[r]
    BY <1>t, <1>s, <1>3 DEF RowFinishes, DiskType, storeVars
  <2>2. at[p] = "finish" /\ at'[p] = "return"
    BY <1>t, <1>3 DEF RowFinishes, Goto, ReqType
  <2>3. bus[s] = <<>>
    <3>1. ~Storing(s) /\ persist[s] # "none"
      BY <1>s, <2>2 DEF StoryInv, RecorderInv, OwnershipInv, Joined, Teardown, BusBooks
    <3> QED
      BY <1>t, <3>1 DEF StoreType, Storing, BusBooks
  <2>4. \A q \in Proc : /\ at'[q] \in Teardown => at[q] \in Teardown
                        /\ at'[q] \in Named => at[q] \in Named
                        /\ at'[q] = "drain" => at[q] = "drain"
    BY <1>1, <2>2 DEF Teardown, Named
  <2>5. \A r \in Sid : row'[r] \in Ended => bus'[r] = <<>>
    BY <2>1, <2>3 DEF BusBooks
  <2> QED
    BY <1>1, <2>1, <2>4, <2>5 DEF BusBooks, TearingDown
<1>4. CASE Returns(p)
  <2>1. UNCHANGED <<bus, row>> /\ at'[p] = "idle"
    BY <1>t, <1>4 DEF Returns, Release, Goto, ReqType, storeVars, diskVars
  <2> QED
    BY <1>1, <2>1, BusAlone DEF Teardown, Named
<1>5. CASE PersistAwaited(p) \/ InterimsDeleted(p) \/ WriterCloses(p)
  <2>1. UNCHANGED <<bus, row, target>>
    BY <1>5 DEF PersistAwaited, InterimsDeleted, WriterCloses, storeVars, diskVars
  <2>2. at'[p] \in Teardown \ {"drain"}
    BY <1>t, <1>5 DEF PersistAwaited, InterimsDeleted, WriterCloses, Goto, ReqType, Teardown
  <2> QED
    BY <1>1, <2>1, <2>2, BusAlone DEF Teardown, Named
<1> QED
  BY <1>2, <1>3, <1>4, <1>5 DEF Ending

(* A request outside a launch and a teardown. *)
LEMMA BusRequest ==
  ASSUME StoryInv, BusBooks, NEW p \in Proc,
         \/ \E kind \in RequestKinds, l \in Waiting : Arrive(p, kind, l)
         \/ StartRefused(p) \/ StartPreflight(p) \/ StartFails(p)
         \/ StartCreates(p) \/ StartCreateFails(p) \/ StopIdle(p)
         \/ \E s \in Sid : RequestDelete(p, s)
         \/ DeleteFiles(p) \/ DeleteRow(p)
         \/ p \in Sid /\ (EndQueues(p) \/ EndStale(p) \/ LiveFinished(p))
  PROVE  BusBooks'
<1>t. ReqType /\ DiskType
  BY DEF StoryInv, RecorderInv, OwnershipInv, TypeOK
<1>1. UNCHANGED <<bus, persist, live, born, slot>>
  BY DEF Arrive, StartRefused, StartPreflight, StartFails, StartCreates, StartCreateFails, StopIdle,
         RequestDelete, DeleteFiles, DeleteRow, EndQueues, EndStale, LiveFinished, liveVars, storeVars
<1>2. \A q \in Proc \ {p} : at'[q] = at[q] /\ target'[q] = target[q]
  BY <1>t DEF Arrive, StartRefused, StartPreflight, StartFails, StartCreates, StartCreateFails, StopIdle,
         RequestDelete, DeleteFiles, DeleteRow, EndQueues, EndStale, LiveFinished, Goto, Release, ReqType
<1>3. \A s \in Sid : row'[s] \in Ended => row[s] \in Ended
  <2>1. CASE StartCreates(p) \/ DeleteRow(p)
    BY <1>t, <2>1 DEF StartCreates, DeleteRow, DiskType, Ended
  <2>2. CASE UNCHANGED row
    BY <2>2
  <2> QED
    BY <2>1, <2>2 DEF Arrive, StartRefused, StartPreflight, StartFails, StartCreateFails, StopIdle,
         RequestDelete, DeleteFiles, EndQueues, EndStale, LiveFinished, diskVars
<1>4. CASE StartCreates(p)
  <2>1. at[p] = "create" /\ at'[p] = "launch" /\ target' = target
    BY <1>t, <1>4 DEF StartCreates, Goto, ReqType
  <2> QED
    BY <1>1, <1>2, <1>3, <2>1, BusAlone DEF Named, Teardown
<1>5. CASE p \in Sid /\ LiveFinished(p)
  <2>1. target' = target /\ (at'[p] = at[p] \/ at'[p] = "spawned")
    BY <1>t, <1>5 DEF LiveFinished, Goto, ReqType
  <2> QED
    BY <1>1, <1>2, <1>3, <2>1, BusAlone DEF Named, Teardown
<1>6. CASE ~StartCreates(p) /\ ~(p \in Sid /\ LiveFinished(p))
  <2>1. PICK l \in Waiting \cup Erasing \cup {"idle", "preflight"} : Goto(p, l)
    BY <1>6 DEF Arrive, StartRefused, StartPreflight, StartFails, StartCreateFails, StopIdle,
         RequestDelete, DeleteFiles, DeleteRow, EndQueues, EndStale, Release, Waiting, Erasing
  <2>2. at'[p] = l /\ l \notin Named \cup Teardown
    BY <1>t, <2>1 DEF Goto, ReqType, Named, Erasing, Waiting, Teardown
  <2> QED
    BY <1>1, <1>2, <1>3, <2>2, BusAlone DEF Teardown
<1> QED
  BY <1>4, <1>5, <1>6

LEMMA BusStep ==
  ASSUME StoryInv, BusBooks, [Next]_vars
  PROVE  BusBooks'
<1>t. TypeOK /\ ReqType /\ Quiet /\ Clients \subseteq Proc /\ Sid \subseteq Proc
  BY DEF StoryInv, RecorderInv, OwnershipInv, TypeOK, Proc
<1>1. ASSUME NEW c \in Clients,
             \/ RequestStart(c) \/ RequestStop(c) \/ \E s \in Sid : RequestDelete(c, s)
             \/ StopIdle(c) \/ Deleting(c)
      PROVE  BusBooks'
  <2>1. \/ \E kind \in RequestKinds, l \in Waiting : Arrive(c, kind, l)
        \/ StopIdle(c) \/ \E s \in Sid : RequestDelete(c, s)
        \/ DeleteFiles(c) \/ DeleteRow(c)
    BY <1>1 DEF RequestStart, RequestStop, RequestKinds, Waiting, Deleting
  <2> QED
    BY <1>t, <2>1, BusRequest
<1>2. ASSUME NEW c \in Clients, Starting(c) PROVE BusBooks'
  BY <1>t, <1>2, BusRequest, BusNamed, BusLaunched DEF Starting
<1>3. ASSUME NEW c \in Clients, StopTakes(c) PROVE BusBooks'
  <2>1. slot \in Sid /\ Take(c, slot)
    BY <1>t, <1>3 DEF StopTakes, ReqType
  <2> QED
    BY <1>t, <2>1, BusTaken
<1>4. ASSUME NEW p \in Proc, Ending(p) \/ DrainTimeout(p) PROVE BusBooks'
  BY <1>4, BusEnding, BusCut
<1>5. ASSUME NEW s \in Sid, Capturing(s) \/ CaptureCompletes(s) \/ CaptureBreaks(s) PROVE BusBooks'
  <2>1. UNCHANGED <<reqVars, row, bus, persist, live>>
    BY <1>5 DEF Capturing, CaptureCompletes, CaptureBreaks, CaptureOpens, CaptureStops, CaptureMarks,
         CaptureDies, CaptureDiskFull, CaptureMarkFails, liveVars, storeVars, diskVars
  <2> QED
    BY <2>1, BusAlone DEF reqVars
<1>6. ASSUME NEW s \in Sid, LiveFinished(s) PROVE BusBooks'
  BY <1>t, <1>6, BusRequest
<1>7. ASSUME NEW s \in Sid, (Living(s) /\ ~LiveFinished(s)) \/ LiveBreaks(s) \/ Streaming(s)
      PROVE  BusBooks'
  BY <1>7, BusLiving
<1>8. ASSUME NEW s \in Sid, Persisting(s) PROVE BusBooks'
  BY <1>8, BusPersisting
<1>9. ASSUME NEW s \in Sid, Unattended(s) PROVE BusBooks'
  BY <1>t, <1>9, BusRequest, BusTaken DEF Unattended, EndTakes
<1>10. CASE Crash
  <2>1. \A s \in Sid : bus'[s] = <<>> /\ slot' # s
    BY <1>10 DEF Crash, Sid, None
  <2> QED
    BY <1>10, <2>1 DEF Crash, BusBooks, Teardown, Named
<1>11. CASE BootMarks
  <2>1. \A s \in Sid : bus'[s] = <<>> /\ slot' # s
    BY <1>t, <1>11 DEF BootMarks, Quiet, reqVars, storeVars, Sid, None
  <2>2. \A p \in Proc : at'[p] = "idle"
    BY <1>t, <1>11 DEF BootMarks, Quiet, reqVars
  <2> QED
    BY <2>1, <2>2 DEF BusBooks, Teardown, Named
<1>12. CASE BootServes \/ \E s \in Sid : BootSweeps(s)
  BY <1>12, BusAlone DEF BootServes, BootSweeps, reqVars, liveVars, storeVars, diskVars
<1>13. CASE UNCHANGED vars
  BY <1>13, BusAlone DEF vars, reqVars, liveVars, storeVars, diskVars
<1> QED
  BY <1>1, <1>2, <1>3, <1>4, <1>5, <1>6, <1>7, <1>8, <1>9, <1>10, <1>11, <1>12, <1>13 DEF Next

(* The interims of a session go before its writer closes; what ended without
   a teardown waits for the sweep of the boot. *)
LinesGone ==
  /\ \A p \in Proc : at[p] \in {"close", "finish", "return"} => Interims(target[p]) = {}
  /\ \A s \in Sid : row[s] \in Ended => Interims(s) = {} \/ (up = "sweeping" /\ s \in sweep)
  /\ up # "serving" => crashes > 0

(* A step that writes no interim, ends no row and takes no teardown to its
   last steps. *)
LEMMA LinesFrame ==
  ASSUME LinesGone, up' = "serving", up = "serving",
         \A s \in Sid : Interims(s) = {} => Interims(s)' = {},
         \A s \in Sid : row'[s] \in Ended => row[s] \in Ended,
         \A p \in Proc : at'[p] \in {"close", "finish", "return"} =>
           /\ at[p] \in {"close", "finish", "return"}
           /\ target'[p] = target[p] /\ target[p] \in Sid
  PROVE  LinesGone'
BY DEF LinesGone

(* Nobody but a teardown goes through its last steps. *)
LEMMA LastSteps ==
  ASSUME StoryInv, [Next]_vars, up = "serving", UNCHANGED bootVars,
         \A p \in Proc : ~InterimsDeleted(p)
  PROVE  \A p \in Proc : at'[p] \in {"close", "finish", "return"} =>
           /\ at[p] \in {"close", "finish", "return"}
           /\ target'[p] = target[p] /\ target[p] \in Sid
<1> DEFINE Last == {"close", "finish", "return"}
           Same == \A p \in Proc : at'[p] \in Last => at[p] \in Last /\ target'[p] = target[p]
<1>t. ReqType /\ LockedAlone /\ Clients \subseteq Proc /\ Sid \subseteq Proc
  BY DEF StoryInv, RecorderInv, OwnershipInv, TypeOK, Proc
<1>f. ASSUME NEW p \in Proc, NEW l, l \notin Last, Goto(p, l),
             \A q \in Proc \ {p} : target'[q] = target[q]
      PROVE  Same
  <2>1. at'[p] = l /\ \A q \in Proc \ {p} : at'[q] = at[q]
    BY <1>t, <1>f DEF Goto, ReqType
  <2> QED
    BY <1>f, <2>1
<1>1. ASSUME NEW p \in Proc,
             \/ RequestStart(p) \/ RequestStop(p) \/ StopIdle(p)
             \/ StartRefused(p) \/ StartPreflight(p) \/ StartFails(p)
             \/ StartCreates(p) \/ StartCreateFails(p) \/ StartNamed(p)
             \/ (\E s \in Sid : RequestDelete(p, s)) \/ DeleteFiles(p) \/ DeleteRow(p)
             \/ EndQueues(p) \/ EndStale(p) \/ (\E s \in Sid : Take(p, s))
             \/ Drained(p) \/ PersistAwaited(p) \/ Returns(p)
      PROVE  Same
  <2>1. PICK l \in Waiting \cup Erasing \cup Named \cup {"idle", "preflight", "drain", "persist", "interims"} :
          Goto(p, l)
    BY <1>1 DEF RequestStart, RequestStop, Arrive, StopIdle, StartRefused, StartPreflight, StartFails,
       StartCreates, StartCreateFails, StartNamed, RequestDelete, DeleteFiles, DeleteRow,
       EndQueues, EndStale, Take, Drained, PersistAwaited, Returns, Release, Waiting, Erasing, Named
  <2>2. \A q \in Proc \ {p} : target'[q] = target[q]
    BY <1>t, <1>1 DEF RequestStart, RequestStop, Arrive, StopIdle, StartRefused, StartPreflight, StartFails,
       StartCreates, StartCreateFails, StartNamed, RequestDelete, DeleteFiles, DeleteRow,
       EndQueues, EndStale, Take, Drained, PersistAwaited, Returns, ReqType
  <2>3. l \notin Last
    BY <2>1 DEF Waiting, Erasing, Named
  <2> QED
    BY <1>f, <2>1, <2>2, <2>3
<1>2. ASSUME NEW c \in Clients, NEW shape \in Shapes, StartLaunches(c, shape) PROVE Same
  <2>1. Goto(c, "idle") /\ \A q \in Proc \ {c} : target'[q] = target[q]
    BY <1>t, <1>2 DEF StartLaunches, Release, ReqType
  <2> QED
    BY <1>t, <1>f, <2>1
<1>3. ASSUME NEW p \in Proc, WriterCloses(p) \/ RowFinishes(p) PROVE Same
  <2>1. at[p] \in Last /\ target' = target /\ \A q \in Proc \ {p} : at'[q] = at[q]
    BY <1>t, <1>3 DEF WriterCloses, RowFinishes, Goto, ReqType
  <2> QED
    BY <2>1
<1>4. ASSUME NEW s \in Sid, LiveFinished(s) PROVE Same
  <2>1. target' = target /\ (UNCHANGED at \/ Goto(s, "spawned"))
    BY <1>4 DEF LiveFinished
  <2> QED
    BY <1>t, <1>f, <2>1
<1>5. ASSUME UNCHANGED reqVars PROVE Same
  BY <1>5 DEF reqVars
<1>6. ASSUME NEW s \in Sid, Capturing(s) \/ CaptureCompletes(s) \/ CaptureBreaks(s) PROVE Same
  BY <1>5, <1>6 DEF Capturing, CaptureCompletes, CaptureBreaks, CaptureOpens, CaptureStops, CaptureMarks,
       CaptureDies, CaptureDiskFull, CaptureMarkFails
<1>7. ASSUME NEW s \in Sid, (Living(s) /\ ~LiveFinished(s)) \/ LiveBreaks(s) \/ Streaming(s) PROVE Same
  BY <1>5, <1>7 DEF Living, LiveBreaks, Streaming, RouterPulls, RouterPublishes, LiveDiscards, StreamEnds,
       LiveJoins, RouterDrops, RouterExhausted, StreamHandsOff, StreamExhausted,
       StreamOpensTurn, StreamClosesTurn
<1>8. ASSUME NEW s \in Sid, Persisting(s) PROVE Same
  BY <1>5, <1>8 DEF Persisting, PersistAdds, PersistPublishes, PersistFails, PersistEnds
<1>9. ASSUME NEW p \in Proc, DrainTimeout(p) PROVE Same
  BY <1>5, <1>9 DEF DrainTimeout
<1>10. ASSUME NEW c \in Clients, StopTakes(c) PROVE Same
  <2>1. slot \in Sid /\ Take(c, slot)
    BY <1>t, <1>10 DEF StopTakes, ReqType
  <2> QED
    BY <1>t, <1>1, <2>1
<1>11. ASSUME NEW s \in Sid, Unattended(s) PROVE Same
  BY <1>t, <1>1, <1>11 DEF Unattended, EndTakes
<1>12. ASSUME Crash \/ BootMarks \/ BootServes \/ \E s \in Sid : BootSweeps(s) PROVE FALSE
  BY <1>12 DEF Crash, BootMarks, BootServes, BootSweeps, bootVars
<1>13. ASSUME UNCHANGED vars PROVE Same
  BY <1>5, <1>13 DEF vars
<1>14. Same
  BY <1>t, <1>1, <1>2, <1>3, <1>4, <1>6, <1>7, <1>8, <1>9, <1>10, <1>11, <1>12, <1>13
     DEF Next, Starting, Ending, Deleting
<1>15. \A p \in Proc : at[p] \in Last => target[p] \in Sid
  BY <1>t, ConstantsAssumption DEF StoryInv, RecorderInv, NamesGiven, Teardown, ReqType, Sid, None
<1> QED
  BY <1>14, <1>15

LEMMA LinesStep ==
  ASSUME "interims" \notin Faults, MaxCrashes <= 1, StoryInv, LinesGone, [Next]_vars
  PROVE  LinesGone'
<1>t. /\ TypeOK /\ ReqType /\ DiskType /\ Quiet /\ Clients \subseteq Proc /\ Sid \subseteq Proc
      /\ crashes \in Nat /\ MaxCrashes \in Nat
  BY ConstantsAssumption DEF StoryInv, RecorderInv, OwnershipInv, TypeOK, Proc, BootType
<1>1. CASE Crash
  <2>1. up = "serving" /\ crashes' > 0 /\ \A p \in Proc : at'[p] = "idle"
    BY <1>t, <1>1 DEF Crash, LinesGone
  <2> QED
    BY <1>1, <2>1 DEF Crash, LinesGone, Interims, diskVars
<1>2. CASE BootMarks
  <2>1. \A p \in Proc : at'[p] = "idle"
    BY <1>t, <1>2 DEF BootMarks, Quiet, reqVars
  <2> QED
    BY <1>2, <2>1 DEF BootMarks, LinesGone, Interims
<1>3. CASE \E s \in Sid : BootSweeps(s)
  <2>1. \A p \in Proc : at'[p] = "idle"
    BY <1>t, <1>3 DEF BootSweeps, Quiet, reqVars
  <2>2. PICK s \in Sid : BootSweeps(s)
    BY <1>3
  <2>3. rows'[s] = Settled(rows[s]) /\ \A r \in Sid \ {s} : rows'[r] = rows[r]
    BY <1>t, <2>2 DEF BootSweeps, DiskType
  <2>4. Interims(s)' = {} /\ \A r \in Sid \ {s} : Interims(r)' = Interims(r)
    BY <2>3 DEF Interims, Settled
  <2> QED
    BY <2>1, <2>2, <2>4 DEF BootSweeps, LinesGone
<1>4. CASE BootServes
  <2>1. \A p \in Proc : at'[p] = "idle"
    BY <1>t, <1>4 DEF BootServes, Quiet, reqVars
  <2> QED
    BY <1>4, <2>1 DEF BootServes, LinesGone, Interims, diskVars
<1>5. CASE UNCHANGED vars
  BY <1>5 DEF vars, LinesGone, Interims, reqVars, diskVars, bootVars
<1>6. CASE up = "serving" /\ UNCHANGED bootVars
  <2>1. ASSUME NEW p \in Proc, InterimsDeleted(p) PROVE LinesGone'
    <3>1. UNCHANGED <<target, row>> /\ rows' = [rows EXCEPT ![target[p]] = Settled(@)]
          /\ at'[p] = "close" /\ \A q \in Proc \ {p} : at'[q] = at[q]
      BY <1>t, <2>1 DEF InterimsDeleted, Goto, ReqType
    <3>2. \A q \in Proc : at[q] \in Teardown => target[q] \in Sid
      BY <1>t, ConstantsAssumption DEF StoryInv, RecorderInv, NamesGiven, ReqType, Sid, None
    <3>3. target[p] \in Sid
      BY <2>1, <3>2 DEF InterimsDeleted, Teardown
    <3>4. rows'[target[p]] = Settled(rows[target[p]]) /\ \A r \in Sid \ {target[p]} : rows'[r] = rows[r]
      BY <1>t, <3>1, <3>3 DEF DiskType
    <3>5. Interims(target[p])' = {} /\ \A r \in Sid \ {target[p]} : Interims(r)' = Interims(r)
      BY <3>1, <3>4 DEF Interims, Settled
    <3>6. ASSUME NEW r \in Sid, Interims(r) = {} PROVE Interims(r)' = {}
      <4>1. rows'[r] \subseteq rows[r]
        BY <3>3, <3>4 DEF Settled
      <4> QED
        BY <3>6, <4>1 DEF Interims
    <3> QED
      BY <1>6, <3>1, <3>2, <3>5, <3>6 DEF LinesGone, bootVars, Teardown
  <2>2. CASE \A p \in Proc : ~InterimsDeleted(p)
    <3>1. /\ up' = "serving"
          /\ \A p \in Proc : at'[p] \in {"close", "finish", "return"} =>
               /\ at[p] \in {"close", "finish", "return"}
               /\ target'[p] = target[p] /\ target[p] \in Sid
      BY <1>6, <2>2, LastSteps DEF bootVars
    <3>2. ASSUME NEW p \in Proc, RowFinishes(p) PROVE LinesGone'
      <4>1. at[p] = "finish" /\ target[p] \in Sid /\ rows' = rows
        BY <1>t, <3>2, ConstantsAssumption
           DEF RowFinishes, StoryInv, RecorderInv, NamesGiven, Teardown, ReqType, Sid, None
      <4>2. Interims(target[p]) = {} /\ \A r \in Sid : Interims(r)' = Interims(r)
        BY <4>1 DEF LinesGone, Interims
      <4>3. \A r \in Sid \ {target[p]} : row'[r] = row[r]
        BY <1>t, <3>2 DEF RowFinishes, DiskType
      <4> QED
        BY <1>6, <3>1, <4>2, <4>3 DEF LinesGone
    <3>3. ASSUME NEW s \in Sid, PersistAdds(s) PROVE LinesGone'
      <4>1. UNCHANGED <<reqVars, row>> /\ Storing(s) /\ \A r \in Sid \ {s} : rows'[r] = rows[r]
        BY <1>t, <3>3 DEF PersistAdds, Storing, DiskType
      <4>2. row[s] \notin Ended /\ \A p \in Proc : at[p] \in {"close", "finish", "return"} => target[p] # s
        BY <4>1, EndedRests DEF StoryInv, RecorderInv, OwnershipInv, Joined, Teardown
      <4>3. \A r \in Sid \ {s} : Interims(r)' = Interims(r)
        BY <4>1 DEF Interims
      <4> QED
        BY <1>6, <3>1, <4>1, <4>2, <4>3 DEF LinesGone, reqVars
    <3>4. ASSUME NEW c \in Clients, StartCreates(c) \/ DeleteRow(c) \/ \E s \in Sid : RequestDelete(c, s)
          PROVE LinesGone'
      <4>1. \A r \in Sid : rows'[r] = rows[r] \/ rows'[r] = {}
        BY <1>t, <3>4 DEF StartCreates, DeleteRow, RequestDelete, DiskType
      <4>2. \A r \in Sid : Interims(r) = {} => Interims(r)' = {}
        BY <4>1 DEF Interims
      <4>3. \A r \in Sid : row'[r] \in Ended => row[r] \in Ended
        BY <1>t, <3>4 DEF StartCreates, DeleteRow, RequestDelete, DiskType, Ended
      <4> QED
        BY <1>6, <3>1, <4>2, <4>3, LinesFrame
    <3>5. CASE UNCHANGED <<row, rows>>
      <4>1. \A r \in Sid : Interims(r) = {} => Interims(r)' = {}
        BY <3>5 DEF Interims
      <4> QED
        BY <1>6, <3>1, <3>5, <4>1, LinesFrame
    <3>6. (\E s \in Sid : BootSweeps(s)) \/ BootMarks => FALSE
      BY <1>6 DEF BootSweeps, BootMarks
    <3> QED
      BY <2>2, <3>2, <3>3, <3>4, <3>5, <3>6, Writers
  <2> QED
    BY <2>1, <2>2
<1> QED
  BY <1>t, <1>1, <1>2, <1>3, <1>4, <1>5, <1>6, BootAlone, QuietSteps

(* When the row of a session says it ended, nothing of it is on its way any
   more: no task, no queued event and no half-typed row, unless the write
   that removes those fails or a boot dies in the middle of its sweep (_finish
   closes the bus, awaits the persist task, then deletes the interims and only
   then writes the row; mark_interrupted). *)
THEOREM EndedSettles ==
  ASSUME "interims" \notin Faults, MaxCrashes <= 1
  PROVE  Spec => []EndedIsSettled
<1>1. Init => BusBooks /\ LinesGone
  BY DEF Init, BusBooks, LinesGone, Interims, Teardown, Named, Ended, Sid, None
<1>2. StoryInv /\ BusBooks /\ [Next]_vars => BusBooks'
  BY BusStep
<1>3. StoryInv /\ LinesGone /\ [Next]_vars => LinesGone'
  BY LinesStep
<1>4. StoryInv /\ BusBooks /\ LinesGone => EndedIsSettled
  BY EndedRests DEF BusBooks, LinesGone, EndedIsSettled
<1> QED
  BY <1>1, <1>2, <1>3, <1>4, StoryStep, StoryInitially, PTL DEF Spec

-----------------------------------------------------------------------------
(* Once a boot has marked the rows, none says capturing. *)
RowsMarked == up = "sweeping" => \A s \in Sid : row[s] # "capturing"

LEMMA MarkedStep ==
  ASSUME StoryInv, RowsMarked, [Next]_vars
  PROVE  RowsMarked'
<1>1. CASE Crash
  BY <1>1 DEF Crash, RowsMarked
<1>2. CASE BootMarks
  BY <1>2 DEF BootMarks, RowsMarked
<1>3. CASE BootServes \/ \E s \in Sid : BootSweeps(s)
  BY <1>3 DEF BootServes, BootSweeps, RowsMarked
<1>4. CASE UNCHANGED vars
  BY <1>4 DEF vars, diskVars, bootVars, RowsMarked
<1>5. CASE up = "serving" /\ UNCHANGED bootVars
  BY <1>5 DEF bootVars, RowsMarked
<1> QED
  BY <1>1, <1>2, <1>3, <1>4, <1>5, BootAlone, QuietSteps DEF StoryInv, RecorderInv, OwnershipInv

(* When the application serves again no row says capturing, and no session
   that failed shows a half-typed line, on the same two conditions
   (mark_interrupted: the committed update, then the sweep). *)
THEOREM BootsHeal ==
  ASSUME "interims" \notin Faults, MaxCrashes <= 1
  PROVE  Spec => BootHeals
<1>1. Init => RowsMarked /\ LinesGone
  BY DEF Init, RowsMarked, LinesGone, Interims, Ended
<1>2. StoryInv /\ RowsMarked /\ [Next]_vars => RowsMarked'
  BY MarkedStep
<1>3. StoryInv /\ LinesGone /\ [Next]_vars => LinesGone'
  BY LinesStep
<1>4. StoryInv /\ RowsMarked /\ LinesGone /\ [Next]_vars
        => [up = "sweeping" /\ up' = "serving" =>
              \A s \in Sid : row[s] # "capturing" /\ (row[s] = "error" => Interims(s) = {})]_vars
  <2> SUFFICES ASSUME StoryInv, RowsMarked, LinesGone, [Next]_vars, up = "sweeping", up' = "serving"
      PROVE \A s \in Sid : row[s] # "capturing" /\ (row[s] = "error" => Interims(s) = {})
    OBVIOUS
  <2>1. BootServes
    BY QuietSteps DEF StoryInv, RecorderInv, OwnershipInv, Crash, BootMarks, BootSweeps, vars, bootVars
  <2> QED
    BY <2>1 DEF BootServes, RowsMarked, LinesGone, Ended
<1> QED
  BY <1>1, <1>2, <1>3, <1>4, StoryStep, StoryInitially, PTL DEF Spec, BootHeals
=============================================================================
