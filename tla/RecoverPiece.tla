---------------------------- MODULE RecoverPiece ----------------------------
(***************************************************************************)
(* ExecuteModular.HandleRecoverPieceTask (execute_task.go): one recovery   *)
(* task run by an executor worker.                                          *)
(*                                                                         *)
(* A secondary piece (ecIdx >= 0) is fetched from the primary SP and       *)
(* written in one sequential pass.  The primary's segment (ecIdx = -1) is   *)
(* rebuilt by fanning out one goroutine per EC piece: each downloads its   *)
(* piece, stores it in recoveryDataSources, sends on the buffered doneCh,   *)
(* decrements totalTaskNum and, if it was the last one, sends on the       *)
(* unbuffered quitCh.  The handler selects on both channels, breaks out as *)
(* soon as dataShards pieces arrived, and decodes, checks and writes.       *)
(*                                                                         *)
(* The deferred function copies the handler-scope err into the task error  *)
(* and sets RecoverDone when finishRecovery is set.  Inner blocks declare   *)
(* their own err with :=, so only an explicit task.SetError there is seen.  *)
(***************************************************************************)
EXTENDS Integers, FiniteSets

CONSTANTS
  DataShards,    \* RedundantDataChunkNum
  ParityShards   \* RedundantParityChunkNum

ASSUME DataShards \in Nat \ {0} /\ ParityShards \in Nat

\* ecPieceCount; the model takes len(secondaryEndpoints) equal to it.
Pieces == 1..(DataShards + ParityShards)

NoError == "none"

\* getObjectPrimarySPEndpoint fails when ListSPs or QueryBucketInfo fails,
\* or when no SP in the list is the bucket's primary.
PrimaryEndpointErrors == {"ListSPs", "QueryBucketInfo", "PrimaryNotFound"}

\* doRecoveryPiece fails when signing the task, fetching the piece or reading
\* the response body fails; only a full read returns the piece.
RecoveryPieceErrors == {"SignRecoveryTask", "GetPieceFromECChunks", "ReadAll"}

VARIABLES
  redundancy,   \* the object's redundancy type
  ecIdx,        \* task.GetEcIdx()
  pc,           \* where the handler is
  taskErr,      \* task.Error()
  recoverDone,  \* task.SetRecoverDone() was called
  written,      \* the recovered piece is in the piece store
  doneTaskNum,  \* the handler's count of doneCh receipts
  doneCh,       \* values buffered in doneCh
  totalTaskNum, \* the atomic counter of running download goroutines
  gpc,          \* each download goroutine's position
  source        \* recoveryDataSources[i] is non-nil

vars == <<redundancy, ecIdx, pc, taskErr, recoverDone, written, doneTaskNum,
          doneCh, totalTaskNum, gpc, source>>

mainVars == <<redundancy, ecIdx, pc, taskErr, recoverDone, written>>
fanVars  == <<doneTaskNum, doneCh, totalTaskNum, gpc, source>>

Fetched == {i \in Pieces : source[i]}

\* return with an error the deferred function or a SetError records
Fail(e) == /\ taskErr' = e
           /\ pc' = "returned"
           /\ UNCHANGED <<recoverDone, written>>

\* return with neither an error nor finishRecovery
ReturnSilently == /\ pc' = "returned"
                  /\ UNCHANGED <<taskErr, recoverDone, written>>

\* PutPiece succeeded and finishRecovery is set
Finish == /\ written' = TRUE
          /\ recoverDone' = TRUE
          /\ pc' = "returned"
          /\ UNCHANGED taskErr

\* checkRecoveryCheckSum: a failed integrity lookup or a mismatch sets the
\* task error; a match lets the caller write the piece with PutPiece.
\* PutFailed is the caller's handling of a PutPiece error.
CheckAndPut(PutFailed) ==
  \/ Fail("GfSpDB")
  \/ Fail("RecoveryPieceChecksum")
  \/ PutFailed
  \/ Finish

Init ==
  /\ redundancy \in {"EC", "Replica"}
  /\ ecIdx \in -2..(DataShards + ParityShards)
  /\ pc = "start"
  /\ taskErr = NoError
  /\ recoverDone = FALSE
  /\ written = FALSE
  /\ doneTaskNum = 0
  /\ doneCh = 0
  /\ totalTaskNum = 0
  /\ gpc = [i \in Pieces |-> "none"]
  /\ source = [i \in Pieces |-> FALSE]

\* the redundancy-type and index gates
Gate ==
  /\ pc = "start"
  /\ IF redundancy # "EC" THEN Fail("RecoveryRedundancyType")
     ELSE IF ecIdx < -1 \/ ecIdx > DataShards + ParityShards - 1
          THEN Fail("RecoveryPieceIndex")
     ELSE /\ pc' = IF ecIdx >= 0 THEN "secondary" ELSE "primary"
          /\ UNCHANGED <<taskErr, recoverDone, written>>
  /\ UNCHANGED <<redundancy, ecIdx>>
  /\ UNCHANGED fanVars

\* the ecIdx >= 0 branch: every failure calls task.SetError
RecoverSecondary ==
  /\ pc = "secondary"
  /\ \/ \E e \in PrimaryEndpointErrors : Fail(e)
     \/ \E e \in RecoveryPieceErrors : Fail(e)
     \/ CheckAndPut(Fail("PieceStore"))
  /\ UNCHANGED <<redundancy, ecIdx>>
  /\ UNCHANGED fanVars

\* the ecIdx = -1 branch up to the fan-out; a failed endpoint lookup sets
\* only the shadowing err
StartPrimary ==
  /\ pc = "primary"
  /\ \/ /\ ReturnSilently
        /\ UNCHANGED fanVars
     \/ /\ pc' = "select"
        /\ gpc' = [i \in Pieces |-> "fetch"]
        /\ totalTaskNum' = Cardinality(Pieces)
        /\ UNCHANGED <<taskErr, recoverDone, written, doneTaskNum, doneCh, source>>
  /\ UNCHANGED <<redundancy, ecIdx>>

\* a download goroutine's doRecoveryPiece returns: on success it stores the
\* piece and sends on doneCh, whose buffer holds one value per goroutine; a
\* failure (any of RecoveryPieceErrors) is dropped
Download(i) ==
  /\ gpc[i] = "fetch"
  /\ gpc' = [gpc EXCEPT ![i] = "count"]
  /\ \/ /\ source' = [source EXCEPT ![i] = TRUE]
        /\ doneCh' = doneCh + 1
     \/ UNCHANGED <<source, doneCh>>
  /\ UNCHANGED <<doneTaskNum, totalTaskNum>>
  /\ UNCHANGED mainVars

\* mutant of CountDown: tests the counter's value from before the decrement
CountDownBeforeDecrement(i) ==
  /\ gpc[i] = "count"
  /\ totalTaskNum' = totalTaskNum - 1
  /\ gpc' = [gpc EXCEPT ![i] = IF totalTaskNum = 0 THEN "quit" ELSE "exit"]
  /\ UNCHANGED <<doneTaskNum, doneCh, source>>
  /\ UNCHANGED mainVars

\* atomic.AddInt32(&totalTaskNum, -1); the goroutine that reaches 0 goes on
\* to send on quitCh, the others exit
CountDown(i) ==
  /\ gpc[i] = "count"
  /\ totalTaskNum' = totalTaskNum - 1
  /\ gpc' = [gpc EXCEPT ![i] = IF totalTaskNum - 1 = 0 THEN "quit" ELSE "exit"]
  /\ UNCHANGED <<doneTaskNum, doneCh, source>>
  /\ UNCHANGED mainVars

\* mutant of EnoughPieces: breaks one piece early
EnoughPiecesOneShort(n) == n + 1 >= DataShards

\* doneTaskNum >= minRecoveryPieces, minRecoveryPieces being dataShards
EnoughPieces(n) == n >= DataShards

\* select case <-doneCh
ReceiveDone ==
  /\ pc = "select"
  /\ doneCh > 0
  /\ doneCh' = doneCh - 1
  /\ doneTaskNum' = doneTaskNum + 1
  /\ pc' = IF EnoughPieces(doneTaskNum + 1) THEN "decode" ELSE "select"
  /\ UNCHANGED <<taskErr, recoverDone, written, totalTaskNum, gpc, source>>
  /\ UNCHANGED <<redundancy, ecIdx>>

\* select case <-quitCh: the rendezvous with the last goroutine.  With too
\* few pieces the task fails; otherwise the last goroutine's piece length
\* (0 when its download failed) is checked against the segment size.
ReceiveQuit ==
  /\ pc = "select"
  /\ \E i \in Pieces :
       /\ gpc[i] = "quit"
       /\ gpc' = [gpc EXCEPT ![i] = "exit"]
       /\ IF ~EnoughPieces(doneTaskNum) THEN Fail("RecoveryPieceNotEnough")
          ELSE IF ~source[i] THEN Fail("RecoveryPieceLength")
          ELSE UNCHANGED <<pc, taskErr, recoverDone, written>>
  /\ UNCHANGED <<doneTaskNum, doneCh, totalTaskNum, source>>
  /\ UNCHANGED <<redundancy, ecIdx>>

\* DecodeRawSegment over recoveryDataSources (it needs dataShards pieces),
\* then the checksum and PutPiece, whose error only sets the shadowing err
Decode ==
  /\ pc = "decode"
  /\ IF Cardinality(Fetched) < DataShards THEN Fail("RecoveryDecode")
     ELSE CheckAndPut(ReturnSilently)
  /\ UNCHANGED <<redundancy, ecIdx>>
  /\ UNCHANGED fanVars

Handler == Gate \/ RecoverSecondary \/ StartPrimary \/ ReceiveDone
             \/ ReceiveQuit \/ Decode

Goroutine(i) == Download(i) \/ CountDown(i)

Next == Handler \/ \E i \in Pieces : Goroutine(i)

\* The Go scheduler runs every runnable goroutine, and the handler's and
\* the downloads' external calls return (they carry the task context).
Fairness == WF_vars(Handler) /\ \A i \in Pieces : WF_vars(Goroutine(i))

Spec == Init /\ [][Next]_vars

FairSpec == Spec /\ Fairness

-----------------------------------------------------------------------------

(* The segment is decoded only from at least dataShards downloaded pieces: *)
(* the handler leaves the select loop for DecodeRawSegment only after it   *)
(* received dataShards doneCh values, each sent after a piece was stored.  *)
DecodeHasEnoughPieces ==
  pc = "decode" => Cardinality(Fetched) >= DataShards

(* A primary recovery fails with ErrRecoveryPieceNotEnough only when fewer *)
(* than dataShards secondaries returned their piece (the select's quitCh   *)
(* case is meant for "all the task finish" with too few pieces).           *)
NotEnoughOnlyWhenTooFew ==
  taskErr = "RecoveryPieceNotEnough" => Cardinality(Fetched) < DataShards

(* Once the handler moves on to DecodeRawSegment no download goroutine can *)
(* still store into recoveryDataSources, which the decoder is reading.     *)
NoStoreDuringDecode ==
  pc = "decode" => \A i \in Pieces : gpc[i] # "fetch"

(* Once the fan-out has started, every download goroutine eventually      *)
(* exits; in particular the last one's send on the unbuffered quitCh is    *)
(* received.                                                               *)
DownloadsTerminate ==
  (\E i \in Pieces : gpc[i] = "fetch") ~> (\A i \in Pieces : gpc[i] = "exit")

(* HandleRecoverPieceTask always returns, under the fairness of the Go     *)
(* scheduler: the select loop is left either by the dataShards-th doneCh   *)
(* receipt or by the rendezvous on quitCh with the goroutine whose         *)
(* AddInt32(&totalTaskNum, -1) reached 0, whichever downloads fail.        *)
HandlerReturns == <>(pc = "returned")
=============================================================================
