----------------------------- MODULE SealObject -----------------------------
(***************************************************************************)
(* Sealing an object, and rejecting it when sealing fails.                 *)
(*                                                                         *)
(*  - The Executor's HandleSealObjectTask submits MsgSealObject up to       *)
(*    MaxRetry + 1 times (sealObject), then, whatever the submits returned, *)
(*    calls listenSealObject, which calls Consensus.ListenObjectSeal up to  *)
(*    maxListenSealRetry times; each call polls the object timeoutHeight    *)
(*    times (Gnfd.ListenObjectSeal).                                        *)
(*  - The Manager's RejectUnSealObject sends MsgRejectSealObject up to      *)
(*    RejectUnSealObjectRetry times and after a successful send polls for   *)
(*    the object to disappear (Gnfd.ListenRejectUnSealObject).  The Manager *)
(*    calls it for a seal task that ended with an error.                    *)
(*  - The chain includes the submitted transactions later, or never: the   *)
(*    signer works asynchronously, so a submit that returned an error may   *)
(*    still be broadcast.                                                   *)
(***************************************************************************)
EXTENDS Naturals

CONSTANTS
  MaxRetry,            \* the seal task's GetMaxRetry()
  MaxListenSealRetry,  \* maxListenSealRetry
  SealTimeoutHeight,   \* listenSealTimeoutHeight: polls per ListenObjectSeal
  RejectRetry,         \* RejectUnSealObjectRetry
  RejectTimeoutHeight  \* DefaultListenRejectUnSealTimeoutHeight

ASSUME {MaxRetry, MaxListenSealRetry, SealTimeoutHeight, RejectRetry,
        RejectTimeoutHeight} \subseteq Nat

Nil == "nil"
Errors == {Nil, "Tx", "Query", "SealTimeout", "RejectUnSealTimeout"}

\* The two callers of listenSealObject: the primary's seal handler and a
\* secondary's receive-piece handler.
Listeners == {"seal", "receive"}

\* Outcomes of the receive handler's QueryObjectInfo, chosen by the chain
\* when the task is created: is this SP the secondary at ReplicateIdx, and
\* is ReplicateIdx within the secondary list.
ReplicaSlots == {"me", "other", "outOfBounds"}

VARIABLES
  status,         \* the object on chain: "created", "sealed" or "rejected" (gone)
  sealInFlight,   \* a MsgSealObject was broadcast and is not yet included
  rejectInFlight, \* a MsgRejectSealObject was broadcast and is not yet included
  slot,           \* what the chain's secondary list holds at ReplicateIdx
  spc,            \* the seal handler's position
  sealRetry,      \* sealObject's retry
  sealErr,        \* the seal task's error, once the handler returned
  listen,         \* per caller: listenSealObject's and ListenObjectSeal's locals
  hpc,            \* the receive handler's position
  recvSealed,     \* the receive task's Sealed flag
  recvErr,        \* the receive task's error
  piecesKept,     \* the secondary still stores the object's pieces and integrity meta
  rpc,            \* RejectUnSealObject's position
  rejectI,        \* RejectUnSealObject's i
  rejectPoll,     \* ListenRejectUnSealObject's i
  rejectErr,      \* RejectUnSealObject's err (the one it returns)
  rejectResult    \* what RejectUnSealObject returned

chainVars   == <<status, sealInFlight, rejectInFlight, slot>>
sealVars    == <<spc, sealRetry, sealErr>>
receiveVars == <<hpc, recvSealed, recvErr, piecesKept>>
rejectVars  == <<rpc, rejectI, rejectPoll, rejectErr, rejectResult>>
vars == <<chainVars, sealVars, listen, receiveVars, rejectVars>>

-----------------------------------------------------------------------------
(* listenSealObject and Gnfd.ListenObjectSeal, for caller c.  lpc is       *)
(* "listen" at the head of listenSealObject's loop, "poll" inside          *)
(* ListenObjectSeal, "returned" once listenSealObject returned err.        *)

ListenStart == [lpc |-> "listen", retry |-> 0, poll |-> 0, pollErr |-> Nil,
                err |-> Nil]

\* Mutant of RecordListenError: "err = innerErr" is dropped.
RecordListenErrorDropped(l, inner) == l.err

\* listenSealObject keeps the error of the last failed ListenObjectSeal.
RecordListenError(l, inner) == inner

\* The head of listenSealObject's loop: another ListenObjectSeal call, or
\* the end of the loop.
ListenHead(c) ==
  LET l == listen[c] IN
  /\ l.lpc = "listen"
  /\ listen' = [listen EXCEPT ![c] =
        IF l.retry < MaxListenSealRetry
          THEN [l EXCEPT !.lpc = "poll", !.poll = 0, !.pollErr = Nil]
          ELSE [l EXCEPT !.lpc = "returned"]]

\* One poll of ListenObjectSeal, or its return after timeoutHeight polls.
\* Gnfd's ListenObjectSeal never returns (false, nil), so the !sealed branch
\* of listenSealObject is not reached.
ListenPoll(c) ==
  LET l == listen[c] IN
  /\ l.lpc = "poll"
  /\ IF l.poll < SealTimeoutHeight
       THEN \/ listen' = [listen EXCEPT ![c].pollErr = "Query", ![c].poll = @ + 1]
            \/ /\ status = "sealed"              \* return true; err = nil; break
               /\ listen' = [listen EXCEPT ![c].lpc = "returned", ![c].err = Nil]
            \/ /\ status # "sealed"                \* a rejected object is gone
               /\ listen' = [listen EXCEPT ![c].pollErr = IF status = "rejected"
                                                            THEN "Query" ELSE Nil,
                                           ![c].poll = @ + 1]
       ELSE LET inner == IF l.pollErr = Nil THEN "SealTimeout" ELSE l.pollErr
            IN listen' = [listen EXCEPT ![c].lpc = "listen",
                                        ![c].retry = @ + 1,
                                        ![c].err = RecordListenError(l, inner)]

ListenStep(c) == ListenHead(c) \/ ListenPoll(c)

-----------------------------------------------------------------------------
(* Executor: HandleSealObjectTask and sealObject.                          *)

\* One iteration of the submit loop.  A failed submit may still have been
\* broadcast by the asynchronous signer; a successful one breaks the loop.
SubmitSeal ==
  /\ spc = "submit"
  /\ \/ /\ sealInFlight' = TRUE
        /\ spc' = "listen"
        /\ UNCHANGED sealRetry
     \/ /\ sealInFlight' \in {sealInFlight, TRUE}
        /\ sealRetry' = sealRetry + 1
        /\ spc' = IF sealRetry + 1 <= MaxRetry THEN "submit" ELSE "listen"
  /\ UNCHANGED <<sealErr, listen>>
  /\ UNCHANGED <<status, rejectInFlight, slot>>
  /\ UNCHANGED <<receiveVars, rejectVars>>

\* listenSealObject, called after the submit loop; its result becomes the
\* task's error (task.SetError(e.sealObject(...))).
SealListen ==
  /\ spc = "listen"
  /\ \/ /\ ListenStep("seal")
        /\ UNCHANGED <<spc, sealErr>>
     \/ /\ listen["seal"].lpc = "returned"
        /\ spc' = "done"
        /\ sealErr' = listen["seal"].err
        /\ UNCHANGED listen
  /\ UNCHANGED sealRetry
  /\ UNCHANGED chainVars
  /\ UNCHANGED <<receiveVars, rejectVars>>

-----------------------------------------------------------------------------
(* Executor: HandleReceivePieceTask on the secondary SP.                   *)

\* Mutant of ListenSucceeded: SetSealed(true) is taken out of "if err == nil".
ListenReturned(l) == TRUE

\* listenSealObject returned nil
ListenSucceeded(l) == l.err = Nil

\* err = e.listenSealObject(...); if err == nil { task.SetSealed(true) }
ReceiveListen ==
  /\ hpc = "listen"
  /\ \/ /\ ListenStep("receive")
        /\ UNCHANGED <<hpc, recvSealed>>
     \/ /\ listen["receive"].lpc = "returned"
        /\ recvSealed' = (ListenSucceeded(listen["receive"]) \/ recvSealed)
        /\ hpc' = "check"
        /\ UNCHANGED listen
  /\ UNCHANGED <<recvErr, piecesKept>>
  /\ UNCHANGED chainVars
  /\ UNCHANGED <<sealVars, rejectVars>>

\* onChainObject.GetObjectStatus() == OBJECT_STATUS_SEALED
ReceiveIsSealed(st) == st = "sealed"

\* QueryObjectInfo and the checks on the object it returns.  On a secondary
\* mismatch the handler deletes the integrity meta and the object's pieces.
ReceiveCheck ==
  /\ hpc = "check"
  /\ hpc' = "done"
  /\ \/ /\ recvErr' = "Query"                      \* also: a rejected object is gone
        /\ UNCHANGED <<recvSealed, piecesKept>>
     \/ /\ status # "rejected"
        /\ ~ReceiveIsSealed(status)
        /\ recvErr' = "Unsealed"
        /\ UNCHANGED <<recvSealed, piecesKept>>
     \/ /\ status # "rejected"
        /\ ReceiveIsSealed(status)
        /\ recvSealed' = TRUE
        /\ recvErr' = CASE slot = "outOfBounds" -> "ReplicateIdsOutOfBounds"
                        [] slot = "other"       -> "SecondaryMismatch"
                        [] slot = "me"          -> Nil
        /\ piecesKept' = (slot # "other" /\ piecesKept)
  /\ UNCHANGED listen
  /\ UNCHANGED chainVars
  /\ UNCHANGED <<sealVars, rejectVars>>

-----------------------------------------------------------------------------
(* Manager: RejectUnSealObject and Gnfd.ListenRejectUnSealObject.          *)

\* The Manager rejects the object of a seal task that returned an error.
StartReject ==
  /\ rpc = "idle"
  /\ spc = "done"
  /\ sealErr # Nil
  /\ rpc' = "send"
  /\ UNCHANGED <<rejectI, rejectPoll, rejectErr, rejectResult>>
  /\ UNCHANGED chainVars
  /\ UNCHANGED <<sealVars, listen, receiveVars>>

\* One iteration of the loop: send the transaction; after a successful send
\* listen for the rejection.  After RejectRetry iterations return err.
SendReject ==
  /\ rpc = "send"
  /\ IF rejectI < RejectRetry
       THEN \/ /\ rejectErr' = "Tx"
               /\ rejectI' = rejectI + 1
               /\ UNCHANGED <<rpc, rejectPoll, rejectInFlight>>
            \/ /\ rejectErr' = Nil
               /\ rejectInFlight' = TRUE
               /\ rpc' = "rpoll"
               /\ rejectPoll' = 0
               /\ UNCHANGED rejectI
       ELSE /\ rpc' = "done"
            /\ UNCHANGED <<rejectI, rejectPoll, rejectErr, rejectInFlight>>
  /\ rejectResult' = IF rejectI < RejectRetry THEN rejectResult ELSE rejectErr
  /\ UNCHANGED <<status, sealInFlight, slot>>
  /\ UNCHANGED <<sealVars, listen, receiveVars>>

\* Mutant of PollReject: the loop goes back to the send without counting
\* the iteration it used.
PollRejectNoAdvance ==
  /\ rpc = "rpoll"
  /\ IF rejectPoll < RejectTimeoutHeight
       THEN \/ /\ rejectPoll' = rejectPoll + 1
               /\ UNCHANGED <<rpc, rejectI, rejectResult>>
            \/ /\ status = "rejected"
               /\ rpc' = "done"
               /\ rejectResult' = Nil
               /\ UNCHANGED <<rejectI, rejectPoll>>
       ELSE /\ rpc' = "send"
            /\ UNCHANGED <<rejectI, rejectPoll, rejectResult>>
  /\ UNCHANGED rejectErr
  /\ UNCHANGED chainVars
  /\ UNCHANGED <<sealVars, listen, receiveVars>>

\* One poll of ListenRejectUnSealObject: "No such object" means rejected.
\* When it returns false the loop continues with the next iteration; its
\* error is the one "reject, err :=" declares, and the loop's err keeps Nil.
PollReject ==
  /\ rpc = "rpoll"
  /\ IF rejectPoll < RejectTimeoutHeight
       THEN \/ /\ rejectPoll' = rejectPoll + 1       \* a transient query error
               /\ UNCHANGED <<rpc, rejectI, rejectResult>>
            \/ /\ status = "rejected"                \* return nil
               /\ rpc' = "done"
               /\ rejectResult' = Nil
               /\ UNCHANGED <<rejectI, rejectPoll>>
            \/ /\ status # "rejected"
               /\ rejectPoll' = rejectPoll + 1
               /\ UNCHANGED <<rpc, rejectI, rejectResult>>
       ELSE /\ rpc' = "send"                         \* continue
            /\ rejectI' = rejectI + 1
            /\ UNCHANGED <<rejectPoll, rejectResult>>
  /\ UNCHANGED rejectErr
  /\ UNCHANGED chainVars
  /\ UNCHANGED <<sealVars, listen, receiveVars>>

-----------------------------------------------------------------------------
(* The chain.  A transaction for an object no longer "created" fails.      *)

IncludeSeal ==
  /\ sealInFlight
  /\ sealInFlight' = FALSE
  /\ \/ status' = IF status = "created" THEN "sealed" ELSE status
     \/ UNCHANGED status                             \* the transaction failed
  /\ UNCHANGED <<rejectInFlight, slot>>
  /\ UNCHANGED <<sealVars, listen, receiveVars, rejectVars>>

IncludeReject ==
  /\ rejectInFlight
  /\ rejectInFlight' = FALSE
  /\ status' = IF status = "created" THEN "rejected" ELSE status
  /\ UNCHANGED <<sealInFlight, slot>>
  /\ UNCHANGED <<sealVars, listen, receiveVars, rejectVars>>

-----------------------------------------------------------------------------

Init ==
  /\ status = "created"
  /\ sealInFlight = FALSE
  /\ rejectInFlight = FALSE
  /\ slot \in ReplicaSlots
  /\ spc = "submit"
  /\ sealRetry = 0
  /\ sealErr = Nil
  /\ listen = [c \in Listeners |-> ListenStart]
  /\ hpc = "listen"
  /\ recvSealed = FALSE
  /\ recvErr = Nil
  /\ piecesKept = TRUE
  /\ rpc = "idle"
  /\ rejectI = 0
  /\ rejectPoll = 0
  /\ rejectErr = Nil
  /\ rejectResult = Nil

Next ==
  \/ SubmitSeal \/ SealListen
  \/ ReceiveListen \/ ReceiveCheck
  \/ StartReject \/ SendReject \/ PollReject
  \/ IncludeSeal \/ IncludeReject

Spec == Init /\ [][Next]_vars

\* Each handler runs in its own goroutine (an executor worker, the
\* Manager's report handler), and the Go scheduler runs every goroutine
\* that can step; their polls and retries are bounded by counters.  The
\* chain gets no fairness: a broadcast transaction may never be included.
SealHandler    == SubmitSeal \/ SealListen
ReceiveHandler == ReceiveListen \/ ReceiveCheck
RejectHandler  == StartReject \/ SendReject \/ PollReject

Fairness ==
  /\ WF_vars(SealHandler)
  /\ WF_vars(ReceiveHandler)
  /\ WF_vars(RejectHandler)

FairSpec == Spec /\ Fairness

-----------------------------------------------------------------------------

(* The seal task ends without an error only if the object is sealed on     *)
(* chain: listenSealObject returns nil only after ListenObjectSeal saw     *)
(* OBJECT_STATUS_SEALED, whatever the submits returned.                    *)
SealReportedOnlyIfSealed ==
  spc = "done" /\ sealErr = Nil => status = "sealed"

(* RejectUnSealObject returns nil only if the object was rejected on       *)
(* chain, so the Manager never takes an object it failed to reject (which  *)
(* the delayed seal transaction may still seal) for a rejected one.        *)
RejectReportedOnlyIfRejected ==
  rpc = "done" /\ rejectResult = Nil => status = "rejected"

(* A receive task reports Sealed, which lets the Manager retire it, only   *)
(* for an object sealed on chain: the flag is set after listenSealObject   *)
(* returned nil or after QueryObjectInfo showed OBJECT_STATUS_SEALED.      *)
ReceiveSealedOnlyIfSealed ==
  recvSealed => status = "sealed"

(* No object is left pending by the handlers, whether or not the chain     *)
(* ever includes a transaction: the seal and receive handlers return, and  *)
(* a seal task that ended with an error has its RejectUnSealObject run to  *)
(* an end.  The loops of sealObject, listenSealObject, ListenObjectSeal,   *)
(* RejectUnSealObject and ListenRejectUnSealObject each count their        *)
(* iterations, including RejectUnSealObject's continue after a rejection   *)
(* that was not observed.                                                  *)
SealTaskResolves ==
  <>(/\ spc = "done" /\ hpc = "done"
     /\ (sealErr = Nil \/ rpc = "done"))
=============================================================================
