------------------------------ MODULE FdBorrow ------------------------------
(***************************************************************************)
(* Borrowing and returning of one named fd memory                          *)
(* (src/src/controllers/mem/mem_controller/api/                            *)
(* ubse_mem_controller_fd_api.cpp).                                        *)
(*                                                                         *)
(* The master keeps an import object and an export object per (name,       *)
(* importer) in its debt ledger.  It has an exporter export memory, then   *)
(* the importer import it; a return undoes the two in reverse.  Exporters  *)
(* and the importer keep ledgers of their own and report to the master.    *)
(*                                                                         *)
(* Every handler runs under the lock of the key (name, importer) of its    *)
(* process, the sends it makes included, so a handler is one step.  A      *)
(* message is acknowledged at once and handled later by a thread pool, so  *)
(* messages are handled in any order.  Master, importer and exporters are  *)
(* distinct nodes here.                                                    *)
(***************************************************************************)
EXTENDS Integers, FiniteSets

CONSTANTS
    Exporters,   \* nodes that can lend memory to the importer
    Borrows,     \* the borrow requests (UbseMemFdBorrow), one handling each
    Returns,     \* the return requests (UbseMemFdReturn), one handling each
    Patient,     \* TRUE: the client awaits the answer to a return before
                 \* it sends the next one
    FaultKinds,  \* the kinds of fault that may happen
    MaxFaults,   \* bound on the number of faults
    None         \* no exporter, no request

(***************************************************************************)
(* Faults: local failures                                                  *)
(*   refuse    feature unsupported, ledger of a node not ready, no auth    *)
(*   alloc     the scheduler finds no exporter                             *)
(*   cna       no path from importer to exporter                           *)
(*   export, sign, unexport      failures at the exporter                  *)
(*   decoder, import, unimport   failures at the importer                  *)
(* and failures of RpcSend, after its retries                              *)
(*   lost      the master's send fails, nothing is delivered               *)
(*   late      the master's send fails, but the message is delivered       *)
(*   rollback  the master's send of a rollback is lost                     *)
(*   report    the report of an agent is lost                              *)
(*   dup       a retry delivered a message twice                           *)
(***************************************************************************)
LocalFaults == {"refuse", "alloc", "cna", "export", "sign", "unexport",
                "decoder", "import", "unimport"}
SendFaults == {"lost", "late", "rollback", "report", "dup"}

\* What the protocol does not clean up itself: memory stays exported, or the
\* master does not learn of a step.
LeftToLedger == {"sign", "unexport", "report", "late", "dup"}

ASSUME RequestsAssumption ==
    /\ Borrows \cap Returns = {}
    /\ None \notin Borrows \cup Returns \cup Exporters
ASSUME PatientAssumption == Patient \in BOOLEAN
ASSUME FaultsAssumption ==
    /\ FaultKinds \subseteq LocalFaults \cup SendFaults
    /\ MaxFaults \in Nat

VARIABLES
    mImp,     \* the import object of the master's ledger
    mExp,     \* mExp[e]: the master's export object on node e
    mIdx,     \* exportResIdToNodeId_: where the index finds the export object
    aImp,     \* the import object of the importer's ledger
    aExp,     \* aExp[e]: the export object of e's ledger
    mapped,   \* the exporter whose memory the importer has mapped, or None
    lent,     \* the exporters whose memory is exported
    msgs,     \* objects sent and not yet handled
    todo,     \* requests the master has not handled yet
    answers,  \* answers[r]: the responses sent for r
    faults,   \* number of faults so far
    debt      \* TRUE: some fault so far leaves work to reconciliation

ledger == <<mImp, mExp, mIdx>>
hardware == <<mapped, lent>>
failures == <<faults, debt>>
vars == <<ledger, aImp, aExp, hardware, msgs, todo, answers, failures>>

-----------------------------------------------------------------------------
Requests == Borrows \cup Returns

ImportStates == {"EXPORT_RUNNING", "IMPORT_RUNNING", "IMPORT_SUCCESS",
                 "IMPORT_DESTROYING", "IMPORT_DESTROYED", "IMPORT_ABNORMAL"}
ExportStates == {"EXPORT_RUNNING", "EXPORT_SUCCESS", "EXPORT_DESTROYING",
                 "EXPORT_DESTROYED"}
Expected == {"EXPORT_SUCCESS", "EXPORT_DESTROYED", "IMPORT_SUCCESS",
             "IMPORT_DESTROYED"}

\* UbseMemFdBorrowImportObj and UbseMemFdBorrowExportObj.
Object(side, states) ==
    [side : {side}, state : states, expectState : Expected,
     exporter : Exporters,             \* algoResult.exportNumaInfos[0].nodeId
     obmm : Exporters \cup {None},     \* whose memory exportObmmInfo describes
     requestId : Requests,             \* req.requestId
     returnReq : Returns \cup {None},  \* returnReq.requestId
     created : BOOLEAN,                \* isCreateReportReceived
     destroyed : BOOLEAN]              \* isDestroyedReportReceived
ImportObj == Object("import", ImportStates)
ExportObj == Object("export", ExportStates)
NoObj == [state |-> "NONE"]

\* Serialisation leaves the two report flags out.
Wire(obj) == [obj EXCEPT !.created = FALSE, !.destroyed = FALSE]

Init ==
    /\ mImp = NoObj
    /\ mExp = [e \in Exporters |-> NoObj]
    /\ mIdx = None
    /\ aImp = NoObj
    /\ aExp = [e \in Exporters |-> NoObj]
    /\ mapped = None
    /\ lent = {}
    /\ msgs = {}
    /\ todo = Requests
    /\ answers = [r \in Requests |-> {}]
    /\ faults = 0
    /\ debt = FALSE

-----------------------------------------------------------------------------
(* The environment of a handler: faults, messages, responses.              *)

\* The sets of faults, out of the kinds a handler can meet, of one step.
Faults(kinds) ==
    {f \in SUBSET (kinds \cap FaultKinds) : faults + Cardinality(f) <= MaxFaults}
Suffer(f) ==
    /\ faults' = faults + Cardinality(f)
    /\ debt' = (debt \/ f \cap LeftToLedger # {})

SendFails(f) == f \cap {"lost", "late"} # {}

\* What RpcSend of the master puts on the wire.
Sent(obj, f) == IF "lost" \in f THEN {} ELSE {Wire(obj)}

\* What a report puts on the wire: AgentSendFdExportObj, AgentSendFdImportObj.
Reported(obj, f) == IF "report" \in f THEN {} ELSE {Wire(obj)}

\* The message m is taken by its handler; a duplicate stays behind.
Rest(m, f) == IF "dup" \in f THEN msgs ELSE msgs \ {m}

Respond(r, how) == answers' = [answers EXCEPT ![r] = @ \cup {how}]
NoResponse == UNCHANGED answers

\* PutResource and RemoveResource of the export objects, with their index.
PutExport(e, obj) == mExp' = [mExp EXCEPT ![e] = obj] /\ mIdx' = e
EraseFdExport(e) ==
    /\ mExp' = [mExp EXCEPT ![e] = NoObj]
    /\ mIdx' = IF mExp[e] # NoObj THEN None ELSE mIdx

\* FindBorrowObjPair: the export object is found through the index.
FoundExport == IF mIdx = None THEN NoObj ELSE mExp[mIdx]

\* HasAgentAlreadyReported, which is TRUE when the report is to be processed.
FirstReport(obj, flag) == IF obj = NoObj THEN TRUE ELSE ~obj[flag]

-----------------------------------------------------------------------------
(* The exporter.                                                           *)

\* FdExportRunningAgentCallback
FdExportRunning(m) ==
    \E f \in Faults({"export", "sign", "report", "dup"}) :
    LET e == m.exporter
        Report(state) == Reported([m EXCEPT !.state = state], f)
    IN
    /\ Suffer(f)
    /\ IF aExp[e].state = "EXPORT_SUCCESS"
       THEN f \subseteq {"dup"} /\ msgs' = Rest(m, f) /\ UNCHANGED <<aExp, lent>>
       ELSE \/ /\ "export" \in f /\ "sign" \notin f
               /\ aExp' = [aExp EXCEPT ![e] = NoObj]
               /\ msgs' = Rest(m, f) \cup Report("EXPORT_DESTROYED")
               /\ UNCHANGED lent
            \/ \* signing fails: the export executor is called once more
               /\ "sign" \in f /\ "export" \notin f
               /\ aExp' = [aExp EXCEPT ![e] = m]
               /\ lent' = lent \cup {e}
               /\ msgs' = Rest(m, f) \cup Report("EXPORT_DESTROYED")
            \/ /\ f \cap {"export", "sign"} = {}
               /\ aExp' = [aExp EXCEPT ![e] = [m EXCEPT !.state = "EXPORT_SUCCESS"]]
               /\ lent' = lent \cup {e}
               /\ msgs' = Rest(m, f) \cup Report("EXPORT_SUCCESS")

\* FdExportDestroyingAgentCallback
FdExportDestroying(m) ==
    \E f \in Faults({"unexport", "report", "dup"}) :
    LET e == m.exporter
        Report(state) == Reported([m EXCEPT !.state = state], f)
        absent == aExp[e] = NoObj
    IN
    /\ Suffer(f)
    /\ absent => "unexport" \notin f
    /\ IF "unexport" \in f
       THEN /\ aExp' = [aExp EXCEPT ![e] = [m EXCEPT !.state = "EXPORT_SUCCESS"]]
            /\ msgs' = Rest(m, f) \cup Report("EXPORT_SUCCESS")
            /\ UNCHANGED lent
       ELSE /\ aExp' = [aExp EXCEPT ![e] = NoObj]
            /\ lent' = IF absent THEN lent ELSE lent \ {e}
            /\ msgs' = Rest(m, f) \cup Report("EXPORT_DESTROYED")

FdExportAgentCallback(m) ==
    /\ m.side = "export"
    /\ \/ m.state = "EXPORT_RUNNING" /\ FdExportRunning(m)
       \/ m.state = "EXPORT_DESTROYING" /\ FdExportDestroying(m)
    /\ UNCHANGED <<ledger, aImp, mapped, todo, answers>>

-----------------------------------------------------------------------------
(* The importer.                                                           *)

\* FdImportRunningCallback; a decoder failure leaves its ledger untouched.
FdImportRunning(m) ==
    \E f \in Faults({"decoder", "import", "report", "dup"}) :
    LET Report(state) == Reported([m EXCEPT !.state = state], f)
    IN
    /\ Suffer(f)
    /\ IF aImp.state = "IMPORT_SUCCESS"
       THEN f \subseteq {"dup"} /\ msgs' = Rest(m, f) /\ UNCHANGED <<aImp, mapped>>
       ELSE \/ /\ f \cap {"decoder", "import"} = {}
               /\ aImp' = [m EXCEPT !.state = "IMPORT_SUCCESS"]
               /\ mapped' = m.obmm
               /\ msgs' = Rest(m, f) \cup Report("IMPORT_SUCCESS")
            \/ /\ "import" \in f /\ "decoder" \notin f
               /\ aImp' = NoObj
               /\ msgs' = Rest(m, f) \cup Report("IMPORT_DESTROYED")
               /\ UNCHANGED mapped
            \/ /\ "decoder" \in f /\ "import" \notin f
               /\ msgs' = Rest(m, f) \cup Report("IMPORT_DESTROYED")
               /\ UNCHANGED <<aImp, mapped>>

\* Mutant of FdImportDestroying: the failed object is left DESTROYING.
FdImportDestroyingStuck(m) ==
    \E f \in Faults({"unimport"}) :
        /\ Suffer(f)
        /\ aImp' = IF f = {} THEN NoObj ELSE m
        /\ mapped' = IF f = {} THEN None ELSE mapped
        /\ msgs' = (msgs \ {m}) \cup
              {[m EXCEPT !.state = IF f = {} THEN "IMPORT_DESTROYED"
                                             ELSE "IMPORT_ABNORMAL"]}

\* FdImportDestroyingHandler and FdImportDestroyingAgentCallback
FdImportDestroying(m) ==
    \E f \in Faults({"unimport", "report", "dup"}) :
    LET Report(state) == Reported([m EXCEPT !.state = state], f)
        absent == aImp = NoObj
    IN
    /\ Suffer(f)
    /\ absent => "unimport" \notin f
    /\ IF "unimport" \in f
       THEN /\ aImp' = [m EXCEPT !.state = "IMPORT_ABNORMAL"]
            /\ msgs' = Rest(m, f) \cup Report("IMPORT_ABNORMAL")
            /\ UNCHANGED mapped
       ELSE /\ aImp' = NoObj
            /\ mapped' = IF absent THEN mapped ELSE None
            /\ msgs' = Rest(m, f) \cup Report("IMPORT_DESTROYED")

FdImportAgentCallback(m) ==
    /\ m.side = "import"
    /\ \/ m.state = "IMPORT_RUNNING" /\ FdImportRunning(m)
       \/ m.state = "IMPORT_DESTROYING" /\ FdImportDestroying(m)
    /\ UNCHANGED <<ledger, aExp, lent, todo, answers>>

-----------------------------------------------------------------------------
(* The master.                                                             *)

\* Mutant of NotExist: a name without import object counts as free.
NotImported == mImp = NoObj

\* CheckFdResourceState: the name is free.
NotExist == mImp = NoObj /\ FoundExport = NoObj

\* UbseMemFdBorrow, with DoSendFdExportObj.
UbseMemFdBorrow(r, e) ==
    \E f \in Faults({"refuse", "alloc", "lost", "late"}) :
    LET exportObj ==
            [side |-> "export", state |-> "EXPORT_RUNNING",
             expectState |-> "EXPORT_SUCCESS", exporter |-> e, obmm |-> e,
             requestId |-> r, returnReq |-> None,
             created |-> FALSE, destroyed |-> FALSE]
        importObj == [exportObj EXCEPT !.side = "import", !.obmm = None]
    IN
    /\ r \in Borrows \cap todo
    /\ todo' = todo \ {r}
    /\ Suffer(f)
    /\ \/ /\ IF f = {} THEN ~NotExist ELSE f \subseteq {"refuse", "alloc"}
          /\ Respond(r, "fail")
          /\ UNCHANGED <<ledger, msgs>>
       \/ /\ NotExist /\ f \subseteq {"lost", "late"}
          /\ msgs' = msgs \cup Sent(exportObj, f)
          /\ IF SendFails(f)
             THEN /\ mExp' = [mExp EXCEPT ![e] = NoObj]
                  /\ mIdx' = None
                  /\ Respond(r, "fail")
                  /\ UNCHANGED mImp
             ELSE PutExport(e, exportObj) /\ mImp' = importObj /\ NoResponse
    /\ UNCHANGED <<aImp, aExp, hardware>>

\* Mutant of FdExportRollback: the requester is not told.
FdExportRollbackSilent(obj, m, importMsgs, f) ==
    LET undo == [obj EXCEPT !.state = "EXPORT_DESTROYING",
                            !.expectState = "EXPORT_DESTROYED"]
    IN
    /\ PutExport(obj.exporter, undo)
    /\ mImp' = NoObj
    /\ msgs' = Rest(m, f) \cup importMsgs \cup {Wire(undo)}
    /\ NoResponse

\* FdExportRollback of the export object obj; the result of its send is not
\* looked at.  importMsgs: the import message that failed, if it was delivered.
FdExportRollback(obj, m, importMsgs, f) ==
    LET undo == [obj EXCEPT !.state = "EXPORT_DESTROYING",
                            !.expectState = "EXPORT_DESTROYED"]
    IN
    /\ PutExport(obj.exporter, undo)
    /\ mImp' = NoObj
    /\ msgs' = Rest(m, f) \cup importMsgs
                 \cup (IF "rollback" \in f THEN {} ELSE {Wire(undo)})
    /\ Respond(obj.requestId, "fail")

\* FdExportExpectSuccessMasterCallback
FdExportExpectSuccess(m) ==
    \E f \in Faults({"cna", "lost", "late", "rollback", "dup"}) :
    LET exportObj == [m EXCEPT !.created = TRUE]
        importObj == [mImp EXCEPT !.state = "IMPORT_RUNNING",
                                  !.expectState = "IMPORT_SUCCESS",
                                  !.obmm = m.exporter, !.created = FALSE]
    IN
    /\ Suffer(f)
    /\ \/ /\ ~FirstReport(mExp[m.exporter], "created")
          /\ f \subseteq {"dup"}
          /\ msgs' = Rest(m, f)
          /\ NoResponse
          /\ UNCHANGED ledger
       \/ /\ FirstReport(mExp[m.exporter], "created")
          /\ m.state = "EXPORT_SUCCESS"
          /\ f \subseteq {"dup"}
          /\ PutExport(m.exporter, exportObj)
          /\ mImp' = importObj
          /\ msgs' = Rest(m, f) \cup Sent(importObj, f)
          /\ NoResponse
       \/ /\ FirstReport(mExp[m.exporter], "created")
          /\ m.state = "EXPORT_SUCCESS"
          /\ f \cap {"cna", "lost", "late"} # {}
          /\ FdExportRollback(exportObj, m,
                IF "cna" \in f THEN {} ELSE Sent(importObj, f), f)
       \/ /\ FirstReport(mExp[m.exporter], "created")
          /\ m.state = "EXPORT_DESTROYED"
          /\ f \subseteq {"dup"}
          /\ EraseFdExport(m.exporter)
          /\ mImp' = NoObj
          /\ msgs' = Rest(m, f)
          /\ Respond(m.requestId, "fail")

\* FdExportExpectDestroyMasterCallback; a rollback has no request to answer.
FdExportExpectDestroy(m) ==
    \E f \in Faults({"dup"}) :
    LET Reply(how) == IF m.returnReq = None THEN NoResponse
                                            ELSE Respond(m.returnReq, how)
    IN
    /\ Suffer(f)
    /\ msgs' = Rest(m, f)
    /\ UNCHANGED mImp
    /\ \/ /\ ~FirstReport(mExp[m.exporter], "destroyed")
          /\ NoResponse
          /\ UNCHANGED <<mExp, mIdx>>
       \/ /\ FirstReport(mExp[m.exporter], "destroyed")
          /\ m.state = "EXPORT_SUCCESS"
          /\ PutExport(m.exporter, [m EXCEPT !.destroyed = TRUE])
          /\ Reply("fail")
       \/ /\ FirstReport(mExp[m.exporter], "destroyed")
          /\ m.state = "EXPORT_DESTROYED"
          /\ EraseFdExport(m.exporter)
          /\ Reply("ok")

FdExportMasterCallback(m) ==
    /\ m.side = "export"
    /\ m.state \in {"EXPORT_SUCCESS", "EXPORT_DESTROYED"}
    /\ \/ m.expectState = "EXPORT_DESTROYED" /\ FdExportExpectDestroy(m)
       \/ /\ m.expectState = "EXPORT_SUCCESS" /\ mImp = NoObj
          /\ \E f \in Faults({"dup"}) : Suffer(f) /\ msgs' = Rest(m, f)
          /\ UNCHANGED <<ledger, answers>>
       \/ /\ m.expectState = "EXPORT_SUCCESS" /\ mImp # NoObj
          /\ FdExportExpectSuccess(m)
    /\ UNCHANGED <<aImp, aExp, hardware, todo>>

\* Mutant of DestroyExport: a failed send drops the export object.
DestroyExportForgets(obj, m, f) ==
    /\ IF SendFails(f) THEN EraseFdExport(obj.exporter)
                       ELSE PutExport(obj.exporter, obj)
    /\ msgs' = Rest(m, f) \cup Sent(obj, f)

\* The export object of m's exporter is to be destroyed, and sent; it goes
\* back to EXPORT_SUCCESS when the send fails.
DestroyExport(obj, m, f) ==
    LET state == IF SendFails(f) THEN "EXPORT_SUCCESS" ELSE obj.state
    IN
    /\ PutExport(obj.exporter, [obj EXCEPT !.state = state])
    /\ msgs' = Rest(m, f) \cup Sent(obj, f)

\* FdImportExpectSuccessMasterCallback
FdImportExpectSuccess(m) ==
    \E f \in Faults({"lost", "late", "dup"}) :
    LET exportObj == mExp[m.exporter]
        undo == [exportObj EXCEPT !.state = "EXPORT_DESTROYING",
                                  !.expectState = "EXPORT_DESTROYED",
                                  !.requestId = m.requestId]
    IN
    /\ Suffer(f)
    /\ \/ /\ ~FirstReport(mImp, "created")
          /\ f \subseteq {"dup"}
          /\ msgs' = Rest(m, f)
          /\ NoResponse
          /\ UNCHANGED ledger
       \/ /\ FirstReport(mImp, "created")
          /\ m.state = "IMPORT_SUCCESS"
          /\ f \subseteq {"dup"}
          /\ mImp' = [m EXCEPT !.created = TRUE]
          /\ msgs' = Rest(m, f)
          /\ Respond(m.requestId, "ok")
          /\ UNCHANGED <<mExp, mIdx>>
       \/ /\ FirstReport(mImp, "created")
          /\ m.state # "IMPORT_SUCCESS"
          /\ mImp' = NoObj
          /\ Respond(m.requestId, "fail")
          /\ \/ exportObj # NoObj /\ DestroyExport(undo, m, f)
             \/ /\ exportObj = NoObj
                /\ f \subseteq {"dup"}
                /\ msgs' = Rest(m, f)
                /\ UNCHANGED <<mExp, mIdx>>

\* Mutant of FdImportExpectDestroySuccessPath: the client is told that the
\* return is done as soon as the importer has unmapped the memory.
FdImportExpectDestroyHasty(m, f) ==
    LET undo == [mExp[m.exporter] EXCEPT !.state = "EXPORT_DESTROYING",
                                         !.expectState = "EXPORT_DESTROYED"]
    IN
    /\ mExp[m.exporter] # NoObj
    /\ mImp' = NoObj
    /\ DestroyExport(undo, m, f)
    /\ Respond(m.requestId, "ok")

\* FdImportExpectDestroySuccessPath
FdImportExpectDestroySuccessPath(m, f) ==
    LET exportObj == mExp[m.exporter]
        undo == [exportObj EXCEPT !.state = "EXPORT_DESTROYING",
                                  !.expectState = "EXPORT_DESTROYED",
                                  !.requestId = m.requestId,
                                  !.returnReq = m.returnReq,
                                  !.destroyed = FALSE]
    IN
    /\ mImp' = NoObj
    /\ \/ /\ "refuse" \in f /\ f \subseteq {"refuse", "dup"}
          /\ msgs' = Rest(m, f)
          /\ Respond(m.requestId, "fail")
          /\ UNCHANGED <<mExp, mIdx>>
       \/ /\ "refuse" \notin f /\ exportObj # NoObj
          /\ DestroyExport(undo, m, f)
          /\ IF SendFails(f) THEN Respond(m.requestId, "fail") ELSE NoResponse
       \/ /\ exportObj = NoObj /\ f \subseteq {"dup"}
          /\ msgs' = Rest(m, f)
          /\ Respond(m.requestId, "ok")
          /\ UNCHANGED <<mExp, mIdx>>

\* FdImportExpectDestroyMasterCallback, with FdImportExpectDestroyFailPath
FdImportExpectDestroy(m) ==
    \E f \in Faults({"refuse", "lost", "late", "dup"}) :
    /\ Suffer(f)
    /\ \/ /\ ~FirstReport(mImp, "destroyed")
          /\ f \subseteq {"dup"}
          /\ msgs' = Rest(m, f)
          /\ NoResponse
          /\ UNCHANGED ledger
       \/ /\ FirstReport(mImp, "destroyed")
          /\ m.state = "IMPORT_DESTROYED"
          /\ FdImportExpectDestroySuccessPath(m, f)
       \/ /\ FirstReport(mImp, "destroyed")
          /\ m.state = "IMPORT_ABNORMAL"
          /\ f \subseteq {"dup"}
          /\ mImp' = [m EXCEPT !.destroyed = TRUE]
          /\ msgs' = Rest(m, f)
          /\ Respond(m.requestId, "fail")
          /\ UNCHANGED <<mExp, mIdx>>

FdImportMasterCallback(m) ==
    /\ m.side = "import"
    /\ m.state \in {"IMPORT_SUCCESS", "IMPORT_DESTROYED", "IMPORT_ABNORMAL"}
    /\ \/ m.expectState = "IMPORT_SUCCESS" /\ FdImportExpectSuccess(m)
       \/ m.expectState = "IMPORT_DESTROYED" /\ FdImportExpectDestroy(m)
    /\ UNCHANGED <<aImp, aExp, hardware, todo>>

\* Mutant of Returnable: the state of the import object is not looked at.
ReturnableImporting ==
    /\ mImp # NoObj \/ FoundExport # NoObj
    /\ FoundExport.state \notin {"EXPORT_RUNNING", "EXPORT_DESTROYING"}

\* CheckFdReturn: something to return, and no borrow or return under way.
Returnable ==
    /\ mImp # NoObj \/ FoundExport # NoObj
    /\ mImp.state \notin {"EXPORT_RUNNING", "IMPORT_RUNNING", "IMPORT_DESTROYING"}
    /\ FoundExport.state \notin {"EXPORT_RUNNING", "EXPORT_DESTROYING"}

\* HandleSingleExportReturn: the ledger is written only if the send fails.
HandleSingleExportReturn(r, f) ==
    LET undo == [FoundExport EXCEPT !.state = "EXPORT_DESTROYING",
                                    !.expectState = "EXPORT_DESTROYED",
                                    !.requestId = r, !.returnReq = r,
                                    !.destroyed = FALSE]
    IN
    /\ msgs' = msgs \cup Sent(undo, f)
    /\ UNCHANGED mImp
    /\ IF SendFails(f)
       THEN /\ PutExport(undo.exporter, [undo EXCEPT !.state = "EXPORT_SUCCESS"])
            /\ Respond(r, "fail")
       ELSE NoResponse /\ UNCHANGED <<mExp, mIdx>>

FdReturnExistImport(r, f) ==
    LET undo == [mImp EXCEPT !.state = "IMPORT_DESTROYING",
                             !.expectState = "IMPORT_DESTROYED",
                             !.requestId = r, !.returnReq = r,
                             !.destroyed = FALSE]
    IN
    /\ msgs' = msgs \cup Sent(undo, f)
    /\ UNCHANGED <<mExp, mIdx>>
    /\ IF SendFails(f)
       THEN /\ mImp' = [undo EXCEPT !.state = "IMPORT_SUCCESS"]
            /\ Respond(r, "fail")
       ELSE mImp' = undo /\ NoResponse

UbseMemFdReturn(r) ==
    \E f \in Faults({"refuse", "lost", "late"}) :
    /\ r \in Returns \cap todo
    /\ Patient => \A q \in Returns \ todo : answers[q] # {}
    /\ todo' = todo \ {r}
    /\ Suffer(f)
    /\ \/ /\ IF f = {} THEN ~Returnable ELSE f = {"refuse"}
          /\ Respond(r, "fail")
          /\ UNCHANGED <<ledger, msgs>>
       \/ /\ Returnable /\ f \subseteq {"lost", "late"}
          /\ \/ mImp = NoObj /\ HandleSingleExportReturn(r, f)
             \/ mImp # NoObj /\ FdReturnExistImport(r, f)
    /\ UNCHANGED <<aImp, aExp, hardware>>

-----------------------------------------------------------------------------
Handle(m) ==
    \/ FdExportAgentCallback(m)
    \/ FdImportAgentCallback(m)
    \/ FdExportMasterCallback(m)
    \/ FdImportMasterCallback(m)

Next ==
    \/ \E r \in Borrows, e \in Exporters : UbseMemFdBorrow(r, e)
    \/ \E r \in Returns : UbseMemFdReturn(r)
    \/ \E m \in msgs : Handle(m)

Spec == Init /\ [][Next]_vars

\* The thread pool takes every message in the end.
FairSpec == Spec /\ WF_vars(\E m \in msgs : Handle(m))

-----------------------------------------------------------------------------
(* Properties.                                                             *)

\* The ledgers, messages and responses of FdBorrow have their types.
TypeOK ==
    /\ mImp \in ImportObj \cup {NoObj}
    /\ mExp \in [Exporters -> ExportObj \cup {NoObj}]
    /\ mIdx \in Exporters \cup {None}
    /\ aImp \in Object("import", {"IMPORT_SUCCESS", "IMPORT_ABNORMAL"}) \cup {NoObj}
    /\ aExp \in [Exporters ->
            Object("export", {"EXPORT_RUNNING", "EXPORT_SUCCESS"}) \cup {NoObj}]
    /\ mapped \in Exporters \cup {None}
    /\ lent \in SUBSET Exporters
    /\ msgs \in SUBSET (ImportObj \cup ExportObj)
    /\ todo \in SUBSET Requests
    /\ answers \in [Requests -> SUBSET {"ok", "fail"}]
    /\ faults \in 0 .. MaxFaults
    /\ debt \in BOOLEAN

\* Memory the importer has mapped is still exported: no rollback and no
\* return unexports it (FdUnExportExecutor) before the importer's unimport
\* has succeeded.
MappedIsLent == mapped # None => mapped \in lent

\* exportResIdToNodeId_ finds every export object of the ledger, so that
\* CheckFdResourceState and CheckFdReturn cannot overlook one, whichever
\* exporter a later borrow of the same name was given.
IndexFindsExports == \A e \in Exporters : mExp[e] # NoObj => mIdx = e

\* When every message has been handled, the master's ledger has an object
\* exactly where the agents have one, and theirs tell the truth about the
\* hardware: no failure path the protocol deals with itself leaks memory or
\* forgets a mapping.
QuietAgreement ==
    msgs = {} /\ ~debt =>
        /\ (mImp # NoObj) = (aImp # NoObj)
        /\ (aImp # NoObj) = (mapped # None)
        /\ \A e \in Exporters :
              /\ (mExp[e] # NoObj) = (aExp[e] # NoObj)
              /\ (aExp[e] # NoObj) = (e \in lent)

\* A success response is true when it is sent: a borrow's memory is mapped
\* and exported, and after a return nothing is left mapped or exported unless
\* the name has been borrowed anew.
AnswersTruthful ==
    [][\A r \in Requests : ~debt /\ "ok" \in answers'[r] \ answers[r] =>
        IF r \in Borrows THEN mapped # None /\ mapped \in lent
                         ELSE mImp' = NoObj => mapped = None /\ lent = {}]_vars

\* Every request the master takes up is answered in the end (its handlers
\* end in BuildOperationRespWhenSuccess or BuildOperationRespWhenFail).
EventuallyAnswered ==
    \A r \in Requests : r \notin todo ~> answers[r] # {} \/ debt

\* The import object of the master stands for a borrow that succeeded.
Held == mImp.state \in {"IMPORT_SUCCESS", "IMPORT_DESTROYING", "IMPORT_ABNORMAL"}

Lease == INSTANCE FdLease WITH lease <- Held

\* The protocol implements the contract of FdLease: one holder at a time,
\* released only by a return, one answer per request.
ImplementsLease == Lease!Spec
=============================================================================
