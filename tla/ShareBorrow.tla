----------------------------- MODULE ShareBorrow -----------------------------
(***************************************************************************)
(* One named shared memory: create, attach, detach and delete              *)
(* (src/src/controllers/mem/mem_controller/api/                            *)
(* ubse_mem_controller_share_api.cpp).                                     *)
(*                                                                         *)
(* One exporter exports the memory, any number of importers attach to it,  *)
(* and it may be deleted when nobody is attached.  The master keeps the    *)
(* objects of all nodes in its ledger; the nodes keep their own and report *)
(* to the master.                                                          *)
(*                                                                         *)
(* Create, delete and the callbacks of the master hold the lock of the     *)
(* name, an attach holds it shared, and a detach does not take it: attach  *)
(* and detach hold a lock of (name, node).  Handlers of the nodes hold the *)
(* lock of the name in their own process.  Messages are handled by a       *)
(* thread pool in any order.  The master is neither exporter nor importer. *)
(* An attach or detach is requested by the importer it is for: the code    *)
(* makes the key of (name, node) from the requesting node.                 *)
(***************************************************************************)
EXTENDS Naturals, FiniteSets

CONSTANTS
    Exporters,   \* nodes that can export the memory
    Importers,   \* nodes that attach to it
    Borrows,     \* requests to create it, each for a memory of its own
    Attaches, Detaches, Returns,  \* the other requests, one handling each
    FaultKinds,  \* the kinds of fault that may happen, each once
    MaxFaults,   \* bound on the number of faults
    None

(***************************************************************************)
(* Faults                                                                  *)
(*   refuse    unsupported, outside the region, no permission, no path,    *)
(*             ledger of the node not ready, no exporter found             *)
(*   export, sign, unexport      failures at the exporter                  *)
(*   decoder, import, unimport   failures at an importer                   *)
(*   lost      the master's send fails after its retries                   *)
(*   late      the master's send fails, but a retry was delivered          *)
(*   report    the report of a node is lost                                *)
(***************************************************************************)
Kinds == {"refuse", "export", "sign", "unexport", "decoder", "import",
          "unimport", "lost", "late", "report"}

Requests == Borrows \cup Attaches \cup Detaches \cup Returns

ASSUME ShareAssumption ==
    /\ Requests \subseteq Nat
    /\ None \notin Requests \cup Exporters \cup Importers
    /\ Borrows \cap (Attaches \cup Detaches \cup Returns) = {}
    /\ Attaches \cap (Detaches \cup Returns) = {} /\ Detaches \cap Returns = {}
    /\ FaultKinds \subseteq Kinds
    /\ MaxFaults \in Nat

VARIABLES
    mExp, mImp,  \* the export and import objects of the master's ledger
    aExp, aImp,  \* those of the nodes' own ledgers
    lent,        \* the memories that are exported
    mapped,      \* mapped[i]: the memory that i has mapped, or None
    lock,        \* lock[i]: the attach or detach that holds (name, i)
    msgs,        \* objects sent and not yet handled
    todo,        \* requests not yet handled
    target,      \* history: the importer that the attach or detach r names
    answers,     \* answers[r]: the responses sent for r
    faults       \* the faults so far

ledger == <<mExp, mImp>>
vars == <<mExp, mImp, aExp, aImp, lent, mapped, lock, msgs, todo,
          target, answers, faults>>

-----------------------------------------------------------------------------
ExportStates == {"EXPORT_RUNNING", "EXPORT_SUCCESS", "EXPORT_DESTROYING",
                 "EXPORT_DESTROYED"}
ImportStates == {"IMPORT_RUNNING", "IMPORT_SUCCESS", "IMPORT_DESTROYING",
                 "IMPORT_DESTROYED", "IMPORT_ABNORMAL"}
ExportObj ==
    [side : {"export"}, node : Exporters, mem : Borrows, state : ExportStates,
     expectState : {"EXPORT_SUCCESS", "EXPORT_DESTROYED"},
     returnReq : Returns \cup {None},      \* returnReq.requestId
     created : BOOLEAN,                    \* isCreateReportReceived
     destroyed : BOOLEAN]                  \* isDestroyedReportReceived
ImportObj ==
    [side : {"import"}, node : Importers, exporter : Exporters, mem : Borrows,
     state : ImportStates, expectState : {"IMPORT_SUCCESS", "IMPORT_DESTROYED"},
     requestId : Attaches \cup Detaches, created : BOOLEAN, destroyed : BOOLEAN]
NoObj == [state |-> "NONE"]

\* Serialisation leaves the two report flags out.
Wire(obj) == [obj EXCEPT !.created = FALSE, !.destroyed = FALSE]

\* What a thread that holds (name, i) is about to do with which object.
Held == [op : {"attach", "detach", "rollback"}, obj : ImportObj]
Free == [op |-> "free"]

Init ==
    /\ mExp = [e \in Exporters |-> NoObj]
    /\ mImp = [i \in Importers |-> NoObj]
    /\ aExp = [e \in Exporters |-> NoObj]
    /\ aImp = [i \in Importers |-> NoObj]
    /\ lent = {}
    /\ mapped = [i \in Importers |-> None]
    /\ lock = [i \in Importers |-> Free]
    /\ msgs = {}
    /\ todo = Requests
    /\ target = [r \in Attaches \cup Detaches |-> None]
    /\ answers = [r \in Requests |-> {}]
    /\ faults = {}

-----------------------------------------------------------------------------
(* Faults, messages, responses.                                            *)

Faults(kinds) ==
    {f \in SUBSET ((kinds \cap FaultKinds) \ faults) :
        Cardinality(faults) + Cardinality(f) <= MaxFaults}
Suffer(f) == faults' = faults \cup f

SendFails(f) == f # {}
Sent(obj, f) == IF "lost" \in f THEN {} ELSE {Wire(obj)}
Reported(obj, f) == IF "report" \in f THEN {} ELSE {Wire(obj)}

\* The master handles request r; the requests of a kind are numbered in the
\* order in which it handles them.
Takes(r, kind) ==
    /\ r \in kind \cap todo
    /\ \A q \in kind \cap todo : r <= q
    /\ todo' = todo \ {r}

Respond(r, how) == answers' = [answers EXCEPT ![r] = @ \cup {how}]

\* Mutant of FirstReport: one flag for both reports.
FirstReportOfObject(obj, flag) ==
    IF obj = NoObj THEN TRUE ELSE ~(obj.created \/ obj.destroyed)

\* HasAgentAlreadyReported, which is TRUE when the report is to be processed.
FirstReport(obj, flag) == IF obj = NoObj THEN TRUE ELSE ~obj[flag]

\* Mutant of NameIsFree: an attach does not hold the lock of the name.
NameIsAlwaysFree == TRUE

\* The lock of the name can be taken exclusively.
NameIsFree == \A i \in Importers : lock[i].op # "attach"

-----------------------------------------------------------------------------
(* The exporter.                                                           *)

\* ShareExportRunningAgentCallback.  When signing fails the memory is not
\* unexported.
ShareExportRunning(m) ==
    \E f \in Faults({"export", "sign", "report"}) :
    LET e == m.node
        result == IF f \cap {"export", "sign"} = {} THEN "EXPORT_SUCCESS"
                  ELSE "EXPORT_DESTROYED"
        done == [m EXCEPT !.state = result]
    IN
    /\ ~({"export", "sign"} \subseteq f)
    /\ IF aExp[e].state = "EXPORT_SUCCESS"
       THEN f = {} /\ msgs' = msgs \ {m} /\ UNCHANGED <<aExp, lent>>
       ELSE /\ aExp' = [aExp EXCEPT ![e] = IF result = "EXPORT_SUCCESS" THEN done ELSE NoObj]
            /\ lent' = IF "export" \in f THEN lent ELSE lent \cup {m.mem}
            /\ msgs' = (msgs \ {m}) \cup Reported(done, f)
    /\ Suffer(f)

\* ShareExportDestroyingAgentCallback
ShareExportDestroying(m) ==
    \E f \in Faults({"unexport", "report"}) :
    LET e == m.node
        absent == aExp[e] = NoObj
        done == [m EXCEPT !.state = IF "unexport" \in f THEN "EXPORT_SUCCESS"
                                    ELSE "EXPORT_DESTROYED"]
    IN
    /\ absent => "unexport" \notin f
    /\ aExp' = [aExp EXCEPT ![e] = IF "unexport" \in f THEN done ELSE NoObj]
    /\ lent' = IF absent \/ "unexport" \in f THEN lent ELSE lent \ {m.mem}
    /\ msgs' = (msgs \ {m}) \cup Reported(done, f)
    /\ Suffer(f)

ShareExportAgentCallback(m) ==
    /\ m.side = "export"
    /\ \/ m.state = "EXPORT_RUNNING" /\ ShareExportRunning(m)
       \/ m.state = "EXPORT_DESTROYING" /\ ShareExportDestroying(m)
    /\ UNCHANGED <<ledger, aImp, mapped, lock, todo, target, answers>>

-----------------------------------------------------------------------------
(* An importer.                                                            *)

\* ShareImportRunningHandler and ShareImportRunningAgentCallBack.  The node
\* of the memory needs no decoder; a decoder failure leaves the ledger as is.
ShareImportRunning(m) ==
    \E f \in Faults({"decoder", "import", "report"}) :
    LET i == m.node
        ok == f \cap {"decoder", "import"} = {}
        done == [m EXCEPT !.state = IF ok THEN "IMPORT_SUCCESS" ELSE "IMPORT_DESTROYED"]
    IN
    /\ ~({"decoder", "import"} \subseteq f)
    /\ m.exporter = i => "decoder" \notin f
    /\ IF aImp[i].state = "IMPORT_SUCCESS"
       THEN f = {} /\ msgs' = msgs \ {m} /\ UNCHANGED <<aImp, mapped>>
       ELSE /\ aImp' = [aImp EXCEPT ![i] = IF ok THEN done
                                           ELSE IF "decoder" \in f THEN @ ELSE NoObj]
            /\ mapped' = [mapped EXCEPT ![i] = IF ok THEN m.mem ELSE @]
            /\ msgs' = (msgs \ {m}) \cup Reported(done, f)
    /\ Suffer(f)

\* ShareImportDestroyingHandler and ShareImportDestroyingAgentCallBack
ShareImportDestroying(m) ==
    \E f \in Faults({"unimport", "report"}) :
    LET i == m.node
        absent == aImp[i] = NoObj
        done == [m EXCEPT !.state = IF "unimport" \in f THEN "IMPORT_ABNORMAL"
                                    ELSE "IMPORT_DESTROYED"]
    IN
    /\ absent => "unimport" \notin f
    /\ aImp' = [aImp EXCEPT ![i] = IF "unimport" \in f THEN done ELSE NoObj]
    /\ mapped' = [mapped EXCEPT ![i] = IF absent \/ "unimport" \in f THEN @ ELSE None]
    /\ msgs' = (msgs \ {m}) \cup Reported(done, f)
    /\ Suffer(f)

ShareImportAgentCallBack(m) ==
    /\ m.side = "import"
    /\ \/ m.state = "IMPORT_RUNNING" /\ ShareImportRunning(m)
       \/ m.state = "IMPORT_DESTROYING" /\ ShareImportDestroying(m)
    /\ UNCHANGED <<ledger, aExp, lent, lock, todo, target, answers>>

-----------------------------------------------------------------------------
(* The master: create and delete, under the lock of the name.              *)

Attached(e) == {i \in Importers : mImp[i] # NoObj /\ mImp[i].exporter = e}

\* GetMaxRefCountExportObj: an export object that is not being destroyed and
\* has most importers (any of them, if several), and its importers; all
\* importers when there is no such export object.
MaxRefCountExports ==
    LET live == {e \in Exporters : mExp[e].state \notin {"NONE", "EXPORT_DESTROYING"}} IN
    IF live = {} THEN {[node |-> None, importers |-> {i \in Importers : mImp[i] # NoObj}]}
    ELSE {[node |-> e, importers |-> Attached(e)] :
             e \in {x \in live : \A y \in live :
                        Cardinality(Attached(y)) <= Cardinality(Attached(x))}}

\* The export object is found when it is complete.
Exported(found) == found.node # None /\ mExp[found.node].state = "EXPORT_SUCCESS"

\* UbseMemShareBorrow, with HandleSendExportError.
UbseMemShareBorrow(r, e) ==
    \E f \in Faults({"refuse", "lost", "late"}) :
    LET free == (\A x \in Exporters : mExp[x] = NoObj) /\ (\A i \in Importers : mImp[i] = NoObj)
        exportObj == [side |-> "export", node |-> e, mem |-> r,
                      state |-> "EXPORT_RUNNING", expectState |-> "EXPORT_SUCCESS",
                      returnReq |-> None, created |-> FALSE, destroyed |-> FALSE]
    IN
    /\ Takes(r, Borrows) /\ NameIsFree
    /\ Suffer(f)
    /\ \/ /\ IF free THEN f = {"refuse"} ELSE f = {}
          /\ Respond(r, "fail")
          /\ UNCHANGED <<mExp, msgs>>
       \/ /\ free /\ f \in SUBSET {"lost", "late"} /\ Cardinality(f) <= 1
          /\ msgs' = msgs \cup Sent(exportObj, f)
          /\ IF SendFails(f) THEN Respond(r, "fail") /\ UNCHANGED mExp
             ELSE mExp' = [mExp EXCEPT ![e] = exportObj] /\ UNCHANGED answers
    /\ UNCHANGED <<mImp, aExp, aImp, lent, mapped, lock, target>>

\* ShareReturnValidate: the memory exists and nobody is attached to it.
Returnable(found) == Exported(found) /\ found.importers = {}

\* UbseMemShareReturn, with DealSendShareUnExportObjFailed.
UbseMemShareReturn(r) ==
    \E f \in Faults({"refuse", "lost", "late"}), found \in MaxRefCountExports :
    LET e == found.node
        exportObj == [mExp[e] EXCEPT !.state = "EXPORT_DESTROYING",
                                     !.expectState = "EXPORT_DESTROYED",
                                     !.returnReq = r, !.destroyed = FALSE]
    IN
    /\ Takes(r, Returns) /\ NameIsFree
    /\ Suffer(f)
    /\ \/ /\ IF Returnable(found) THEN f = {"refuse"} ELSE f = {}
          /\ Respond(r, "fail")
          /\ UNCHANGED <<mExp, msgs>>
       \/ /\ Returnable(found) /\ f \in SUBSET {"lost", "late"} /\ Cardinality(f) <= 1
          /\ msgs' = msgs \cup Sent(exportObj, f)
          /\ IF SendFails(f)
             THEN /\ mExp' = [mExp EXCEPT ![e] = [exportObj EXCEPT !.state = "EXPORT_SUCCESS"]]
                  /\ Respond(r, "fail")
             ELSE mExp' = [mExp EXCEPT ![e] = exportObj] /\ UNCHANGED answers
    /\ UNCHANGED <<mImp, aExp, aImp, lent, mapped, lock, target>>

\* ShareExportMasterCallback with ShareExportReturnCallback: the report of an
\* export, then of an unexport.
ShareExportMasterCallback(m) ==
    LET e == m.node
        flag == IF m.expectState = "EXPORT_SUCCESS" THEN "created" ELSE "destroyed"
        r == IF m.expectState = "EXPORT_SUCCESS" THEN m.mem ELSE m.returnReq
    IN
    /\ m.side = "export" /\ m.state \in {"EXPORT_SUCCESS", "EXPORT_DESTROYED"}
    /\ NameIsFree
    /\ msgs' = msgs \ {m}
    /\ \/ ~FirstReport(mExp[e], flag) /\ UNCHANGED <<mExp, answers>>
       \/ /\ FirstReport(mExp[e], flag)
          /\ mExp' = [mExp EXCEPT ![e] = IF m.state = "EXPORT_DESTROYED" THEN NoObj
                                         ELSE [m EXCEPT ![flag] = TRUE]]
          /\ Respond(r, IF m.state = m.expectState THEN "ok" ELSE "fail")
    /\ UNCHANGED <<mImp, aExp, aImp, lent, mapped, lock, todo, target, faults>>

-----------------------------------------------------------------------------
(* The master: attach and detach, under the lock of (name, node).          *)

\* UbseMemShareAttach up to PrepareShareAttachImportObj, with the name shared.
UbseMemShareAttach(r, i) ==
    \E f \in Faults({"refuse"}), found \in MaxRefCountExports :
    LET e == found.node
        attachable == Exported(found) /\ i \notin found.importers
    IN
    /\ Takes(r, Attaches) /\ lock[i] = Free
    /\ target' = [target EXCEPT ![r] = i]
    /\ Suffer(f)
    /\ \/ /\ IF attachable THEN f = {"refuse"} ELSE f = {}
          /\ Respond(r, "fail")
          /\ UNCHANGED lock
       \/ /\ attachable /\ f = {}
          /\ lock' = [lock EXCEPT ![i] =
                [op |-> "attach",
                 obj |-> [side |-> "import", node |-> i, exporter |-> e,
                          mem |-> mExp[e].mem, state |-> "IMPORT_RUNNING",
                          expectState |-> "IMPORT_SUCCESS", requestId |-> r,
                          created |-> FALSE, destroyed |-> FALSE]]]
          /\ UNCHANGED answers
    /\ UNCHANGED <<ledger, aExp, aImp, lent, mapped, msgs>>

\* The rest of UbseMemShareAttach: ConstructShareImportObj and the send.
ShareAttachSend(i) ==
    \E f \in Faults({"lost", "late"}) :
    LET obj == lock[i].obj IN
    /\ lock[i].op = "attach"
    /\ Cardinality(f) <= 1
    /\ lock' = [lock EXCEPT ![i] = Free]
    /\ msgs' = msgs \cup Sent(obj, f)
    /\ mImp' = [mImp EXCEPT ![i] = IF SendFails(f) THEN NoObj ELSE obj]
    /\ IF SendFails(f) THEN Respond(obj.requestId, "fail") ELSE UNCHANGED answers
    /\ Suffer(f)
    /\ UNCHANGED <<mExp, aExp, aImp, lent, mapped, todo, target>>

\* Mutant of Detachable: a node may be detached while it is being attached.
DetachableAnyState(found, i) == i \in found.importers

\* ExistImportObj, and neither being attached nor being detached.
Detachable(found, i) ==
    i \in found.importers /\ mImp[i].state \in {"IMPORT_SUCCESS", "IMPORT_ABNORMAL"}

\* UbseMemShareDetach up to its checks.
UbseMemShareDetach(r, i) ==
    \E f \in Faults({"refuse"}), found \in MaxRefCountExports :
    /\ Takes(r, Detaches) /\ lock[i] = Free
    /\ target' = [target EXCEPT ![r] = i]
    /\ Suffer(f)
    /\ \/ /\ IF Detachable(found, i) THEN f = {"refuse"} ELSE f = {}
          /\ Respond(r, "fail")
          /\ UNCHANGED lock
       \/ /\ Detachable(found, i) /\ f = {}
          /\ lock' = [lock EXCEPT ![i] =
                [op |-> "detach",
                 obj |-> [mImp[i] EXCEPT !.state = "IMPORT_DESTROYING",
                                         !.expectState = "IMPORT_DESTROYED",
                                         !.requestId = r, !.destroyed = FALSE]]]
          /\ UNCHANGED answers
    /\ UNCHANGED <<ledger, aExp, aImp, lent, mapped, msgs>>

\* The object is stored and sent; the name is not locked meanwhile.
ShareDetachSend(i) ==
    \E f \in Faults({"lost", "late"}) :
    LET obj == lock[i].obj IN
    /\ lock[i].op = "detach"
    /\ Cardinality(f) <= 1
    /\ mImp' = [mImp EXCEPT ![i] = obj]
    /\ msgs' = msgs \cup Sent(obj, f)
    /\ lock' = [lock EXCEPT ![i] = IF SendFails(f) THEN [@ EXCEPT !.op = "rollback"] ELSE Free]
    /\ Suffer(f)
    /\ UNCHANGED <<mExp, aExp, aImp, lent, mapped, todo, target, answers>>

\* Mutant of ShareDetachRollback: both states get the value of state.
ShareDetachRollbackAlike(i) ==
    LET obj == lock[i].obj IN
    /\ lock[i].op = "rollback"
    /\ lock' = [lock EXCEPT ![i] = Free]
    /\ mImp' = [mImp EXCEPT ![i] = [obj EXCEPT !.expectState = obj.state]]
    /\ Respond(obj.requestId, "fail")
    /\ UNCHANGED <<mExp, aExp, aImp, lent, mapped, msgs, todo, target, faults>>

\* The send has failed: the object is SUCCESS again, whatever was reported.
ShareDetachRollback(i) ==
    LET obj == lock[i].obj IN
    /\ lock[i].op = "rollback"
    /\ lock' = [lock EXCEPT ![i] = Free]
    /\ mImp' = [mImp EXCEPT ![i] = [obj EXCEPT !.state = "IMPORT_SUCCESS",
                                               !.expectState = "IMPORT_SUCCESS"]]
    /\ Respond(obj.requestId, "fail")
    /\ UNCHANGED <<mExp, aExp, aImp, lent, mapped, msgs, todo, target, faults>>

\* Mutant of ShareImportMasterCallBack: a failed import is kept.
ShareImportMasterCallBackKeeps(m) ==
    /\ m.side = "import" /\ m.state \notin {"IMPORT_RUNNING", "IMPORT_DESTROYING"}
    /\ NameIsFree
    /\ msgs' = msgs \ {m}
    /\ mImp' = [mImp EXCEPT ![m.node] =
           IF m.state = m.expectState /\ m.state = "IMPORT_DESTROYED" THEN NoObj ELSE m]
    /\ Respond(m.requestId, IF m.state = m.expectState THEN "ok" ELSE "fail")
    /\ UNCHANGED <<mExp, aExp, aImp, lent, mapped, lock, todo, target, faults>>

\* ShareImportMasterCallBack with ShareImportMasterCreateCallback and
\* ShareImportMasterDestroyCallback.
ShareImportMasterCallBack(m) ==
    LET i == m.node
        flag == IF m.expectState = "IMPORT_SUCCESS" THEN "created" ELSE "destroyed"
    IN
    /\ m.side = "import" /\ m.state \notin {"IMPORT_RUNNING", "IMPORT_DESTROYING"}
    /\ NameIsFree
    /\ msgs' = msgs \ {m}
    /\ \/ ~FirstReport(mImp[i], flag) /\ UNCHANGED <<mImp, answers>>
       \/ /\ FirstReport(mImp[i], flag)
          /\ mImp' = [mImp EXCEPT ![i] = IF m.state = "IMPORT_DESTROYED" THEN NoObj
                                         ELSE [m EXCEPT ![flag] = TRUE]]
          /\ Respond(m.requestId, IF m.state = m.expectState THEN "ok" ELSE "fail")
    /\ UNCHANGED <<mExp, aExp, aImp, lent, mapped, lock, todo, target, faults>>

-----------------------------------------------------------------------------
Callback ==
    \E m \in msgs :
        \/ ShareExportAgentCallback(m) \/ ShareImportAgentCallBack(m)
        \/ ShareExportMasterCallback(m) \/ ShareImportMasterCallBack(m)

Request ==
    \E r \in todo :
        \/ \E e \in Exporters : UbseMemShareBorrow(r, e)
        \/ \E i \in Importers : UbseMemShareAttach(r, i) \/ UbseMemShareDetach(r, i)
        \/ UbseMemShareReturn(r)

Proceed ==
    \E i \in Importers : ShareAttachSend(i) \/ ShareDetachSend(i) \/ ShareDetachRollback(i)

Next == Callback \/ Request \/ Proceed

Spec == Init /\ [][Next]_vars

\* Threads go on and the pool handles every message; nobody need call.
FairSpec == Spec /\ WF_vars(Callback) /\ WF_vars(Proceed)

-----------------------------------------------------------------------------
TypeOK ==
    /\ mExp \in [Exporters -> ExportObj \cup {NoObj}]
    /\ mImp \in [Importers -> ImportObj \cup {NoObj}]
    /\ aExp \in [Exporters -> ExportObj \cup {NoObj}]
    /\ aImp \in [Importers -> ImportObj \cup {NoObj}]
    /\ lent \subseteq Borrows
    /\ mapped \in [Importers -> Borrows \cup {None}]
    /\ lock \in [Importers -> Held \cup {Free}]
    /\ msgs \subseteq ExportObj \cup ImportObj
    /\ todo \subseteq Requests
    /\ target \in [Attaches \cup Detaches -> Importers \cup {None}]
    /\ answers \in [Requests -> SUBSET {"ok", "fail"}]
    /\ faults \subseteq FaultKinds /\ Cardinality(faults) <= MaxFaults

\* Memory that a node has mapped is exported: a delete never overtakes an
\* attach that has found the memory, though neither the nodes nor the detach
\* hold the lock of the name (ubse_mem_controller_share_api.cpp:723).  A send
\* that is reported as failed but delivered is outside this promise.
UsedIsLent ==
    "late" \notin faults =>
        \A i \in Importers : mapped[i] # None => mapped[i] \in lent

Quiet == msgs = {} /\ \A i \in Importers : lock[i] = Free

\* Once everything is handled, the ledgers of master and nodes and the
\* hardware agree; what a lost report, a delivered but failed send or a failed
\* signature leave behind is for reconciliation.
QuietAgreement ==
    Quiet /\ faults \cap {"late", "report", "sign"} = {} =>
        /\ \A e \in Exporters :
               /\ mExp[e].state = aExp[e].state
               /\ mExp[e] # NoObj => mExp[e].mem = aExp[e].mem
        /\ lent = {aExp[e].mem : e \in {x \in Exporters : aExp[x] # NoObj}}
        /\ \A i \in Importers :
               /\ (mImp[i] = NoObj) = (aImp[i] = NoObj)
               /\ mapped[i] = IF aImp[i] = NoObj THEN None ELSE aImp[i].mem

New(r) == answers'[r] \ answers[r]

\* A successful answer is true when it is given: after an attach the importer
\* that the request names has mapped the memory that the ledger has for it,
\* after a detach that importer has none, and after a delete no memory of the
\* name is exported or mapped.
AnswersTruthful ==
    [][faults \cap {"late", "sign"} = {} =>
        /\ \A r \in Attaches : "ok" \in New(r) =>
               LET i == target[r] IN mImp'[i] # NoObj /\ mapped[i] = mImp'[i].mem
        /\ \A r \in Detaches : "ok" \in New(r) =>
               LET i == target[r] IN mImp'[i] = NoObj /\ mapped[i] = None
        /\ \A r \in Returns : "ok" \in New(r) =>
               lent = {} /\ \A i \in Importers : mapped[i] = None]_vars

\* Every request that is handled is eventually answered, whatever fails, unless
\* a report is lost.  A command that was delivered although its send failed may
\* also leave a later request unanswered: a node that already has the object
\* drops the command (ubse_mem_controller_share_api.cpp:901 and 1202), and the
\* master takes the report of one request for that of another, as it compares
\* no request ids (ubse_mem_controller_api_common.h:277).
EventuallyAnswered ==
    <>[](\/ {"report", "late"} \cap faults # {}
         \/ \A r \in Requests \ todo : answers[r] # {})
=============================================================================
