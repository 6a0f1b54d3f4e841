------------------------------ MODULE FdLedger ------------------------------
(***************************************************************************)
(* Reconciliation of the fd ledgers (src/src/controllers/mem/              *)
(* mem_controller/ubse_mem_controller_ledger.cpp), composed with the       *)
(* borrowing and returning of FdBorrow.                                    *)
(*                                                                         *)
(* LedgerHandler runs on the master for one node at a time, whenever the   *)
(* node controller sets the node SMOOTHING.  It takes a copy of the        *)
(* master's ledger of the node, collects the ledger of the node and those  *)
(* of the nodes it trades with, and then applies the difference, without   *)
(* the lock of the key except for objects with work under way.             *)
(*                                                                         *)
(* It is what makes up for lost reports, for a master that starts with an  *)
(* empty ledger, and for agents that restart: an agent rebuilds its ledger *)
(* from the hardware (LoadLocalAllObjs).                                   *)
(***************************************************************************)
EXTENDS FdBorrow

CONSTANTS
    Importer,  \* the node that borrows
    Upsets,    \* the kinds of upset that may happen, counted as faults
    Races      \* the orders that a busy cluster brings about

(***************************************************************************)
(* Upsets                                                                  *)
(*   takeover  another node becomes master                                 *)
(*   restart   the process of an exporter or of the importer restarts      *)
(*   reboot    the importer reboots, which ends its mapping                *)
(*   collect   the ledger of the importer cannot be collected              *)
(* Races                                                                   *)
(*   midway    messages and requests are handled while a node is being     *)
(*             reconciled, and reconciliations start while they are        *)
(*   early     the name is borrowed again before every exporter has been   *)
(*             reconciled after a takeover                                 *)
(***************************************************************************)
ASSUME LedgerAssumption ==
    /\ Importer \notin Exporters \cup {None}
    /\ Upsets \subseteq {"takeover", "restart", "reboot", "collect"}
    /\ Races \subseteq {"midway", "early"}

VARIABLES
    ready,   \* initLedgerDoneSet_: the nodes reconciled since the takeover
    warned,  \* isLastExportSuccess of the master's import object
    snap     \* what a reconciliation in progress has collected, or NoSnap

ledgerVars == <<vars, ready, warned, snap>>
agents == <<aImp, aExp>>

-----------------------------------------------------------------------------
Nodes == Exporters \cup {Importer}
NoSnap == [node |-> None]
Missing == [state |-> "MISSING"]

MasterObj(n) == IF n = Importer THEN mImp ELSE mExp[n]
AgentObj(n) == IF n = Importer THEN aImp ELSE aExp[n]

LedgerInit ==
    /\ Init
    /\ ready = Nodes
    /\ warned = FALSE
    /\ snap = NoSnap

Upset(kind) ==
    /\ kind \in Upsets
    /\ faults < MaxFaults
    /\ faults' = faults + 1
    /\ UNCHANGED debt

\* Nothing else happens during a reconciliation.
Undisturbed == "midway" \in Races \/ snap = NoSnap

-----------------------------------------------------------------------------
(* The protocol of FdBorrow.                                               *)

\* WaitInitLedgerSuccess: requests wait for the importer to be reconciled.
\* The scheduler lends from nodes that work, under the lock that the
\* reconciliation of the importer holds.
Borrow(r, e) ==
    /\ {Importer, e} \subseteq ready
    /\ "early" \in Races \/ ready = Nodes
    /\ snap.node # Importer
    /\ UbseMemFdBorrow(r, e)

Return(r) == Importer \in ready /\ UbseMemFdReturn(r)

\* The wait ends without success.
Refuse(r) ==
    /\ r \in todo
    /\ Importer \notin ready
    /\ todo' = todo \ {r}
    /\ Respond(r, "fail")
    /\ UNCHANGED <<ledger, agents, hardware, msgs, failures>>

Protocol ==
    /\ Undisturbed
    /\ \/ \E r \in Borrows, e \in Exporters : Borrow(r, e)
       \/ \E r \in Returns : Return(r)
       \/ \E r \in Requests : Refuse(r)
       \/ \E m \in msgs : Handle(m)
    /\ warned' = (warned /\ mImp' = mImp)
    /\ UNCHANGED <<ready, snap>>

-----------------------------------------------------------------------------
(* LedgerHandler: collection.                                              *)

\* GetMasterCtxLedger and CollectAllLedger.
CollectAllLedger(n) ==
    /\ snap = NoSnap
    /\ "midway" \in Races \/ msgs = {}
    /\ \E imp \in {aImp, Missing} :
        /\ snap' = [node |-> n, master |-> MasterObj(n), agent |-> AgentObj(n),
                    import |-> imp]
        /\ IF imp = Missing THEN n # Importer /\ Upset("collect")
                            ELSE UNCHANGED failures
    /\ UNCHANGED <<ledger, agents, hardware, msgs, todo, answers, ready, warned>>

-----------------------------------------------------------------------------
(* FdBorrowLedger: the differences, one exporter.                          *)

\* FilterRunningFdExport, FilterRunningFdImport: work is under way.
ExportRunning(obj) == obj.state \in {"EXPORT_RUNNING", "EXPORT_DESTROYING"}
ImportRunning(obj) ==
    obj.state \in {"EXPORT_RUNNING", "IMPORT_RUNNING", "IMPORT_DESTROYING"}

NothingSent == UNCHANGED <<msgs, failures>>

\* The result of the send is not looked at.
DeleteFdExport(obj) ==
    LET undo == [obj EXCEPT !.state = "EXPORT_DESTROYING",
                            !.expectState = "EXPORT_DESTROYED"]
    IN
    \E f \in Faults({"lost", "late"}) :
        /\ Suffer(f)
        /\ PutExport(obj.exporter, undo)
        /\ msgs' = msgs \cup Sent(undo, f)

\* IsMasterExitsRunningFdImportObj
IsMasterExitsRunningFdImportObj == mImp.state = "IMPORT_RUNNING"

\* Mutant of BothFdExportHandler: a ledger that was not collected is empty.
BothFdExportHandlerBlind ==
    IF snap.import \in {NoObj, Missing} /\ ~IsMasterExitsRunningFdImportObj
    THEN DeleteFdExport(snap.agent)
    ELSE NothingSent /\ UNCHANGED <<mExp, mIdx>>

\* Mutant of BothFdExportHandler: objects that both have need no work.
BothFdExportHandlerIdle == NothingSent /\ UNCHANGED <<mExp, mIdx>>

\* BothFdExportHandler and HandleRemoteFdImport: master and exporter have the
\* object, the importer has none.
BothFdExportHandler ==
    IF snap.import = NoObj /\ ~IsMasterExitsRunningFdImportObj
    THEN DeleteFdExport(snap.agent)
    ELSE NothingSent /\ UNCHANGED <<mExp, mIdx>>

\* AgentDiffFdExportHandler: the master takes the object over.
AgentDiffFdExportHandler ==
    IF snap.import = NoObj THEN DeleteFdExport(snap.agent)
    ELSE PutExport(snap.node, snap.agent) /\ NothingSent

\* MasterRunningFdExportHandler: under the lock of the key, if the state is
\* what it was, the agent is asked again.
MasterRunningFdExportHandler ==
    LET e == snap.node
        agent == aExp[e]
    IN
    /\ IF mExp[e].state # snap.master.state \/ agent.state = mExp[e].state
       THEN UNCHANGED <<mExp, mIdx>>
       ELSE IF agent = NoObj THEN EraseFdExport(e)
       ELSE PutExport(e, [snap.master EXCEPT !.state = agent.state,
                                             !.expectState = agent.expectState])
    /\ NothingSent

ExportLedger ==
    /\ snap.node \in Exporters
    /\ CASE ExportRunning(snap.master) -> MasterRunningFdExportHandler
         [] ~ExportRunning(snap.master) /\ snap.agent = NoObj ->
                EraseFdExport(snap.node) /\ NothingSent
         [] ~ExportRunning(snap.master) /\ snap.agent # NoObj ->
                IF snap.master = NoObj THEN AgentDiffFdExportHandler
                                       ELSE BothFdExportHandler
    /\ UNCHANGED <<mImp, warned>>

-----------------------------------------------------------------------------
(* FdBorrowLedger: the differences, the importer.                          *)

\* IsFdImportRunningObjExcess: the borrow waits for its export in vain.  An
\* export that stays successful is given one more reconciliation.
IsFdImportRunningObjExcess ==
    LET export == mExp[mImp.exporter] IN
    \/ export = NoObj \/ export.state = "EXPORT_DESTROYING"
    \/ export.state = "EXPORT_SUCCESS" /\ warned

MasterRunningFdImportHandler ==
    /\ IF mImp.state # snap.master.state THEN UNCHANGED <<mImp, warned>>
       ELSE IF mImp.state = "EXPORT_RUNNING"
       THEN IF IsFdImportRunningObjExcess
            THEN mImp' = NoObj /\ warned' = FALSE
            ELSE /\ warned' = (mExp[mImp.exporter].state = "EXPORT_SUCCESS")
                 /\ UNCHANGED mImp
       ELSE /\ mImp' = IF aImp = NoObj THEN NoObj
                       ELSE IF aImp.state = mImp.state THEN mImp
                       ELSE [snap.master EXCEPT !.state = aImp.state,
                                                !.expectState = aImp.expectState]
            /\ UNCHANGED warned

ImportLedger ==
    /\ snap.node = Importer
    /\ CASE ImportRunning(snap.master) -> MasterRunningFdImportHandler
         [] ~ImportRunning(snap.master) ->
                /\ mImp' = IF snap.agent = NoObj THEN NoObj
                           ELSE IF snap.master = NoObj THEN snap.agent
                           ELSE mImp
                /\ warned' = FALSE
    /\ UNCHANGED <<mExp, mIdx>>
    /\ NothingSent

\* FdBorrowLedger, and the node is WORKING.
FdBorrowLedger ==
    /\ snap # NoSnap
    /\ ExportLedger \/ ImportLedger
    /\ ready' = ready \cup {snap.node}
    /\ snap' = NoSnap
    /\ UNCHANGED <<agents, hardware, todo, answers>>

-----------------------------------------------------------------------------
(* Upsets.                                                                 *)

ToMaster(m) == m.state \in {"EXPORT_SUCCESS", "EXPORT_DESTROYED",
                   "IMPORT_SUCCESS", "IMPORT_DESTROYED", "IMPORT_ABNORMAL"}
ToAgent(m, n) == ~ToMaster(m) /\ (m.side = "import" <=> n = Importer)
                              /\ (m.side = "export" => m.exporter = n)

\* The new master has no ledger of the others (ClearNodeMap, when it was not
\* the master); what the old one had not handled is lost.
TakeOver ==
    /\ Undisturbed
    /\ Upset("takeover")
    /\ mImp' = NoObj
    /\ mExp' = [e \in Exporters |-> NoObj]
    /\ mIdx' = None
    /\ msgs' = {m \in msgs : ~ToMaster(m)}
    /\ ready' = {}
    /\ warned' = FALSE
    /\ snap' = NoSnap
    /\ UNCHANGED <<agents, hardware, todo, answers>>

\* LoadLocalAllObjs, LoadObjState: the object the hardware tells of.
Restored(side, state, exporter) ==
    [side |-> side, state |-> state, expectState |-> "SUCCEEDED",
     exporter |-> exporter, obmm |-> exporter, requestId |-> None,
     returnReq |-> None, created |-> FALSE, destroyed |-> FALSE]

LoadLocalAllObjs(n) ==
    /\ Undisturbed
    /\ Upset("restart")
    /\ IF n = Importer
       THEN /\ aImp' = IF mapped = None THEN NoObj
                       ELSE Restored("import", "IMPORT_SUCCESS", mapped)
            /\ UNCHANGED aExp
       ELSE /\ aExp' = [aExp EXCEPT ![n] = IF n \notin lent THEN NoObj
                            ELSE Restored("export", "EXPORT_SUCCESS", n)]
            /\ UNCHANGED aImp
    /\ msgs' = {m \in msgs : ~ToAgent(m, n)}
    /\ UNCHANGED <<ledger, hardware, todo, answers, ready, warned, snap>>

Reboot ==
    /\ Undisturbed
    /\ Upset("reboot")
    /\ aImp' = NoObj
    /\ mapped' = None
    /\ msgs' = {m \in msgs : ~ToAgent(m, Importer)}
    /\ UNCHANGED <<ledger, aExp, lent, todo, answers, ready, warned, snap>>

-----------------------------------------------------------------------------
LedgerNext ==
    \/ Protocol
    \/ \E n \in Nodes : CollectAllLedger(n) \/ LoadLocalAllObjs(n)
    \/ FdBorrowLedger
    \/ TakeOver
    \/ Reboot

LedgerSpec == LedgerInit /\ [][LedgerNext]_ledgerVars

\* Messages are handled, and every node is reconciled again and again.
LedgerFairSpec ==
    /\ LedgerSpec
    /\ WF_ledgerVars(Protocol /\ \E m \in msgs : Handle(m))
    /\ \A n \in Nodes : SF_ledgerVars(CollectAllLedger(n))
    /\ WF_ledgerVars(FdBorrowLedger)

-----------------------------------------------------------------------------
\* The ledgers agree with each other and with the hardware, and nothing is
\* lent that is not mapped.
Reconciled ==
    /\ (mImp # NoObj) = (mapped # None)
    /\ (aImp # NoObj) = (mapped # None)
    /\ \A e \in Exporters :
          /\ (mExp[e] # NoObj) = (e \in lent)
          /\ (aExp[e] # NoObj) = (e \in lent)
    /\ lent \subseteq {mapped}

\* Whatever was lost, whoever restarted: reconciliation comes to an end with
\* no leaked memory and no forgotten mapping ("return failed, reconciliation
\* cleans up later", ubse_mem_controller_fd_api.cpp:509).
LedgersConverge == <>[]Reconciled
=============================================================================
