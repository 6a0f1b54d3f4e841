--------------------------- MODULE FdLedgerProofs ---------------------------
(***************************************************************************)
(* Theorems about FdLedger: the safety of mapped memory through takeovers, *)
(* restarts, reboots and reconciliations, for any exporters, any number of *)
(* requests and any number of faults.                                      *)
(***************************************************************************)
EXTENDS FdLedger, FdBorrowProofs

-----------------------------------------------------------------------------
(* The inductive invariant.  It speaks of the memory and of what can still *)
(* be done to it, and not of the answers: a takeover or a restart leaves   *)
(* requests without one.                                                   *)

\* The objects of FdBorrow, and those rebuilt from the hardware.
AnyObject(side, states) ==
    [side : {side}, state : states, expectState : Expected \cup {"SUCCEEDED"},
     exporter : Exporters, obmm : Exporters \cup {None},
     requestId : Requests \cup {None}, returnReq : Returns \cup {None},
     created : BOOLEAN, destroyed : BOOLEAN]
AnyImport == AnyObject("import", ImportStates)
AnyExport == AnyObject("export", ExportStates)
AgentImport == AnyObject("import", {"IMPORT_SUCCESS", "IMPORT_ABNORMAL"})

\* A request is answered only once it has been taken up.
RequestInv ==
    /\ todo \subseteq Requests
    /\ answers \in [Requests -> SUBSET {"ok", "fail"}]
    /\ \A r \in todo : answers[r] = {}

\* The requests an object names have been taken up.
TakenUp(o) == o.requestId \notin todo /\ o.returnReq \notin todo

\* The master's export objects, each where it says it is.
ExportsInv ==
    /\ mExp \in [Exporters -> AnyExport \cup {NoObj}]
    /\ mIdx \in Exporters \cup {None}
    /\ \A e \in Exporters : mExp[e] # NoObj => mExp[e].exporter = e /\ TakenUp(mExp[e])

ImportInv ==
    /\ mImp \in AnyImport \cup {NoObj}
    /\ mImp # NoObj => TakenUp(mImp)

\* The exporters' ledgers.
LendersInv ==
    /\ aExp \in [Exporters -> AnyExport \cup {NoObj}]
    /\ \A e \in Exporters : aExp[e] # NoObj => aExp[e].exporter = e /\ TakenUp(aExp[e])

\* The importer's ledger tells what is mapped, and what is mapped is lent.
MappingAt ==
    /\ aImp \in AgentImport \cup {NoObj}
    /\ aImp # NoObj => TakenUp(aImp)
    /\ mapped \in Exporters \cup {None} /\ lent \subseteq Exporters
    /\ aImp = NoObj <=> mapped = None
    /\ MappedIsLent

\* A master that has reconciled the importer knows of a mapping, and waits
\* for an export only while there is none.
KnownInv ==
    /\ Importer \in ready /\ mImp = NoObj => mapped = None
    /\ mImp.state = "EXPORT_RUNNING" => mapped = None

\* While an export or unexport is under way nothing is mapped; the importer
\* is told to map only what is lent, and the master knows of it.
MessageAt(m) ==
    /\ m \in AnyImport \cup AnyExport
    /\ TakenUp(m)
    /\ m.side = "export" => mapped = None
    /\ m.state = "EXPORT_DESTROYING" => m.expectState = "EXPORT_DESTROYED"
    /\ m.state = "EXPORT_SUCCESS" /\ m.expectState = "EXPORT_SUCCESS" => m.exporter \in lent
    /\ m.state \in {"IMPORT_DESTROYING", "IMPORT_ABNORMAL"} =>
          m.expectState = "IMPORT_DESTROYED"
    /\ m.state = "IMPORT_DESTROYED" => mapped = None
    /\ m.state = "IMPORT_RUNNING" =>
          /\ mapped = None /\ m.obmm \in lent
          /\ mImp.state = "IMPORT_RUNNING" \/ (ready = {} /\ mImp = NoObj)

\* No borrow and no return is taken up: no node is reconciled since the
\* takeover, or the name is in use, or a return is under way.
Busy ==
    \/ ready = {}
    \/ mImp.state \in {"EXPORT_RUNNING", "IMPORT_RUNNING", "IMPORT_DESTROYING"}
    \/ FoundExport.state \in {"EXPORT_RUNNING", "EXPORT_DESTROYING"}
    \/ FoundExport # NoObj /\ \E r \in Returns : Open(r)

\* One message is handed around, and nothing else begins until it is gone.
WireInv ==
    /\ \A m, n \in msgs : m = n
    /\ \A m \in msgs : MessageAt(m)
    /\ msgs # {} => Busy

\* What was collected is still so when it is used, since nothing happens in
\* between.
SnapInv ==
    snap # NoSnap =>
        /\ msgs = {}
        /\ snap.node \in Nodes
        /\ snap.master = MasterObj(snap.node)
        /\ snap.agent = AgentObj(snap.node)
        /\ snap.import \in {aImp, Missing}

LedgerIInv ==
    /\ RequestInv
    /\ ExportsInv
    /\ ImportInv
    /\ LendersInv
    /\ MappingAt
    /\ KnownInv
    /\ WireInv
    /\ SnapInv

-----------------------------------------------------------------------------
(* Lemmas: objects, messages and the master's ledger.                      *)

\* The network is calm, and nothing happens during a reconciliation.
Quiet == Calm /\ "midway" \notin Races

\* The fields of an object have their types.
LEMMA AnyFields ==
    ASSUME NEW side, NEW S, NEW o \in AnyObject(side, S)
    PROVE  /\ o.side = side /\ o.state \in S
           /\ o.exporter \in Exporters /\ o.obmm \in Exporters \cup {None}
           /\ o.requestId \in Requests \cup {None} /\ o.returnReq \in Returns \cup {None}
           /\ o.created \in BOOLEAN /\ o.destroyed \in BOOLEAN
BY DEF AnyObject

\* An object in a state of T is an object of the type with states T.
LEMMA AnyStates ==
    ASSUME NEW side, NEW S, NEW T, NEW o \in AnyObject(side, S), o.state \in T
    PROVE  o \in AnyObject(side, T)
BY DEF AnyObject

\* An entry of a ledger is told from no entry by its state.
LEMMA AnyOrNone ==
    ASSUME NEW side, NEW S, NEW o \in AnyObject(side, S) \cup {NoObj}, "NONE" \notin S
    PROVE  /\ o = NoObj <=> o.state = "NONE"
           /\ o # NoObj => o \in AnyObject(side, S)
BY AnyFields DEF NoObj

\* Setting the state of an object leaves its other fields alone.
LEMMA AnyNewState ==
    ASSUME NEW side, NEW S, NEW o \in AnyObject(side, S), NEW T, NEW s \in T
    PROVE  [o EXCEPT !.state = s] \in AnyObject(side, T) /\ Says([o EXCEPT !.state = s], o, s)
BY DEF AnyObject, Says

\* Serialisation keeps everything but the report flags.
LEMMA AnyWire ==
    ASSUME NEW side, NEW S, NEW o \in AnyObject(side, S)
    PROVE  Wire(o) \in AnyObject(side, S) /\ Says(Wire(o), o, o.state)
BY DEF AnyObject, Wire, Says

\* A report says what the message said, with the new state.
LEMMA AnyReport ==
    ASSUME NEW side, NEW S, NEW o \in AnyObject(side, S), NEW T, NEW s \in T, NEW f
    PROVE  /\ Reported([o EXCEPT !.state = s], f) \subseteq {ReportOf(o, s)}
           /\ ReportOf(o, s) \in AnyObject(side, T) /\ Says(ReportOf(o, s), o, s)
<1> DEFINE p == [o EXCEPT !.state = s]
<1>1. p \in AnyObject(side, T) /\ Says(p, o, s)
  BY AnyNewState
<1> HIDE DEF p
<1>2. Wire(p) \in AnyObject(side, T) /\ Says(Wire(p), o, s)
  BY <1>1, AnyWire DEF Says
<1>3. Reported(p, f) \subseteq {Wire(p)}
  BY DEF Reported
<1> QED BY <1>2, <1>3 DEF p, ReportOf

\* The master sends a faithful copy of its object, or nothing.
LEMMA AnySent ==
    ASSUME NEW side, NEW S, NEW o \in AnyObject(side, S), NEW f
    PROVE  /\ Sent(o, f) = IF "lost" \in f THEN {} ELSE {Wire(o)}
           /\ Wire(o) \in AnyObject(side, S) /\ Says(Wire(o), o, o.state)
<1>1. Sent(o, f) = IF "lost" \in f THEN {} ELSE {Wire(o)}
  BY DEF Sent
<1> QED BY <1>1, AnyWire

\* A copy names the requests of its original.
LEMMA SaysTakenUp ==
    ASSUME NEW n, NEW o, NEW s, Says(n, o, s)
    PROVE  TakenUp(n) <=> TakenUp(o)
BY DEF Says, TakenUp

\* The faults of a step are among those that may happen.
LEMMA FaultsOf ==
    ASSUME NEW kinds, NEW f \in Faults(kinds)
    PROVE  f \subseteq kinds /\ f \subseteq FaultKinds
BY DEF Faults

\* The import and export objects of the master, told from none.
LEMMA MasterFacts ==
    ASSUME ExportsInv, ImportInv
    PROVE  /\ mImp = NoObj <=> mImp.state = "NONE"
           /\ mImp # NoObj => mImp \in AnyImport
           /\ \A e \in Exporters : /\ mExp[e] = NoObj <=> mExp[e].state = "NONE"
                                   /\ mExp[e] # NoObj => mExp[e] \in AnyExport
           /\ FoundExport = NoObj <=> FoundExport.state = "NONE"
<1>1. "NONE" \notin ImportStates /\ "NONE" \notin ExportStates
  BY DEF ImportStates, ExportStates
<1>2. /\ mImp = NoObj <=> mImp.state = "NONE"
      /\ mImp # NoObj => mImp \in AnyImport
  <2>1. mImp \in AnyObject("import", ImportStates) \cup {NoObj}
    BY DEF ImportInv, AnyImport
  <2> QED BY <1>1, <2>1, AnyOrNone DEF AnyImport
<1>3. ASSUME NEW e \in Exporters
      PROVE  /\ mExp[e] = NoObj <=> mExp[e].state = "NONE"
             /\ mExp[e] # NoObj => mExp[e] \in AnyExport
  <2>1. mExp[e] \in AnyObject("export", ExportStates) \cup {NoObj}
    BY DEF ExportsInv, AnyExport
  <2> QED BY <1>1, <2>1, AnyOrNone DEF AnyExport
<1>4. FoundExport = NoObj <=> FoundExport.state = "NONE"
  BY <1>3, NoneState DEF FoundExport, ExportsInv
<1> QED BY <1>2, <1>3, <1>4

\* PutResource keeps the export objects in order and the index finds this one.
LEMMA PutAny ==
    ASSUME ExportsInv, NEW e \in Exporters, NEW o \in AnyExport, PutExport(e, o),
           o.exporter = e, TakenUp(o), todo' \subseteq todo
    PROVE  ExportsInv' /\ FoundExport' = o
<1>1. /\ mExp' \in [Exporters -> AnyExport \cup {NoObj}]
      /\ mIdx' = e /\ mExp'[e] = o
      /\ \A d \in Exporters : d # e => mExp'[d] = mExp[d]
  BY DEF PutExport, ExportsInv
<1>2. \A d \in Exporters : mExp'[d] # NoObj => mExp'[d].exporter = d /\ TakenUp(mExp'[d])
  BY <1>1 DEF ExportsInv
<1>3. \A d \in Exporters : mExp'[d] # NoObj => TakenUp(mExp[d])'
  BY <1>2 DEF TakenUp
<1>4. FoundExport' = o
  BY <1>1, RequestsAssumption DEF FoundExport
<1> QED BY <1>1, <1>2, <1>3, <1>4 DEF ExportsInv

\* RemoveResource keeps the export objects in order.
LEMMA EraseAny ==
    ASSUME ExportsInv, NEW e \in Exporters, EraseFdExport(e), UNCHANGED todo
    PROVE  ExportsInv'
<1>1. /\ mExp' \in [Exporters -> AnyExport \cup {NoObj}]
      /\ mExp'[e] = NoObj
      /\ \A d \in Exporters : d # e => mExp'[d] = mExp[d]
      /\ mIdx' \in Exporters \cup {None}
  BY DEF EraseFdExport, ExportsInv
<1>2. \A d \in Exporters : mExp'[d] # NoObj => mExp'[d].exporter = d /\ TakenUp(mExp[d])'
  BY <1>1 DEF ExportsInv, TakenUp
<1> QED BY <1>1, <1>2 DEF ExportsInv

\* A response to a request that was taken up leaves the others alone.
LEMMA RespondAny ==
    ASSUME RequestInv, NEW r, r \notin todo', todo' \subseteq todo,
           NEW how \in {"ok", "fail"}, Respond(r, how)
    PROVE  RequestInv'
<1>1. /\ answers' \in [Requests -> SUBSET {"ok", "fail"}]
      /\ \A q \in Requests : q # r => answers'[q] = answers[q]
  BY DEF Respond, RequestInv
<1> QED BY <1>1 DEF RequestInv

\* The message that is left, if any, is the only one.
LEMMA WireOf ==
    ASSUME NEW n, msgs' \subseteq {n}, msgs' # {} => MessageAt(n)' /\ Busy'
    PROVE  WireInv'
<1>1. \A m, k \in msgs' : m = k
  OBVIOUS
<1>2. \A m \in msgs' : MessageAt(m)'
  OBVIOUS
<1> QED BY <1>1, <1>2 DEF WireInv

\* No message, nothing to be true of it.
LEMMA WireEmpty == ASSUME msgs' = {} PROVE WireInv'
BY DEF WireInv

\* There is one message, with its type.
LEMMA TheMessage ==
    ASSUME WireInv, NEW m \in msgs
    PROVE  /\ msgs \ {m} = {} /\ MessageAt(m) /\ Busy
           /\ m.side = "export" => m \in AnyExport
           /\ m.side = "import" => m \in AnyImport
<1>1. msgs \ {m} = {} /\ MessageAt(m) /\ Busy
  BY DEF WireInv
<1>2. m \in AnyImport \cup AnyExport
  BY <1>1 DEF MessageAt
<1> QED BY <1>1, <1>2, AnyFields DEF AnyImport, AnyExport

\* Where the ledger, the requests and what is reconciled stay, so does Busy.
LEMMA BusyStays ==
    ASSUME Busy, UNCHANGED <<mImp, mExp, mIdx, todo, answers, ready>>
    PROVE  Busy'
BY DEF Busy, FoundExport, Open

-----------------------------------------------------------------------------
(* The agents.                                                             *)

\* What an agent's handler leaves alone.
LEMMA AgentFrame ==
    ASSUME LedgerIInv, snap = NoSnap, UNCHANGED <<ledger, todo, answers, ready, snap>>
    PROVE  RequestInv' /\ ExportsInv' /\ ImportInv' /\ SnapInv'
<1>1. RequestInv'
  BY DEF LedgerIInv, RequestInv
<1>2. ExportsInv'
  BY DEF LedgerIInv, ExportsInv, TakenUp, ledger
<1>3. ImportInv'
  BY DEF LedgerIInv, ImportInv, TakenUp, ledger
<1>4. SnapInv'
  BY DEF SnapInv
<1> QED BY <1>1, <1>2, <1>3, <1>4

\* An exporter's handler writes one object of its ledger.
LEMMA LendersPut ==
    ASSUME LendersInv, NEW e \in Exporters, NEW o, aExp' = [aExp EXCEPT ![e] = o],
           o # NoObj => o \in AnyExport /\ o.exporter = e /\ TakenUp(o), UNCHANGED todo
    PROVE  LendersInv'
<1>1. /\ aExp' \in [Exporters -> AnyExport \cup {NoObj}]
      /\ aExp'[e] = o
      /\ \A d \in Exporters : d # e => aExp'[d] = aExp[d]
  BY DEF LendersInv
<1>2. \A d \in Exporters : aExp'[d] # NoObj => aExp'[d].exporter = d /\ TakenUp(aExp[d])'
  BY <1>1 DEF LendersInv, TakenUp
<1> QED BY <1>1, <1>2 DEF LendersInv

\* FdExportRunningAgentCallback: more is lent, and nothing else happens to
\* what is mapped.
LEMMA ExportRunningSafe ==
    ASSUME Quiet, LedgerIInv, snap = NoSnap, NEW m \in msgs, m.side = "export",
           m.state = "EXPORT_RUNNING", FdExportRunning(m),
           UNCHANGED <<ledger, aImp, mapped, todo, answers, ready, snap>>
    PROVE  LedgerIInv'
<1> DEFINE e == m.exporter
           Rep(s) == ReportOf(m, s)
<1>1. /\ m \in AnyExport /\ MessageAt(m) /\ Busy /\ msgs \ {m} = {}
  BY TheMessage DEF LedgerIInv
<1>2. e \in Exporters
  BY <1>1, AnyFields DEF AnyExport
<1>3. PICK f \in Faults({"export", "sign", "report", "dup"}) :
        IF aExp[e].state = "EXPORT_SUCCESS"
        THEN f \subseteq {"dup"} /\ msgs' = Rest(m, f) /\ UNCHANGED <<aExp, lent>>
        ELSE \/ /\ aExp' = [aExp EXCEPT ![e] = NoObj]
                /\ msgs' = Rest(m, f) \cup Reported([m EXCEPT !.state = "EXPORT_DESTROYED"], f)
                /\ UNCHANGED lent
             \/ /\ aExp' = [aExp EXCEPT ![e] = m]
                /\ lent' = lent \cup {e}
                /\ msgs' = Rest(m, f) \cup Reported([m EXCEPT !.state = "EXPORT_DESTROYED"], f)
             \/ /\ aExp' = [aExp EXCEPT ![e] = [m EXCEPT !.state = "EXPORT_SUCCESS"]]
                /\ lent' = lent \cup {e}
                /\ msgs' = Rest(m, f) \cup Reported([m EXCEPT !.state = "EXPORT_SUCCESS"], f)
  BY Zenon DEF FdExportRunning
<1>4. Rest(m, f) = {}
  BY <1>1, CalmFacts, FaultsOf DEF Quiet
<1>5. "EXPORT_DESTROYED" \in ExportStates /\ "EXPORT_SUCCESS" \in ExportStates
  BY DEF ExportStates
<1>6. \A s \in ExportStates : /\ Reported([m EXCEPT !.state = s], f) \subseteq {Rep(s)}
                              /\ Rep(s) \in AnyExport /\ Says(Rep(s), m, s)
  BY <1>1, AnyReport DEF AnyExport
<1>7. TakenUp(m)
  BY <1>1 DEF MessageAt
<1> DEFINE done == [m EXCEPT !.state = "EXPORT_SUCCESS"]
<1>8. done \in AnyExport /\ done.exporter = e /\ TakenUp(done)
  <2>1. done \in AnyExport /\ Says(done, m, "EXPORT_SUCCESS")
    BY <1>1, <1>5, AnyNewState DEF AnyExport
  <2> HIDE DEF done
  <2> QED BY <2>1, <1>7, SaysTakenUp DEF Says
<1> HIDE DEF Rep, done
<1>9. RequestInv' /\ ExportsInv' /\ ImportInv' /\ SnapInv'
  BY AgentFrame
<1>10. LendersInv'
  <2>1. LendersInv
    BY DEF LedgerIInv
  <2>2. CASE UNCHANGED aExp
    BY <2>1, <2>2 DEF LendersInv, TakenUp
  <2>3. CASE aExp' = [aExp EXCEPT ![e] = NoObj]
    BY <2>1, <2>3, <1>2, LendersPut
  <2>4. CASE aExp' = [aExp EXCEPT ![e] = m]
    BY <2>1, <2>4, <1>1, <1>2, <1>7, LendersPut
  <2>5. CASE aExp' = [aExp EXCEPT ![e] = done]
    BY <2>1, <2>5, <1>2, <1>8, LendersPut
  <2> QED BY <1>3, <2>2, <2>3, <2>4, <2>5 DEF done
<1>11. lent \subseteq lent' /\ lent' \subseteq lent \cup {e}
  BY <1>3
<1>12. MappingAt' /\ KnownInv'
  BY <1>2, <1>11 DEF LedgerIInv, MappingAt, MappedIsLent, KnownInv, TakenUp, ledger
<1>13. WireInv'
  <2>1. Busy'
    BY <1>1, BusyStays DEF ledger
  <2>2. mapped' = None
    BY <1>1 DEF MessageAt
  <2>3. MessageAt(Rep("EXPORT_DESTROYED"))'
    BY <1>5, <1>6, <1>7, <2>2 DEF MessageAt, Says, TakenUp
  <2>4. e \in lent' => MessageAt(Rep("EXPORT_SUCCESS"))'
    BY <1>5, <1>6, <1>7, <2>2 DEF MessageAt, Says, TakenUp
  <2>5. \/ msgs' \subseteq {Rep("EXPORT_DESTROYED")}
        \/ msgs' \subseteq {Rep("EXPORT_SUCCESS")} /\ e \in lent'
    <3>1. CASE msgs' = Rest(m, f) /\ UNCHANGED lent
      BY <3>1, <1>4
    <3>2. CASE msgs' = Rest(m, f) \cup Reported([m EXCEPT !.state = "EXPORT_DESTROYED"], f)
      BY <3>2, <1>4, <1>5, <1>6
    <3>3. CASE /\ lent' = lent \cup {e}
               /\ msgs' = Rest(m, f) \cup Reported([m EXCEPT !.state = "EXPORT_SUCCESS"], f)
      BY <3>3, <1>4, <1>5, <1>6
    <3> QED BY <1>3, <3>1, <3>2, <3>3
  <2> QED BY <2>1, <2>3, <2>4, <2>5, WireOf
<1> QED BY <1>9, <1>10, <1>12, <1>13 DEF LedgerIInv

\* FdExportDestroyingAgentCallback: memory is unexported while nothing is
\* mapped.
LEMMA ExportDestroyingSafe ==
    ASSUME Quiet, LedgerIInv, snap = NoSnap, NEW m \in msgs, m.side = "export",
           m.state = "EXPORT_DESTROYING", FdExportDestroying(m),
           UNCHANGED <<ledger, aImp, mapped, todo, answers, ready, snap>>
    PROVE  LedgerIInv'
<1> DEFINE e == m.exporter
           Rep(s) == ReportOf(m, s)
           done == [m EXCEPT !.state = "EXPORT_SUCCESS"]
<1>1. m \in AnyExport /\ MessageAt(m) /\ Busy /\ msgs \ {m} = {}
  BY TheMessage DEF LedgerIInv
<1>2. e \in Exporters
  BY <1>1, AnyFields DEF AnyExport
<1>3. PICK f \in Faults({"unexport", "report", "dup"}) :
        \/ /\ aExp' = [aExp EXCEPT ![e] = done] /\ UNCHANGED lent
           /\ msgs' = Rest(m, f) \cup Reported([m EXCEPT !.state = "EXPORT_SUCCESS"], f)
        \/ /\ aExp' = [aExp EXCEPT ![e] = NoObj]
           /\ lent' = IF aExp[e] = NoObj THEN lent ELSE lent \ {e}
           /\ msgs' = Rest(m, f) \cup Reported([m EXCEPT !.state = "EXPORT_DESTROYED"], f)
  BY Zenon DEF FdExportDestroying
<1>4. Rest(m, f) = {}
  BY <1>1, CalmFacts, FaultsOf DEF Quiet
<1>5. "EXPORT_DESTROYED" \in ExportStates /\ "EXPORT_SUCCESS" \in ExportStates
  BY DEF ExportStates
<1>6. \A s \in ExportStates : /\ Reported([m EXCEPT !.state = s], f) \subseteq {Rep(s)}
                              /\ Rep(s) \in AnyExport /\ Says(Rep(s), m, s)
  BY <1>1, AnyReport DEF AnyExport
<1>7. TakenUp(m) /\ mapped = None /\ m.expectState = "EXPORT_DESTROYED"
  BY <1>1 DEF MessageAt
<1>8. done \in AnyExport /\ done.exporter = e /\ TakenUp(done)
  <2>1. done \in AnyExport /\ Says(done, m, "EXPORT_SUCCESS")
    BY <1>1, <1>5, AnyNewState DEF AnyExport
  <2> HIDE DEF done
  <2> QED BY <2>1, <1>7, SaysTakenUp DEF Says
<1> HIDE DEF Rep, done
<1>9. RequestInv' /\ ExportsInv' /\ ImportInv' /\ SnapInv'
  BY AgentFrame
<1>10. LendersInv'
  BY <1>2, <1>3, <1>8, LendersPut DEF LedgerIInv
<1>11. MappingAt' /\ KnownInv'
  BY <1>3, <1>7 DEF LedgerIInv, MappingAt, MappedIsLent, KnownInv, TakenUp, ledger
<1>12. WireInv'
  <2>1. Busy'
    BY <1>1, BusyStays DEF ledger
  <2>2. MessageAt(Rep("EXPORT_DESTROYED"))' /\ MessageAt(Rep("EXPORT_SUCCESS"))'
    BY <1>5, <1>6, <1>7 DEF MessageAt, Says, TakenUp
  <2>3. msgs' \subseteq {Rep("EXPORT_DESTROYED")} \/ msgs' \subseteq {Rep("EXPORT_SUCCESS")}
    BY <1>3, <1>4, <1>5, <1>6
  <2> QED BY <2>1, <2>2, <2>3, WireOf
<1> QED BY <1>9, <1>10, <1>11, <1>12 DEF LedgerIInv

\* FdImportRunningCallback: what is mapped is lent, and the master that has
\* reconciled the importer has the object.
LEMMA ImportRunningSafe ==
    ASSUME Quiet, LedgerIInv, snap = NoSnap, NEW m \in msgs, m.side = "import",
           m.state = "IMPORT_RUNNING", FdImportRunning(m),
           UNCHANGED <<ledger, aExp, lent, todo, answers, ready, snap>>
    PROVE  LedgerIInv'
<1> DEFINE Rep(s) == ReportOf(m, s)
           done == [m EXCEPT !.state = "IMPORT_SUCCESS"]
<1>1. m \in AnyImport /\ MessageAt(m) /\ Busy /\ msgs \ {m} = {}
  BY TheMessage DEF LedgerIInv
<1>2. /\ TakenUp(m) /\ mapped = None /\ aImp = NoObj /\ m.obmm \in lent
      /\ mImp.state = "IMPORT_RUNNING" \/ (ready = {} /\ mImp = NoObj)
  BY <1>1 DEF MessageAt, LedgerIInv, MappingAt
<1>3. PICK f \in Faults({"decoder", "import", "report", "dup"}) :
        \/ aImp.state = "IMPORT_SUCCESS"
        \/ /\ aImp' = done
           /\ mapped' = m.obmm
           /\ msgs' = Rest(m, f) \cup Reported([m EXCEPT !.state = "IMPORT_SUCCESS"], f)
        \/ /\ aImp' = NoObj
           /\ msgs' = Rest(m, f) \cup Reported([m EXCEPT !.state = "IMPORT_DESTROYED"], f)
           /\ UNCHANGED mapped
        \/ /\ msgs' = Rest(m, f) \cup Reported([m EXCEPT !.state = "IMPORT_DESTROYED"], f)
           /\ UNCHANGED <<aImp, mapped>>
  BY Zenon DEF FdImportRunning
<1>4. Rest(m, f) = {} /\ aImp.state # "IMPORT_SUCCESS"
  BY <1>1, <1>2, CalmFacts, FaultsOf, NoneState DEF Quiet
<1>5. "IMPORT_DESTROYED" \in ImportStates /\ "IMPORT_SUCCESS" \in ImportStates
  BY DEF ImportStates
<1>6. \A s \in ImportStates : /\ Reported([m EXCEPT !.state = s], f) \subseteq {Rep(s)}
                              /\ Rep(s) \in AnyImport /\ Says(Rep(s), m, s)
  BY <1>1, AnyReport DEF AnyImport
<1>7. done \in AgentImport /\ done # NoObj /\ TakenUp(done)
  <2>1. done \in AgentImport /\ Says(done, m, "IMPORT_SUCCESS")
    BY <1>1, AnyNewState DEF AnyImport, AgentImport
  <2> HIDE DEF done
  <2> QED BY <2>1, <1>2, SaysTakenUp, NoneState DEF Says
<1>8. m.obmm \in Exporters /\ m.obmm # None
  <2>1. m.obmm \in Exporters
    BY <1>2 DEF LedgerIInv, MappingAt
  <2> QED BY <2>1, RequestsAssumption
<1> HIDE DEF Rep, done
<1>9. RequestInv' /\ ExportsInv' /\ ImportInv' /\ SnapInv'
  BY AgentFrame
<1>10. LendersInv'
  BY DEF LedgerIInv, LendersInv, TakenUp
<1>11. \/ aImp' = done /\ mapped' = m.obmm /\ msgs' \subseteq {Rep("IMPORT_SUCCESS")}
       \/ aImp' = NoObj /\ mapped' = None /\ msgs' \subseteq {Rep("IMPORT_DESTROYED")}
  <2>1. CASE /\ aImp' = done
             /\ mapped' = m.obmm
             /\ msgs' = Rest(m, f) \cup Reported([m EXCEPT !.state = "IMPORT_SUCCESS"], f)
    BY <2>1, <1>4, <1>5, <1>6
  <2>2. CASE /\ msgs' = Rest(m, f) \cup Reported([m EXCEPT !.state = "IMPORT_DESTROYED"], f)
             /\ aImp' = NoObj /\ mapped' = None
    BY <2>2, <1>4, <1>5, <1>6
  <2> QED BY <1>2, <1>3, <1>4, <2>1, <2>2
<1>12. MappingAt' /\ KnownInv'
  BY <1>2, <1>7, <1>8, <1>11, NoneState
  DEF LedgerIInv, MappingAt, MappedIsLent, KnownInv, TakenUp, ledger
<1>13. WireInv'
  <2>1. Busy'
    BY <1>1, BusyStays DEF ledger
  <2>2. MessageAt(Rep("IMPORT_SUCCESS"))'
    BY <1>2, <1>5, <1>6, AnyFields DEF MessageAt, Says, TakenUp, AnyImport
  <2>3. mapped' = None => MessageAt(Rep("IMPORT_DESTROYED"))'
    BY <1>2, <1>5, <1>6 DEF MessageAt, Says, TakenUp
  <2> QED BY <2>1, <2>2, <2>3, <1>11, WireOf
<1> QED BY <1>9, <1>10, <1>12, <1>13 DEF LedgerIInv

\* FdImportDestroyingAgentCallback: the mapping ends, or stays as it was.
LEMMA ImportDestroyingSafe ==
    ASSUME Quiet, LedgerIInv, snap = NoSnap, NEW m \in msgs, m.side = "import",
           m.state = "IMPORT_DESTROYING", FdImportDestroying(m),
           UNCHANGED <<ledger, aExp, lent, todo, answers, ready, snap>>
    PROVE  LedgerIInv'
<1> DEFINE Rep(s) == ReportOf(m, s)
           failed == [m EXCEPT !.state = "IMPORT_ABNORMAL"]
<1>1. m \in AnyImport /\ MessageAt(m) /\ Busy /\ msgs \ {m} = {}
  BY TheMessage DEF LedgerIInv
<1>2. TakenUp(m) /\ m.expectState = "IMPORT_DESTROYED" /\ (aImp = NoObj <=> mapped = None)
  BY <1>1 DEF MessageAt, LedgerIInv, MappingAt
<1>3. PICK f \in Faults({"unimport", "report", "dup"}) :
        \/ /\ aImp # NoObj /\ aImp' = failed
           /\ msgs' = Rest(m, f) \cup Reported([m EXCEPT !.state = "IMPORT_ABNORMAL"], f)
           /\ UNCHANGED mapped
        \/ /\ aImp' = NoObj
           /\ mapped' = IF aImp = NoObj THEN mapped ELSE None
           /\ msgs' = Rest(m, f) \cup Reported([m EXCEPT !.state = "IMPORT_DESTROYED"], f)
  BY Zenon DEF FdImportDestroying
<1>4. Rest(m, f) = {}
  BY <1>1, CalmFacts, FaultsOf DEF Quiet
<1>5. "IMPORT_DESTROYED" \in ImportStates /\ "IMPORT_ABNORMAL" \in ImportStates
  BY DEF ImportStates
<1>6. \A s \in ImportStates : /\ Reported([m EXCEPT !.state = s], f) \subseteq {Rep(s)}
                              /\ Rep(s) \in AnyImport /\ Says(Rep(s), m, s)
  BY <1>1, AnyReport DEF AnyImport
<1>7. failed \in AgentImport /\ failed # NoObj /\ TakenUp(failed)
  <2>1. failed \in AgentImport /\ Says(failed, m, "IMPORT_ABNORMAL")
    BY <1>1, AnyNewState DEF AnyImport, AgentImport
  <2> HIDE DEF failed
  <2> QED BY <2>1, <1>2, SaysTakenUp, NoneState DEF Says
<1> HIDE DEF Rep, failed
<1>8. RequestInv' /\ ExportsInv' /\ ImportInv' /\ SnapInv'
  BY AgentFrame
<1>9. LendersInv'
  BY DEF LedgerIInv, LendersInv, TakenUp
<1>10. \/ /\ aImp # NoObj /\ aImp' = failed /\ mapped' = mapped
          /\ msgs' \subseteq {Rep("IMPORT_ABNORMAL")}
       \/ aImp' = NoObj /\ mapped' = None /\ msgs' \subseteq {Rep("IMPORT_DESTROYED")}
  <2>1. CASE /\ aImp # NoObj /\ aImp' = failed
             /\ msgs' = Rest(m, f) \cup Reported([m EXCEPT !.state = "IMPORT_ABNORMAL"], f)
             /\ UNCHANGED mapped
    BY <2>1, <1>4, <1>5, <1>6
  <2>2. CASE /\ msgs' = Rest(m, f) \cup Reported([m EXCEPT !.state = "IMPORT_DESTROYED"], f)
             /\ aImp' = NoObj /\ mapped' = None
    BY <2>2, <1>4, <1>5, <1>6
  <2> QED BY <1>2, <1>3, <2>1, <2>2
<1>11. MappingAt' /\ KnownInv'
  BY <1>2, <1>7, <1>10 DEF LedgerIInv, MappingAt, MappedIsLent, KnownInv, TakenUp, ledger
<1>12. WireInv'
  <2>1. Busy'
    BY <1>1, BusyStays DEF ledger
  <2>2. MessageAt(Rep("IMPORT_ABNORMAL"))'
    BY <1>2, <1>5, <1>6, AnyFields DEF MessageAt, Says, TakenUp, AnyImport
  <2>3. mapped' = None => MessageAt(Rep("IMPORT_DESTROYED"))'
    BY <1>2, <1>5, <1>6 DEF MessageAt, Says, TakenUp
  <2> QED BY <2>1, <2>2, <2>3, <1>10, WireOf
<1> QED BY <1>8, <1>9, <1>11, <1>12 DEF LedgerIInv

-----------------------------------------------------------------------------
(* The master's callbacks.                                                 *)

\* What a callback of the master leaves alone.
LEMMA CallbackFrame ==
    ASSUME LedgerIInv, snap = NoSnap, UNCHANGED <<aImp, aExp, hardware, todo, ready, snap>>
    PROVE  LendersInv' /\ MappingAt' /\ SnapInv'
<1>1. LendersInv'
  BY DEF LedgerIInv, LendersInv, TakenUp
<1>2. MappingAt'
  BY DEF LedgerIInv, MappingAt, MappedIsLent, TakenUp, hardware
<1>3. SnapInv'
  BY DEF SnapInv
<1> QED BY <1>1, <1>2, <1>3

\* Marking a report as received leaves the rest of an object alone.
LEMMA Marked ==
    ASSUME NEW side, NEW S, NEW o \in AnyObject(side, S)
    PROVE  /\ [o EXCEPT !.created = TRUE] \in AnyObject(side, S)
           /\ Says([o EXCEPT !.created = TRUE], o, o.state)
           /\ [o EXCEPT !.destroyed = TRUE] \in AnyObject(side, S)
           /\ Says([o EXCEPT !.destroyed = TRUE], o, o.state)
BY DEF AnyObject, Says

\* An unexport is sent while nothing is mapped, and the name is busy until
\* it is reported.
LEMMA UnexportSent ==
    ASSUME ExportsInv, NEW undo \in AnyExport, TakenUp(undo),
           undo.state = "EXPORT_DESTROYING", undo.expectState = "EXPORT_DESTROYED",
           NEW o \in AnyExport, TakenUp(o), o.exporter = undo.exporter,
           PutExport(undo.exporter, o), UNCHANGED todo, mapped' = None,
           msgs' \subseteq {Wire(undo)}, msgs' # {} => o.state = "EXPORT_DESTROYING"
    PROVE  ExportsInv' /\ WireInv'
<1>1. undo.exporter \in Exporters
  BY AnyFields DEF AnyExport
<1>2. ExportsInv' /\ FoundExport' = o
  BY <1>1, PutAny
<1>3. Wire(undo) \in AnyExport /\ Says(Wire(undo), undo, "EXPORT_DESTROYING")
  BY AnyWire DEF AnyExport
<1>4. msgs' # {} => Busy'
  BY <1>2 DEF Busy
<1> DEFINE n == Wire(undo)
<1> HIDE DEF n
<1>5. n \in AnyExport /\ Says(n, undo, "EXPORT_DESTROYING")
  BY <1>3 DEF n
<1>6. MessageAt(n)'
  BY <1>5 DEF MessageAt, Says, TakenUp
<1>7. msgs' \subseteq {n}
  BY DEF n
<1> QED BY <1>2, <1>4, <1>6, <1>7, WireOf

\* DestroyExport: the unexport of an object of the ledger.
LEMMA DestroySafe ==
    ASSUME ExportsInv, NEW undo \in AnyExport, TakenUp(undo),
           undo.state = "EXPORT_DESTROYING", undo.expectState = "EXPORT_DESTROYED",
           NEW m, NEW f, "late" \notin f, Rest(m, f) = {}, DestroyExport(undo, m, f),
           UNCHANGED todo, mapped' = None
    PROVE  ExportsInv' /\ WireInv'
<1> DEFINE s == IF SendFails(f) THEN "EXPORT_SUCCESS" ELSE undo.state
           o == [undo EXCEPT !.state = s]
<1>1. PutExport(undo.exporter, o) /\ msgs' = Sent(undo, f)
  BY DEF DestroyExport
<1>2. s \in ExportStates /\ (~SendFails(f) => s = "EXPORT_DESTROYING")
  BY DEF ExportStates
<1>3. o \in AnyExport /\ Says(o, undo, s)
  BY <1>2, AnyNewState DEF AnyExport
<1>4. msgs' \subseteq {Wire(undo)} /\ (msgs' # {} => ~SendFails(f))
  BY <1>1 DEF Sent, SendFails
<1> HIDE DEF s, o
<1>5. TakenUp(o) /\ o.exporter = undo.exporter /\ o.state = s
  BY <1>3, SaysTakenUp DEF Says
<1> QED BY <1>1, <1>2, <1>3, <1>4, <1>5, UnexportSent

\* FdExportExpectSuccessMasterCallback
LEMMA ExportExpectSuccessSafe ==
    ASSUME Quiet, LedgerIInv, snap = NoSnap, NEW m \in msgs, m.side = "export",
           m.expectState = "EXPORT_SUCCESS", mImp # NoObj, FdExportExpectSuccess(m),
           UNCHANGED <<aImp, aExp, hardware, todo, ready, snap>>
    PROVE  LedgerIInv'
<1> DEFINE e == m.exporter
           exportObj == [m EXCEPT !.created = TRUE]
           importObj == [mImp EXCEPT !.state = "IMPORT_RUNNING",
                                     !.expectState = "IMPORT_SUCCESS",
                                     !.obmm = e, !.created = FALSE]
           undo == [exportObj EXCEPT !.state = "EXPORT_DESTROYING",
                                     !.expectState = "EXPORT_DESTROYED"]
<1>1. m \in AnyExport /\ MessageAt(m) /\ msgs \ {m} = {}
  BY TheMessage DEF LedgerIInv
<1>2. e \in Exporters /\ m.requestId \notin todo /\ m.returnReq \notin todo /\ mapped' = None
  BY <1>1, AnyFields DEF AnyExport, MessageAt, TakenUp, hardware
<1>3. exportObj \in AnyExport /\ exportObj.exporter = e /\ TakenUp(exportObj)
  <2>1. exportObj \in AnyExport /\ Says(exportObj, m, m.state)
    BY <1>1, Marked DEF AnyExport
  <2> HIDE DEF exportObj
  <2> QED BY <2>1, <1>2 DEF Says, TakenUp
<1>4. undo \in AnyExport /\ undo.exporter = e /\ TakenUp(undo)
      /\ undo.state = "EXPORT_DESTROYING" /\ undo.expectState = "EXPORT_DESTROYED"
  BY <1>1, <1>2 DEF AnyExport, AnyObject, ExportStates, Expected, TakenUp
<1>5. /\ importObj \in AnyImport /\ importObj.state = "IMPORT_RUNNING"
      /\ importObj.obmm = e /\ TakenUp(importObj)
  <2>1. mImp \in AnyImport /\ TakenUp(mImp)
    BY DEF LedgerIInv, ImportInv
  <2> QED BY <2>1, <1>2 DEF AnyImport, AnyObject, ImportStates, Expected, TakenUp
<1>6. PICK f \in Faults({"cna", "lost", "late", "rollback", "dup"}) :
        \/ msgs' = Rest(m, f) /\ NoResponse /\ UNCHANGED ledger
        \/ /\ m.state = "EXPORT_SUCCESS"
           /\ PutExport(e, exportObj)
           /\ mImp' = importObj
           /\ msgs' = Rest(m, f) \cup Sent(importObj, f)
           /\ NoResponse
        \/ /\ f \cap {"cna", "lost", "late"} # {}
           /\ FdExportRollback(exportObj, m, IF "cna" \in f THEN {} ELSE Sent(importObj, f), f)
        \/ /\ EraseFdExport(e)
           /\ mImp' = NoObj
           /\ msgs' = Rest(m, f)
           /\ Respond(m.requestId, "fail")
  BY Zenon DEF FdExportExpectSuccess
<1>7. Rest(m, f) = {} /\ "late" \notin f
  BY <1>1, CalmFacts, FaultsOf DEF Quiet
<1>8. LendersInv' /\ MappingAt' /\ SnapInv' /\ KnownInv'
  BY <1>2, CallbackFrame DEF KnownInv
<1>9. ExportsInv /\ ImportInv /\ RequestInv
  BY DEF LedgerIInv
<1>10. CASE msgs' = Rest(m, f) /\ NoResponse /\ UNCHANGED ledger
  <2>1. ExportsInv' /\ ImportInv' /\ RequestInv'
    BY <1>9, <1>10 DEF ExportsInv, ImportInv, RequestInv, TakenUp, ledger, NoResponse
  <2> QED BY <2>1, <1>7, <1>8, <1>10, WireEmpty DEF LedgerIInv
<1>11. CASE /\ m.state = "EXPORT_SUCCESS"
            /\ PutExport(e, exportObj)
            /\ mImp' = importObj
            /\ msgs' = Rest(m, f) \cup Sent(importObj, f)
            /\ NoResponse
  <2> HIDE DEF exportObj, importObj
  <2>a. mImp' = importObj /\ mImp'.state = "IMPORT_RUNNING"
    BY <1>5, <1>11
  <2>1. ExportsInv'
    BY <1>2, <1>3, <1>9, <1>11, PutAny
  <2>2. ImportInv'
    BY <1>5, <1>11 DEF ImportInv, TakenUp
  <2>3. RequestInv'
    BY <1>9, <1>11 DEF RequestInv, NoResponse
  <2>4. msgs' \subseteq {Wire(importObj)}
    BY <1>7, <1>11 DEF Sent
  <2>5. Wire(importObj) \in AnyImport /\ Says(Wire(importObj), importObj, "IMPORT_RUNNING")
    BY <1>5, AnyWire DEF AnyImport
  <2>6. PICK n \in AnyImport : Says(n, importObj, "IMPORT_RUNNING") /\ msgs' \subseteq {n}
    BY <2>4, <2>5
  <2>7. MessageAt(n)'
    <3>1. e \in lent'
      BY <1>1, <1>11 DEF MessageAt, hardware
    <3>2. n.side = "import"
      BY <2>6, AnyFields DEF AnyImport
    <3> QED BY <1>2, <1>5, <2>a, <2>6, <3>1, <3>2 DEF MessageAt, Says, TakenUp
  <2>8. Busy'
    BY <2>a DEF Busy
  <2> QED BY <1>8, <2>1, <2>2, <2>3, <2>6, <2>7, <2>8, WireOf DEF LedgerIInv
<1>12. CASE /\ f \cap {"cna", "lost", "late"} # {}
            /\ FdExportRollback(exportObj, m, IF "cna" \in f THEN {} ELSE Sent(importObj, f), f)
  <2>1. (IF "cna" \in f THEN {} ELSE Sent(importObj, f)) = {}
    BY <1>7, <1>12 DEF Sent
  <2>2. /\ PutExport(e, undo) /\ mImp' = NoObj
        /\ msgs' \subseteq {Wire(undo)}
        /\ Respond(exportObj.requestId, "fail")
    BY <1>3, <1>7, <1>12, <2>1 DEF FdExportRollback
  <2>3. exportObj.requestId \notin todo'
    BY <1>3 DEF TakenUp
  <2> HIDE DEF exportObj, importObj, undo
  <2>4. ExportsInv' /\ WireInv'
    BY <1>2, <1>4, <1>9, <2>2, UnexportSent
  <2>5. RequestInv'
    BY <1>9, <2>2, <2>3, RespondAny
  <2>6. ImportInv'
    BY <2>2 DEF ImportInv
  <2> QED BY <1>8, <2>4, <2>5, <2>6 DEF LedgerIInv
<1>13. CASE /\ EraseFdExport(e)
            /\ mImp' = NoObj
            /\ msgs' = Rest(m, f)
            /\ Respond(m.requestId, "fail")
  <2>1. ExportsInv'
    BY <1>2, <1>9, <1>13, EraseAny
  <2>2. RequestInv'
    BY <1>2, <1>9, <1>13, RespondAny
  <2>3. ImportInv'
    BY <1>13 DEF ImportInv
  <2> QED BY <1>7, <1>8, <1>13, <2>1, <2>2, <2>3, WireEmpty DEF LedgerIInv
<1> QED BY <1>6, <1>10, <1>11, <1>12, <1>13

\* FdExportExpectDestroyMasterCallback
LEMMA ExportExpectDestroySafe ==
    ASSUME Quiet, LedgerIInv, snap = NoSnap, NEW m \in msgs, m.side = "export",
           FdExportExpectDestroy(m), UNCHANGED <<aImp, aExp, hardware, todo, ready, snap>>
    PROVE  LedgerIInv'
<1> DEFINE e == m.exporter
           exportObj == [m EXCEPT !.destroyed = TRUE]
<1>1. m \in AnyExport /\ MessageAt(m) /\ msgs \ {m} = {}
  BY TheMessage DEF LedgerIInv
<1>2. e \in Exporters /\ m.returnReq \notin todo /\ TakenUp(m)
  BY <1>1, AnyFields DEF AnyExport, MessageAt, TakenUp
<1>3. exportObj \in AnyExport /\ exportObj.exporter = e /\ TakenUp(exportObj)
  <2>1. exportObj \in AnyExport /\ Says(exportObj, m, m.state)
    BY <1>1, Marked DEF AnyExport
  <2> HIDE DEF exportObj
  <2> QED BY <2>1, <1>2, SaysTakenUp DEF Says
<1> HIDE DEF exportObj
<1>4. PICK f \in Faults({"dup"}) :
        /\ msgs' = Rest(m, f) /\ UNCHANGED mImp
        /\ \/ UNCHANGED <<mExp, mIdx>> \/ PutExport(e, exportObj) \/ EraseFdExport(e)
        /\ NoResponse \/ Respond(m.returnReq, "fail") \/ Respond(m.returnReq, "ok")
  BY Zenon DEF FdExportExpectDestroy, exportObj
<1>5. WireInv'
  BY <1>1, <1>4, CalmFacts, FaultsOf, WireEmpty DEF Quiet
<1>6. LendersInv' /\ MappingAt' /\ SnapInv'
  BY CallbackFrame
<1>7. KnownInv' /\ ImportInv'
  BY <1>4 DEF LedgerIInv, KnownInv, ImportInv, TakenUp, hardware
<1>8. ExportsInv'
  <2>1. ExportsInv
    BY DEF LedgerIInv
  <2>2. CASE UNCHANGED <<mExp, mIdx>>
    BY <2>1, <2>2 DEF ExportsInv, TakenUp
  <2> QED BY <1>2, <1>3, <1>4, <2>1, <2>2, PutAny, EraseAny
<1>9. RequestInv'
  <2>1. RequestInv
    BY DEF LedgerIInv
  <2>2. CASE NoResponse
    BY <2>1, <2>2 DEF RequestInv, NoResponse
  <2> QED BY <1>2, <1>4, <2>1, <2>2, RespondAny
<1> QED BY <1>5, <1>6, <1>7, <1>8, <1>9 DEF LedgerIInv

\* FdImportExpectSuccessMasterCallback
LEMMA ImportExpectSuccessSafe ==
    ASSUME Quiet, LedgerIInv, snap = NoSnap, NEW m \in msgs, m.side = "import",
           m.state \in {"IMPORT_SUCCESS", "IMPORT_DESTROYED", "IMPORT_ABNORMAL"},
           m.expectState = "IMPORT_SUCCESS", FdImportExpectSuccess(m),
           UNCHANGED <<aImp, aExp, hardware, todo, ready, snap>>
    PROVE  LedgerIInv'
<1> DEFINE e == m.exporter
           undo == [mExp[e] EXCEPT !.state = "EXPORT_DESTROYING",
                                   !.expectState = "EXPORT_DESTROYED",
                                   !.requestId = m.requestId]
           importObj == [m EXCEPT !.created = TRUE]
<1>1. m \in AnyImport /\ MessageAt(m) /\ msgs \ {m} = {}
  BY TheMessage DEF LedgerIInv
<1>2. e \in Exporters /\ m.requestId \in Requests \cup {None} /\ TakenUp(m)
      /\ m.requestId \notin todo
  BY <1>1, AnyFields DEF AnyImport, MessageAt, TakenUp
<1>3. m.state # "IMPORT_SUCCESS" => mapped' = None
  BY <1>1 DEF MessageAt, hardware
<1>4. importObj \in AnyImport /\ Says(importObj, m, m.state)
  BY <1>1, Marked DEF AnyImport
<1>5. mExp[e] # NoObj => /\ undo \in AnyExport /\ TakenUp(undo)
                         /\ undo.state = "EXPORT_DESTROYING"
                         /\ undo.expectState = "EXPORT_DESTROYED"
  <2> SUFFICES ASSUME mExp[e] # NoObj
               PROVE  /\ undo \in AnyExport /\ TakenUp(undo)
                      /\ undo.state = "EXPORT_DESTROYING"
                      /\ undo.expectState = "EXPORT_DESTROYED"
    OBVIOUS
  <2>1. mExp[e] \in AnyExport /\ TakenUp(mExp[e])
    BY <1>2 DEF LedgerIInv, ExportsInv
  <2> QED BY <2>1, <1>2 DEF AnyExport, AnyObject, ExportStates, Expected, TakenUp
<1>6. PICK f \in Faults({"lost", "late", "dup"}) :
        \/ msgs' = Rest(m, f) /\ NoResponse /\ UNCHANGED ledger
        \/ /\ m.state = "IMPORT_SUCCESS"
           /\ mImp' = importObj
           /\ msgs' = Rest(m, f)
           /\ Respond(m.requestId, "ok")
           /\ UNCHANGED <<mExp, mIdx>>
        \/ /\ m.state # "IMPORT_SUCCESS"
           /\ mImp' = NoObj
           /\ Respond(m.requestId, "fail")
           /\ \/ mExp[e] # NoObj /\ DestroyExport(undo, m, f)
              \/ msgs' = Rest(m, f) /\ UNCHANGED <<mExp, mIdx>>
  BY Zenon DEF FdImportExpectSuccess
<1> HIDE DEF undo, importObj
<1>7. Rest(m, f) = {} /\ "late" \notin f
  BY <1>1, CalmFacts, FaultsOf DEF Quiet
<1>8. LendersInv' /\ MappingAt' /\ SnapInv'
  BY CallbackFrame
<1>9. ExportsInv /\ ImportInv /\ RequestInv /\ KnownInv
  BY DEF LedgerIInv
<1>10. UNCHANGED <<mExp, mIdx>> => ExportsInv'
  BY <1>9 DEF ExportsInv, TakenUp
<1>11. CASE msgs' = Rest(m, f) /\ NoResponse /\ UNCHANGED ledger
  <2>1. ExportsInv' /\ ImportInv' /\ RequestInv' /\ KnownInv'
    BY <1>9, <1>10, <1>11
    DEF ImportInv, RequestInv, KnownInv, TakenUp, ledger, NoResponse, hardware
  <2> QED BY <2>1, <1>7, <1>8, <1>11, WireEmpty DEF LedgerIInv
<1>12. CASE /\ m.state = "IMPORT_SUCCESS"
            /\ mImp' = importObj
            /\ msgs' = Rest(m, f)
            /\ Respond(m.requestId, "ok")
            /\ UNCHANGED <<mExp, mIdx>>
  <2>1. ImportInv'
    BY <1>2, <1>4, <1>12 DEF ImportInv, TakenUp, Says
  <2>2. KnownInv'
    BY <1>4, <1>12, NoneState DEF KnownInv, Says
  <2>3. RequestInv'
    BY <1>2, <1>9, <1>12, RespondAny
  <2> QED BY <2>1, <2>2, <2>3, <1>7, <1>8, <1>10, <1>12, WireEmpty DEF LedgerIInv
<1>13. CASE /\ m.state # "IMPORT_SUCCESS"
            /\ mImp' = NoObj
            /\ Respond(m.requestId, "fail")
            /\ \/ mExp[e] # NoObj /\ DestroyExport(undo, m, f)
               \/ msgs' = Rest(m, f) /\ UNCHANGED <<mExp, mIdx>>
  <2>1. ImportInv' /\ KnownInv'
    BY <1>3, <1>13 DEF ImportInv, KnownInv
  <2>2. RequestInv'
    BY <1>2, <1>9, <1>13, RespondAny
  <2>3. ExportsInv' /\ WireInv'
    <3>1. CASE mExp[e] # NoObj /\ DestroyExport(undo, m, f)
      BY <1>3, <1>5, <1>7, <1>9, <1>13, <3>1, DestroySafe
    <3>2. CASE msgs' = Rest(m, f) /\ UNCHANGED <<mExp, mIdx>>
      BY <1>7, <1>10, <3>2, WireEmpty
    <3> QED BY <1>13, <3>1, <3>2
  <2> QED BY <1>8, <2>1, <2>2, <2>3 DEF LedgerIInv
<1> QED BY <1>6, <1>11, <1>12, <1>13

\* FdImportExpectDestroySuccessPath
LEMMA ImportReturnedSafe ==
    ASSUME Quiet, LedgerIInv, snap = NoSnap, NEW m \in msgs, m.side = "import",
           m.state = "IMPORT_DESTROYED", NEW f, f \subseteq FaultKinds,
           FdImportExpectDestroySuccessPath(m, f),
           UNCHANGED <<aImp, aExp, hardware, todo, ready, snap>>
    PROVE  LedgerIInv'
<1> DEFINE e == m.exporter
           undo == [mExp[e] EXCEPT !.state = "EXPORT_DESTROYING",
                                   !.expectState = "EXPORT_DESTROYED",
                                   !.requestId = m.requestId,
                                   !.returnReq = m.returnReq,
                                   !.destroyed = FALSE]
<1>1. m \in AnyImport /\ MessageAt(m) /\ msgs \ {m} = {}
  BY TheMessage DEF LedgerIInv
<1>2. /\ e \in Exporters /\ m.requestId \in Requests \cup {None}
      /\ m.returnReq \in Returns \cup {None}
      /\ m.requestId \notin todo /\ m.returnReq \notin todo /\ mapped' = None
  BY <1>1, AnyFields DEF AnyImport, MessageAt, TakenUp, hardware
<1>3. mExp[e] # NoObj => /\ undo \in AnyExport /\ TakenUp(undo)
                         /\ undo.state = "EXPORT_DESTROYING"
                         /\ undo.expectState = "EXPORT_DESTROYED"
  <2>1. mExp[e] # NoObj => mExp[e] \in AnyExport
    BY <1>2 DEF LedgerIInv, ExportsInv
  <2> QED BY <2>1, <1>2 DEF AnyExport, AnyObject, ExportStates, Expected, TakenUp
<1>4. /\ mImp' = NoObj
      /\ \/ msgs' = Rest(m, f) /\ UNCHANGED <<mExp, mIdx>>
         \/ mExp[e] # NoObj /\ DestroyExport(undo, m, f)
      /\ \/ NoResponse
         \/ \E how \in {"ok", "fail"} : Respond(m.requestId, how)
  BY Zenon DEF FdImportExpectDestroySuccessPath
<1> HIDE DEF undo
<1>5. Rest(m, f) = {} /\ "late" \notin f
  BY <1>1, CalmFacts DEF Quiet
<1>6. LendersInv' /\ MappingAt' /\ SnapInv' /\ ImportInv' /\ KnownInv'
  BY <1>2, <1>4, CallbackFrame DEF ImportInv, KnownInv
<1>7. ExportsInv /\ RequestInv
  BY DEF LedgerIInv
<1>8. ExportsInv' /\ WireInv'
  <2>1. CASE msgs' = Rest(m, f) /\ UNCHANGED <<mExp, mIdx>>
    BY <1>5, <1>7, <2>1, WireEmpty DEF ExportsInv, TakenUp
  <2>2. CASE mExp[e] # NoObj /\ DestroyExport(undo, m, f)
    BY <1>2, <1>3, <1>5, <1>7, <2>2, DestroySafe
  <2> QED BY <1>4, <2>1, <2>2
<1>9. RequestInv'
  <2>1. CASE NoResponse
    BY <1>7, <2>1 DEF RequestInv, NoResponse
  <2> QED BY <1>2, <1>4, <1>7, <2>1, RespondAny
<1> QED BY <1>6, <1>8, <1>9 DEF LedgerIInv

\* FdImportExpectDestroyMasterCallback
LEMMA ImportExpectDestroySafe ==
    ASSUME Quiet, LedgerIInv, snap = NoSnap, NEW m \in msgs, m.side = "import",
           FdImportExpectDestroy(m), UNCHANGED <<aImp, aExp, hardware, todo, ready, snap>>
    PROVE  LedgerIInv'
<1> DEFINE importObj == [m EXCEPT !.destroyed = TRUE]
<1>1. m \in AnyImport /\ MessageAt(m) /\ msgs \ {m} = {}
  BY TheMessage DEF LedgerIInv
<1>2. TakenUp(m) /\ m.requestId \notin todo
  BY <1>1 DEF MessageAt, TakenUp
<1>3. importObj \in AnyImport /\ Says(importObj, m, m.state)
  BY <1>1, Marked DEF AnyImport
<1>4. PICK f \in Faults({"refuse", "lost", "late", "dup"}) :
        \/ msgs' = Rest(m, f) /\ NoResponse /\ UNCHANGED ledger
        \/ m.state = "IMPORT_DESTROYED" /\ FdImportExpectDestroySuccessPath(m, f)
        \/ /\ m.state = "IMPORT_ABNORMAL"
           /\ mImp' = importObj
           /\ msgs' = Rest(m, f)
           /\ Respond(m.requestId, "fail")
           /\ UNCHANGED <<mExp, mIdx>>
  BY Zenon DEF FdImportExpectDestroy
<1> HIDE DEF importObj
<1>5. f \subseteq FaultKinds /\ Rest(m, f) = {}
  BY <1>1, CalmFacts, FaultsOf DEF Quiet
<1>6. LendersInv' /\ MappingAt' /\ SnapInv'
  BY CallbackFrame
<1>7. ExportsInv /\ ImportInv /\ RequestInv /\ KnownInv
  BY DEF LedgerIInv
<1>8. UNCHANGED <<mExp, mIdx>> => ExportsInv'
  BY <1>7 DEF ExportsInv, TakenUp
<1>9. CASE msgs' = Rest(m, f) /\ NoResponse /\ UNCHANGED ledger
  <2>1. ExportsInv' /\ ImportInv' /\ RequestInv' /\ KnownInv'
    BY <1>7, <1>8, <1>9
    DEF ImportInv, RequestInv, KnownInv, TakenUp, ledger, NoResponse, hardware
  <2> QED BY <2>1, <1>5, <1>6, <1>9, WireEmpty DEF LedgerIInv
<1>10. CASE m.state = "IMPORT_DESTROYED" /\ FdImportExpectDestroySuccessPath(m, f)
  BY <1>5, <1>10, ImportReturnedSafe
<1>11. CASE /\ m.state = "IMPORT_ABNORMAL"
            /\ mImp' = importObj
            /\ msgs' = Rest(m, f)
            /\ Respond(m.requestId, "fail")
            /\ UNCHANGED <<mExp, mIdx>>
  <2>1. ImportInv'
    BY <1>2, <1>3, <1>11 DEF ImportInv, TakenUp, Says
  <2>2. KnownInv'
    BY <1>3, <1>11, NoneState DEF KnownInv, Says
  <2>3. RequestInv'
    BY <1>2, <1>7, <1>11, RespondAny
  <2> QED BY <2>1, <2>2, <2>3, <1>5, <1>6, <1>8, <1>11, WireEmpty DEF LedgerIInv
<1> QED BY <1>4, <1>9, <1>10, <1>11

\* A message is handled at its receiver.
LEMMA HandleSafe ==
    ASSUME Quiet, LedgerIInv, snap = NoSnap, NEW m \in msgs, Handle(m),
           UNCHANGED <<ready, snap>>
    PROVE  LedgerIInv'
<1>1. CASE FdExportAgentCallback(m)
  BY <1>1, ExportRunningSafe, ExportDestroyingSafe, Zenon DEF FdExportAgentCallback
<1>2. CASE FdImportAgentCallback(m)
  BY <1>2, ImportRunningSafe, ImportDestroyingSafe, Zenon DEF FdImportAgentCallback
<1>3. CASE FdExportMasterCallback(m)
  <2>1. CASE \E f \in Faults({"dup"}) : /\ msgs' = Rest(m, f)
                                        /\ UNCHANGED <<ledger, answers>>
    <3>1. msgs' = {} /\ UNCHANGED <<ledger, answers>>
      BY <2>1, TheMessage, CalmFacts, FaultsOf DEF Quiet, LedgerIInv
    <3>2. UNCHANGED <<aImp, aExp, hardware, todo>>
      BY <1>3 DEF FdExportMasterCallback
    <3>3. LendersInv' /\ MappingAt' /\ SnapInv' /\ WireInv'
      BY <3>1, <3>2, CallbackFrame, WireEmpty
    <3>4. RequestInv' /\ ExportsInv' /\ ImportInv' /\ KnownInv'
      BY <3>1, <3>2
      DEF LedgerIInv, RequestInv, ExportsInv, ImportInv, KnownInv, TakenUp, ledger, hardware
    <3> QED BY <3>3, <3>4 DEF LedgerIInv
  <2> QED
    BY <1>3, <2>1, ExportExpectSuccessSafe, ExportExpectDestroySafe, Zenon
    DEF FdExportMasterCallback
<1>4. CASE FdImportMasterCallback(m)
  BY <1>4, ImportExpectSuccessSafe, ImportExpectDestroySafe, Zenon DEF FdImportMasterCallback
<1> QED BY <1>1, <1>2, <1>3, <1>4 DEF Handle

-----------------------------------------------------------------------------
(* Requests.                                                               *)

\* A request leaves todo; what has been taken up stays so.
LEMMA RequestFrame ==
    ASSUME LedgerIInv, snap = NoSnap, todo' \subseteq todo,
           UNCHANGED <<aImp, aExp, hardware, ready, snap>>
    PROVE  /\ LendersInv' /\ MappingAt' /\ SnapInv'
           /\ UNCHANGED <<mExp, mIdx>> => ExportsInv'
           /\ UNCHANGED mImp => ImportInv' /\ KnownInv'
<1>1. LendersInv'
  BY DEF LedgerIInv, LendersInv, TakenUp
<1>2. MappingAt'
  BY DEF LedgerIInv, MappingAt, MappedIsLent, TakenUp, hardware
<1>3. SnapInv'
  BY DEF SnapInv
<1>4. UNCHANGED <<mExp, mIdx>> => ExportsInv'
  BY DEF LedgerIInv, ExportsInv, TakenUp
<1>5. UNCHANGED mImp => ImportInv' /\ KnownInv'
  BY DEF LedgerIInv, ImportInv, KnownInv, TakenUp, hardware
<1> QED BY <1>1, <1>2, <1>3, <1>4, <1>5

\* A request that is refused changes nothing else.
LEMMA RefusedSafe ==
    ASSUME LedgerIInv, snap = NoSnap, NEW r \in todo, todo' = todo \ {r},
           Respond(r, "fail"), UNCHANGED <<ledger, aImp, aExp, hardware, msgs, ready, snap>>
    PROVE  LedgerIInv'
<1>1. LendersInv' /\ MappingAt' /\ SnapInv' /\ ExportsInv' /\ ImportInv' /\ KnownInv'
  BY RequestFrame DEF ledger
<1>2. RequestInv /\ WireInv
  BY DEF LedgerIInv
<1>3. RequestInv'
  BY <1>2, RespondAny
<1>4. WireInv'
  <2>1. \A m \in msgs : MessageAt(m)'
    BY <1>2 DEF WireInv, MessageAt, TakenUp, ledger, hardware
  <2>2. Busy => Busy'
    <3>1. ASSUME NEW q \in Returns, Open(q) PROVE Open(q)'
      BY <3>1, <1>2 DEF Open, Respond, RequestInv, Requests
    <3> QED BY <3>1 DEF Busy, FoundExport, ledger
  <2> QED BY <1>2, <2>1, <2>2 DEF WireInv
<1> QED BY <1>1, <1>3, <1>4 DEF LedgerIInv

\* UbseMemFdBorrow: the name is free, so nothing is mapped and no message is
\* under way.
LEMMA BorrowSafe ==
    ASSUME Quiet, LedgerIInv, snap = NoSnap, NEW r \in Borrows, NEW e \in Exporters,
           Importer \in ready, UbseMemFdBorrow(r, e), UNCHANGED <<ready, snap>>
    PROVE  LedgerIInv'
<1> DEFINE exportObj == [side |-> "export", state |-> "EXPORT_RUNNING",
                         expectState |-> "EXPORT_SUCCESS", exporter |-> e, obmm |-> e,
                         requestId |-> r, returnReq |-> None,
                         created |-> FALSE, destroyed |-> FALSE]
           importObj == [exportObj EXCEPT !.side = "import", !.obmm = None]
<1>1. PICK f \in Faults({"refuse", "alloc", "lost", "late"}) :
        /\ r \in todo /\ todo' = todo \ {r}
        /\ \/ Respond(r, "fail") /\ UNCHANGED <<ledger, msgs>>
           \/ /\ NotExist
              /\ msgs' = msgs \cup Sent(exportObj, f)
              /\ IF SendFails(f)
                 THEN /\ mExp' = [mExp EXCEPT ![e] = NoObj]
                      /\ mIdx' = None
                      /\ Respond(r, "fail")
                      /\ UNCHANGED mImp
                 ELSE PutExport(e, exportObj) /\ mImp' = importObj /\ NoResponse
  BY Zenon DEF UbseMemFdBorrow
<1>2. UNCHANGED <<aImp, aExp, hardware>>
  BY DEF UbseMemFdBorrow
<1>3. CASE Respond(r, "fail") /\ UNCHANGED <<ledger, msgs>>
  BY <1>1, <1>2, <1>3, RefusedSafe
<1>4. CASE /\ NotExist
           /\ msgs' = msgs \cup Sent(exportObj, f)
           /\ IF SendFails(f)
              THEN /\ mExp' = [mExp EXCEPT ![e] = NoObj]
                   /\ mIdx' = None
                   /\ Respond(r, "fail")
                   /\ UNCHANGED mImp
              ELSE PutExport(e, exportObj) /\ mImp' = importObj /\ NoResponse
  <2>1. r \in Requests /\ r # None /\ None \notin todo
    BY RequestsAssumption DEF Requests, LedgerIInv, RequestInv
  <2>2. /\ exportObj \in AnyExport /\ exportObj.exporter = e /\ TakenUp(exportObj)'
        /\ exportObj.state = "EXPORT_RUNNING" /\ exportObj.side = "export"
    BY <1>1, <2>1 DEF AnyExport, AnyObject, ExportStates, Expected, TakenUp
  <2>3. importObj \in AnyImport /\ TakenUp(importObj)' /\ importObj.state = "EXPORT_RUNNING"
    BY <1>1, <2>1 DEF AnyImport, AnyObject, ImportStates, Expected, TakenUp
  <2> HIDE DEF exportObj, importObj
  <2>4. msgs = {}
    <3>1. ~Busy
      BY <1>4, NoneState DEF NotExist, Busy
    <3> QED BY <3>1 DEF LedgerIInv, WireInv
  <2>5. mapped' = None
    BY <1>2, <1>4 DEF LedgerIInv, KnownInv, NotExist, hardware
  <2>6. ExportsInv /\ RequestInv
    BY DEF LedgerIInv
  <2>7. LendersInv' /\ MappingAt' /\ SnapInv' /\ KnownInv'
    BY <1>1, <1>2, <2>5, RequestFrame DEF KnownInv
  <2>8. CASE SendFails(f)
    <3>1. msgs' = {}
      BY <1>4, <2>4, <2>8, CalmFacts, FaultsOf DEF Quiet, Sent
    <3>2. ExportsInv'
      BY <1>1, <1>4, <2>6, <2>8 DEF ExportsInv, TakenUp
    <3>3. ImportInv'
      BY <1>1, <1>2, <1>4, <2>8, RequestFrame
    <3>4. RequestInv'
      BY <1>1, <1>4, <2>6, <2>8, RespondAny
    <3> QED BY <2>7, <3>1, <3>2, <3>3, <3>4, WireEmpty DEF LedgerIInv
  <2>9. CASE ~SendFails(f)
    <3>1. PutExport(e, exportObj) /\ mImp' = importObj /\ UNCHANGED answers
      BY <1>4, <2>9 DEF NoResponse
    <3>2. ExportsInv'
      <4>1. /\ mExp' \in [Exporters -> AnyExport \cup {NoObj}]
            /\ mIdx' = e /\ mExp'[e] = exportObj
            /\ \A d \in Exporters : d # e => mExp'[d] = mExp[d]
        BY <2>2, <2>6, <3>1 DEF PutExport, ExportsInv
      <4>2. \A d \in Exporters : mExp'[d] # NoObj =>
                                     mExp'[d].exporter = d /\ TakenUp(mExp[d])'
        BY <1>1, <2>2, <2>6, <4>1 DEF ExportsInv, TakenUp
      <4> QED BY <4>1, <4>2 DEF ExportsInv
    <3>3. ImportInv' /\ RequestInv'
      BY <1>1, <2>3, <2>6, <3>1 DEF ImportInv, RequestInv, TakenUp
    <3>4. Wire(exportObj) \in AnyExport /\ Says(Wire(exportObj), exportObj, "EXPORT_RUNNING")
          /\ msgs' \subseteq {Wire(exportObj)}
      BY <1>4, <2>2, <2>4, AnyWire DEF AnyExport, Sent
    <3>5. PICK n \in AnyExport : Says(n, exportObj, "EXPORT_RUNNING") /\ msgs' \subseteq {n}
      BY <3>4
    <3>6. MessageAt(n)'
      BY <2>2, <2>5, <3>5 DEF MessageAt, Says, TakenUp
    <3>7. Busy'
      BY <2>3, <3>1 DEF Busy
    <3> QED BY <2>7, <3>2, <3>3, <3>5, <3>6, <3>7, WireOf DEF LedgerIInv
  <2> QED BY <2>8, <2>9
<1> QED BY <1>1, <1>3, <1>4

\* UbseMemFdReturn: no message is under way; the memory is unmapped first,
\* and unexported at once only if it is not mapped.
LEMMA ReturnSafe ==
    ASSUME Quiet, LedgerIInv, snap = NoSnap, NEW r \in Returns,
           Importer \in ready, UbseMemFdReturn(r), UNCHANGED <<ready, snap>>
    PROVE  LedgerIInv'
<1>1. PICK f \in Faults({"refuse", "lost", "late"}) :
        /\ r \in todo /\ todo' = todo \ {r}
        /\ Patient => \A q \in Returns \ todo : answers[q] # {}
        /\ \/ Respond(r, "fail") /\ UNCHANGED <<ledger, msgs>>
           \/ Returnable /\ mImp = NoObj /\ HandleSingleExportReturn(r, f)
           \/ Returnable /\ mImp # NoObj /\ FdReturnExistImport(r, f)
  BY Zenon DEF UbseMemFdReturn
<1>2. UNCHANGED <<aImp, aExp, hardware>>
  BY DEF UbseMemFdReturn
<1>3. CASE Respond(r, "fail") /\ UNCHANGED <<ledger, msgs>>
  BY <1>1, <1>2, <1>3, RefusedSafe
<1>4. Returnable => msgs = {}
  <2> SUFFICES ASSUME Returnable, Busy PROVE FALSE
    BY DEF LedgerIInv, WireInv
  <2>1. \A q \in Returns : ~Open(q)
    BY <1>1 DEF Quiet, Calm, Open
  <2> QED BY <2>1 DEF Returnable, Busy
<1>5. r \in Requests /\ r # None /\ r \notin todo' /\ todo' \subseteq todo
  BY <1>1, RequestsAssumption DEF Requests
<1>6. ExportsInv /\ ImportInv /\ RequestInv
  BY DEF LedgerIInv
<1>7. f \subseteq FaultKinds /\ (SendFails(f) <=> "lost" \in f)
  BY CalmFacts, FaultsOf DEF Quiet
<1>8. CASE Returnable /\ mImp = NoObj /\ HandleSingleExportReturn(r, f)
  <2> DEFINE undo == [FoundExport EXCEPT !.state = "EXPORT_DESTROYING",
                                         !.expectState = "EXPORT_DESTROYED",
                                         !.requestId = r, !.returnReq = r,
                                         !.destroyed = FALSE]
             kept == [undo EXCEPT !.state = "EXPORT_SUCCESS"]
  <2>1. /\ msgs' = msgs \cup Sent(undo, f)
        /\ UNCHANGED mImp
        /\ IF SendFails(f)
           THEN PutExport(undo.exporter, kept) /\ Respond(r, "fail")
           ELSE NoResponse /\ UNCHANGED <<mExp, mIdx>>
    BY <1>8, Zenon DEF HandleSingleExportReturn
  <2>2. FoundExport # NoObj
    BY <1>8 DEF Returnable
  <2>3. /\ mIdx \in Exporters /\ FoundExport = mExp[mIdx]
        /\ FoundExport \in AnyExport /\ FoundExport.exporter = mIdx
    BY <2>2, <1>6 DEF FoundExport, ExportsInv
  <2>4. /\ undo \in AnyExport /\ undo.side = "export" /\ undo.state = "EXPORT_DESTROYING"
        /\ undo.expectState = "EXPORT_DESTROYED" /\ undo.exporter = mIdx
        /\ undo.requestId = r /\ undo.returnReq = r
    BY <1>5, <2>3 DEF AnyExport, AnyObject, ExportStates, Expected
  <2> HIDE DEF undo
  <2>5. kept \in AnyExport /\ Says(kept, undo, "EXPORT_SUCCESS")
    BY <2>4, AnyNewState DEF AnyExport, ExportStates
  <2> HIDE DEF kept
  <2>6. mapped' = None
    BY <1>2, <1>8 DEF LedgerIInv, KnownInv, hardware
  <2>7. LendersInv' /\ MappingAt' /\ SnapInv' /\ ImportInv' /\ KnownInv'
    BY <1>2, <1>5, <2>1, RequestFrame
  <2>8. CASE SendFails(f)
    <3>1. msgs' = {}
      BY <1>4, <1>7, <1>8, <2>1, <2>8 DEF Sent
    <3>2. PutExport(mIdx, kept) /\ Respond(r, "fail")
      BY <2>1, <2>4, <2>8
    <3>3. RequestInv'
      BY <1>5, <1>6, <3>2, RespondAny
    <3>4. ExportsInv'
      <4>1. /\ mExp' \in [Exporters -> AnyExport \cup {NoObj}]
            /\ mIdx' = mIdx /\ mExp'[mIdx] = kept
            /\ \A d \in Exporters : d # mIdx => mExp'[d] = mExp[d]
        BY <1>6, <2>3, <2>5, <3>2 DEF PutExport, ExportsInv
      <4>2. kept.exporter = mIdx /\ kept.requestId = r /\ kept.returnReq = r
        BY <2>4, <2>5 DEF Says
      <4>3. \A d \in Exporters : mExp'[d] # NoObj =>
                                     mExp'[d].exporter = d /\ TakenUp(mExp[d])'
        BY <1>5, <1>6, <4>1, <4>2 DEF ExportsInv, TakenUp
      <4> QED BY <2>3, <4>1, <4>3 DEF ExportsInv
    <3> QED BY <2>7, <3>1, <3>3, <3>4, WireEmpty DEF LedgerIInv
  <2>9. CASE ~SendFails(f)
    <3>1. UNCHANGED <<answers, mExp, mIdx>>
      BY <2>1, <2>9 DEF NoResponse
    <3>2. ExportsInv'
      BY <1>2, <1>5, <3>1, RequestFrame
    <3>3. RequestInv'
      BY <1>5, <1>6, <3>1 DEF RequestInv
    <3>4. Wire(undo) \in AnyExport /\ Says(Wire(undo), undo, "EXPORT_DESTROYING")
          /\ msgs' \subseteq {Wire(undo)}
      BY <1>4, <1>8, <2>1, <2>4, AnyWire DEF AnyExport, Sent
    <3>5. PICK n \in AnyExport : Says(n, undo, "EXPORT_DESTROYING") /\ msgs' \subseteq {n}
      BY <3>4
    <3>6. MessageAt(n)'
      BY <1>5, <2>4, <2>6, <3>5 DEF MessageAt, Says, TakenUp
    <3>7. Busy'
      <4>1. Open(r)'
        BY <1>1, <1>5, <1>6, <3>1 DEF Open, RequestInv
      <4>2. FoundExport' # NoObj
        BY <2>2, <3>1 DEF FoundExport
      <4> QED BY <4>1, <4>2 DEF Busy
    <3> QED BY <2>7, <3>2, <3>3, <3>5, <3>6, <3>7, WireOf DEF LedgerIInv
  <2> QED BY <2>8, <2>9
<1>9. CASE Returnable /\ mImp # NoObj /\ FdReturnExistImport(r, f)
  <2> DEFINE undo == [mImp EXCEPT !.state = "IMPORT_DESTROYING",
                                  !.expectState = "IMPORT_DESTROYED",
                                  !.requestId = r, !.returnReq = r,
                                  !.destroyed = FALSE]
             kept == [undo EXCEPT !.state = "IMPORT_SUCCESS"]
  <2>1. /\ msgs' = msgs \cup Sent(undo, f)
        /\ UNCHANGED <<mExp, mIdx>>
        /\ IF SendFails(f) THEN mImp' = kept /\ Respond(r, "fail")
                           ELSE mImp' = undo /\ NoResponse
    BY <1>9, Zenon DEF FdReturnExistImport
  <2>2. /\ undo \in AnyImport /\ undo.side = "import" /\ undo.state = "IMPORT_DESTROYING"
        /\ undo.expectState = "IMPORT_DESTROYED"
        /\ undo.requestId = r /\ undo.returnReq = r
    <3>1. mImp \in AnyImport
      BY <1>6, <1>9 DEF ImportInv
    <3> QED BY <1>5, <3>1 DEF AnyImport, AnyObject, ImportStates, Expected
  <2> HIDE DEF undo
  <2>3. kept \in AnyImport /\ Says(kept, undo, "IMPORT_SUCCESS")
    BY <2>2, AnyNewState DEF AnyImport, ImportStates
  <2> HIDE DEF kept
  <2>4. LendersInv' /\ MappingAt' /\ SnapInv' /\ ExportsInv'
    BY <1>2, <1>5, <2>1, RequestFrame
  <2>5. CASE SendFails(f)
    <3>1. msgs' = {}
      BY <1>4, <1>7, <1>9, <2>1, <2>5 DEF Sent
    <3>2. mImp' = kept /\ Respond(r, "fail")
      BY <2>1, <2>5
    <3>3. RequestInv'
      BY <1>5, <1>6, <3>2, RespondAny
    <3>4. ImportInv' /\ KnownInv'
      BY <1>5, <2>2, <2>3, <3>2, NoneState DEF ImportInv, KnownInv, TakenUp, Says
    <3> QED BY <2>4, <3>1, <3>3, <3>4, WireEmpty DEF LedgerIInv
  <2>6. CASE ~SendFails(f)
    <3>1. mImp' = undo /\ UNCHANGED answers
      BY <2>1, <2>6 DEF NoResponse
    <3>2. RequestInv'
      BY <1>5, <1>6, <3>1 DEF RequestInv
    <3>3. ImportInv' /\ KnownInv'
      BY <1>5, <2>2, <3>1, NoneState DEF ImportInv, KnownInv, TakenUp
    <3>4. Wire(undo) \in AnyImport /\ Says(Wire(undo), undo, "IMPORT_DESTROYING")
          /\ msgs' \subseteq {Wire(undo)}
      BY <1>4, <1>9, <2>1, <2>2, AnyWire DEF AnyImport, Sent
    <3>5. PICK n \in AnyImport : Says(n, undo, "IMPORT_DESTROYING") /\ msgs' \subseteq {n}
      BY <3>4
    <3>6. MessageAt(n)'
      BY <1>5, <2>2, <3>5 DEF MessageAt, Says, TakenUp
    <3>7. Busy'
      BY <2>2, <3>1 DEF Busy
    <3> QED BY <2>4, <3>2, <3>3, <3>5, <3>6, <3>7, WireOf DEF LedgerIInv
  <2> QED BY <2>5, <2>6
<1> QED BY <1>1, <1>3, <1>8, <1>9

-----------------------------------------------------------------------------
(* Reconciliation.                                                         *)

\* CollectAllLedger: no message is under way when a reconciliation starts.
LEMMA CollectSafe ==
    ASSUME Quiet, LedgerIInv, NEW n \in Nodes, CollectAllLedger(n)
    PROVE  LedgerIInv'
<1>1. UNCHANGED <<ledger, agents, hardware, msgs, todo, answers, ready>> /\ msgs = {}
  BY DEF CollectAllLedger, Quiet
<1>2. RequestInv' /\ ExportsInv' /\ ImportInv' /\ LendersInv' /\ MappingAt' /\ KnownInv'
  BY <1>1 DEF LedgerIInv, RequestInv, ExportsInv, ImportInv, LendersInv, MappingAt,
              MappedIsLent, KnownInv, TakenUp, ledger, agents, hardware
<1>3. WireInv'
  BY <1>1, WireEmpty
<1>4. \E imp \in {aImp, Missing} :
        snap' = [node |-> n, master |-> MasterObj(n), agent |-> AgentObj(n), import |-> imp]
  BY DEF CollectAllLedger
<1>5. MasterObj(n)' = MasterObj(n) /\ AgentObj(n)' = AgentObj(n) /\ aImp' = aImp
  BY <1>1 DEF MasterObj, AgentObj, ledger, agents
<1>6. SnapInv'
  BY <1>1, <1>4, <1>5 DEF SnapInv
<1> QED BY <1>2, <1>3, <1>6 DEF LedgerIInv

\* What a reconciliation works from is still true.
LEMMA SnapFacts ==
    ASSUME LedgerIInv, snap # NoSnap
    PROVE  /\ msgs = {}
           /\ snap.node = Importer => snap.master = mImp /\ snap.agent = aImp
           /\ snap.node \in Exporters => /\ snap.master = mExp[snap.node]
                                         /\ snap.agent = aExp[snap.node]
           /\ snap.import \in {aImp, Missing}
           /\ snap.node \in Nodes
<1>1. /\ msgs = {} /\ snap.node \in Nodes
      /\ snap.master = MasterObj(snap.node) /\ snap.agent = AgentObj(snap.node)
      /\ snap.import \in {aImp, Missing}
  BY DEF LedgerIInv, SnapInv
<1>2. snap.node \in Exporters => snap.node # Importer
  BY LedgerAssumption
<1> QED BY <1>1, <1>2 DEF MasterObj, AgentObj

\* DeleteFdExport: the unexport of what the exporter has, while the importer
\* has nothing.
LEMMA DeleteSafe ==
    ASSUME Quiet, LedgerIInv, NEW e \in Exporters, aExp[e] # NoObj, aImp = NoObj,
           msgs = {}, DeleteFdExport(aExp[e]), UNCHANGED <<todo, hardware>>
    PROVE  ExportsInv' /\ WireInv'
<1> DEFINE undo == [aExp[e] EXCEPT !.state = "EXPORT_DESTROYING",
                                   !.expectState = "EXPORT_DESTROYED"]
<1>1. PICK f \in Faults({"lost", "late"}) :
        PutExport(aExp[e].exporter, undo) /\ msgs' = msgs \cup Sent(undo, f)
  BY Zenon DEF DeleteFdExport
<1>2. aExp[e] \in AnyExport /\ aExp[e].exporter = e /\ TakenUp(aExp[e])
  BY DEF LedgerIInv, LendersInv
<1>3. /\ undo \in AnyExport /\ undo.exporter = e /\ TakenUp(undo)
      /\ undo.state = "EXPORT_DESTROYING" /\ undo.expectState = "EXPORT_DESTROYED"
  BY <1>2 DEF AnyExport, AnyObject, ExportStates, Expected, TakenUp
<1> HIDE DEF undo
<1>4. msgs' \subseteq {Wire(undo)}
  BY <1>1 DEF Sent
<1>5. mapped' = None /\ ExportsInv
  BY DEF LedgerIInv, MappingAt, hardware
<1> QED BY <1>1, <1>2, <1>3, <1>4, <1>5, UnexportSent

\* FdBorrowLedger of an exporter: nothing is unexported that is mapped, also
\* where the importer's ledger could not be collected.
LEMMA ExportLedgerSafe ==
    ASSUME Quiet, LedgerIInv, snap # NoSnap, ExportLedger, ready' = ready \cup {snap.node},
           snap' = NoSnap, UNCHANGED <<agents, hardware, todo, answers>>
    PROVE  LedgerIInv'
<1> DEFINE e == snap.node
<1>1. e \in Exporters /\ UNCHANGED mImp
  BY DEF ExportLedger
<1>2. /\ msgs = {} /\ snap.master = mExp[e] /\ snap.agent = aExp[e]
      /\ snap.import \in {aImp, Missing}
  BY <1>1, SnapFacts
<1>3. RequestInv' /\ ImportInv' /\ LendersInv' /\ MappingAt'
  BY <1>1 DEF LedgerIInv, RequestInv, ImportInv, LendersInv, MappingAt, MappedIsLent,
              TakenUp, agents, hardware
<1>4. KnownInv'
  <2>1. Importer \in ready' => Importer \in ready
    BY <1>1, LedgerAssumption
  <2> QED BY <1>1, <2>1 DEF LedgerIInv, KnownInv, hardware
<1>5. SnapInv'
  BY DEF SnapInv
<1>6. ExportsInv
  BY DEF LedgerIInv
<1>7. \/ NothingSent /\ UNCHANGED <<mExp, mIdx>>
      \/ NothingSent /\ EraseFdExport(e)
      \/ NothingSent /\ PutExport(e, aExp[e]) /\ aExp[e] # NoObj
      \/ /\ NothingSent /\ mExp[e] # NoObj /\ aExp[e] # NoObj
         /\ PutExport(e, [mExp[e] EXCEPT !.state = aExp[e].state,
                                         !.expectState = aExp[e].expectState])
      \/ snap.import = NoObj /\ aExp[e] # NoObj /\ DeleteFdExport(aExp[e])
  <2>1. CASE ExportRunning(snap.master)
    <3>1. MasterRunningFdExportHandler
      BY <2>1, Zenon DEF ExportLedger
    <3>2. mExp[e] # NoObj
      BY <1>2, <2>1, NoneState DEF ExportRunning
    <3> QED BY <1>2, <3>1, <3>2, Zenon DEF MasterRunningFdExportHandler
  <2>2. CASE ~ExportRunning(snap.master) /\ snap.agent = NoObj
    BY <2>2, Zenon DEF ExportLedger
  <2>3. CASE ~ExportRunning(snap.master) /\ snap.agent # NoObj
    <3>1. AgentDiffFdExportHandler \/ BothFdExportHandler
      BY <2>3, Zenon DEF ExportLedger
    <3>2. CASE AgentDiffFdExportHandler
      BY <1>2, <2>3, <3>2, Zenon DEF AgentDiffFdExportHandler
    <3>3. CASE BothFdExportHandler
      BY <1>2, <2>3, <3>3, Zenon DEF BothFdExportHandler
    <3> QED BY <3>1, <3>2, <3>3
  <2> QED BY <2>1, <2>2, <2>3
<1>8. NothingSent => WireInv'
  BY <1>2, WireEmpty DEF NothingSent
<1>9. aExp[e] # NoObj => aExp[e] \in AnyExport /\ aExp[e].exporter = e /\ TakenUp(aExp[e])
  BY <1>1 DEF LedgerIInv, LendersInv
<1>10. ExportsInv' /\ WireInv'
  <2>1. CASE NothingSent /\ UNCHANGED <<mExp, mIdx>>
    BY <1>6, <1>8, <2>1 DEF ExportsInv, TakenUp
  <2>2. CASE NothingSent /\ EraseFdExport(e)
    BY <1>1, <1>6, <1>8, <2>2, EraseAny
  <2>3. CASE NothingSent /\ PutExport(e, aExp[e]) /\ aExp[e] # NoObj
    BY <1>1, <1>6, <1>8, <1>9, <2>3, PutAny
  <2>4. CASE /\ NothingSent /\ mExp[e] # NoObj /\ aExp[e] # NoObj
             /\ PutExport(e, [mExp[e] EXCEPT !.state = aExp[e].state,
                                             !.expectState = aExp[e].expectState])
    <3> DEFINE o == [mExp[e] EXCEPT !.state = aExp[e].state,
                                    !.expectState = aExp[e].expectState]
    <3>1. mExp[e] \in AnyExport /\ mExp[e].exporter = e /\ TakenUp(mExp[e])
      BY <1>1, <1>6, <2>4 DEF ExportsInv
    <3>2. o \in AnyExport /\ o.exporter = e /\ TakenUp(o)
      BY <1>9, <2>4, <3>1 DEF AnyExport, AnyObject, TakenUp
    <3> HIDE DEF o
    <3>3. PutExport(e, o)
      BY <2>4 DEF o
    <3> QED BY <1>1, <1>6, <1>8, <2>4, <3>2, <3>3, PutAny
  <2>5. CASE snap.import = NoObj /\ aExp[e] # NoObj /\ DeleteFdExport(aExp[e])
    <3>1. aImp = NoObj
      BY <1>2, <2>5 DEF Missing, NoObj
    <3> QED BY <1>1, <1>2, <2>5, <3>1, DeleteSafe
  <2> QED BY <1>7, <2>1, <2>2, <2>3, <2>4, <2>5
<1> QED BY <1>3, <1>4, <1>5, <1>10 DEF LedgerIInv

\* FdBorrowLedger of the importer: the master learns of the mapping.
LEMMA ImportLedgerSafe ==
    ASSUME Quiet, LedgerIInv, snap # NoSnap, ImportLedger, ready' = ready \cup {snap.node},
           snap' = NoSnap, UNCHANGED <<agents, hardware, todo, answers>>
    PROVE  LedgerIInv'
<1>1. snap.node = Importer /\ UNCHANGED <<mExp, mIdx, msgs>>
  BY DEF ImportLedger, NothingSent
<1>2. msgs = {} /\ snap.master = mImp /\ snap.agent = aImp
  BY <1>1, SnapFacts
<1>3. RequestInv' /\ ExportsInv' /\ LendersInv' /\ MappingAt' /\ SnapInv'
  BY <1>1 DEF LedgerIInv, RequestInv, ExportsInv, LendersInv, MappingAt, MappedIsLent,
              SnapInv, TakenUp, agents, hardware
<1>4. WireInv'
  BY <1>1, <1>2, WireEmpty
<1>5. /\ aImp # NoObj => aImp \in AgentImport /\ TakenUp(aImp) /\ mapped # None
      /\ aImp = NoObj => mapped = None
      /\ mImp # NoObj => mImp \in AnyImport /\ TakenUp(mImp)
      /\ mImp.state = "EXPORT_RUNNING" => mapped = None
  BY DEF LedgerIInv, MappingAt, ImportInv, KnownInv
<1>6. aImp # NoObj => /\ aImp \in AnyImport
                      /\ aImp.state \in {"IMPORT_SUCCESS", "IMPORT_ABNORMAL"}
  <2>1. {"IMPORT_SUCCESS", "IMPORT_ABNORMAL"} \subseteq ImportStates
    BY DEF ImportStates
  <2> QED BY <1>5, <2>1, AnyFields, AnyStates DEF AgentImport, AnyImport
<1> DEFINE o == [mImp EXCEPT !.state = aImp.state, !.expectState = aImp.expectState]
<1>7. mImp # NoObj /\ aImp # NoObj =>
        /\ o \in AnyImport /\ TakenUp(o)
        /\ o.state \in {"IMPORT_SUCCESS", "IMPORT_ABNORMAL"}
  BY <1>5, <1>6 DEF AnyImport, AnyObject, TakenUp
<1> HIDE DEF o
<1>8. \/ mImp' = NoObj /\ mapped = None
      \/ mImp' = mImp /\ mImp # NoObj
      \/ mImp' = aImp /\ aImp # NoObj
      \/ mImp' = o /\ mImp # NoObj /\ aImp # NoObj
  <2>1. CASE ImportRunning(mImp)
    <3>1. MasterRunningFdImportHandler
      BY <1>2, <2>1, Zenon DEF ImportLedger
    <3>2. mImp # NoObj
      BY <2>1, NoneState DEF ImportRunning
    <3>3. mImp' = mImp \/ (mImp' = NoObj /\ mImp.state = "EXPORT_RUNNING")
          \/ (mImp' = NoObj /\ aImp = NoObj) \/ (mImp' = o /\ aImp # NoObj)
      BY <1>2, <3>1, Zenon DEF MasterRunningFdImportHandler, o
    <3> QED BY <1>5, <3>2, <3>3
  <2>2. CASE ~ImportRunning(mImp)
    <3>1. mImp' = IF aImp = NoObj THEN NoObj ELSE IF mImp = NoObj THEN aImp ELSE mImp
      BY <1>2, <2>2, Zenon DEF ImportLedger
    <3> QED BY <1>5, <3>1
  <2> QED BY <2>1, <2>2
<1>9. ImportInv'
  BY <1>5, <1>6, <1>7, <1>8 DEF ImportInv, TakenUp
<1>10. KnownInv'
  BY <1>5, <1>6, <1>7, <1>8, NoneState DEF KnownInv, hardware
<1> QED BY <1>3, <1>4, <1>9, <1>10 DEF LedgerIInv

-----------------------------------------------------------------------------
(* Upsets.                                                                 *)

\* The messages that an upset leaves.
LEMMA FewerMessages ==
    ASSUME WireInv, msgs' \subseteq msgs, \A m \in msgs' : MessageAt(m) => MessageAt(m)',
           Busy => Busy'
    PROVE  WireInv'
BY DEF WireInv

\* TakeOver: the new master knows nothing and takes up no request.
LEMMA TakeOverSafe ==
    ASSUME Quiet, LedgerIInv, TakeOver
    PROVE  LedgerIInv'
<1>1. /\ mImp' = NoObj /\ mExp' = [e \in Exporters |-> NoObj] /\ mIdx' = None
      /\ msgs' \subseteq msgs /\ ready' = {} /\ snap' = NoSnap
      /\ UNCHANGED <<agents, hardware, todo, answers>>
  BY DEF TakeOver
<1>2. RequestInv' /\ LendersInv' /\ MappingAt' /\ SnapInv'
  BY <1>1 DEF LedgerIInv, RequestInv, LendersInv, MappingAt, MappedIsLent, SnapInv,
              TakenUp, agents, hardware
<1>3. ExportsInv' /\ ImportInv' /\ KnownInv'
  BY <1>1, NoneState DEF ExportsInv, ImportInv, KnownInv
<1>4. WireInv'
  <2>1. \A m \in msgs' : MessageAt(m) => MessageAt(m)'
    BY <1>1 DEF MessageAt, TakenUp, hardware
  <2>2. Busy'
    BY <1>1 DEF Busy
  <2> QED BY <1>1, <2>1, <2>2, FewerMessages DEF LedgerIInv
<1> QED BY <1>2, <1>3, <1>4 DEF LedgerIInv

\* The object an agent rebuilds from the hardware.
LEMMA RestoredFacts ==
    ASSUME NEW side, NEW S, NEW s \in S, NEW e \in Exporters, None \notin todo
    PROVE  /\ Restored(side, s, e) \in AnyObject(side, S) /\ TakenUp(Restored(side, s, e))
           /\ Restored(side, s, e).exporter = e /\ Restored(side, s, e).state = s
BY DEF Restored, AnyObject, TakenUp

\* LoadLocalAllObjs: the ledger of an agent that restarts tells the truth.
LEMMA RestartSafe ==
    ASSUME Quiet, LedgerIInv, NEW n \in Nodes, LoadLocalAllObjs(n)
    PROVE  LedgerIInv'
<1>1. /\ snap = NoSnap /\ msgs' \subseteq msgs
      /\ UNCHANGED <<ledger, hardware, todo, answers, ready, snap>>
  BY DEF LoadLocalAllObjs, Undisturbed, Quiet
<1>2. RequestInv' /\ ExportsInv' /\ ImportInv' /\ SnapInv'
  BY <1>1, AgentFrame
<1>3. KnownInv'
  BY <1>1 DEF LedgerIInv, KnownInv, ledger, hardware
<1>4. WireInv'
  <2>1. \A m \in msgs' : MessageAt(m) => MessageAt(m)'
    BY <1>1 DEF MessageAt, TakenUp, ledger, hardware
  <2>2. Busy => Busy'
    BY <1>1, BusyStays DEF ledger
  <2> QED BY <1>1, <2>1, <2>2, FewerMessages DEF LedgerIInv
<1>5. None \notin todo
  BY RequestsAssumption DEF LedgerIInv, RequestInv, Requests
<1>6. /\ aImp \in AgentImport \cup {NoObj} /\ (aImp # NoObj => TakenUp(aImp))
      /\ mapped \in Exporters \cup {None} /\ lent \subseteq Exporters
      /\ aImp = NoObj <=> mapped = None
      /\ MappedIsLent /\ LendersInv
  BY DEF LedgerIInv, MappingAt
<1>7. CASE n = Importer
  <2> DEFINE o == Restored("import", "IMPORT_SUCCESS", mapped)
  <2>1. aImp' = (IF mapped = None THEN NoObj ELSE o) /\ UNCHANGED aExp
    BY <1>7 DEF LoadLocalAllObjs
  <2>2. mapped # None => o \in AgentImport /\ TakenUp(o) /\ o # NoObj
    <3>1. "IMPORT_SUCCESS" \in {"IMPORT_SUCCESS", "IMPORT_ABNORMAL"}
      OBVIOUS
    <3>2. mapped # None => o \in AgentImport /\ TakenUp(o) /\ o.state = "IMPORT_SUCCESS"
      BY <1>5, <1>6, <3>1, RestoredFacts DEF AgentImport
    <3> HIDE DEF o
    <3> QED BY <3>2, NoneState
  <2> HIDE DEF o
  <2>3. MappingAt'
    BY <1>1, <1>6, <2>1, <2>2 DEF MappingAt, MappedIsLent, TakenUp, hardware
  <2>4. LendersInv'
    BY <1>1, <1>6, <2>1 DEF LendersInv, TakenUp
  <2> QED BY <1>2, <1>3, <1>4, <2>3, <2>4 DEF LedgerIInv
<1>8. CASE n # Importer
  <2> DEFINE o == IF n \notin lent THEN NoObj ELSE Restored("export", "EXPORT_SUCCESS", n)
  <2>1. n \in Exporters /\ aExp' = [aExp EXCEPT ![n] = o] /\ UNCHANGED aImp
    BY <1>8 DEF LoadLocalAllObjs, Nodes
  <2>2. o # NoObj => o \in AnyExport /\ o.exporter = n /\ TakenUp(o)
    <3>1. "EXPORT_SUCCESS" \in ExportStates
      BY DEF ExportStates
    <3> QED BY <1>5, <2>1, <3>1, RestoredFacts DEF AnyExport
  <2> HIDE DEF o
  <2>3. LendersInv'
    BY <1>1, <1>6, <2>1, <2>2, LendersPut
  <2>4. MappingAt'
    BY <1>1, <1>6, <2>1 DEF MappingAt, MappedIsLent, TakenUp, hardware
  <2> QED BY <1>2, <1>3, <1>4, <2>3, <2>4 DEF LedgerIInv
<1> QED BY <1>7, <1>8

\* Reboot: nothing is mapped any more.
LEMMA RebootSafe ==
    ASSUME Quiet, LedgerIInv, Reboot
    PROVE  LedgerIInv'
<1>1. /\ snap = NoSnap /\ msgs' \subseteq msgs /\ aImp' = NoObj /\ mapped' = None
      /\ UNCHANGED <<ledger, aExp, lent, todo, answers, ready, snap>>
  BY DEF Reboot, Undisturbed, Quiet
<1>2. RequestInv' /\ ExportsInv' /\ ImportInv' /\ SnapInv'
  BY <1>1, AgentFrame
<1>3. LendersInv' /\ MappingAt' /\ KnownInv'
  BY <1>1 DEF LedgerIInv, LendersInv, MappingAt, MappedIsLent, KnownInv, TakenUp
<1>4. WireInv'
  <2>1. \A m \in msgs' : MessageAt(m) => MessageAt(m)'
    BY <1>1 DEF MessageAt, TakenUp, ledger
  <2>2. Busy => Busy'
    BY <1>1, BusyStays DEF ledger
  <2> QED BY <1>1, <2>1, <2>2, FewerMessages DEF LedgerIInv
<1> QED BY <1>2, <1>3, <1>4 DEF LedgerIInv

-----------------------------------------------------------------------------
(* The theorem.                                                            *)

\* The invariant holds initially.
LEMMA LedgerInitInv == LedgerInit => LedgerIInv
<1> SUFFICES ASSUME LedgerInit PROVE LedgerIInv
  OBVIOUS
<1>1. Init /\ snap = NoSnap
  BY DEF LedgerInit
<1>2. RequestInv /\ ImportInv /\ KnownInv /\ WireInv /\ SnapInv
  BY <1>1, NoneState DEF Init, RequestInv, ImportInv, KnownInv, WireInv, SnapInv
<1>3. ExportsInv /\ LendersInv /\ MappingAt
  BY <1>1 DEF Init, ExportsInv, LendersInv, MappingAt, MappedIsLent
<1> QED BY <1>2, <1>3 DEF LedgerIInv

\* Every step keeps the invariant.
LEMMA LedgerStepInv ==
    ASSUME Quiet
    PROVE  LedgerIInv /\ [LedgerNext]_ledgerVars => LedgerIInv'
<1> SUFFICES ASSUME LedgerIInv, [LedgerNext]_ledgerVars PROVE LedgerIInv'
  OBVIOUS
<1>1. CASE Protocol
  <2>1. snap = NoSnap /\ UNCHANGED <<ready, snap>>
    BY <1>1 DEF Protocol, Undisturbed, Quiet
  <2>2. CASE \E r \in Borrows, e \in Exporters : Borrow(r, e)
    BY <2>1, <2>2, BorrowSafe DEF Borrow
  <2>3. CASE \E r \in Returns : Return(r)
    BY <2>1, <2>3, ReturnSafe DEF Return
  <2>4. CASE \E r \in Requests : Refuse(r)
    BY <2>1, <2>4, RefusedSafe DEF Refuse, agents
  <2>5. CASE \E m \in msgs : Handle(m)
    BY <2>1, <2>5, HandleSafe
  <2> QED BY <1>1, <2>2, <2>3, <2>4, <2>5 DEF Protocol
<1>2. CASE \E n \in Nodes : CollectAllLedger(n) \/ LoadLocalAllObjs(n)
  BY <1>2, CollectSafe, RestartSafe
<1>3. CASE FdBorrowLedger
  BY <1>3, ExportLedgerSafe, ImportLedgerSafe DEF FdBorrowLedger
<1>4. CASE TakeOver
  BY <1>4, TakeOverSafe
<1>5. CASE Reboot
  BY <1>5, RebootSafe
<1>6. CASE UNCHANGED ledgerVars
  <2>1. UNCHANGED <<mImp, mExp, mIdx, aImp, aExp, mapped, lent, msgs, todo, answers,
                    ready, snap>>
    BY <1>6 DEF ledgerVars, vars, ledger, hardware
  <2>2. RequestInv' /\ ExportsInv' /\ ImportInv' /\ LendersInv' /\ MappingAt' /\ KnownInv'
    BY <2>1 DEF LedgerIInv, RequestInv, ExportsInv, ImportInv, LendersInv, MappingAt,
                MappedIsLent, KnownInv, TakenUp
  <2>3. WireInv'
    BY <2>1 DEF LedgerIInv, WireInv, MessageAt, TakenUp, Busy, FoundExport, Open
  <2>4. SnapInv'
    BY <2>1 DEF LedgerIInv, SnapInv, MasterObj, AgentObj
  <2> QED BY <2>2, <2>3, <2>4 DEF LedgerIInv
<1> QED BY <1>1, <1>2, <1>3, <1>4, <1>5, <1>6 DEF LedgerNext

\* The invariant holds in every behaviour with quiet reconciliations.
THEOREM LedgerInvariant == ASSUME Quiet PROVE LedgerSpec => []LedgerIInv
<1>1. LedgerInit => LedgerIInv
  BY LedgerInitInv
<1>2. LedgerIInv /\ [LedgerNext]_ledgerVars => LedgerIInv'
  BY LedgerStepInv
<1> QED BY <1>1, <1>2, PTL DEF LedgerSpec

\* Memory that is mapped stays exported (FdUnExportExecutor, DeleteFdExport)
\* through any number of takeovers, restarts, reboots, failed collections and
\* reconciliations, in any order, and through every failure of the protocol,
\* if nothing else happens during a reconciliation.
THEOREM LedgerMappedIsLent == ASSUME Quiet PROVE LedgerSpec => []MappedIsLent
<1>1. LedgerIInv => MappedIsLent
  BY DEF LedgerIInv, MappingAt
<1> QED BY <1>1, LedgerInvariant, PTL
=============================================================================
