--------------------------- MODULE FdBorrowProofs ---------------------------
(***************************************************************************)
(* Theorems about FdBorrow, for any exporters, any number of requests and  *)
(* any number of faults.                                                   *)
(***************************************************************************)
EXTENDS FdBorrow, FiniteSetTheorems, TLAPS

-----------------------------------------------------------------------------
(* The inductive invariant.  When the client is patient and no message is  *)
(* doubled or delivered after its send was given up, the protocol hands    *)
(* one message around; what it says is true of the ledgers, the hardware   *)
(* and the request it belongs to.                                          *)

\* The network that the protocol is safe on.
Calm == Patient /\ FaultKinds \cap {"late", "dup"} = {}

\* The request r was taken up and is not answered yet.
Open(r) == r \notin todo /\ answers[r] = {}

\* The master's ledger: one export object, on the node it says and the index
\* finds; an import object has its export object.
LedgerInv ==
    /\ \A e \in Exporters : mExp[e] # NoObj => mExp[e].exporter = e /\ mIdx = e
    /\ mIdx # None => mExp[mIdx] # NoObj
    /\ mImp # NoObj =>
          mImp.state # "IMPORT_DESTROYED" /\ mExp[mImp.exporter] # NoObj
    /\ mImp.state \in {"EXPORT_RUNNING", "IMPORT_RUNNING"} =>
          mExp[mImp.exporter].returnReq = None
    /\ \A r \in todo : answers[r] = {}

\* The importer's ledger tells what is mapped, and the master knows of it.
MappingInv ==
    /\ aImp = NoObj <=> mapped = None
    /\ mapped # None => mapped \in lent /\ mImp # NoObj

\* An export or unexport is under way: nothing is mapped.
ExportMsgInv(m) ==
    /\ mapped = None
    /\ mExp[m.exporter] # NoObj
    /\ \/ /\ m.expectState = "EXPORT_SUCCESS"
          /\ m.state \in {"EXPORT_RUNNING", "EXPORT_SUCCESS", "EXPORT_DESTROYED"}
          /\ mImp.state = "EXPORT_RUNNING" /\ mImp.exporter = m.exporter
          /\ mImp.requestId = m.requestId
          /\ m.state = "EXPORT_SUCCESS" => m.exporter \in lent
          /\ m.requestId \in Borrows /\ Open(m.requestId) /\ m.returnReq = None
       \/ /\ m.expectState = "EXPORT_DESTROYED"
          /\ m.state \in {"EXPORT_DESTROYING", "EXPORT_SUCCESS", "EXPORT_DESTROYED"}
          /\ mImp = NoObj
          /\ m.returnReq # None => Open(m.returnReq)
          /\ m.returnReq = None => mExp[m.exporter].state = "EXPORT_DESTROYING"

\* An import or unimport is under way.
ImportMsgInv(m) ==
    /\ mImp # NoObj /\ mImp.exporter = m.exporter
    /\ Open(m.requestId)
    /\ m.state = "IMPORT_DESTROYED" => mapped = None
    /\ \/ /\ m.expectState = "IMPORT_SUCCESS"
          /\ m.state \in {"IMPORT_RUNNING", "IMPORT_SUCCESS", "IMPORT_DESTROYED"}
          /\ mImp.state = "IMPORT_RUNNING"
          /\ m.requestId \in Borrows
          /\ m.state = "IMPORT_RUNNING" =>
                mapped = None /\ m.obmm = m.exporter /\ m.exporter \in lent
          /\ m.state = "IMPORT_SUCCESS" => mapped # None
       \/ /\ m.expectState = "IMPORT_DESTROYED"
          /\ m.state \in {"IMPORT_DESTROYING", "IMPORT_DESTROYED", "IMPORT_ABNORMAL"}
          /\ mImp.state = "IMPORT_DESTROYING"
          /\ m.requestId \in Returns /\ m.returnReq = m.requestId

\* A message carries no report flags.
Plain(m) == ~m.created /\ ~m.destroyed

MsgInv ==
    /\ \A m, n \in msgs : m = n
    /\ \A m \in msgs : Plain(m)
    /\ \A m \in msgs : IF m.side = "export" THEN ExportMsgInv(m) ELSE ImportMsgInv(m)

\* The exporters with memory lent are those the master has an object of, save
\* where the message under way says otherwise.
LentInv ==
    /\ \A e \in Exporters : e \in lent <=> aExp[e] # NoObj
    /\ \A e \in Exporters : aExp[e] # NoObj => aExp[e].state = "EXPORT_SUCCESS"
    /\ \A e \in Exporters : (\A m \in msgs : m.side = "import" \/ m.exporter # e) =>
          (e \in lent <=> mExp[e] # NoObj)
    /\ \A m \in msgs : m.side = "export" =>
          /\ m.exporter \in lent <=> m.state \in {"EXPORT_SUCCESS", "EXPORT_DESTROYING"}
          /\ m.expectState = "EXPORT_DESTROYED" => m.state # "EXPORT_SUCCESS"

\* The master waits for a message only while there is one, it does not take
\* that message for a repeated one, and the importer has what it had.
WaitInv ==
    /\ mImp.state = "EXPORT_RUNNING" => \E m \in msgs : m.side = "export"
    /\ mImp.state \in {"IMPORT_RUNNING", "IMPORT_DESTROYING"} =>
          \E m \in msgs : m.side = "import"
    /\ mImp.state \in {"IMPORT_SUCCESS", "IMPORT_ABNORMAL"} => mapped # None
    /\ \A m \in msgs : m.state \in {"IMPORT_DESTROYING", "IMPORT_ABNORMAL"} => mapped # None
    /\ \A e \in Exporters : mExp[e] # NoObj => ~mExp[e].destroyed
    /\ mImp.state = "EXPORT_RUNNING" => ~mExp[mImp.exporter].created
    /\ mImp.state = "IMPORT_RUNNING" => ~mImp.created
    /\ mImp.state = "IMPORT_DESTROYING" => ~mImp.destroyed

IInv ==
    /\ TypeOK
    /\ LedgerInv
    /\ MappingInv
    /\ MsgInv
    /\ ~debt => LentInv /\ WaitInv

-----------------------------------------------------------------------------
(* Lemmas: the objects and their copies.                                   *)

\* The fields of an object have their types.
LEMMA ObjectFields ==
    ASSUME NEW side, NEW S, NEW o \in Object(side, S)
    PROVE  /\ o.side = side /\ o.state \in S /\ o.expectState \in Expected
           /\ o.exporter \in Exporters /\ o.obmm \in Exporters \cup {None}
           /\ o.requestId \in Requests /\ o.returnReq \in Returns \cup {None}
           /\ o.created \in BOOLEAN /\ o.destroyed \in BOOLEAN
BY DEF Object

\* An object in a state of T is an object of the type with states T.
LEMMA ObjectStates ==
    ASSUME NEW side, NEW S, NEW T, NEW o \in Object(side, S), o.state \in T
    PROVE  o \in Object(side, T)
BY DEF Object

\* Setting the state of an object leaves its other fields alone.
LEMMA NewState ==
    ASSUME NEW side, NEW S, NEW o \in Object(side, S), NEW T, NEW s \in T
    PROVE  LET p == [o EXCEPT !.state = s]
           IN  /\ p \in Object(side, T)
               /\ p.state = s /\ p.side = o.side /\ p.expectState = o.expectState
               /\ p.exporter = o.exporter /\ p.obmm = o.obmm
               /\ p.requestId = o.requestId /\ p.returnReq = o.returnReq
               /\ p.created = o.created /\ p.destroyed = o.destroyed
BY DEF Object

\* Serialisation keeps everything but the report flags.
LEMMA WireFacts ==
    ASSUME NEW side, NEW S, NEW o \in Object(side, S)
    PROVE  /\ Wire(o) \in Object(side, S)
           /\ Wire(o).state = o.state /\ Wire(o).side = o.side
           /\ Wire(o).expectState = o.expectState
           /\ Wire(o).exporter = o.exporter /\ Wire(o).obmm = o.obmm
           /\ Wire(o).requestId = o.requestId /\ Wire(o).returnReq = o.returnReq
           /\ Plain(Wire(o))
BY DEF Object, Wire, Plain

\* An entry of a ledger is told from no entry by its state.
LEMMA MaybeObject ==
    ASSUME NEW side, NEW S, NEW o \in Object(side, S) \cup {NoObj}, "NONE" \notin S
    PROVE  /\ o = NoObj <=> o.state = "NONE"
           /\ o # NoObj => o \in Object(side, S)
BY ObjectFields DEF NoObj

\* No object has the state NONE.
LEMMA NoneState == NoObj.state = "NONE"
BY DEF NoObj

\* The message n is the object o with its state set to s.
Says(n, o, s) ==
    /\ n.side = o.side /\ n.state = s /\ n.expectState = o.expectState
    /\ n.exporter = o.exporter /\ n.obmm = o.obmm
    /\ n.requestId = o.requestId /\ n.returnReq = o.returnReq

\* The report of an agent that has brought the object o to state s.
ReportOf(o, s) == Wire([o EXCEPT !.state = s])

\* A report says what the message said, with the new state.
LEMMA ReportFacts ==
    ASSUME NEW side, NEW S, NEW o \in Object(side, S), NEW T, NEW s \in T
    PROVE  /\ ReportOf(o, s) \in Object(side, T) /\ Says(ReportOf(o, s), o, s)
           /\ Plain(ReportOf(o, s))
<1> DEFINE p == [o EXCEPT !.state = s]
<1>1. p \in Object(side, T) /\ Says(p, o, s)
  BY NewState DEF Says
<1> HIDE DEF p
<1>2. Wire(p) \in Object(side, T) /\ Says(Wire(p), o, s) /\ Plain(Wire(p))
  BY <1>1, WireFacts DEF Says
<1> QED BY <1>2 DEF p, ReportOf

\* What a report puts on the wire is an object.
LEMMA ReportTypes ==
    ASSUME NEW side, NEW S, NEW o \in Object(side, S), NEW T, NEW s \in T, NEW f
    PROVE  Reported([o EXCEPT !.state = s], f) \subseteq Object(side, T)
<1> DEFINE p == [o EXCEPT !.state = s]
<1>1. p \in Object(side, T)
  BY NewState
<1> HIDE DEF p
<1>2. Reported(p, f) \subseteq {Wire(p)} /\ Wire(p) \in Object(side, T)
  BY <1>1, WireFacts DEF Reported
<1> QED BY <1>2 DEF p

\* What the master puts on the wire is an object.
LEMMA SentTypes ==
    ASSUME NEW side, NEW S, NEW o \in Object(side, S), NEW f
    PROVE  Sent(o, f) \subseteq Object(side, S)
BY WireFacts DEF Sent

\* The master sends a faithful copy of its object, or nothing.
LEMMA SentFacts ==
    ASSUME NEW side, NEW S, NEW o \in Object(side, S), NEW f
    PROVE  /\ Wire(o) \in Object(side, S) /\ Says(Wire(o), o, o.state) /\ Plain(Wire(o))
           /\ Sent(o, f) = IF "lost" \in f THEN {} ELSE {Wire(o)}
<1>1. Wire(o) \in Object(side, S) /\ Says(Wire(o), o, o.state) /\ Plain(Wire(o))
  BY WireFacts DEF Says
<1>2. Sent(o, f) = IF "lost" \in f THEN {} ELSE {Wire(o)}
  BY DEF Sent
<1> QED BY <1>1, <1>2

-----------------------------------------------------------------------------
(* Lemmas: faults, messages, responses and the export objects.             *)

\* The faults of a step are of the kinds it can meet and stay within bounds;
\* work once left to reconciliation remains.
LEMMA FaultFacts ==
    ASSUME TypeOK, NEW kinds, NEW f \in Faults(kinds), Suffer(f)
    PROVE  /\ f \subseteq kinds /\ f \subseteq FaultKinds
           /\ faults' \in 0 .. MaxFaults /\ debt' \in BOOLEAN
           /\ ~debt' => ~debt /\ f \cap LeftToLedger = {}
<1>1. f \subseteq kinds /\ f \subseteq FaultKinds /\ faults + Cardinality(f) <= MaxFaults
  BY DEF Faults
<1>2. IsFiniteSet(f)
  <2>1. \A x : IsFiniteSet({x})
    BY FS_Singleton
  <2>2. \A A, B : IsFiniteSet(A) /\ IsFiniteSet(B) => IsFiniteSet(A \cup B)
    BY FS_Union
  <2> DEFINE L == {"refuse"} \cup {"alloc"} \cup {"cna"} \cup {"export"} \cup {"sign"}
                    \cup {"unexport"} \cup {"decoder"} \cup {"import"} \cup {"unimport"}
             N == {"lost"} \cup {"late"} \cup {"rollback"} \cup {"report"} \cup {"dup"}
  <2>3. IsFiniteSet(L) /\ IsFiniteSet(N)
    BY <2>1, <2>2, Zenon
  <2>4. LocalFaults = L /\ SendFaults = N
    BY DEF LocalFaults, SendFaults
  <2>5. IsFiniteSet(LocalFaults) /\ IsFiniteSet(SendFaults)
    BY <2>3, <2>4
  <2> QED BY <1>1, <2>2, <2>5, FS_Subset, FaultsAssumption
<1>3. Cardinality(f) \in Nat
  BY <1>2, FS_CardinalityType
<1>4. faults' \in 0 .. MaxFaults
  BY <1>1, <1>3, FaultsAssumption DEF Suffer, TypeOK
<1>5. debt' \in BOOLEAN /\ (~debt' => ~debt /\ f \cap LeftToLedger = {})
  BY Zenon DEF Suffer
<1> QED BY <1>1, <1>4, <1>5

\* On a calm network a failed send is a lost one and a message is taken once.
LEMMA CalmFacts ==
    ASSUME Calm, NEW f, f \subseteq FaultKinds
    PROVE  /\ "late" \notin f /\ "dup" \notin f
           /\ SendFails(f) <=> "lost" \in f
           /\ \A m : Rest(m, f) = msgs \ {m}
BY DEF Calm, SendFails, Rest

\* Messages are import or export objects.
LEMMA MessageSides ==
    ASSUME TypeOK, NEW m \in msgs
    PROVE  /\ m.side = "export" => m \in ExportObj
           /\ m.side = "import" => m \in ImportObj
           /\ m.side \in {"export", "import"}
BY ObjectFields DEF TypeOK, ImportObj, ExportObj

\* Taking a message adds none.
LEMMA RestFacts ==
    ASSUME NEW m, NEW f
    PROVE  Rest(m, f) \subseteq msgs
BY DEF Rest

\* A response adds one answer to one request.
LEMMA RespondFacts ==
    ASSUME TypeOK, NEW r \in Requests, NEW how \in {"ok", "fail"}, Respond(r, how)
    PROVE  /\ answers' \in [Requests -> SUBSET {"ok", "fail"}]
           /\ answers'[r] = answers[r] \cup {how}
           /\ \A q \in Requests : q # r => answers'[q] = answers[q]
BY DEF Respond, TypeOK

\* PutResource writes one export object and points the index at it.
LEMMA PutFacts ==
    ASSUME TypeOK, NEW e \in Exporters, NEW o \in ExportObj, PutExport(e, o)
    PROVE  /\ mExp' \in [Exporters -> ExportObj \cup {NoObj}]
           /\ mIdx' = e /\ mExp'[e] = o
           /\ \A d \in Exporters : d # e => mExp'[d] = mExp[d]
BY DEF PutExport, TypeOK

\* RemoveResource clears one export object, and the index if there was one.
LEMMA EraseFacts ==
    ASSUME TypeOK, NEW e \in Exporters, EraseFdExport(e)
    PROVE  /\ mExp' \in [Exporters -> ExportObj \cup {NoObj}]
           /\ mExp'[e] = NoObj
           /\ \A d \in Exporters : d # e => mExp'[d] = mExp[d]
           /\ mIdx' \in Exporters \cup {None}
           /\ mIdx' = IF mExp[e] # NoObj THEN None ELSE mIdx
BY DEF EraseFdExport, TypeOK

\* What the master's ledger holds is an object or nothing.
LEMMA LedgerFacts ==
    ASSUME TypeOK
    PROVE  /\ mImp = NoObj <=> mImp.state = "NONE"
           /\ mImp # NoObj => mImp \in ImportObj
           /\ \A e \in Exporters : /\ mExp[e] = NoObj <=> mExp[e].state = "NONE"
                                   /\ mExp[e] # NoObj => mExp[e] \in ExportObj
<1>1. "NONE" \notin ImportStates /\ "NONE" \notin ExportStates
  BY DEF ImportStates, ExportStates
<1>2. /\ mImp \in Object("import", ImportStates) \cup {NoObj}
      /\ \A e \in Exporters : mExp[e] \in Object("export", ExportStates) \cup {NoObj}
  BY DEF TypeOK, ImportObj, ExportObj
<1> QED BY <1>1, <1>2, MaybeObject DEF ImportObj, ExportObj

-----------------------------------------------------------------------------
(* Type correctness, which needs no assumption on the network.             *)

\* The variables start with their types.
LEMMA InitTypes == Init => TypeOK
<1> SUFFICES ASSUME Init PROVE TypeOK
  OBVIOUS
<1>1. faults \in 0 .. MaxFaults
  BY FaultsAssumption DEF Init
<1>2. /\ mExp \in [Exporters -> {NoObj}] /\ aExp \in [Exporters -> {NoObj}]
      /\ answers \in [Requests -> SUBSET {"ok", "fail"}]
  BY DEF Init
<1>3. /\ mExp \in [Exporters -> ExportObj \cup {NoObj}]
      /\ aExp \in [Exporters ->
            Object("export", {"EXPORT_RUNNING", "EXPORT_SUCCESS"}) \cup {NoObj}]
  BY <1>2
<1> QED BY <1>1, <1>2, <1>3 DEF Init, TypeOK

\* FdExportRunningAgentCallback keeps the types.
LEMMA ExportRunningTypes ==
    ASSUME TypeOK, NEW m \in ExportObj, m \in msgs, m.state = "EXPORT_RUNNING",
           FdExportRunning(m), UNCHANGED <<ledger, aImp, mapped, todo, answers>>
    PROVE  TypeOK'
<1> DEFINE e == m.exporter
           agent == {"EXPORT_RUNNING", "EXPORT_SUCCESS"}
<1>1. PICK f \in Faults({"export", "sign", "report", "dup"}) :
        /\ Suffer(f)
        /\ IF aExp[e].state = "EXPORT_SUCCESS"
           THEN f \subseteq {"dup"} /\ msgs' = Rest(m, f) /\ UNCHANGED <<aExp, lent>>
           ELSE \/ /\ aExp' = [aExp EXCEPT ![e] = NoObj]
                   /\ msgs' = Rest(m, f) \cup Reported([m EXCEPT !.state = "EXPORT_DESTROYED"], f)
                   /\ UNCHANGED lent
                \/ /\ aExp' = [aExp EXCEPT ![e] = m]
                   /\ lent' = lent \cup {e}
                   /\ msgs' = Rest(m, f) \cup Reported([m EXCEPT !.state = "EXPORT_DESTROYED"], f)
                \/ /\ aExp' = [aExp EXCEPT ![e] = [m EXCEPT !.state = "EXPORT_SUCCESS"]]
                   /\ lent' = lent \cup {e}
                   /\ msgs' = Rest(m, f) \cup Reported([m EXCEPT !.state = "EXPORT_SUCCESS"], f)
  BY DEF FdExportRunning
<1>2. faults' \in 0 .. MaxFaults /\ debt' \in BOOLEAN
  BY <1>1, FaultFacts
<1>3. e \in Exporters
  BY ObjectFields DEF ExportObj
<1>4. /\ m \in Object("export", agent)
      /\ [m EXCEPT !.state = "EXPORT_SUCCESS"] \in Object("export", agent)
  BY ObjectStates, NewState DEF ExportObj
<1>5. \A s \in {"EXPORT_SUCCESS", "EXPORT_DESTROYED"} :
         Reported([m EXCEPT !.state = s], f) \subseteq ExportObj
  BY ReportTypes DEF ExportObj, ExportStates
<1>6. msgs' \subseteq msgs \cup ExportObj
  BY <1>1, <1>5, RestFacts
<1>7. /\ aExp' \in [Exporters -> Object("export", agent) \cup {NoObj}]
      /\ lent' \subseteq Exporters
  BY <1>1, <1>3, <1>4 DEF TypeOK
<1> QED BY <1>2, <1>6, <1>7 DEF TypeOK, ledger

\* FdExportDestroyingAgentCallback keeps the types.
LEMMA ExportDestroyingTypes ==
    ASSUME TypeOK, NEW m \in ExportObj, m \in msgs,
           FdExportDestroying(m), UNCHANGED <<ledger, aImp, mapped, todo, answers>>
    PROVE  TypeOK'
<1> DEFINE e == m.exporter
           agent == {"EXPORT_RUNNING", "EXPORT_SUCCESS"}
<1>1. PICK f \in Faults({"unexport", "report", "dup"}) :
        /\ Suffer(f)
        /\ \/ /\ aExp' = [aExp EXCEPT ![e] = [m EXCEPT !.state = "EXPORT_SUCCESS"]]
              /\ msgs' = Rest(m, f) \cup Reported([m EXCEPT !.state = "EXPORT_SUCCESS"], f)
              /\ UNCHANGED lent
           \/ /\ aExp' = [aExp EXCEPT ![e] = NoObj]
              /\ lent' \subseteq lent
              /\ msgs' = Rest(m, f) \cup Reported([m EXCEPT !.state = "EXPORT_DESTROYED"], f)
  BY DEF FdExportDestroying
<1>2. faults' \in 0 .. MaxFaults /\ debt' \in BOOLEAN
  BY <1>1, FaultFacts
<1>3. e \in Exporters /\ [m EXCEPT !.state = "EXPORT_SUCCESS"] \in Object("export", agent)
  BY ObjectFields, NewState DEF ExportObj
<1>5. \A s \in {"EXPORT_SUCCESS", "EXPORT_DESTROYED"} :
         Reported([m EXCEPT !.state = s], f) \subseteq ExportObj
  BY ReportTypes DEF ExportObj, ExportStates
<1>6. msgs' \subseteq msgs \cup ExportObj
  BY <1>1, <1>5, RestFacts
<1>7. /\ aExp' \in [Exporters -> Object("export", agent) \cup {NoObj}]
      /\ lent' \subseteq Exporters
  BY <1>1, <1>3 DEF TypeOK
<1> QED BY <1>2, <1>6, <1>7 DEF TypeOK, ledger

\* FdImportRunningCallback keeps the types.
LEMMA ImportRunningTypes ==
    ASSUME TypeOK, NEW m \in ImportObj, m \in msgs,
           FdImportRunning(m), UNCHANGED <<ledger, aExp, lent, todo, answers>>
    PROVE  TypeOK'
<1> DEFINE R(s, f) == Reported([m EXCEPT !.state = s], f)
           agent == {"IMPORT_SUCCESS", "IMPORT_ABNORMAL"}
<1>1. PICK f \in Faults({"decoder", "import", "report", "dup"}) :
        /\ Suffer(f)
        /\ \/ msgs' = Rest(m, f) /\ UNCHANGED <<aImp, mapped>>
           \/ /\ aImp' = [m EXCEPT !.state = "IMPORT_SUCCESS"]
              /\ mapped' = m.obmm
              /\ msgs' = Rest(m, f) \cup R("IMPORT_SUCCESS", f)
           \/ /\ aImp' = NoObj
              /\ msgs' = Rest(m, f) \cup R("IMPORT_DESTROYED", f)
              /\ UNCHANGED mapped
           \/ /\ msgs' = Rest(m, f) \cup R("IMPORT_DESTROYED", f)
              /\ UNCHANGED <<aImp, mapped>>
  BY DEF FdImportRunning
<1>2. faults' \in 0 .. MaxFaults /\ debt' \in BOOLEAN
  BY <1>1, FaultFacts
<1>3. /\ m.obmm \in Exporters \cup {None}
      /\ [m EXCEPT !.state = "IMPORT_SUCCESS"] \in Object("import", agent)
  BY ObjectFields, NewState DEF ImportObj
<1>4. "IMPORT_SUCCESS" \in ImportStates /\ "IMPORT_DESTROYED" \in ImportStates
  BY DEF ImportStates
<1>5. R("IMPORT_SUCCESS", f) \cup R("IMPORT_DESTROYED", f) \subseteq ImportObj
  BY <1>4, ReportTypes DEF ImportObj
<1>6. msgs' \subseteq msgs \cup ImportObj
  BY <1>1, <1>5, RestFacts
<1>7. /\ aImp' \in Object("import", agent) \cup {NoObj}
      /\ mapped' \in Exporters \cup {None}
  BY <1>1, <1>3 DEF TypeOK
<1> QED BY <1>2, <1>6, <1>7 DEF TypeOK, ledger

\* FdImportDestroyingAgentCallback keeps the types.
LEMMA ImportDestroyingTypes ==
    ASSUME TypeOK, NEW m \in ImportObj, m \in msgs,
           FdImportDestroying(m), UNCHANGED <<ledger, aExp, lent, todo, answers>>
    PROVE  TypeOK'
<1> DEFINE R(s, f) == Reported([m EXCEPT !.state = s], f)
           agent == {"IMPORT_SUCCESS", "IMPORT_ABNORMAL"}
<1>1. PICK f \in Faults({"unimport", "report", "dup"}) :
        /\ Suffer(f)
        /\ \/ /\ aImp' = [m EXCEPT !.state = "IMPORT_ABNORMAL"]
              /\ msgs' = Rest(m, f) \cup R("IMPORT_ABNORMAL", f)
              /\ UNCHANGED mapped
           \/ /\ aImp' = NoObj
              /\ mapped' \in {mapped, None}
              /\ msgs' = Rest(m, f) \cup R("IMPORT_DESTROYED", f)
  BY DEF FdImportDestroying
<1>2. faults' \in 0 .. MaxFaults /\ debt' \in BOOLEAN
  BY <1>1, FaultFacts
<1>3. [m EXCEPT !.state = "IMPORT_ABNORMAL"] \in Object("import", agent)
  BY NewState DEF ImportObj
<1>5. \A s \in {"IMPORT_ABNORMAL", "IMPORT_DESTROYED"} : R(s, f) \subseteq ImportObj
  BY ReportTypes DEF ImportObj, ImportStates
<1>6. msgs' \subseteq msgs \cup ImportObj
  BY <1>1, <1>5, RestFacts
<1>7. /\ aImp' \in Object("import", agent) \cup {NoObj}
      /\ mapped' \in Exporters \cup {None}
  BY <1>1, <1>3 DEF TypeOK
<1> QED BY <1>2, <1>6, <1>7 DEF TypeOK, ledger

\* UbseMemFdBorrow keeps the types.
LEMMA BorrowTypes ==
    ASSUME TypeOK, NEW r \in Borrows, NEW e \in Exporters, UbseMemFdBorrow(r, e)
    PROVE  TypeOK'
<1> DEFINE x == [side |-> "export", state |-> "EXPORT_RUNNING",
                 expectState |-> "EXPORT_SUCCESS", exporter |-> e, obmm |-> e,
                 requestId |-> r, returnReq |-> None,
                 created |-> FALSE, destroyed |-> FALSE]
           i == [x EXCEPT !.side = "import", !.obmm = None]
<1>1. PICK f \in Faults({"refuse", "alloc", "lost", "late"}) :
        /\ todo' = todo \ {r}
        /\ Suffer(f)
        /\ \/ Respond(r, "fail") /\ UNCHANGED <<ledger, msgs>>
           \/ /\ msgs' = msgs \cup Sent(x, f)
              /\ \/ /\ mExp' = [mExp EXCEPT ![e] = NoObj]
                    /\ mIdx' = None
                    /\ Respond(r, "fail")
                    /\ UNCHANGED mImp
                 \/ PutExport(e, x) /\ mImp' = i /\ NoResponse
        /\ UNCHANGED <<aImp, aExp, hardware>>
  BY DEF UbseMemFdBorrow
<1>2. faults' \in 0 .. MaxFaults /\ debt' \in BOOLEAN
  BY <1>1, FaultFacts
<1>3. x \in ExportObj /\ i \in ImportObj
  BY DEF ExportObj, ImportObj, Object, ExportStates, ImportStates, Expected, Requests
<1> HIDE DEF x, i
<1>4. Sent(x, f) \subseteq ExportObj
  BY <1>3, SentTypes DEF ExportObj
<1>5. msgs' \subseteq msgs \cup ExportObj
  BY <1>1, <1>4 DEF ledger
<1>6. answers' \in [Requests -> SUBSET {"ok", "fail"}]
  BY <1>1, RespondFacts DEF NoResponse, TypeOK, Requests
<1>7. /\ mExp' \in [Exporters -> ExportObj \cup {NoObj}]
      /\ mIdx' \in Exporters \cup {None}
      /\ mImp' \in ImportObj \cup {NoObj}
  BY <1>1, <1>3, PutFacts DEF TypeOK, ledger
<1> QED BY <1>1, <1>2, <1>5, <1>6, <1>7 DEF TypeOK, hardware

\* UbseMemFdReturn keeps the types.
LEMMA ReturnTypes ==
    ASSUME TypeOK, NEW r \in Returns, UbseMemFdReturn(r)
    PROVE  TypeOK'
<1> DEFINE x == [FoundExport EXCEPT !.state = "EXPORT_DESTROYING",
                                    !.expectState = "EXPORT_DESTROYED",
                                    !.requestId = r, !.returnReq = r,
                                    !.destroyed = FALSE]
           y == [x EXCEPT !.state = "EXPORT_SUCCESS"]
           i == [mImp EXCEPT !.state = "IMPORT_DESTROYING",
                             !.expectState = "IMPORT_DESTROYED",
                             !.requestId = r, !.returnReq = r,
                             !.destroyed = FALSE]
           j == [i EXCEPT !.state = "IMPORT_SUCCESS"]
<1>1. PICK f \in Faults({"refuse", "lost", "late"}) :
        /\ todo' = todo \ {r}
        /\ Suffer(f)
        /\ \/ Respond(r, "fail") /\ UNCHANGED <<ledger, msgs>>
           \/ /\ FoundExport # NoObj
              /\ msgs' = msgs \cup Sent(x, f)
              /\ UNCHANGED mImp
              /\ \/ PutExport(x.exporter, y) /\ Respond(r, "fail")
                 \/ NoResponse /\ UNCHANGED <<mExp, mIdx>>
           \/ /\ mImp # NoObj
              /\ msgs' = msgs \cup Sent(i, f)
              /\ UNCHANGED <<mExp, mIdx>>
              /\ \/ mImp' = j /\ Respond(r, "fail")
                 \/ mImp' = i /\ NoResponse
        /\ UNCHANGED <<aImp, aExp, hardware>>
  BY DEF UbseMemFdReturn, Returnable, HandleSingleExportReturn, FdReturnExistImport
<1>2. faults' \in 0 .. MaxFaults /\ debt' \in BOOLEAN
  BY <1>1, FaultFacts
<1>r. r \in Requests /\ "EXPORT_DESTROYED" \in Expected /\ "IMPORT_DESTROYED" \in Expected
  BY DEF Requests, Expected
<1>3. FoundExport # NoObj => x \in ExportObj /\ y \in ExportObj
  <2> HAVE FoundExport # NoObj
  <2>1. FoundExport \in ExportObj
    BY LedgerFacts DEF FoundExport, TypeOK
  <2>2. "EXPORT_DESTROYING" \in ExportStates /\ "EXPORT_SUCCESS" \in ExportStates
    BY DEF ExportStates
  <2>3. x \in ExportObj
    BY <2>1, <2>2, <1>r DEF ExportObj, Object
  <2> HIDE DEF x
  <2>4. y \in ExportObj
    BY <2>2, <2>3, NewState DEF ExportObj
  <2> QED BY <2>3, <2>4
<1>4. mImp # NoObj => i \in ImportObj /\ j \in ImportObj
  <2> HAVE mImp # NoObj
  <2>1. mImp \in ImportObj
    BY DEF TypeOK
  <2>2. "IMPORT_DESTROYING" \in ImportStates /\ "IMPORT_SUCCESS" \in ImportStates
    BY DEF ImportStates
  <2>3. i \in ImportObj
    BY <2>1, <2>2, <1>r DEF ImportObj, Object
  <2> HIDE DEF i
  <2>4. j \in ImportObj
    BY <2>2, <2>3, NewState DEF ImportObj
  <2> QED BY <2>3, <2>4
<1> HIDE DEF x, y, i, j
<1>5. FoundExport # NoObj => Sent(x, f) \subseteq ExportObj /\ x.exporter \in Exporters
  BY <1>3, SentTypes, ObjectFields DEF ExportObj
<1>6. mImp # NoObj => Sent(i, f) \subseteq ImportObj
  BY <1>4, SentTypes DEF ImportObj
<1>7. msgs' \subseteq msgs \cup ExportObj \cup ImportObj
  BY <1>1, <1>5, <1>6
<1>8. answers' \in [Requests -> SUBSET {"ok", "fail"}]
  BY <1>1, <1>r, RespondFacts DEF NoResponse, TypeOK
<1>9. /\ mExp' \in [Exporters -> ExportObj \cup {NoObj}]
      /\ mIdx' \in Exporters \cup {None}
      /\ mImp' \in ImportObj \cup {NoObj}
  BY <1>1, <1>3, <1>4, <1>5, PutFacts DEF TypeOK, ledger
<1> QED BY <1>1, <1>2, <1>7, <1>8, <1>9 DEF TypeOK, hardware

\* DestroyExport writes the export object, with the state its send leaves.
LEMMA DestroyFacts ==
    ASSUME TypeOK, NEW o \in ExportObj, NEW m, NEW f, DestroyExport(o, m, f)
    PROVE  /\ mExp' \in [Exporters -> ExportObj \cup {NoObj}]
           /\ mIdx' = o.exporter /\ o.exporter \in Exporters
           /\ mExp'[o.exporter] \in ExportObj
           /\ Says(mExp'[o.exporter], o, IF SendFails(f) THEN "EXPORT_SUCCESS" ELSE o.state)
           /\ mExp'[o.exporter].destroyed = o.destroyed
           /\ mExp'[o.exporter].created = o.created
           /\ \A d \in Exporters : d # o.exporter => mExp'[d] = mExp[d]
           /\ msgs' = Rest(m, f) \cup Sent(o, f)
<1> DEFINE p == [o EXCEPT !.state = IF SendFails(f) THEN "EXPORT_SUCCESS" ELSE o.state]
<1>1. o.exporter \in Exporters /\ o.state \in ExportStates /\ "EXPORT_SUCCESS" \in ExportStates
  BY ObjectFields DEF ExportObj, ExportStates
<1>2. /\ p \in ExportObj
      /\ Says(p, o, IF SendFails(f) THEN "EXPORT_SUCCESS" ELSE o.state)
      /\ p.destroyed = o.destroyed /\ p.created = o.created
  BY <1>1, NewState DEF ExportObj, Says
<1>3. PutExport(o.exporter, p) /\ msgs' = Rest(m, f) \cup Sent(o, f)
  BY DEF DestroyExport
<1> HIDE DEF p
<1> QED BY <1>1, <1>2, <1>3, PutFacts

\* FdExportExpectSuccessMasterCallback keeps the types.
LEMMA ExportExpectSuccessTypes ==
    ASSUME TypeOK, NEW m \in ExportObj, m \in msgs, mImp # NoObj,
           FdExportExpectSuccess(m), UNCHANGED <<aImp, aExp, hardware, todo>>
    PROVE  TypeOK'
<1> DEFINE x == [m EXCEPT !.created = TRUE]
           u == [x EXCEPT !.state = "EXPORT_DESTROYING",
                          !.expectState = "EXPORT_DESTROYED"]
           i == [mImp EXCEPT !.state = "IMPORT_RUNNING",
                             !.expectState = "IMPORT_SUCCESS",
                             !.obmm = m.exporter, !.created = FALSE]
<1>0. PICK f \in Faults({"cna", "lost", "late", "rollback", "dup"}) :
        /\ Suffer(f)
        /\ \/ msgs' = Rest(m, f) /\ NoResponse /\ UNCHANGED ledger
           \/ /\ PutExport(m.exporter, x)
              /\ mImp' = i
              /\ msgs' = Rest(m, f) \cup Sent(i, f)
              /\ NoResponse
           \/ FdExportRollback(x, m, IF "cna" \in f THEN {} ELSE Sent(i, f), f)
           \/ /\ EraseFdExport(m.exporter)
              /\ mImp' = NoObj
              /\ msgs' = Rest(m, f)
              /\ Respond(m.requestId, "fail")
  BY DEF FdExportExpectSuccess
<1>1. /\ Suffer(f)
      /\ \/ msgs' = Rest(m, f) /\ NoResponse /\ UNCHANGED ledger
         \/ /\ PutExport(m.exporter, x)
            /\ mImp' = i
            /\ msgs' = Rest(m, f) \cup Sent(i, f)
            /\ NoResponse
         \/ /\ PutExport(x.exporter, u)
            /\ mImp' = NoObj
            /\ msgs' \subseteq Rest(m, f) \cup Sent(i, f) \cup {Wire(u)}
            /\ Respond(x.requestId, "fail")
         \/ /\ EraseFdExport(m.exporter)
            /\ mImp' = NoObj
            /\ msgs' = Rest(m, f)
            /\ Respond(m.requestId, "fail")
  BY <1>0 DEF FdExportRollback
<1>2. faults' \in 0 .. MaxFaults /\ debt' \in BOOLEAN
  BY <1>1, FaultFacts
<1>3. m.exporter \in Exporters /\ m.requestId \in Requests
  BY ObjectFields DEF ExportObj
<1>4. /\ x \in ExportObj /\ x.exporter = m.exporter /\ x.requestId = m.requestId
      /\ u \in ExportObj
  BY DEF ExportObj, Object, ExportStates, Expected
<1>5. i \in ImportObj
  <2>1. mImp \in ImportObj
    BY DEF TypeOK
  <2> QED BY <2>1, <1>3 DEF ImportObj, Object, ImportStates, Expected
<1> HIDE DEF x, u, i
<1>6. Sent(i, f) \subseteq ImportObj /\ Wire(u) \in ExportObj
  BY <1>4, <1>5, SentTypes, WireFacts DEF ImportObj, ExportObj
<1>7. msgs' \subseteq msgs \cup ImportObj \cup ExportObj
  BY <1>1, <1>6, RestFacts
<1>8. answers' \in [Requests -> SUBSET {"ok", "fail"}]
  BY <1>1, <1>3, <1>4, RespondFacts DEF NoResponse, TypeOK
<1>9. /\ mExp' \in [Exporters -> ExportObj \cup {NoObj}]
      /\ mIdx' \in Exporters \cup {None}
      /\ mImp' \in ImportObj \cup {NoObj}
  BY <1>1, <1>3, <1>4, <1>5, PutFacts, EraseFacts DEF TypeOK, ledger
<1> QED BY <1>2, <1>7, <1>8, <1>9 DEF TypeOK, hardware

\* FdExportExpectDestroyMasterCallback keeps the types.
LEMMA ExportExpectDestroyTypes ==
    ASSUME TypeOK, NEW m \in ExportObj, m \in msgs,
           FdExportExpectDestroy(m), UNCHANGED <<aImp, aExp, hardware, todo>>
    PROVE  TypeOK'
<1> DEFINE x == [m EXCEPT !.destroyed = TRUE]
<1>1. PICK f \in Faults({"dup"}) :
        /\ Suffer(f)
        /\ msgs' = Rest(m, f)
        /\ UNCHANGED mImp
        /\ \/ NoResponse
           \/ m.returnReq # None /\ Respond(m.returnReq, "fail")
           \/ m.returnReq # None /\ Respond(m.returnReq, "ok")
        /\ \/ UNCHANGED <<mExp, mIdx>>
           \/ PutExport(m.exporter, x)
           \/ EraseFdExport(m.exporter)
  BY DEF FdExportExpectDestroy
<1>2. faults' \in 0 .. MaxFaults /\ debt' \in BOOLEAN
  BY <1>1, FaultFacts
<1>3. /\ m.exporter \in Exporters
      /\ m.returnReq # None => m.returnReq \in Requests
  BY ObjectFields DEF ExportObj, Requests
<1>4. x \in ExportObj
  BY DEF ExportObj, Object
<1> HIDE DEF x
<1>8. answers' \in [Requests -> SUBSET {"ok", "fail"}]
  BY <1>1, <1>3, RespondFacts DEF NoResponse, TypeOK
<1>9. /\ mExp' \in [Exporters -> ExportObj \cup {NoObj}]
      /\ mIdx' \in Exporters \cup {None}
  BY <1>1, <1>3, <1>4, PutFacts, EraseFacts DEF TypeOK
<1> QED BY <1>1, <1>2, <1>8, <1>9, RestFacts DEF TypeOK, hardware

\* FdImportExpectSuccessMasterCallback keeps the types.
LEMMA ImportExpectSuccessTypes ==
    ASSUME TypeOK, NEW m \in ImportObj, m \in msgs,
           FdImportExpectSuccess(m), UNCHANGED <<aImp, aExp, hardware, todo>>
    PROVE  TypeOK'
<1> DEFINE o == mExp[m.exporter]
           u == [o EXCEPT !.state = "EXPORT_DESTROYING",
                          !.expectState = "EXPORT_DESTROYED",
                          !.requestId = m.requestId]
           i == [m EXCEPT !.created = TRUE]
<1>1. PICK f \in Faults({"lost", "late", "dup"}) :
        /\ Suffer(f)
        /\ \/ NoResponse \/ Respond(m.requestId, "ok") \/ Respond(m.requestId, "fail")
        /\ \/ msgs' = Rest(m, f) /\ UNCHANGED ledger
           \/ msgs' = Rest(m, f) /\ mImp' = i /\ UNCHANGED <<mExp, mIdx>>
           \/ o # NoObj /\ mImp' = NoObj /\ DestroyExport(u, m, f)
           \/ msgs' = Rest(m, f) /\ mImp' = NoObj /\ UNCHANGED <<mExp, mIdx>>
  BY DEF FdImportExpectSuccess
<1>2. faults' \in 0 .. MaxFaults /\ debt' \in BOOLEAN
  BY <1>1, FaultFacts
<1>3. m.exporter \in Exporters /\ m.requestId \in Requests
  BY ObjectFields DEF ImportObj
<1>4. o # NoObj => u \in ExportObj
  BY <1>3, LedgerFacts DEF ExportObj, Object, ExportStates, Expected
<1>5. i \in ImportObj
  BY DEF ImportObj, Object
<1> HIDE DEF o, u, i
<1>6. o # NoObj => Sent(u, f) \subseteq ExportObj
  BY <1>4, SentTypes DEF ExportObj
<1>7. /\ msgs' \subseteq msgs \cup ExportObj
      /\ mExp' \in [Exporters -> ExportObj \cup {NoObj}]
      /\ mIdx' \in Exporters \cup {None}
      /\ mImp' \in ImportObj \cup {NoObj}
  BY <1>1, <1>4, <1>5, <1>6, RestFacts, DestroyFacts DEF TypeOK, ledger
<1>8. answers' \in [Requests -> SUBSET {"ok", "fail"}]
  BY <1>1, <1>3, RespondFacts DEF NoResponse, TypeOK
<1> QED BY <1>2, <1>7, <1>8 DEF TypeOK, hardware

\* FdImportExpectDestroyMasterCallback keeps the types.
LEMMA ImportExpectDestroyTypes ==
    ASSUME TypeOK, NEW m \in ImportObj, m \in msgs,
           FdImportExpectDestroy(m), UNCHANGED <<aImp, aExp, hardware, todo>>
    PROVE  TypeOK'
<1> DEFINE o == mExp[m.exporter]
           u == [o EXCEPT !.state = "EXPORT_DESTROYING",
                          !.expectState = "EXPORT_DESTROYED",
                          !.requestId = m.requestId,
                          !.returnReq = m.returnReq,
                          !.destroyed = FALSE]
           i == [m EXCEPT !.destroyed = TRUE]
<1>1. PICK f \in Faults({"refuse", "lost", "late", "dup"}) :
        /\ Suffer(f)
        /\ \/ NoResponse \/ Respond(m.requestId, "ok") \/ Respond(m.requestId, "fail")
        /\ \/ msgs' = Rest(m, f) /\ UNCHANGED ledger
           \/ msgs' = Rest(m, f) /\ mImp' = i /\ UNCHANGED <<mExp, mIdx>>
           \/ o # NoObj /\ mImp' = NoObj /\ DestroyExport(u, m, f)
           \/ msgs' = Rest(m, f) /\ mImp' = NoObj /\ UNCHANGED <<mExp, mIdx>>
  BY DEF FdImportExpectDestroy, FdImportExpectDestroySuccessPath
<1>2. faults' \in 0 .. MaxFaults /\ debt' \in BOOLEAN
  BY <1>1, FaultFacts
<1>3. /\ m.exporter \in Exporters /\ m.requestId \in Requests
      /\ m.returnReq \in Returns \cup {None}
  BY ObjectFields DEF ImportObj
<1>4. o # NoObj => u \in ExportObj
  BY <1>3, LedgerFacts DEF ExportObj, Object, ExportStates, Expected
<1>5. i \in ImportObj
  BY DEF ImportObj, Object
<1> HIDE DEF o, u, i
<1>6. o # NoObj => Sent(u, f) \subseteq ExportObj
  BY <1>4, SentTypes DEF ExportObj
<1>7. /\ msgs' \subseteq msgs \cup ExportObj
      /\ mExp' \in [Exporters -> ExportObj \cup {NoObj}]
      /\ mIdx' \in Exporters \cup {None}
      /\ mImp' \in ImportObj \cup {NoObj}
  BY <1>1, <1>4, <1>5, <1>6, RestFacts, DestroyFacts DEF TypeOK, ledger
<1>8. answers' \in [Requests -> SUBSET {"ok", "fail"}]
  BY <1>1, <1>3, RespondFacts DEF NoResponse, TypeOK
<1> QED BY <1>2, <1>7, <1>8 DEF TypeOK, hardware

\* Every step keeps the types.
LEMMA TypeStep == TypeOK /\ [Next]_vars => TypeOK'
<1> SUFFICES ASSUME TypeOK, [Next]_vars PROVE TypeOK'
  OBVIOUS
<1>1. CASE UNCHANGED vars
  BY <1>1 DEF TypeOK, vars, ledger, hardware, failures
<1>2. ASSUME NEW r \in Borrows, NEW e \in Exporters, UbseMemFdBorrow(r, e) PROVE TypeOK'
  BY <1>2, BorrowTypes
<1>3. ASSUME NEW r \in Returns, UbseMemFdReturn(r) PROVE TypeOK'
  BY <1>3, ReturnTypes
<1>4. ASSUME NEW m \in msgs, FdExportAgentCallback(m) PROVE TypeOK'
  <2>1. m \in ExportObj
    BY <1>4, MessageSides DEF FdExportAgentCallback
  <2> QED BY <1>4, <2>1, ExportRunningTypes, ExportDestroyingTypes DEF FdExportAgentCallback
<1>5. ASSUME NEW m \in msgs, FdImportAgentCallback(m) PROVE TypeOK'
  <2>1. m \in ImportObj
    BY <1>5, MessageSides DEF FdImportAgentCallback
  <2> QED BY <1>5, <2>1, ImportRunningTypes, ImportDestroyingTypes DEF FdImportAgentCallback
<1>6. ASSUME NEW m \in msgs, FdExportMasterCallback(m) PROVE TypeOK'
  <2>1. m \in ExportObj
    BY <1>6, MessageSides DEF FdExportMasterCallback
  <2>2. ASSUME NEW f \in Faults({"dup"}), Suffer(f), msgs' = Rest(m, f),
               UNCHANGED <<ledger, answers>>, UNCHANGED <<aImp, aExp, hardware, todo>>
        PROVE TypeOK'
    <3>1. msgs' \subseteq msgs /\ faults' \in 0 .. MaxFaults /\ debt' \in BOOLEAN
      BY <2>2, RestFacts, FaultFacts
    <3> QED BY <2>2, <3>1 DEF TypeOK, ledger, hardware
  <2> QED
    BY <1>6, <2>1, <2>2, ExportExpectSuccessTypes, ExportExpectDestroyTypes
    DEF FdExportMasterCallback
<1>7. ASSUME NEW m \in msgs, FdImportMasterCallback(m) PROVE TypeOK'
  <2>1. m \in ImportObj
    BY <1>7, MessageSides DEF FdImportMasterCallback
  <2> QED
    BY <1>7, <2>1, ImportExpectSuccessTypes, ImportExpectDestroyTypes
    DEF FdImportMasterCallback
<1> QED BY <1>1, <1>2, <1>3, <1>4, <1>5, <1>6, <1>7 DEF Next, Handle

\* The ledgers, messages and responses keep their types, whatever the client
\* and the network do.
THEOREM FdTypeCorrect == Spec => []TypeOK
BY InitTypes, TypeStep, PTL DEF Spec

-----------------------------------------------------------------------------
(* The invariant on a calm network.                                        *)

\* The invariant holds at the start.
LEMMA InitInv == Init => IInv
<1> SUFFICES ASSUME Init PROVE IInv
  OBVIOUS
<1>1. TypeOK
  BY InitTypes
<1>2. LedgerInv /\ MappingInv
  BY NoneState DEF Init, LedgerInv, MappingInv
<1>3. MsgInv /\ LentInv /\ WaitInv
  BY NoneState DEF Init, MsgInv, LentInv, WaitInv
<1> QED BY <1>1, <1>2, <1>3 DEF IInv

\* On a calm network there is one message, and its handler takes it.
LEMMA OneMessage ==
    ASSUME IInv, Calm, NEW m \in msgs, NEW kinds, NEW f \in Faults(kinds), Suffer(f)
    PROVE  /\ msgs = {m} /\ Rest(m, f) = {}
           /\ f \subseteq kinds /\ "late" \notin f /\ "dup" \notin f
           /\ SendFails(f) <=> "lost" \in f
           /\ ~debt' => ~debt /\ f \cap LeftToLedger = {}
<1>1. msgs = {m}
  BY DEF IInv, MsgInv
<1> QED BY <1>1, FaultFacts, CalmFacts DEF IInv

\* The exporter exports the memory, or fails and says so.
LEMMA ExportRunningInv ==
    ASSUME IInv, Calm, TypeOK', NEW m \in ExportObj, m \in msgs, m.state = "EXPORT_RUNNING",
           FdExportRunning(m), UNCHANGED <<ledger, aImp, mapped, todo, answers>>
    PROVE  IInv'
<1> DEFINE e == m.exporter
           R(c, f) == Reported([m EXCEPT !.state = c], f)
           d == ReportOf(m, "EXPORT_DESTROYED")
           s == ReportOf(m, "EXPORT_SUCCESS")
           o == [m EXCEPT !.state = "EXPORT_SUCCESS"]
<1>0. PICK f \in Faults({"export", "sign", "report", "dup"}) :
        /\ Suffer(f)
        /\ \/ /\ aExp[e].state = "EXPORT_SUCCESS"
              /\ msgs' = Rest(m, f)
              /\ UNCHANGED <<aExp, lent>>
           \/ /\ aExp' = [aExp EXCEPT ![e] = NoObj]
              /\ msgs' = Rest(m, f) \cup R("EXPORT_DESTROYED", f)
              /\ aExp[e].state # "EXPORT_SUCCESS"
              /\ UNCHANGED lent
           \/ /\ "sign" \in f
              /\ lent' = lent \cup {e}
              /\ msgs' = Rest(m, f) \cup R("EXPORT_DESTROYED", f)
           \/ /\ aExp' = [aExp EXCEPT ![e] = o]
              /\ lent' = lent \cup {e}
              /\ msgs' = Rest(m, f) \cup R("EXPORT_SUCCESS", f)
  BY DEF FdExportRunning
<1>1. /\ msgs = {m} /\ Rest(m, f) = {}
      /\ ~debt' => ~debt /\ f \cap {"sign", "report"} = {}
  BY <1>0, OneMessage DEF LeftToLedger
<1>s. "EXPORT_SUCCESS" \in ExportStates /\ "EXPORT_DESTROYED" \in ExportStates
  BY DEF ExportStates
<1>2. /\ d \in ExportObj /\ Says(d, m, "EXPORT_DESTROYED") /\ Plain(d)
      /\ s \in ExportObj /\ Says(s, m, "EXPORT_SUCCESS") /\ Plain(s)
  BY <1>s, ReportFacts DEF ExportObj
<1>3. /\ R("EXPORT_DESTROYED", f) = IF "report" \in f THEN {} ELSE {d}
      /\ R("EXPORT_SUCCESS", f) = IF "report" \in f THEN {} ELSE {s}
  BY DEF Reported, ReportOf
<1> HIDE DEF d, s, R
<1>4. /\ e \in Exporters /\ m.side = "export"
      /\ o.state = "EXPORT_SUCCESS"
  BY ObjectFields DEF ExportObj, Object
<1> HIDE DEF o
<1>5. ExportMsgInv(m) /\ m.expectState = "EXPORT_SUCCESS"
  BY <1>4 DEF IInv, MsgInv, ExportMsgInv
<1>6. /\ mImp' = mImp /\ mExp' = mExp /\ mIdx' = mIdx /\ aImp' = aImp
      /\ mapped' = mapped /\ todo' = todo /\ answers' = answers
  BY DEF ledger
<1>7. LedgerInv'
  BY <1>6 DEF IInv, LedgerInv
<1>8. MappingInv'
  BY <1>5, <1>6 DEF IInv, MappingInv, ExportMsgInv
<1>9. msgs' \subseteq {d} \/ (msgs' \subseteq {s} /\ e \in lent')
  BY <1>0, <1>1, <1>3
<1>10. MsgInv'
  BY <1>2, <1>3, <1>4, <1>5, <1>6, <1>9 DEF MsgInv, ExportMsgInv, Open, Says
<1>11. ASSUME ~debt' PROVE LentInv' /\ WaitInv'
  <2>1. ~debt /\ LentInv /\ WaitInv
    BY <1>1, <1>11 DEF IInv
  <2>2. aExp[e] = NoObj /\ e \notin lent
    BY <1>4, <2>1 DEF LentInv
  <2>3. \/ aExp' = [aExp EXCEPT ![e] = NoObj] /\ msgs' = {d} /\ lent' = lent
        \/ /\ aExp' = [aExp EXCEPT ![e] = o]
           /\ lent' = lent \cup {e} /\ msgs' = {s}
    BY <1>0, <1>1, <1>3, <1>11, <2>2, NoneState
  <2>4. o # NoObj
    BY <1>4, NoneState
  <2>5. LentInv'
    <3>1. CASE aExp' = [aExp EXCEPT ![e] = NoObj] /\ msgs' = {d} /\ lent' = lent
      BY <1>1, <1>2, <1>4, <1>5, <1>6, <2>1, <2>2, <3>1 DEF LentInv, Says, IInv, TypeOK
    <3>2. CASE /\ aExp' = [aExp EXCEPT ![e] = o]
               /\ lent' = lent \cup {e} /\ msgs' = {s}
      <4>1. /\ aExp'[e] # NoObj /\ aExp'[e].state = "EXPORT_SUCCESS"
            /\ \A c \in Exporters : c # e => aExp'[c] = aExp[c]
        BY <1>4, <2>4, <3>2 DEF IInv, TypeOK
      <4> QED BY <1>1, <1>2, <1>4, <1>5, <1>6, <2>1, <2>2, <3>2, <4>1 DEF LentInv, Says
    <3> QED BY <2>3, <3>1, <3>2
  <2>6. WaitInv'
    BY <1>1, <1>2, <1>3, <1>4, <1>5, <1>6, <2>1, <2>3 DEF WaitInv, Says, ExportMsgInv
  <2> QED BY <2>5, <2>6
<1> QED BY <1>7, <1>8, <1>10, <1>11 DEF IInv

\* The exporter unexports the memory: nothing is mapped then.
LEMMA ExportDestroyingInv ==
    ASSUME IInv, Calm, TypeOK', NEW m \in ExportObj, m \in msgs, m.state = "EXPORT_DESTROYING",
           FdExportDestroying(m), UNCHANGED <<ledger, aImp, mapped, todo, answers>>
    PROVE  IInv'
<1> DEFINE e == m.exporter
           R(c, f) == Reported([m EXCEPT !.state = c], f)
           d == ReportOf(m, "EXPORT_DESTROYED")
           s == ReportOf(m, "EXPORT_SUCCESS")
<1>0. PICK f \in Faults({"unexport", "report", "dup"}) :
        /\ Suffer(f)
        /\ \/ /\ "unexport" \in f
              /\ msgs' = Rest(m, f) \cup R("EXPORT_SUCCESS", f)
              /\ UNCHANGED lent
           \/ /\ aExp' = [aExp EXCEPT ![e] = NoObj]
              /\ lent' = IF aExp[e] = NoObj THEN lent ELSE lent \ {e}
              /\ msgs' = Rest(m, f) \cup R("EXPORT_DESTROYED", f)
  BY DEF FdExportDestroying
<1>1. /\ msgs = {m} /\ Rest(m, f) = {}
      /\ ~debt' => ~debt /\ f \cap {"unexport", "report"} = {}
  BY <1>0, OneMessage DEF LeftToLedger
<1>s. "EXPORT_SUCCESS" \in ExportStates /\ "EXPORT_DESTROYED" \in ExportStates
  BY DEF ExportStates
<1>2. /\ d \in ExportObj /\ Says(d, m, "EXPORT_DESTROYED") /\ Plain(d)
      /\ s \in ExportObj /\ Says(s, m, "EXPORT_SUCCESS") /\ Plain(s)
  BY <1>s, ReportFacts DEF ExportObj
<1>3. /\ R("EXPORT_DESTROYED", f) = IF "report" \in f THEN {} ELSE {d}
      /\ R("EXPORT_SUCCESS", f) = IF "report" \in f THEN {} ELSE {s}
  BY DEF Reported, ReportOf
<1> HIDE DEF d, s, R
<1>4. e \in Exporters /\ m.side = "export"
  BY ObjectFields DEF ExportObj
<1>5. ExportMsgInv(m) /\ m.expectState = "EXPORT_DESTROYED"
  BY <1>4 DEF IInv, MsgInv, ExportMsgInv
<1>6. /\ mImp' = mImp /\ mExp' = mExp /\ mIdx' = mIdx /\ aImp' = aImp
      /\ mapped' = mapped /\ todo' = todo /\ answers' = answers
  BY DEF ledger
<1>7. LedgerInv'
  BY <1>6 DEF IInv, LedgerInv
<1>8. MappingInv'
  BY <1>5, <1>6 DEF IInv, MappingInv, ExportMsgInv
<1>9. msgs' \subseteq {d} \/ msgs' \subseteq {s}
  BY <1>0, <1>1, <1>3
<1>10. MsgInv'
  BY <1>2, <1>3, <1>4, <1>5, <1>6, <1>9 DEF MsgInv, ExportMsgInv, Open, Says
<1>11. ASSUME ~debt' PROVE LentInv' /\ WaitInv'
  <2>1. ~debt /\ LentInv /\ WaitInv
    BY <1>1, <1>11 DEF IInv
  <2>2. aExp' = [aExp EXCEPT ![e] = NoObj] /\ msgs' = {d} /\ lent' = lent \ {e}
    BY <1>0, <1>1, <1>3, <1>4, <1>11, <2>1 DEF LentInv
  <2>5. LentInv'
    BY <1>1, <1>2, <1>4, <1>5, <1>6, <2>1, <2>2 DEF LentInv, Says, IInv, TypeOK
  <2>6. WaitInv'
    BY <1>1, <1>2, <1>4, <1>5, <1>6, <2>1, <2>2, NoneState DEF WaitInv, Says, ExportMsgInv
  <2> QED BY <2>5, <2>6
<1> QED BY <1>7, <1>8, <1>10, <1>11 DEF IInv

\* The importer maps the memory, which is lent.
LEMMA ImportRunningInv ==
    ASSUME IInv, Calm, TypeOK', NEW m \in ImportObj, m \in msgs, m.state = "IMPORT_RUNNING",
           FdImportRunning(m), UNCHANGED <<ledger, aExp, lent, todo, answers>>
    PROVE  IInv'
<1> DEFINE R(c, f) == Reported([m EXCEPT !.state = c], f)
           d == ReportOf(m, "IMPORT_DESTROYED")
           s == ReportOf(m, "IMPORT_SUCCESS")
           o == [m EXCEPT !.state = "IMPORT_SUCCESS"]
<1>0. PICK f \in Faults({"decoder", "import", "report", "dup"}) :
        /\ Suffer(f)
        /\ \/ aImp.state = "IMPORT_SUCCESS"
           \/ /\ aImp' = o
              /\ mapped' = m.obmm
              /\ msgs' = Rest(m, f) \cup R("IMPORT_SUCCESS", f)
           \/ /\ aImp' \in {aImp, NoObj}
              /\ msgs' = Rest(m, f) \cup R("IMPORT_DESTROYED", f)
              /\ UNCHANGED mapped
  BY DEF FdImportRunning
<1>1. /\ msgs = {m} /\ Rest(m, f) = {}
      /\ ~debt' => ~debt /\ "report" \notin f
  BY <1>0, OneMessage DEF LeftToLedger
<1>s. "IMPORT_SUCCESS" \in ImportStates /\ "IMPORT_DESTROYED" \in ImportStates
  BY DEF ImportStates
<1>2. /\ d \in ImportObj /\ Says(d, m, "IMPORT_DESTROYED") /\ Plain(d)
      /\ s \in ImportObj /\ Says(s, m, "IMPORT_SUCCESS") /\ Plain(s)
  BY <1>s, ReportFacts DEF ImportObj
<1>3. /\ R("IMPORT_DESTROYED", f) = IF "report" \in f THEN {} ELSE {d}
      /\ R("IMPORT_SUCCESS", f) = IF "report" \in f THEN {} ELSE {s}
  BY DEF Reported, ReportOf
<1>4. m.exporter \in Exporters /\ m.side = "import" /\ o # NoObj /\ m.requestId \in Requests
  BY ObjectFields, NoneState DEF ImportObj, Object
<1> HIDE DEF d, s, o, R
<1>5. /\ ImportMsgInv(m) /\ m.expectState = "IMPORT_SUCCESS"
      /\ mapped = None /\ m.obmm = m.exporter /\ m.exporter \in lent
  BY <1>4 DEF IInv, MsgInv, ImportMsgInv
<1>6. /\ mImp' = mImp /\ mExp' = mExp /\ mIdx' = mIdx /\ aExp' = aExp
      /\ lent' = lent /\ todo' = todo /\ answers' = answers
  BY DEF ledger
<1>7. aImp = NoObj
  BY <1>5 DEF IInv, MappingInv
<1>8. \/ /\ aImp' = o /\ mapped' = m.exporter
         /\ msgs' = IF "report" \in f THEN {} ELSE {s}
      \/ /\ aImp' = NoObj /\ mapped' = None
         /\ msgs' = IF "report" \in f THEN {} ELSE {d}
  BY <1>0, <1>1, <1>3, <1>5, <1>7, NoneState
<1>9. LedgerInv'
  BY <1>6 DEF IInv, LedgerInv
<1>10. MappingInv'
  BY <1>4, <1>5, <1>6, <1>8, RequestsAssumption DEF MappingInv, ImportMsgInv
<1>11. MsgInv'
  BY <1>2, <1>4, <1>5, <1>6, <1>8, RequestsAssumption DEF MsgInv, ImportMsgInv, Open, Says
<1>12. ASSUME ~debt' PROVE LentInv' /\ WaitInv'
  <2>1. ~debt /\ LentInv /\ WaitInv /\ (msgs' = {s} \/ msgs' = {d})
    BY <1>1, <1>8, <1>12 DEF IInv
  <2>2. LentInv'
    BY <1>1, <1>2, <1>4, <1>6, <2>1 DEF LentInv, Says
  <2>3. WaitInv'
    BY <1>1, <1>2, <1>4, <1>5, <1>6, <2>1 DEF WaitInv, Says, ImportMsgInv
  <2> QED BY <2>2, <2>3
<1> QED BY <1>9, <1>10, <1>11, <1>12 DEF IInv

\* The importer unmaps the memory, or keeps it and says so.
LEMMA ImportDestroyingInv ==
    ASSUME IInv, Calm, TypeOK', NEW m \in ImportObj, m \in msgs, m.state = "IMPORT_DESTROYING",
           FdImportDestroying(m), UNCHANGED <<ledger, aExp, lent, todo, answers>>
    PROVE  IInv'
<1> DEFINE R(c, f) == Reported([m EXCEPT !.state = c], f)
           d == ReportOf(m, "IMPORT_DESTROYED")
           a == ReportOf(m, "IMPORT_ABNORMAL")
           o == [m EXCEPT !.state = "IMPORT_ABNORMAL"]
<1>0. PICK f \in Faults({"unimport", "report", "dup"}) :
        /\ Suffer(f)
        /\ \/ /\ aImp # NoObj
              /\ aImp' = o
              /\ msgs' = Rest(m, f) \cup R("IMPORT_ABNORMAL", f)
              /\ UNCHANGED mapped
           \/ /\ aImp' = NoObj
              /\ mapped' = IF aImp = NoObj THEN mapped ELSE None
              /\ msgs' = Rest(m, f) \cup R("IMPORT_DESTROYED", f)
  BY DEF FdImportDestroying
<1>1. /\ msgs = {m} /\ Rest(m, f) = {}
      /\ ~debt' => ~debt /\ "report" \notin f
  BY <1>0, OneMessage DEF LeftToLedger
<1>s. "IMPORT_ABNORMAL" \in ImportStates /\ "IMPORT_DESTROYED" \in ImportStates
  BY DEF ImportStates
<1>2. /\ d \in ImportObj /\ Says(d, m, "IMPORT_DESTROYED") /\ Plain(d)
      /\ a \in ImportObj /\ Says(a, m, "IMPORT_ABNORMAL") /\ Plain(a)
  BY <1>s, ReportFacts DEF ImportObj
<1>3. /\ R("IMPORT_DESTROYED", f) = IF "report" \in f THEN {} ELSE {d}
      /\ R("IMPORT_ABNORMAL", f) = IF "report" \in f THEN {} ELSE {a}
  BY DEF Reported, ReportOf
<1>4. m.exporter \in Exporters /\ m.side = "import" /\ o # NoObj
  BY ObjectFields, NoneState DEF ImportObj, Object
<1> HIDE DEF d, a, o, R
<1>5. ImportMsgInv(m) /\ m.expectState = "IMPORT_DESTROYED"
  BY <1>4 DEF IInv, MsgInv, ImportMsgInv
<1>6. /\ mImp' = mImp /\ mExp' = mExp /\ mIdx' = mIdx /\ aExp' = aExp
      /\ lent' = lent /\ todo' = todo /\ answers' = answers
  BY DEF ledger
<1>8. \/ /\ aImp # NoObj /\ mapped # None /\ aImp' = o /\ mapped' = mapped
         /\ msgs' = IF "report" \in f THEN {} ELSE {a}
      \/ /\ aImp' = NoObj /\ mapped' = None
         /\ msgs' = IF "report" \in f THEN {} ELSE {d}
  BY <1>0, <1>1, <1>3 DEF IInv, MappingInv
<1>9. LedgerInv'
  BY <1>6 DEF IInv, LedgerInv
<1>10. MappingInv'
  BY <1>4, <1>6, <1>8 DEF IInv, MappingInv
<1>11. MsgInv'
  BY <1>2, <1>4, <1>5, <1>6, <1>8 DEF MsgInv, ImportMsgInv, Open, Says
<1>12. ASSUME ~debt' PROVE LentInv' /\ WaitInv'
  <2>1. /\ ~debt /\ LentInv /\ WaitInv
        /\ \/ msgs' = {a} /\ mapped' = mapped /\ mapped # None
           \/ msgs' = {d}
    BY <1>1, <1>8, <1>12 DEF IInv
  <2>2. LentInv'
    BY <1>1, <1>2, <1>4, <1>6, <2>1 DEF LentInv, Says
  <2>3. WaitInv'
    BY <1>1, <1>2, <1>4, <1>5, <1>6, <2>1 DEF WaitInv, Says, ImportMsgInv
  <2> QED BY <2>2, <2>3
<1> QED BY <1>9, <1>10, <1>11, <1>12 DEF IInv

\* The master takes the export reported by m into its ledger and asks the
\* importer, or takes it back.
LEMMA ExportExpectSuccessInv ==
    ASSUME IInv, Calm, TypeOK', NEW m \in ExportObj, m \in msgs,
           m.expectState = "EXPORT_SUCCESS", FdExportExpectSuccess(m),
           UNCHANGED <<aImp, aExp, hardware, todo>>
    PROVE  IInv'
<1> DEFINE e == m.exporter
           x == [m EXCEPT !.created = TRUE]
           u == [x EXCEPT !.state = "EXPORT_DESTROYING",
                          !.expectState = "EXPORT_DESTROYED"]
           i == [mImp EXCEPT !.state = "IMPORT_RUNNING",
                             !.expectState = "IMPORT_SUCCESS",
                             !.obmm = m.exporter, !.created = FALSE]
           w == Wire(i)
           v == Wire(u)
<1>0. PICK f \in Faults({"cna", "lost", "late", "rollback", "dup"}) :
        /\ Suffer(f)
        /\ \/ /\ ~FirstReport(mExp[e], "created")
              /\ msgs' = Rest(m, f) /\ NoResponse /\ UNCHANGED ledger
           \/ /\ m.state = "EXPORT_SUCCESS"
              /\ f \subseteq {"dup"}
              /\ PutExport(e, x)
              /\ mImp' = i
              /\ msgs' = Rest(m, f) \cup Sent(i, f)
              /\ NoResponse
           \/ /\ m.state = "EXPORT_SUCCESS"
              /\ f \cap {"cna", "lost", "late"} # {}
              /\ PutExport(x.exporter, u)
              /\ mImp' = NoObj
              /\ msgs' = Rest(m, f) \cup (IF "cna" \in f THEN {} ELSE Sent(i, f))
                            \cup (IF "rollback" \in f THEN {} ELSE {v})
              /\ Respond(x.requestId, "fail")
           \/ /\ m.state = "EXPORT_DESTROYED"
              /\ EraseFdExport(e)
              /\ mImp' = NoObj
              /\ msgs' = Rest(m, f)
              /\ Respond(m.requestId, "fail")
  BY DEF FdExportExpectSuccess, FdExportRollback
<1>1. /\ msgs = {m} /\ Rest(m, f) = {}
      /\ "late" \notin f /\ "dup" \notin f
      /\ ~debt' => ~debt
  BY <1>0, OneMessage
<1>2. /\ e \in Exporters /\ m.side = "export" /\ m.requestId \in Requests
      /\ Plain(m)
  BY ObjectFields DEF ExportObj, IInv, MsgInv
<1>3. /\ ExportMsgInv(m) /\ mImp # NoObj /\ mImp \in ImportObj
      /\ m.state = "EXPORT_SUCCESS" => e \in lent
  BY <1>2, NoneState DEF IInv, TypeOK, MsgInv, ExportMsgInv
<1>4. /\ x \in ExportObj /\ Says(x, m, m.state) /\ ~x.destroyed
      /\ u \in ExportObj /\ u.exporter = e /\ u.state = "EXPORT_DESTROYING"
      /\ u.expectState = "EXPORT_DESTROYED" /\ u.returnReq = m.returnReq
      /\ u.side = "export" /\ ~u.destroyed
  BY <1>2 DEF ExportObj, Object, ExportStates, Expected, Says, Plain
<1>5. /\ i \in ImportObj /\ i.state = "IMPORT_RUNNING" /\ i.expectState = "IMPORT_SUCCESS"
      /\ i.exporter = mImp.exporter /\ i.obmm = e /\ i.requestId = mImp.requestId
      /\ i.side = "import" /\ ~i.created
  BY <1>2, <1>3 DEF ImportObj, Object, ImportStates, Expected
<1> HIDE DEF x, u, i
<1>6. /\ w \in ImportObj /\ Says(w, i, "IMPORT_RUNNING") /\ Plain(w)
      /\ v \in ExportObj /\ Says(v, u, "EXPORT_DESTROYING") /\ Plain(v)
      /\ Sent(i, f) = IF "lost" \in f THEN {} ELSE {w}
  BY <1>4, <1>5, SentFacts DEF ExportObj, ImportObj
<1>7. x # NoObj /\ u # NoObj /\ i # NoObj
  BY <1>4, <1>5, NoneState, ObjectFields DEF ExportObj, ExportStates
<1> HIDE DEF w, v
<1>8. /\ mapped' = mapped /\ lent' = lent /\ aImp' = aImp /\ aExp' = aExp /\ todo' = todo
      /\ mapped = None
  BY <1>3 DEF hardware, ExportMsgInv
<1>9. MappingInv'
  BY <1>8 DEF IInv, MappingInv
<1>10. \A c \in Exporters : c # e => mExp[c] = NoObj
  BY <1>2, <1>3 DEF IInv, LedgerInv, ExportMsgInv
<1>11. CASE /\ ~FirstReport(mExp[e], "created")
            /\ msgs' = Rest(m, f) /\ NoResponse /\ UNCHANGED ledger
  <2>1. /\ mImp' = mImp /\ mExp' = mExp /\ mIdx' = mIdx /\ answers' = answers
        /\ msgs' = {}
    BY <1>1, <1>11 DEF ledger, NoResponse
  <2>2. LedgerInv' /\ MsgInv'
    BY <1>8, <2>1 DEF IInv, LedgerInv, MsgInv
  <2>3. ~debt' => FALSE
    BY <1>1, <1>3, <1>11 DEF IInv, WaitInv, FirstReport, ExportMsgInv
  <2> QED BY <1>9, <2>2, <2>3 DEF IInv
<1>12. CASE /\ m.state = "EXPORT_SUCCESS"
            /\ f \subseteq {"dup"}
            /\ PutExport(e, x)
            /\ mImp' = i
            /\ msgs' = Rest(m, f) \cup Sent(i, f)
            /\ NoResponse
  <2>1. /\ msgs' = {w} /\ answers' = answers /\ mImp' = i
        /\ mIdx' = e /\ mExp'[e] = x
        /\ \A c \in Exporters : c # e => mExp'[c] = NoObj
    BY <1>1, <1>2, <1>4, <1>6, <1>10, <1>12, PutFacts DEF NoResponse, IInv
  <2>2. LedgerInv'
    BY <1>2, <1>3, <1>4, <1>5, <1>7, <1>8, <2>1 DEF IInv, LedgerInv, ExportMsgInv, Says
  <2>3. MsgInv'
    BY <1>3, <1>5, <1>6, <1>7, <1>8, <1>12, <2>1
    DEF MsgInv, ExportMsgInv, ImportMsgInv, Says, Open
  <2>4. ASSUME ~debt' PROVE LentInv' /\ WaitInv'
    <3>1. LentInv /\ WaitInv
      BY <1>1, <2>4 DEF IInv
    <3>2. LentInv'
      BY <1>1, <1>2, <1>3, <1>5, <1>6, <1>7, <1>8, <1>10, <1>12, <2>1, <3>1 DEF LentInv, Says
    <3>3. WaitInv'
      BY <1>4, <1>5, <1>6, <2>1, <3>1 DEF WaitInv, Says
    <3> QED BY <3>2, <3>3
  <2> QED BY <1>9, <2>2, <2>3, <2>4 DEF IInv
<1>13. CASE /\ m.state = "EXPORT_SUCCESS"
            /\ f \cap {"cna", "lost", "late"} # {}
            /\ PutExport(x.exporter, u)
            /\ mImp' = NoObj
            /\ msgs' = Rest(m, f) \cup (IF "cna" \in f THEN {} ELSE Sent(i, f))
                          \cup (IF "rollback" \in f THEN {} ELSE {v})
            /\ Respond(x.requestId, "fail")
  <2>1. /\ msgs' = {} \/ msgs' = {v}
        /\ mImp' = NoObj
    BY <1>1, <1>6, <1>13
  <2>2. /\ mIdx' = e /\ mExp'[e] = u
        /\ \A c \in Exporters : c # e => mExp'[c] = NoObj
    BY <1>2, <1>4, <1>10, <1>13, PutFacts DEF IInv, Says
  <2>3. \A q \in Requests : q # m.requestId => answers'[q] = answers[q]
    BY <1>2, <1>4, <1>13, RespondFacts DEF IInv, Says
  <2>4. LedgerInv'
    BY <1>2, <1>3, <1>4, <1>7, <1>8, <2>1, <2>2, <2>3, NoneState
    DEF IInv, TypeOK, LedgerInv, ExportMsgInv, Open
  <2>5. MsgInv'
    BY <1>3, <1>4, <1>6, <1>7, <1>8, <2>1, <2>2 DEF MsgInv, ExportMsgInv, Says
  <2>6. ASSUME ~debt' PROVE LentInv' /\ WaitInv'
    <3>1. LentInv /\ WaitInv
      BY <1>1, <2>6 DEF IInv
    <3>2. LentInv'
      BY <1>1, <1>2, <1>3, <1>4, <1>6, <1>7, <1>8, <1>10, <1>13, <2>1, <2>2, <3>1
      DEF LentInv, Says
    <3>3. WaitInv'
      BY <1>4, <1>6, <2>1, <2>2, NoneState DEF WaitInv, Says
    <3> QED BY <3>2, <3>3
  <2> QED BY <1>9, <2>4, <2>5, <2>6 DEF IInv
<1>14. CASE /\ m.state = "EXPORT_DESTROYED"
            /\ EraseFdExport(e)
            /\ mImp' = NoObj
            /\ msgs' = Rest(m, f)
            /\ Respond(m.requestId, "fail")
  <2>1. /\ msgs' = {} /\ mImp' = NoObj
        /\ mIdx' = None /\ \A c \in Exporters : mExp'[c] = NoObj
    BY <1>1, <1>2, <1>3, <1>10, <1>14, EraseFacts DEF IInv, ExportMsgInv
  <2>3. \A q \in Requests : q # m.requestId => answers'[q] = answers[q]
    BY <1>2, <1>14, RespondFacts DEF IInv
  <2>4. LedgerInv'
    BY <1>2, <1>3, <1>8, <2>1, <2>3, NoneState DEF IInv, TypeOK, LedgerInv, ExportMsgInv, Open
  <2>5. MsgInv'
    BY <2>1 DEF MsgInv
  <2>6. ASSUME ~debt' PROVE LentInv' /\ WaitInv'
    <3>1. LentInv /\ WaitInv
      BY <1>1, <2>6 DEF IInv
    <3>2. LentInv'
      BY <1>1, <1>2, <1>8, <1>10, <1>14, <2>1, <3>1 DEF LentInv
    <3>3. WaitInv'
      BY <2>1, NoneState DEF WaitInv
    <3> QED BY <3>2, <3>3
  <2> QED BY <1>9, <2>4, <2>5, <2>6 DEF IInv
<1> QED BY <1>0, <1>11, <1>12, <1>13, <1>14

\* The master forgets the export object that was destroyed.
LEMMA ExportExpectDestroyInv ==
    ASSUME IInv, Calm, TypeOK', NEW m \in ExportObj, m \in msgs,
           m.expectState = "EXPORT_DESTROYED", FdExportExpectDestroy(m),
           UNCHANGED <<aImp, aExp, hardware, todo>>
    PROVE  IInv'
<1> DEFINE e == m.exporter
           x == [m EXCEPT !.destroyed = TRUE]
           Answered == \/ NoResponse
                       \/ m.returnReq # None /\ Respond(m.returnReq, "fail")
                       \/ m.returnReq # None /\ Respond(m.returnReq, "ok")
<1>0. PICK f \in Faults({"dup"}) :
        /\ Suffer(f)
        /\ msgs' = Rest(m, f)
        /\ UNCHANGED mImp
        /\ Answered
        /\ \/ ~FirstReport(mExp[e], "destroyed") /\ UNCHANGED <<mExp, mIdx>>
           \/ m.state = "EXPORT_SUCCESS" /\ PutExport(e, x)
           \/ m.state = "EXPORT_DESTROYED" /\ EraseFdExport(e)
  BY DEF FdExportExpectDestroy
<1>1. msgs = {m} /\ msgs' = {} /\ (~debt' => ~debt)
  BY <1>0, OneMessage
<1>2. /\ e \in Exporters /\ m.side = "export"
      /\ m.returnReq # None => m.returnReq \in Requests
  BY ObjectFields DEF ExportObj, Requests
<1>3. ExportMsgInv(m) /\ mImp = NoObj
  BY <1>2 DEF IInv, MsgInv, ExportMsgInv
<1>4. x \in ExportObj /\ x.exporter = e /\ x # NoObj
  BY NoneState DEF ExportObj, Object, ExportStates
<1> HIDE DEF x
<1>5. /\ mapped' = mapped /\ lent' = lent /\ aImp' = aImp /\ aExp' = aExp /\ todo' = todo
      /\ mapped = None /\ mImp' = NoObj
  BY <1>0, <1>3 DEF hardware, ExportMsgInv
<1>6. MappingInv' /\ MsgInv'
  BY <1>1, <1>5 DEF IInv, MappingInv, MsgInv
<1>7. \A c \in Exporters : c # e => mExp[c] = NoObj
  BY <1>2, <1>3 DEF IInv, LedgerInv, ExportMsgInv
<1>8. \A q \in todo : answers'[q] = {}
  <2>1. \A q \in Requests : q # m.returnReq => answers'[q] = answers[q]
    BY <1>0, <1>2, RespondFacts DEF IInv, NoResponse
  <2>2. \A q \in todo : q \in Requests /\ q # m.returnReq
    BY <1>2, <1>3, RequestsAssumption DEF IInv, TypeOK, ExportMsgInv, Open, Requests
  <2> QED BY <2>1, <2>2 DEF IInv, LedgerInv
<1>9. CASE ~FirstReport(mExp[e], "destroyed") /\ UNCHANGED <<mExp, mIdx>>
  <2>1. LedgerInv'
    BY <1>5, <1>8, <1>9, NoneState DEF IInv, LedgerInv
  <2>2. ~debt' => FALSE
    BY <1>1, <1>2, <1>3, <1>9 DEF IInv, WaitInv, FirstReport, ExportMsgInv
  <2> QED BY <1>6, <2>1, <2>2 DEF IInv
<1>10. CASE m.state = "EXPORT_SUCCESS" /\ PutExport(e, x)
  <2>1. /\ mIdx' = e /\ mExp'[e] = x
        /\ \A c \in Exporters : c # e => mExp'[c] = NoObj
    BY <1>2, <1>4, <1>7, <1>10, PutFacts DEF IInv
  <2>2. LedgerInv'
    BY <1>2, <1>4, <1>5, <1>8, <2>1, NoneState DEF LedgerInv
  <2>3. ~debt' => FALSE
    BY <1>1, <1>2, <1>10 DEF IInv, LentInv
  <2> QED BY <1>6, <2>2, <2>3 DEF IInv
<1>11. CASE m.state = "EXPORT_DESTROYED" /\ EraseFdExport(e)
  <2>1. mIdx' = None /\ \A c \in Exporters : mExp'[c] = NoObj
    BY <1>2, <1>3, <1>7, <1>11, EraseFacts DEF IInv, ExportMsgInv
  <2>2. LedgerInv'
    BY <1>5, <1>8, <2>1, NoneState DEF LedgerInv
  <2>3. ASSUME ~debt' PROVE LentInv' /\ WaitInv'
    <3>1. LentInv
      BY <1>1, <2>3 DEF IInv
    <3>2. LentInv'
      BY <1>1, <1>2, <1>5, <1>7, <1>11, <2>1, <3>1 DEF LentInv
    <3>3. WaitInv'
      BY <1>1, <1>5, <2>1, NoneState DEF WaitInv
    <3> QED BY <3>2, <3>3
  <2> QED BY <1>6, <2>2, <2>3 DEF IInv
<1> QED BY <1>0, <1>9, <1>10, <1>11

\* The master takes the import into its ledger, or asks the exporter to undo.
LEMMA ImportExpectSuccessInv ==
    ASSUME IInv, Calm, TypeOK', NEW m \in ImportObj, m \in msgs,
           m.state \in {"IMPORT_SUCCESS", "IMPORT_DESTROYED", "IMPORT_ABNORMAL"},
           m.expectState = "IMPORT_SUCCESS", FdImportExpectSuccess(m),
           UNCHANGED <<aImp, aExp, hardware, todo>>
    PROVE  IInv'
<1> DEFINE e == m.exporter
           o == mExp[e]
           u == [o EXCEPT !.state = "EXPORT_DESTROYING",
                          !.expectState = "EXPORT_DESTROYED",
                          !.requestId = m.requestId]
           v == Wire(u)
           i == [m EXCEPT !.created = TRUE]
<1>0. PICK f \in Faults({"lost", "late", "dup"}) :
        /\ Suffer(f)
        /\ \/ ~FirstReport(mImp, "created") /\ msgs' = Rest(m, f) /\ NoResponse
              /\ UNCHANGED ledger
           \/ /\ m.state = "IMPORT_SUCCESS" /\ mImp' = i /\ msgs' = Rest(m, f)
              /\ Respond(m.requestId, "ok") /\ UNCHANGED <<mExp, mIdx>>
           \/ /\ m.state # "IMPORT_SUCCESS" /\ mImp' = NoObj
              /\ Respond(m.requestId, "fail")
              /\ o # NoObj => DestroyExport(u, m, f)
  BY DEF FdImportExpectSuccess
<1>1. /\ msgs = {m} /\ Rest(m, f) = {}
      /\ SendFails(f) <=> "lost" \in f
      /\ ~debt' => ~debt
  BY <1>0, OneMessage
<1>2. /\ e \in Exporters /\ m.side = "import" /\ m.requestId \in Requests
      /\ i.state = m.state /\ i.exporter = e /\ i # NoObj
  BY ObjectFields, NoneState DEF ImportObj, Object, ImportStates
<1>3. /\ ImportMsgInv(m) /\ mImp # NoObj /\ mImp.exporter = e
      /\ mImp.state = "IMPORT_RUNNING"
  BY <1>2 DEF IInv, MsgInv, ImportMsgInv
<1>4. o # NoObj /\ o \in ExportObj /\ o.exporter = e /\ mIdx = e /\ o.returnReq = None
  BY <1>2, <1>3 DEF IInv, TypeOK, LedgerInv
<1>5. /\ u \in ExportObj /\ u.exporter = e /\ u.state = "EXPORT_DESTROYING"
      /\ u.expectState = "EXPORT_DESTROYED" /\ u.returnReq = None
      /\ u.side = "export" /\ u.destroyed = o.destroyed
  BY <1>2, <1>4 DEF ExportObj, Object, ExportStates, Expected
<1> HIDE DEF u, i
<1>6. /\ v \in ExportObj /\ Says(v, u, "EXPORT_DESTROYING") /\ Plain(v)
      /\ Sent(u, f) = IF "lost" \in f THEN {} ELSE {v}
  BY <1>5, SentFacts DEF ExportObj
<1> HIDE DEF v
<1>8. mapped' = mapped /\ lent' = lent /\ aImp' = aImp /\ aExp' = aExp /\ todo' = todo
  BY DEF hardware
<1>10. \A c \in Exporters : c # e => mExp[c] = NoObj
  BY <1>4 DEF IInv, LedgerInv
<1>11. CASE /\ ~FirstReport(mImp, "created") /\ msgs' = Rest(m, f) /\ NoResponse
            /\ UNCHANGED ledger
  <2>1. /\ mImp' = mImp /\ mExp' = mExp /\ mIdx' = mIdx /\ answers' = answers
        /\ msgs' = {}
    BY <1>1, <1>11 DEF ledger, NoResponse
  <2>2. LedgerInv' /\ MappingInv' /\ MsgInv'
    BY <1>8, <2>1 DEF IInv, LedgerInv, MappingInv, MsgInv
  <2>3. ~debt' => FALSE
    BY <1>1, <1>3, <1>11 DEF IInv, WaitInv, FirstReport
  <2> QED BY <2>2, <2>3 DEF IInv
<1>12. CASE /\ m.state = "IMPORT_SUCCESS" /\ mImp' = i /\ msgs' = Rest(m, f)
            /\ Respond(m.requestId, "ok") /\ UNCHANGED <<mExp, mIdx>>
  <2>1. /\ mImp' = i /\ mExp' = mExp /\ mIdx' = mIdx /\ msgs' = {}
        /\ \A q \in Requests : q # m.requestId => answers'[q] = answers[q]
    BY <1>1, <1>2, <1>12, RespondFacts DEF IInv
  <2>2. LedgerInv'
    BY <1>2, <1>3, <1>4, <1>8, <1>12, <2>1 DEF IInv, TypeOK, LedgerInv, ImportMsgInv, Open
  <2>3. MappingInv' /\ MsgInv'
    BY <1>2, <1>3, <1>8, <2>1 DEF IInv, MappingInv, MsgInv
  <2>4. ASSUME ~debt' PROVE LentInv' /\ WaitInv'
    <3>1. LentInv /\ WaitInv
      BY <1>1, <2>4 DEF IInv
    <3>2. LentInv'
      BY <1>1, <1>2, <1>8, <2>1, <3>1 DEF LentInv
    <3>3. WaitInv'
      BY <1>2, <1>3, <1>8, <1>12, <2>1, <3>1 DEF WaitInv, ImportMsgInv
    <3> QED BY <3>2, <3>3
  <2> QED BY <2>2, <2>3, <2>4 DEF IInv
<1>13. CASE /\ m.state # "IMPORT_SUCCESS" /\ mImp' = NoObj
            /\ Respond(m.requestId, "fail")
            /\ o # NoObj => DestroyExport(u, m, f)
  <2>0. mapped = None
    BY <1>3, <1>13 DEF ImportMsgInv
  <2>1. /\ mImp' = NoObj /\ mIdx' = e
        /\ mExp'[e] \in ExportObj /\ mExp'[e].exporter = e /\ mExp'[e].destroyed = o.destroyed
        /\ "lost" \notin f => mExp'[e].state = "EXPORT_DESTROYING"
        /\ \A c \in Exporters : c # e => mExp'[c] = NoObj
        /\ msgs' = IF "lost" \in f THEN {} ELSE {v}
    BY <1>1, <1>4, <1>5, <1>6, <1>10, <1>13, DestroyFacts DEF IInv, Says
  <2>2. mExp'[e] # NoObj
    BY <2>1, NoneState, ObjectFields DEF ExportObj, ExportStates
  <2>3. \A q \in Requests : q # m.requestId => answers'[q] = answers[q]
    BY <1>2, <1>13, RespondFacts DEF IInv
  <2>4. LedgerInv'
    BY <1>2, <1>3, <1>8, <2>1, <2>2, <2>3, NoneState
    DEF IInv, TypeOK, LedgerInv, ImportMsgInv, Open
  <2>5. MappingInv'
    BY <1>8, <2>0 DEF IInv, MappingInv
  <2>6. MsgInv'
    BY <1>5, <1>6, <1>8, <2>0, <2>1, <2>2 DEF MsgInv, ExportMsgInv, Says
  <2>7. ASSUME ~debt' PROVE LentInv' /\ WaitInv'
    <3>1. LentInv /\ WaitInv
      BY <1>1, <2>7 DEF IInv
    <3>2. LentInv'
      BY <1>1, <1>2, <1>4, <1>5, <1>6, <1>8, <1>10, <2>1, <2>2, <3>1 DEF LentInv, Says
    <3>3. WaitInv'
      BY <1>2, <1>4, <1>5, <1>6, <2>1, <3>1, NoneState DEF WaitInv, Says
    <3> QED BY <3>2, <3>3
  <2> QED BY <2>4, <2>5, <2>6, <2>7 DEF IInv
<1> QED BY <1>0, <1>11, <1>12, <1>13

\* The master forgets the import object and asks the exporter to unexport.
LEMMA ImportExpectDestroyInv ==
    ASSUME IInv, Calm, TypeOK', NEW m \in ImportObj, m \in msgs,
           m.state \in {"IMPORT_SUCCESS", "IMPORT_DESTROYED", "IMPORT_ABNORMAL"},
           m.expectState = "IMPORT_DESTROYED", FdImportExpectDestroy(m),
           UNCHANGED <<aImp, aExp, hardware, todo>>
    PROVE  IInv'
<1> DEFINE e == m.exporter
           o == mExp[e]
           u == [o EXCEPT !.state = "EXPORT_DESTROYING",
                          !.expectState = "EXPORT_DESTROYED",
                          !.requestId = m.requestId,
                          !.returnReq = m.returnReq,
                          !.destroyed = FALSE]
           v == Wire(u)
           i == [m EXCEPT !.destroyed = TRUE]
<1>0. PICK f \in Faults({"refuse", "lost", "late", "dup"}) :
        /\ Suffer(f)
        /\ \/ ~FirstReport(mImp, "destroyed") /\ msgs' = Rest(m, f) /\ NoResponse
              /\ UNCHANGED ledger
           \/ /\ m.state = "IMPORT_ABNORMAL" /\ mImp' = i /\ msgs' = Rest(m, f)
              /\ Respond(m.requestId, "fail") /\ UNCHANGED <<mExp, mIdx>>
           \/ /\ m.state = "IMPORT_DESTROYED" /\ mImp' = NoObj /\ msgs' = Rest(m, f)
              /\ Respond(m.requestId, "fail") /\ UNCHANGED <<mExp, mIdx>>
           \/ /\ m.state = "IMPORT_DESTROYED" /\ mImp' = NoObj
              /\ o # NoObj => /\ DestroyExport(u, m, f)
                             /\ IF SendFails(f) THEN Respond(m.requestId, "fail")
                                                ELSE NoResponse
  BY DEF FdImportExpectDestroy, FdImportExpectDestroySuccessPath
<1>1. /\ msgs = {m} /\ Rest(m, f) = {}
      /\ SendFails(f) <=> "lost" \in f
      /\ ~debt' => ~debt
  BY <1>0, OneMessage
<1>2. /\ e \in Exporters /\ m.side = "import" /\ m.requestId \in Requests
      /\ i.state = m.state /\ i.exporter = e /\ i # NoObj
  BY ObjectFields, NoneState DEF ImportObj, Object, ImportStates
<1>3. /\ ImportMsgInv(m) /\ mImp # NoObj /\ mImp.exporter = e
      /\ m.requestId \in Returns /\ m.returnReq = m.requestId
      /\ mImp.state = "IMPORT_DESTROYING"
  BY <1>2 DEF IInv, MsgInv, ImportMsgInv
<1>4. o # NoObj /\ o \in ExportObj /\ o.exporter = e /\ mIdx = e
  BY <1>2, <1>3 DEF IInv, TypeOK, LedgerInv
<1>5. /\ u \in ExportObj /\ u.exporter = e /\ u.state = "EXPORT_DESTROYING"
      /\ u.expectState = "EXPORT_DESTROYED" /\ u.returnReq = m.requestId
      /\ u.side = "export" /\ ~u.destroyed
  BY <1>2, <1>3, <1>4 DEF ExportObj, Object, ExportStates, Expected
<1> HIDE DEF u, i
<1>6. /\ v \in ExportObj /\ Says(v, u, "EXPORT_DESTROYING") /\ Plain(v)
      /\ Sent(u, f) = IF "lost" \in f THEN {} ELSE {v}
  BY <1>5, SentFacts DEF ExportObj
<1> HIDE DEF v
<1>8. mapped' = mapped /\ lent' = lent /\ aImp' = aImp /\ aExp' = aExp /\ todo' = todo
  BY DEF hardware
<1>10. \A c \in Exporters : c # e => mExp[c] = NoObj
  BY <1>4 DEF IInv, LedgerInv
<1>11. CASE /\ ~FirstReport(mImp, "destroyed") /\ msgs' = Rest(m, f) /\ NoResponse
            /\ UNCHANGED ledger
  <2>1. /\ mImp' = mImp /\ mExp' = mExp /\ mIdx' = mIdx /\ answers' = answers
        /\ msgs' = {}
    BY <1>1, <1>11 DEF ledger, NoResponse
  <2>2. LedgerInv' /\ MappingInv' /\ MsgInv'
    BY <1>8, <2>1 DEF IInv, LedgerInv, MappingInv, MsgInv
  <2>3. ~debt' => FALSE
    BY <1>1, <1>3, <1>11 DEF IInv, WaitInv, FirstReport
  <2> QED BY <2>2, <2>3 DEF IInv
<1>12. CASE /\ m.state = "IMPORT_ABNORMAL" /\ mImp' = i /\ msgs' = Rest(m, f)
            /\ Respond(m.requestId, "fail") /\ UNCHANGED <<mExp, mIdx>>
  <2>1. /\ mImp' = i /\ mExp' = mExp /\ mIdx' = mIdx /\ msgs' = {}
        /\ \A q \in Requests : q # m.requestId => answers'[q] = answers[q]
    BY <1>1, <1>2, <1>12, RespondFacts DEF IInv
  <2>2. LedgerInv'
    BY <1>2, <1>3, <1>4, <1>8, <1>12, <2>1 DEF IInv, TypeOK, LedgerInv, ImportMsgInv, Open
  <2>3. MappingInv' /\ MsgInv'
    BY <1>2, <1>3, <1>8, <2>1 DEF IInv, MappingInv, MsgInv
  <2>4. ASSUME ~debt' PROVE LentInv' /\ WaitInv'
    <3>1. LentInv /\ WaitInv
      BY <1>1, <2>4 DEF IInv
    <3>2. LentInv'
      BY <1>1, <1>2, <1>8, <2>1, <3>1 DEF LentInv
    <3>3. WaitInv'
      BY <1>2, <1>3, <1>8, <1>12, <2>1, <3>1 DEF WaitInv, ImportMsgInv
    <3> QED BY <3>2, <3>3
  <2> QED BY <2>2, <2>3, <2>4 DEF IInv
<1>13. CASE /\ m.state = "IMPORT_DESTROYED" /\ mImp' = NoObj /\ msgs' = Rest(m, f)
            /\ Respond(m.requestId, "fail") /\ UNCHANGED <<mExp, mIdx>>
  <2>0. mapped = None
    BY <1>3, <1>13 DEF ImportMsgInv
  <2>1. /\ mImp' = NoObj /\ mExp' = mExp /\ mIdx' = mIdx /\ msgs' = {}
        /\ \A q \in Requests : q # m.requestId => answers'[q] = answers[q]
    BY <1>1, <1>2, <1>13, RespondFacts DEF IInv
  <2>2. LedgerInv'
    BY <1>2, <1>3, <1>4, <1>8, <1>13, <2>1, NoneState
    DEF IInv, TypeOK, LedgerInv, ImportMsgInv, Open
  <2>3. MappingInv' /\ MsgInv'
    BY <1>8, <2>0, <2>1 DEF IInv, MappingInv, MsgInv
  <2>4. ASSUME ~debt' PROVE LentInv' /\ WaitInv'
    <3>1. LentInv /\ WaitInv
      BY <1>1, <2>4 DEF IInv
    <3>2. LentInv'
      BY <1>1, <1>2, <1>8, <2>1, <3>1 DEF LentInv
    <3>3. WaitInv'
      BY <1>2, <1>3, <1>8, <1>13, <2>1, <3>1, NoneState DEF WaitInv, ImportMsgInv
    <3> QED BY <3>2, <3>3
  <2> QED BY <2>2, <2>3, <2>4 DEF IInv
<1>14. CASE /\ m.state = "IMPORT_DESTROYED" /\ mImp' = NoObj
            /\ o # NoObj => /\ DestroyExport(u, m, f)
                           /\ IF SendFails(f) THEN Respond(m.requestId, "fail")
                                              ELSE NoResponse
  <2>0. mapped = None
    BY <1>3, <1>14 DEF ImportMsgInv
  <2>1. /\ mImp' = NoObj /\ mIdx' = e
        /\ mExp'[e] \in ExportObj /\ mExp'[e].exporter = e /\ ~mExp'[e].destroyed
        /\ "lost" \notin f => mExp'[e].state = "EXPORT_DESTROYING"
        /\ \A c \in Exporters : c # e => mExp'[c] = NoObj
        /\ msgs' = IF "lost" \in f THEN {} ELSE {v}
    BY <1>1, <1>4, <1>5, <1>6, <1>10, <1>14, DestroyFacts DEF IInv, Says
  <2>2. mExp'[e] # NoObj
    BY <2>1, NoneState, ObjectFields DEF ExportObj, ExportStates
  <2>3. /\ \A q \in Requests : q # m.requestId => answers'[q] = answers[q]
        /\ "lost" \notin f => answers' = answers
    BY <1>1, <1>2, <1>4, <1>14, RespondFacts DEF IInv, NoResponse
  <2>4. LedgerInv'
    BY <1>2, <1>3, <1>8, <2>1, <2>2, <2>3, NoneState
    DEF IInv, TypeOK, LedgerInv, ImportMsgInv, Open
  <2>5. MappingInv'
    BY <1>8, <2>0 DEF IInv, MappingInv
  <2>6. MsgInv'
    BY <1>2, <1>3, <1>5, <1>6, <1>8, <2>0, <2>1, <2>2, <2>3, RequestsAssumption
    DEF MsgInv, ExportMsgInv, ImportMsgInv, Says, Open
  <2>7. ASSUME ~debt' PROVE LentInv' /\ WaitInv'
    <3>1. LentInv /\ WaitInv
      BY <1>1, <2>7 DEF IInv
    <3>2. LentInv'
      BY <1>1, <1>2, <1>4, <1>5, <1>6, <1>8, <1>10, <2>1, <2>2, <3>1 DEF LentInv, Says
    <3>3. WaitInv'
      BY <1>2, <1>4, <1>5, <1>6, <2>1, <3>1, NoneState DEF WaitInv, Says
    <3> QED BY <3>2, <3>3
  <2> QED BY <2>4, <2>5, <2>6, <2>7 DEF IInv
<1> QED BY <1>0, <1>11, <1>12, <1>13, <1>14

\* A request that is refused changes nothing but its answer.
LEMMA RefusedInv ==
    ASSUME IInv, TypeOK', NEW r \in todo, todo' = todo \ {r}, Respond(r, "fail"),
           UNCHANGED <<ledger, msgs>>, UNCHANGED <<aImp, aExp, hardware>>, ~debt' => ~debt
    PROVE  IInv'
<1>1. /\ mImp' = mImp /\ mExp' = mExp /\ mIdx' = mIdx /\ msgs' = msgs
      /\ aImp' = aImp /\ aExp' = aExp /\ mapped' = mapped /\ lent' = lent
  BY DEF ledger, hardware
<1>2. /\ todo \subseteq Requests /\ r \in Requests
      /\ \A q \in Requests : q # r => answers'[q] = answers[q]
  BY RespondFacts DEF IInv, TypeOK
<1>3. LedgerInv'
  BY <1>1, <1>2 DEF IInv, LedgerInv
<1>4. MappingInv' /\ (~debt' => LentInv' /\ WaitInv')
  BY <1>1 DEF IInv, MappingInv, LentInv, WaitInv
<1>5. \A q \in Requests : Open(q) => Open(q)'
  BY <1>2 DEF Open
<1>6. ASSUME NEW m \in msgs
      PROVE  (IF m.side = "export" THEN ExportMsgInv(m) ELSE ImportMsgInv(m))'
  <2>1. m.requestId \in Requests /\ (m.returnReq # None => m.returnReq \in Requests)
    BY ObjectFields DEF IInv, TypeOK, ImportObj, ExportObj, Requests
  <2>2. CASE m.side = "export"
    BY <1>1, <1>5, <2>1, <2>2 DEF IInv, MsgInv, ExportMsgInv
  <2>3. CASE m.side # "export"
    BY <1>1, <1>5, <2>1, <2>3 DEF IInv, MsgInv, ImportMsgInv
  <2> QED BY <2>2, <2>3
<1>7. MsgInv'
  BY <1>1, <1>6 DEF IInv, MsgInv
<1> QED BY <1>3, <1>4, <1>7 DEF IInv

\* A name that is free has nothing in the ledger, mapped or under way.
LEMMA FreeName ==
    ASSUME IInv, NotExist
    PROVE  /\ mImp = NoObj /\ mIdx = None /\ mapped = None /\ msgs = {}
           /\ \A c \in Exporters : mExp[c] = NoObj
<1>1. mImp = NoObj /\ FoundExport = NoObj
  BY DEF NotExist
<1>2. mIdx = None
  BY <1>1 DEF IInv, LedgerInv, FoundExport
<1>3. \A c \in Exporters : mExp[c] = NoObj
  BY <1>2, RequestsAssumption DEF IInv, LedgerInv
<1>4. ASSUME NEW m \in msgs PROVE FALSE
  <2>1. m.exporter \in Exporters
    BY ObjectFields DEF IInv, TypeOK, ImportObj, ExportObj
  <2> QED BY <1>1, <1>3, <2>1 DEF IInv, MsgInv, ExportMsgInv, ImportMsgInv
<1> QED BY <1>1, <1>2, <1>3, <1>4 DEF IInv, MappingInv

\* A borrow of a free name starts with an export.
LEMMA BorrowInv ==
    ASSUME IInv, Calm, TypeOK', NEW r \in Borrows, NEW e \in Exporters, UbseMemFdBorrow(r, e)
    PROVE  IInv'
<1> DEFINE x == [side |-> "export", state |-> "EXPORT_RUNNING",
                 expectState |-> "EXPORT_SUCCESS", exporter |-> e, obmm |-> e,
                 requestId |-> r, returnReq |-> None,
                 created |-> FALSE, destroyed |-> FALSE]
           i == [x EXCEPT !.side = "import", !.obmm = None]
           w == Wire(x)
<1>0. PICK f \in Faults({"refuse", "alloc", "lost", "late"}) :
        /\ r \in todo /\ todo' = todo \ {r}
        /\ Suffer(f)
        /\ \/ Respond(r, "fail") /\ UNCHANGED <<ledger, msgs>>
           \/ /\ NotExist
              /\ msgs' = msgs \cup Sent(x, f)
              /\ \/ /\ SendFails(f)
                    /\ mExp' = [mExp EXCEPT ![e] = NoObj]
                    /\ mIdx' = None
                    /\ Respond(r, "fail")
                    /\ UNCHANGED mImp
                 \/ /\ ~SendFails(f)
                    /\ PutExport(e, x) /\ mImp' = i /\ NoResponse
        /\ UNCHANGED <<aImp, aExp, hardware>>
  BY DEF UbseMemFdBorrow
<1>1. (SendFails(f) <=> "lost" \in f) /\ (~debt' => ~debt)
  BY <1>0, FaultFacts, CalmFacts DEF IInv
<1>2. r \in Requests /\ r \notin todo' /\ todo' \subseteq todo /\ todo \subseteq Requests
  BY <1>0 DEF IInv, TypeOK
<1>3. CASE Respond(r, "fail") /\ UNCHANGED <<ledger, msgs>>
  BY <1>0, <1>1, <1>3, RefusedInv
<1>4. /\ x \in ExportObj /\ x.state = "EXPORT_RUNNING" /\ x.exporter = e
      /\ x.requestId = r /\ x.returnReq = None /\ x.expectState = "EXPORT_SUCCESS"
      /\ x.side = "export" /\ ~x.created /\ ~x.destroyed
      /\ i.state = "EXPORT_RUNNING" /\ i.exporter = e /\ i.requestId = r
  BY <1>2 DEF ExportObj, Object, ExportStates, Expected
<1> HIDE DEF x, i
<1>5. /\ w \in ExportObj /\ Says(w, x, "EXPORT_RUNNING") /\ Plain(w)
      /\ Sent(x, f) = IF "lost" \in f THEN {} ELSE {w}
  BY <1>4, SentFacts DEF ExportObj
<1>6. x # NoObj /\ i # NoObj
  BY <1>4, NoneState
<1> HIDE DEF w
<1>7. mapped' = mapped /\ lent' = lent /\ aImp' = aImp /\ aExp' = aExp
  BY <1>0 DEF hardware
<1>8. CASE /\ NotExist /\ SendFails(f)
           /\ msgs' = msgs \cup Sent(x, f)
           /\ mExp' = [mExp EXCEPT ![e] = NoObj]
           /\ mIdx' = None
           /\ Respond(r, "fail")
           /\ UNCHANGED mImp
  <2>1. /\ mImp = NoObj /\ mIdx = None /\ mapped = None /\ msgs = {}
        /\ \A c \in Exporters : mExp[c] = NoObj
    BY <1>8, FreeName
  <2>2. /\ mImp' = NoObj /\ mIdx' = None /\ msgs' = {}
        /\ \A c \in Exporters : mExp'[c] = NoObj
    BY <1>1, <1>5, <1>8, <2>1 DEF IInv, TypeOK
  <2>3. \A q \in Requests : q # r => answers'[q] = answers[q]
    BY <1>2, <1>8, RespondFacts DEF IInv
  <2>4. LedgerInv'
    BY <1>2, <2>2, <2>3, NoneState DEF IInv, LedgerInv
  <2>5. MappingInv' /\ MsgInv'
    BY <1>7, <2>1, <2>2 DEF IInv, MappingInv, MsgInv
  <2>6. ASSUME ~debt' PROVE LentInv' /\ WaitInv'
    BY <1>1, <1>7, <2>1, <2>2, <2>6, NoneState DEF IInv, LentInv, WaitInv
  <2> QED BY <2>4, <2>5, <2>6 DEF IInv
<1>9. CASE /\ NotExist /\ ~SendFails(f)
           /\ msgs' = msgs \cup Sent(x, f)
           /\ PutExport(e, x) /\ mImp' = i /\ NoResponse
  <2>1. /\ mImp = NoObj /\ mIdx = None /\ mapped = None /\ msgs = {}
        /\ \A c \in Exporters : mExp[c] = NoObj
    BY <1>9, FreeName
  <2>2. /\ mImp' = i /\ mIdx' = e /\ msgs' = {w} /\ mExp'[e] = x /\ answers' = answers
        /\ \A c \in Exporters : c # e => mExp'[c] = NoObj
    BY <1>1, <1>4, <1>5, <1>9, <2>1, PutFacts DEF IInv, NoResponse
  <2>3. LedgerInv'
    BY <1>2, <1>4, <1>6, <2>2 DEF IInv, LedgerInv
  <2>4. MappingInv'
    BY <1>7, <2>1 DEF IInv, MappingInv
  <2>5. answers[r] = {}
    BY <1>0 DEF IInv, LedgerInv
  <2>6. MsgInv'
    BY <1>2, <1>4, <1>5, <1>6, <1>7, <2>1, <2>2, <2>5 DEF MsgInv, ExportMsgInv, Says, Open
  <2>7. ASSUME ~debt' PROVE LentInv' /\ WaitInv'
    <3>1. LentInv
      BY <1>1, <2>7 DEF IInv
    <3>2. LentInv'
      BY <1>4, <1>5, <1>6, <1>7, <2>1, <2>2, <3>1 DEF LentInv, Says
    <3>3. WaitInv'
      BY <1>4, <1>5, <2>2, NoneState DEF WaitInv, Says
    <3> QED BY <3>2, <3>3
  <2> QED BY <2>3, <2>4, <2>6, <2>7 DEF IInv
<1> QED BY <1>0, <1>3, <1>8, <1>9

\* A patient client returns only what no message is about.
LEMMA ReturnableQuiet ==
    ASSUME IInv, Returnable, \A q \in Returns \ todo : answers[q] # {}
    PROVE  msgs = {}
<1> SUFFICES ASSUME NEW m \in msgs PROVE FALSE
  OBVIOUS
<1>1. /\ m.exporter \in Exporters
      /\ m.returnReq # None => m.returnReq \in Returns
  BY ObjectFields DEF IInv, TypeOK, ImportObj, ExportObj
<1>2. /\ mImp.state \notin {"EXPORT_RUNNING", "IMPORT_RUNNING", "IMPORT_DESTROYING"}
      /\ FoundExport.state # "EXPORT_DESTROYING"
  BY DEF Returnable
<1>3. CASE m.side = "export"
  <2>1. /\ mExp[m.exporter] # NoObj
        /\ m.returnReq # None => Open(m.returnReq)
        /\ m.returnReq = None => mExp[m.exporter].state = "EXPORT_DESTROYING"
    BY <1>2, <1>3 DEF IInv, MsgInv, ExportMsgInv
  <2>2. FoundExport = mExp[m.exporter]
    BY <1>1, <2>1, RequestsAssumption DEF IInv, LedgerInv, FoundExport
  <2> QED BY <1>1, <1>2, <2>1, <2>2 DEF Open
<1>4. CASE m.side # "export"
  BY <1>2, <1>4 DEF IInv, MsgInv, ImportMsgInv
<1> QED BY <1>3, <1>4

\* A return starts with the unimport, or the unexport if nothing is imported.
LEMMA ReturnInv ==
    ASSUME IInv, Calm, TypeOK', NEW r \in Returns, UbseMemFdReturn(r)
    PROVE  IInv'
<1> DEFINE x == [FoundExport EXCEPT !.state = "EXPORT_DESTROYING",
                                    !.expectState = "EXPORT_DESTROYED",
                                    !.requestId = r, !.returnReq = r,
                                    !.destroyed = FALSE]
           y == [x EXCEPT !.state = "EXPORT_SUCCESS"]
           i == [mImp EXCEPT !.state = "IMPORT_DESTROYING",
                             !.expectState = "IMPORT_DESTROYED",
                             !.requestId = r, !.returnReq = r,
                             !.destroyed = FALSE]
           j == [i EXCEPT !.state = "IMPORT_SUCCESS"]
<1>0. PICK f \in Faults({"refuse", "lost", "late"}) :
        /\ r \in todo /\ todo' = todo \ {r}
        /\ Patient => \A q \in Returns \ todo : answers[q] # {}
        /\ Suffer(f)
        /\ \/ Respond(r, "fail") /\ UNCHANGED <<ledger, msgs>>
           \/ /\ Returnable /\ mImp = NoObj
              /\ msgs' = msgs \cup Sent(x, f)
              /\ UNCHANGED mImp
              /\ \/ SendFails(f) /\ PutExport(x.exporter, y) /\ Respond(r, "fail")
                 \/ ~SendFails(f) /\ NoResponse /\ UNCHANGED <<mExp, mIdx>>
           \/ /\ Returnable /\ mImp # NoObj
              /\ msgs' = msgs \cup Sent(i, f)
              /\ UNCHANGED <<mExp, mIdx>>
              /\ \/ SendFails(f) /\ mImp' = j /\ Respond(r, "fail")
                 \/ ~SendFails(f) /\ mImp' = i /\ NoResponse
        /\ UNCHANGED <<aImp, aExp, hardware>>
  BY DEF UbseMemFdReturn, HandleSingleExportReturn, FdReturnExistImport
<1>1. (SendFails(f) <=> "lost" \in f) /\ (~debt' => ~debt)
  BY <1>0, FaultFacts, CalmFacts DEF IInv
<1>2. /\ r \in Requests /\ r \notin todo' /\ todo' \subseteq todo /\ todo \subseteq Requests
      /\ answers[r] = {} /\ r # None
  BY <1>0, RequestsAssumption DEF IInv, TypeOK, LedgerInv, Requests
<1>3. CASE Respond(r, "fail") /\ UNCHANGED <<ledger, msgs>>
  BY <1>0, <1>1, <1>3, RefusedInv
<1>4. mapped' = mapped /\ lent' = lent /\ aImp' = aImp /\ aExp' = aExp
  BY <1>0 DEF hardware
<1>5. ASSUME Returnable, mImp = NoObj, mImp' = mImp, msgs' = msgs \cup Sent(x, f),
             \/ SendFails(f) /\ PutExport(x.exporter, y) /\ Respond(r, "fail")
             \/ ~SendFails(f) /\ NoResponse /\ UNCHANGED <<mExp, mIdx>>
      PROVE  IInv'
  <2> DEFINE e == mIdx
             w == Wire(x)
  <2>1. /\ msgs = {} /\ FoundExport # NoObj /\ e \in Exporters /\ mExp[e] = FoundExport
        /\ mExp[e] \in ExportObj /\ mExp[e].exporter = e
    BY <1>0, <1>5, ReturnableQuiet DEF Calm, Returnable, FoundExport, IInv, TypeOK, LedgerInv
  <2>2. /\ x \in ExportObj /\ x.exporter = e /\ x.state = "EXPORT_DESTROYING" /\ x.side = "export"
        /\ x.expectState = "EXPORT_DESTROYED" /\ x.returnReq = r /\ ~x.destroyed
    BY <1>2, <2>1 DEF ExportObj, Object, ExportStates, Expected
  <2> HIDE DEF x
  <2>3. y \in ExportObj /\ y.exporter = e /\ ~y.destroyed /\ y.state = "EXPORT_SUCCESS"
    BY <2>2 DEF ExportObj, Object, ExportStates
  <2>4. /\ w \in ExportObj /\ Says(w, x, "EXPORT_DESTROYING") /\ Plain(w)
        /\ Sent(x, f) = IF "lost" \in f THEN {} ELSE {w}
    BY <2>2, SentFacts DEF ExportObj
  <2> HIDE DEF y, w
  <2>5. \A c \in Exporters : c # e => mExp[c] = NoObj
    BY <2>1 DEF IInv, LedgerInv
  <2>6. \A q \in Requests : q # r => answers'[q] = answers[q]
    BY <1>2, <1>5, RespondFacts DEF IInv, NoResponse
  <2>7. /\ mIdx' = e /\ mExp'[e] # NoObj /\ mExp'[e].exporter = e
        /\ \A c \in Exporters : c # e => mExp'[c] = NoObj
        /\ msgs' = {} \/ (msgs' = {w} /\ answers'[r] = {})
        /\ ~mExp[e].destroyed => ~mExp'[e].destroyed
    <3>1. CASE SendFails(f)
      BY <1>1, <1>5, <2>1, <2>2, <2>3, <2>4, <2>5, <3>1, PutFacts, NoneState DEF IInv
    <3>2. CASE ~SendFails(f)
      BY <1>1, <1>2, <1>5, <2>1, <2>4, <2>5, <3>2 DEF NoResponse
    <3> QED BY <3>1, <3>2
  <2>8. mapped = None
    BY <1>5 DEF IInv, MappingInv
  <2>9. LedgerInv'
    BY <1>2, <1>5, <2>1, <2>6, <2>7, NoneState DEF IInv, LedgerInv
  <2>10. MappingInv'
    BY <1>4, <2>8 DEF IInv, MappingInv
  <2>11. MsgInv'
    BY <1>2, <1>4, <1>5, <2>2, <2>4, <2>7, <2>8 DEF MsgInv, ExportMsgInv, Says, Open
  <2>12. ASSUME ~debt' PROVE LentInv' /\ WaitInv'
    <3>1. LentInv /\ WaitInv
      BY <1>1, <2>12 DEF IInv
    <3>2. LentInv'
      BY <1>4, <2>1, <2>2, <2>4, <2>5, <2>7, <3>1 DEF LentInv, Says
    <3>3. WaitInv'
      BY <1>4, <1>5, <2>1, <2>2, <2>4, <2>7, <3>1, NoneState DEF WaitInv, Says
    <3> QED BY <3>2, <3>3
  <2> QED BY <2>9, <2>10, <2>11, <2>12 DEF IInv
<1>6. ASSUME Returnable, mImp # NoObj, UNCHANGED <<mExp, mIdx>>, msgs' = msgs \cup Sent(i, f),
             \/ SendFails(f) /\ mImp' = j /\ Respond(r, "fail")
             \/ ~SendFails(f) /\ mImp' = i /\ NoResponse
      PROVE  IInv'
  <2> DEFINE w == Wire(i)
  <2>1. /\ msgs = {} /\ mImp \in ImportObj
        /\ mImp.state \notin {"EXPORT_RUNNING", "IMPORT_RUNNING", "IMPORT_DESTROYING",
                              "IMPORT_DESTROYED"}
    BY <1>0, <1>6, ReturnableQuiet DEF Calm, Returnable, IInv, TypeOK, LedgerInv
  <2>2. /\ i \in ImportObj /\ i.exporter = mImp.exporter /\ i.state = "IMPORT_DESTROYING"
        /\ i.side = "import" /\ i.expectState = "IMPORT_DESTROYED"
        /\ i.requestId = r /\ i.returnReq = r /\ ~i.destroyed
    BY <1>2, <2>1 DEF ImportObj, Object, ImportStates, Expected
  <2> HIDE DEF i
  <2>3. j \in ImportObj /\ j.exporter = mImp.exporter /\ j.state = "IMPORT_SUCCESS"
    BY <2>2 DEF ImportObj, Object, ImportStates
  <2>4. /\ w \in ImportObj /\ Says(w, i, "IMPORT_DESTROYING") /\ Plain(w)
        /\ Sent(i, f) = IF "lost" \in f THEN {} ELSE {w}
    BY <2>2, SentFacts DEF ImportObj
  <2> HIDE DEF j, w
  <2>5. i # NoObj /\ j # NoObj
    BY <2>2, <2>3, NoneState
  <2>6. \A q \in Requests : q # r => answers'[q] = answers[q]
    BY <1>2, <1>6, RespondFacts DEF IInv, NoResponse
  <2>7. /\ mExp' = mExp /\ mIdx' = mIdx
        /\ \/ mImp' = j /\ msgs' = {}
           \/ mImp' = i /\ msgs' = {w} /\ answers'[r] = {}
    BY <1>1, <1>2, <1>6, <2>1, <2>4 DEF NoResponse
  <2>8. mImp.state \in {"IMPORT_SUCCESS", "IMPORT_ABNORMAL"}
    BY <2>1, ObjectFields DEF ImportObj, ImportStates
  <2>9. LedgerInv'
    BY <1>2, <1>6, <2>2, <2>3, <2>5, <2>6, <2>7 DEF IInv, LedgerInv
  <2>10. MappingInv'
    BY <1>4, <1>6, <2>5, <2>7 DEF IInv, MappingInv
  <2>11. MsgInv'
    BY <1>2, <1>4, <2>2, <2>4, <2>5, <2>7 DEF MsgInv, ImportMsgInv, Says, Open
  <2>12. ASSUME ~debt' PROVE LentInv' /\ WaitInv'
    <3>1. LentInv /\ WaitInv
      BY <1>1, <2>12 DEF IInv
    <3>2. LentInv'
      BY <1>4, <2>1, <2>2, <2>4, <2>7, <3>1 DEF LentInv, Says
    <3>3. WaitInv'
      BY <1>4, <2>1, <2>2, <2>3, <2>4, <2>7, <2>8, <3>1 DEF WaitInv, Says
    <3> QED BY <3>2, <3>3
  <2> QED BY <2>9, <2>10, <2>11, <2>12 DEF IInv
<1> QED BY <1>0, <1>3, <1>5, <1>6

-----------------------------------------------------------------------------
(* The invariant as a theorem, and what follows from it.                   *)

\* On a calm network every step keeps the invariant.
LEMMA StepInv == IInv /\ Calm /\ [Next]_vars => IInv'
<1> SUFFICES ASSUME IInv, Calm, [Next]_vars PROVE IInv'
  OBVIOUS
<1>0. TypeOK'
  BY TypeStep DEF IInv
<1>1. CASE UNCHANGED vars
  <2>1. /\ mImp' = mImp /\ mExp' = mExp /\ mIdx' = mIdx /\ aImp' = aImp /\ aExp' = aExp
        /\ mapped' = mapped /\ lent' = lent /\ msgs' = msgs /\ todo' = todo
        /\ answers' = answers /\ debt' = debt
    BY <1>1 DEF vars, ledger, hardware, failures
  <2>2. LedgerInv' /\ MappingInv' /\ (LentInv => LentInv') /\ (WaitInv => WaitInv')
    BY <2>1 DEF IInv, LedgerInv, MappingInv, LentInv, WaitInv
  <2>3. MsgInv'
    BY <2>1 DEF IInv, MsgInv, ExportMsgInv, ImportMsgInv, Open
  <2> QED BY <1>0, <2>1, <2>2, <2>3 DEF IInv
<1>2. ASSUME NEW r \in Borrows, NEW e \in Exporters, UbseMemFdBorrow(r, e) PROVE IInv'
  BY <1>0, <1>2, BorrowInv
<1>3. ASSUME NEW r \in Returns, UbseMemFdReturn(r) PROVE IInv'
  BY <1>0, <1>3, ReturnInv
<1>4. ASSUME NEW m \in msgs, FdExportAgentCallback(m) PROVE IInv'
  <2>1. m \in ExportObj
    BY <1>4, MessageSides DEF FdExportAgentCallback, IInv
  <2> QED BY <1>0, <1>4, <2>1, ExportRunningInv, ExportDestroyingInv DEF FdExportAgentCallback
<1>5. ASSUME NEW m \in msgs, FdImportAgentCallback(m) PROVE IInv'
  <2>1. m \in ImportObj
    BY <1>5, MessageSides DEF FdImportAgentCallback, IInv
  <2> QED BY <1>0, <1>5, <2>1, ImportRunningInv, ImportDestroyingInv DEF FdImportAgentCallback
<1>6. ASSUME NEW m \in msgs, FdExportMasterCallback(m) PROVE IInv'
  <2>1. m \in ExportObj /\ m.side = "export"
    BY <1>6, MessageSides DEF FdExportMasterCallback, IInv
  <2>2. m.expectState = "EXPORT_SUCCESS" => mImp # NoObj
    BY <2>1, NoneState DEF IInv, MsgInv, ExportMsgInv
  <2> QED
    BY <1>0, <1>6, <2>1, <2>2, ExportExpectSuccessInv, ExportExpectDestroyInv
    DEF FdExportMasterCallback
<1>7. ASSUME NEW m \in msgs, FdImportMasterCallback(m) PROVE IInv'
  <2>1. m \in ImportObj
    BY <1>7, MessageSides DEF FdImportMasterCallback, IInv
  <2> QED
    BY <1>0, <1>7, <2>1, ImportExpectSuccessInv, ImportExpectDestroyInv
    DEF FdImportMasterCallback
<1> QED BY <1>1, <1>2, <1>3, <1>4, <1>5, <1>6, <1>7 DEF Next, Handle

\* On a calm network the invariant holds of the protocol.
THEOREM FdInvariant == ASSUME Calm PROVE Spec => []IInv
<1>1. Init => IInv
  BY InitInv
<1>2. IInv /\ [Next]_vars => IInv'
  BY StepInv
<1> QED BY <1>1, <1>2, PTL DEF Spec

\* On a calm network no rollback and no return unexports memory that the
\* importer still has mapped.
THEOREM FdMappedIsLent == ASSUME Calm PROVE Spec => []MappedIsLent
<1>1. IInv => MappedIsLent
  BY DEF IInv, MappingInv, MappedIsLent
<1> QED BY <1>1, FdInvariant, PTL

\* On a calm network the index of the master's ledger finds every export
\* object, whichever exporters the name was borrowed from.
THEOREM FdIndexFindsExports == ASSUME Calm PROVE Spec => []IndexFindsExports
<1>1. IInv => IndexFindsExports
  BY DEF IInv, LedgerInv, IndexFindsExports
<1> QED BY <1>1, FdInvariant, PTL

\* On a calm network, once every message is handled and unless a fault left
\* work to reconciliation, the ledgers of master and agents agree with each
\* other and with the hardware.
THEOREM FdQuietAgreement == ASSUME Calm PROVE Spec => []QuietAgreement
<1>1. IInv => QuietAgreement
  <2> SUFFICES ASSUME IInv, msgs = {}, ~debt PROVE QuietAgreement
    BY DEF QuietAgreement
  <2>1. aImp # NoObj <=> mapped # None
    BY DEF IInv, MappingInv
  <2>2. mImp # NoObj <=> mapped # None
    <3>1. mapped # None => mImp # NoObj
      BY DEF IInv, MappingInv
    <3>2. ASSUME mImp # NoObj PROVE mapped # None
      <4>1. mImp \in ImportObj /\ mImp.state # "IMPORT_DESTROYED"
        BY <3>2 DEF IInv, TypeOK, LedgerInv
      <4>2. mImp.state \in {"IMPORT_SUCCESS", "IMPORT_ABNORMAL"}
        BY <4>1, ObjectFields DEF IInv, WaitInv, ImportObj, ImportStates
      <4> QED BY <4>2 DEF IInv, WaitInv
    <3> QED BY <3>1, <3>2
  <2>3. \A e \in Exporters : /\ mExp[e] # NoObj <=> aExp[e] # NoObj
                             /\ aExp[e] # NoObj <=> e \in lent
    BY DEF IInv, LentInv
  <2>4. (mImp # NoObj) = (aImp # NoObj) /\ (aImp # NoObj) = (mapped # None)
    BY <2>1, <2>2, Zenon
  <2>5. ASSUME NEW e \in Exporters
        PROVE  (mExp[e] # NoObj) = (aExp[e] # NoObj) /\ (aExp[e] # NoObj) = (e \in lent)
    <3>1. mExp[e] # NoObj <=> aExp[e] # NoObj
      BY <2>3
    <3>2. aExp[e] # NoObj <=> e \in lent
      BY <2>3
    <3>3. (mExp[e] # NoObj) = (aExp[e] # NoObj)
      BY <3>1
    <3>4. (aExp[e] # NoObj) = (e \in lent)
      BY <3>2
    <3> QED BY <3>3, <3>4, Zenon
  <2> QED BY <2>4, <2>5, Zenon DEF QuietAgreement
<1> QED BY <1>1, FdInvariant, PTL

-----------------------------------------------------------------------------
(* The client's view: the refinement of FdLease, and true answers.         *)

\* The step of AnswersTruthful.
Truthful ==
    \A r \in Requests : ~debt /\ "ok" \in answers'[r] \ answers[r] =>
        IF r \in Borrows THEN mapped # None /\ mapped \in lent
                         ELSE mImp' = NoObj => mapped = None /\ lent = {}

\* What a client sees of a step: a step of FdLease or nothing.
ClientStep == Lease!Next \/ UNCHANGED Lease!vars

\* A handler that answers nothing.
LEMMA SilentStep ==
    ASSUME answers' = answers, todo' = todo, Held' <=> Held
    PROVE  ClientStep /\ Truthful
<1>1. Truthful
  BY DEF Truthful
<1>2. Held' = Held
  BY Zenon
<1> QED BY <1>1, <1>2 DEF ClientStep, Lease!vars

\* The first answer to a request is its only one.
LEMMA FirstAnswer ==
    ASSUME TypeOK, NEW r \in Requests, answers[r] = {}, NEW how, Respond(r, how)
    PROVE  answers' = [answers EXCEPT ![r] = {how}]
BY DEF TypeOK, Respond

\* A handler that lets a request fail.
LEMMA FailStep ==
    ASSUME TypeOK, NEW r \in Requests, answers[r] = {}, Respond(r, "fail"),
           todo' = todo \ {r}, Held' <=> Held
    PROVE  ClientStep /\ Truthful
<1>1. answers' = [answers EXCEPT ![r] = {"fail"}]
  BY FirstAnswer
<1>2. Truthful
  BY <1>1 DEF Truthful, TypeOK
<1>3. Held' = Held
  BY Zenon
<1>4. Lease!Refuse(r)
  BY <1>1, <1>3 DEF Lease!Refuse, Lease!Pending, Lease!Answer
<1>5. r \in Lease!Requests
  BY DEF Lease!Requests, Requests
<1> QED BY <1>2, <1>4, <1>5 DEF ClientStep, Lease!Next

\* A client sees its borrow received or refused.
LEMMA BorrowClient ==
    ASSUME IInv, Calm, NEW r \in Borrows, NEW e \in Exporters, UbseMemFdBorrow(r, e)
    PROVE  ClientStep /\ Truthful
<1> DEFINE x == [side |-> "export", state |-> "EXPORT_RUNNING",
                 expectState |-> "EXPORT_SUCCESS", exporter |-> e, obmm |-> e,
                 requestId |-> r, returnReq |-> None,
                 created |-> FALSE, destroyed |-> FALSE]
           i == [x EXCEPT !.side = "import", !.obmm = None]
<1>1. /\ r \in todo /\ todo' = todo \ {r}
      /\ \/ Respond(r, "fail") /\ mImp' = mImp
         \/ NotExist /\ mImp' = i /\ NoResponse
  BY DEF UbseMemFdBorrow, ledger
<1>2. r \in Requests /\ answers[r] = {} /\ TypeOK
  BY <1>1 DEF IInv, LedgerInv, TypeOK
<1>3. CASE Respond(r, "fail") /\ mImp' = mImp
  BY <1>1, <1>2, <1>3, FailStep DEF Held
<1>4. CASE NotExist /\ mImp' = i /\ NoResponse
  <2>1. i.state = "EXPORT_RUNNING"
    OBVIOUS
  <2>2. ~Held /\ ~Held' /\ answers' = answers
    BY <1>4, <2>1, NoneState DEF Held, NotExist, NoResponse
  <2>3. Held' = Held
    BY <2>2, Held' <=> Held, Zenon
  <2>4. Lease!Receive(r) /\ r \in Lease!Requests
    BY <1>1, <1>2, <2>2, <2>3 DEF Lease!Receive, Lease!Requests, Requests
  <2> QED BY <2>2, <2>4 DEF ClientStep, Lease!Next, Truthful
<1> QED BY <1>1, <1>3, <1>4

\* A client sees its return received or refused.
LEMMA ReturnClient ==
    ASSUME IInv, Calm, NEW r \in Returns, UbseMemFdReturn(r)
    PROVE  ClientStep /\ Truthful
<1> DEFINE i == [mImp EXCEPT !.state = "IMPORT_DESTROYING",
                             !.expectState = "IMPORT_DESTROYED",
                             !.requestId = r, !.returnReq = r,
                             !.destroyed = FALSE]
           j == [i EXCEPT !.state = "IMPORT_SUCCESS"]
<1>1. /\ r \in todo /\ todo' = todo \ {r}
      /\ \/ mImp' = mImp
         \/ Returnable /\ mImp # NoObj /\ mImp' \in {i, j}
      /\ Respond(r, "fail") \/ NoResponse
  BY DEF UbseMemFdReturn, HandleSingleExportReturn, FdReturnExistImport, ledger
<1>2. r \in Requests /\ answers[r] = {} /\ TypeOK
  BY <1>1 DEF IInv, LedgerInv, TypeOK
<1>3. Held' <=> Held
  <2>1. CASE mImp' = mImp
    BY <2>1 DEF Held
  <2>2. CASE Returnable /\ mImp # NoObj /\ mImp' \in {i, j}
    <3>1. mImp \in ImportObj
      BY <2>2 DEF IInv, TypeOK
    <3>2. i.state = "IMPORT_DESTROYING" /\ j.state = "IMPORT_SUCCESS"
      BY <3>1 DEF ImportObj, Object
    <3>3. mImp.state \in {"IMPORT_SUCCESS", "IMPORT_ABNORMAL"}
      BY <2>2, <3>1, ObjectFields DEF Returnable, IInv, LedgerInv, ImportObj, ImportStates
    <3> QED BY <2>2, <3>2, <3>3 DEF Held
  <2> QED BY <1>1, <2>1, <2>2
<1>4. CASE Respond(r, "fail")
  BY <1>1, <1>2, <1>3, <1>4, FailStep
<1>5. CASE NoResponse
  <2>1. Held' = Held /\ answers' = answers
    BY <1>3, <1>5, Zenon DEF NoResponse
  <2>2. Lease!Receive(r) /\ r \in Lease!Requests
    BY <1>1, <1>2, <2>1 DEF Lease!Receive, Lease!Requests, Requests
  <2> QED BY <2>1, <2>2 DEF ClientStep, Lease!Next, Truthful
<1> QED BY <1>1, <1>4, <1>5

\* An exporter's answer to a borrow is seen only when it ends the borrow.
LEMMA ExportExpectSuccessClient ==
    ASSUME IInv, Calm, NEW m \in ExportObj, m \in msgs,
           m.expectState = "EXPORT_SUCCESS", FdExportExpectSuccess(m), todo' = todo
    PROVE  ClientStep /\ Truthful
<1> DEFINE x == [m EXCEPT !.created = TRUE]
           i == [mImp EXCEPT !.state = "IMPORT_RUNNING",
                             !.expectState = "IMPORT_SUCCESS",
                             !.obmm = m.exporter, !.created = FALSE]
<1>1. /\ mImp' \in {mImp, i, NoObj}
      /\ NoResponse \/ Respond(x.requestId, "fail") \/ Respond(m.requestId, "fail")
  BY DEF FdExportExpectSuccess, FdExportRollback, ledger
<1>2. m.side = "export" /\ x.requestId = m.requestId /\ m.requestId \in Requests
  BY ObjectFields DEF ExportObj, Object
<1>3. /\ mImp.state = "EXPORT_RUNNING" /\ mImp \in ImportObj
      /\ Open(m.requestId) /\ TypeOK
  BY <1>2, NoneState DEF IInv, TypeOK, MsgInv, ExportMsgInv
<1>4. i.state = "IMPORT_RUNNING"
  BY <1>3 DEF ImportObj, Object
<1> HIDE DEF x, i
<1>5. ~Held /\ ~Held'
  BY <1>1, <1>3, <1>4, NoneState DEF Held
<1>6. CASE NoResponse
  BY <1>5, <1>6, SilentStep DEF NoResponse
<1>7. CASE Respond(m.requestId, "fail")
  BY <1>2, <1>3, <1>5, <1>7, FailStep DEF Open
<1> QED BY <1>1, <1>2, <1>6, <1>7

\* The end of an unexport completes a return truthfully, or fails it.
LEMMA ExportExpectDestroyClient ==
    ASSUME IInv, Calm, NEW m \in ExportObj, m \in msgs,
           m.expectState = "EXPORT_DESTROYED", FdExportExpectDestroy(m), todo' = todo
    PROVE  ClientStep /\ Truthful
<1> DEFINE r == m.returnReq
<1>1. /\ mImp' = mImp
      /\ \/ NoResponse
         \/ r # None /\ Respond(r, "fail")
         \/ r # None /\ m.state = "EXPORT_DESTROYED" /\ Respond(r, "ok")
  BY DEF FdExportExpectDestroy
<1>2. m.side = "export" /\ m.exporter \in Exporters /\ (r # None => r \in Returns)
  BY ObjectFields DEF ExportObj
<1>3. /\ mImp = NoObj /\ mapped = None /\ mExp[m.exporter] # NoObj
      /\ r # None => Open(r) /\ TypeOK
  BY <1>2 DEF IInv, MsgInv, ExportMsgInv
<1>4. ~Held /\ ~Held'
  BY <1>1, <1>3, NoneState DEF Held
<1>5. CASE NoResponse
  BY <1>4, <1>5, SilentStep DEF NoResponse
<1>6. CASE r # None /\ Respond(r, "fail")
  BY <1>2, <1>3, <1>4, <1>6, FailStep DEF Open, Requests, IInv
<1>7. CASE r # None /\ m.state = "EXPORT_DESTROYED" /\ Respond(r, "ok")
  <2>1. answers' = [answers EXCEPT ![r] = {"ok"}]
    BY <1>2, <1>3, <1>7, FirstAnswer DEF Open, Requests, IInv
  <2>2. Held' = Held
    BY <1>4, Held' <=> Held, Zenon
  <2>3. Lease!Complete(r)
    BY <1>3, <1>4, <1>7, <2>1, <2>2 DEF Lease!Complete, Lease!Pending, Lease!Answer, Open
  <2>4. ASSUME ~debt PROVE lent = {}
    <3>1. /\ m.exporter \notin lent
          /\ \A c \in Exporters : c # m.exporter => mExp[c] = NoObj
      BY <1>2, <1>3, <1>7, <2>4 DEF IInv, LedgerInv, LentInv
    <3>2. \A c \in Exporters : c # m.exporter => c \notin lent
      BY <2>4, <3>1 DEF IInv, LentInv, MsgInv
    <3> QED BY <1>2, <3>1, <3>2 DEF IInv, TypeOK
  <2>5. Truthful
    BY <1>2, <1>3, <1>7, <2>1, <2>4, RequestsAssumption DEF Truthful, IInv, TypeOK
  <2> QED BY <1>2, <1>7, <2>3, <2>5 DEF ClientStep, Lease!Next
<1> QED BY <1>1, <1>5, <1>6, <1>7

\* The end of an import grants the lease truthfully, or fails the borrow.
LEMMA ImportExpectSuccessClient ==
    ASSUME IInv, Calm, NEW m \in ImportObj, m \in msgs,
           m.expectState = "IMPORT_SUCCESS", FdImportExpectSuccess(m), todo' = todo
    PROVE  ClientStep /\ Truthful
<1> DEFINE r == m.requestId
           i == [m EXCEPT !.created = TRUE]
<1>1. \/ NoResponse /\ mImp' = mImp
      \/ m.state = "IMPORT_SUCCESS" /\ mImp' = i /\ Respond(r, "ok")
      \/ mImp' = NoObj /\ Respond(r, "fail")
  BY DEF FdImportExpectSuccess, ledger
<1>2. m.side = "import" /\ r \in Requests /\ i.state = m.state
  BY ObjectFields DEF ImportObj, Object
<1> HIDE DEF i
<1>3. /\ mImp.state = "IMPORT_RUNNING" /\ r \in Borrows /\ Open(r) /\ TypeOK
      /\ m.state = "IMPORT_SUCCESS" => mapped # None
  BY <1>2 DEF IInv, MsgInv, ImportMsgInv
<1>4. ~Held
  BY <1>3 DEF Held
<1>5. CASE NoResponse /\ mImp' = mImp
  BY <1>5, SilentStep DEF NoResponse, Held
<1>6. CASE mImp' = NoObj /\ Respond(r, "fail")
  <2>1. ~Held'
    BY <1>6, NoneState DEF Held
  <2> QED BY <1>2, <1>3, <1>4, <1>6, <2>1, FailStep DEF Open
<1>7. CASE m.state = "IMPORT_SUCCESS" /\ mImp' = i /\ Respond(r, "ok")
  <2>1. answers' = [answers EXCEPT ![r] = {"ok"}]
    BY <1>2, <1>3, <1>7, FirstAnswer DEF Open
  <2>2. Held'
    BY <1>2, <1>7 DEF Held
  <2>3. Held' = TRUE
    BY <2>2, Zenon
  <2>4. Lease!Grant(r)
    BY <1>3, <1>4, <2>1, <2>3 DEF Lease!Grant, Lease!Pending, Lease!Answer, Open
  <2>5. Truthful
    BY <1>3, <1>7, <2>1 DEF Truthful, IInv, TypeOK, MappingInv
  <2> QED BY <1>3, <2>4, <2>5 DEF ClientStep, Lease!Next
<1> QED BY <1>1, <1>5, <1>6, <1>7

\* The end of an unimport releases the lease, or fails the return.
LEMMA ImportExpectDestroyClient ==
    ASSUME IInv, Calm, NEW m \in ImportObj, m \in msgs,
           m.expectState = "IMPORT_DESTROYED", FdImportExpectDestroy(m), todo' = todo
    PROVE  ClientStep /\ Truthful
<1> DEFINE r == m.requestId
           i == [m EXCEPT !.destroyed = TRUE]
<1>1. \/ NoResponse /\ mImp' = mImp
      \/ m.state = "IMPORT_ABNORMAL" /\ mImp' = i /\ Respond(r, "fail")
      \/ mImp' = NoObj /\ (NoResponse \/ Respond(r, "fail"))
      \/ mExp[m.exporter] = NoObj
  BY DEF FdImportExpectDestroy, FdImportExpectDestroySuccessPath, ledger
<1>2. m.side = "import" /\ r \in Requests /\ m.exporter \in Exporters /\ i.state = m.state
  BY ObjectFields DEF ImportObj, Object
<1> HIDE DEF i
<1>3. /\ mImp.state = "IMPORT_DESTROYING" /\ mImp # NoObj /\ mImp.exporter = m.exporter
      /\ r \in Returns /\ Open(r) /\ TypeOK
  BY <1>2 DEF IInv, MsgInv, ImportMsgInv
<1>4. Held /\ mExp[m.exporter] # NoObj
  BY <1>3 DEF Held, IInv, LedgerInv
<1>5. CASE NoResponse /\ mImp' = mImp
  BY <1>5, SilentStep DEF NoResponse, Held
<1>6. CASE m.state = "IMPORT_ABNORMAL" /\ mImp' = i /\ Respond(r, "fail")
  <2>1. Held'
    BY <1>2, <1>6 DEF Held
  <2> QED BY <1>2, <1>3, <1>4, <1>6, <2>1, FailStep DEF Open
<1>7. CASE mImp' = NoObj /\ (NoResponse \/ Respond(r, "fail"))
  <2>1. answers' = answers \/ answers' = [answers EXCEPT ![r] = {"fail"}]
    BY <1>2, <1>3, <1>7, FirstAnswer DEF Open, NoResponse
  <2>2. ~Held'
    BY <1>7, NoneState DEF Held
  <2>3. Held' = FALSE
    BY <2>2, Held' <=> FALSE, Zenon
  <2>4. Lease!Release(r)
    BY <1>3, <1>4, <2>1, <2>3 DEF Lease!Release, Lease!Pending, Lease!Answer, Open
  <2>5. Truthful
    BY <1>2, <1>3, <2>1 DEF Truthful, TypeOK
  <2> QED BY <1>3, <2>4, <2>5 DEF ClientStep, Lease!Next
<1> QED BY <1>1, <1>4, <1>5, <1>6, <1>7

\* On a calm network every step is one of FdLease, and answers the truth.
LEMMA StepClient ==
    ASSUME IInv, Calm, [Next]_vars
    PROVE  ClientStep /\ Truthful
<1>1. CASE UNCHANGED vars
  <2>1. answers' = answers /\ todo' = todo /\ mImp' = mImp
    BY <1>1 DEF vars, ledger
  <2> QED BY <2>1, SilentStep DEF Held
<1>2. ASSUME NEW r \in Borrows, NEW e \in Exporters, UbseMemFdBorrow(r, e)
      PROVE  ClientStep /\ Truthful
  BY <1>2, BorrowClient
<1>3. ASSUME NEW r \in Returns, UbseMemFdReturn(r) PROVE ClientStep /\ Truthful
  BY <1>3, ReturnClient
<1>4. ASSUME NEW m \in msgs, FdExportAgentCallback(m) \/ FdImportAgentCallback(m)
      PROVE  ClientStep /\ Truthful
  <2>1. answers' = answers /\ todo' = todo /\ mImp' = mImp
    BY <1>4 DEF FdExportAgentCallback, FdImportAgentCallback, ledger
  <2> QED BY <2>1, SilentStep DEF Held
<1>5. ASSUME NEW m \in msgs, FdExportMasterCallback(m) PROVE ClientStep /\ Truthful
  <2>1. m \in ExportObj /\ m.side = "export"
    BY <1>5, MessageSides DEF FdExportMasterCallback, IInv
  <2>2. m.expectState = "EXPORT_SUCCESS" => mImp # NoObj
    BY <2>1, NoneState DEF IInv, MsgInv, ExportMsgInv
  <2> QED
    BY <1>5, <2>1, <2>2, ExportExpectSuccessClient, ExportExpectDestroyClient
    DEF FdExportMasterCallback
<1>6. ASSUME NEW m \in msgs, FdImportMasterCallback(m) PROVE ClientStep /\ Truthful
  <2>1. m \in ImportObj
    BY <1>6, MessageSides DEF FdImportMasterCallback, IInv
  <2> QED
    BY <1>6, <2>1, ImportExpectSuccessClient, ImportExpectDestroyClient
    DEF FdImportMasterCallback
<1> QED BY <1>1, <1>2, <1>3, <1>4, <1>5, <1>6 DEF Next, Handle

\* On a calm network a success response is true when it is sent.
THEOREM FdAnswersTruthful == ASSUME Calm PROVE Spec => AnswersTruthful
<1>1. IInv /\ [Next]_vars => [Truthful]_vars
  BY StepClient
<1>2. [][Truthful]_vars => AnswersTruthful
  BY DEF AnswersTruthful, Truthful
<1> QED BY <1>1, <1>2, FdInvariant, PTL DEF Spec

\* On a calm network the protocol implements the contract of FdLease: one
\* holder at a time, released only by a return, one answer per request.
THEOREM FdImplementsLease == ASSUME Calm PROVE Spec => ImplementsLease
<1>1. Init => Lease!Init
  <2> SUFFICES ASSUME Init PROVE Lease!Init
    OBVIOUS
  <2>1. ~Held
    BY NoneState DEF Init, Held
  <2>2. Held = FALSE
    BY <2>1, Held <=> FALSE, Zenon
  <2> QED BY <2>2 DEF Init, Lease!Init, Requests, Lease!Requests
<1>2. IInv /\ [Next]_vars => [Lease!Next]_(Lease!vars)
  BY StepClient DEF ClientStep
<1> QED BY <1>1, <1>2, FdInvariant, PTL DEF Spec, ImplementsLease, Lease!Spec
=============================================================================
