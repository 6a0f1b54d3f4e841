-------------------------- MODULE ShareBorrowProofs --------------------------
(***************************************************************************)
(* Theorems about ShareBorrow, for any nodes, any number of requests and   *)
(* any faults.                                                             *)
(***************************************************************************)
EXTENDS ShareBorrow, FiniteSetTheorems, TLAPS

-----------------------------------------------------------------------------
(* The inductive invariant.  As long as no send that failed was delivered, *)
(* there is one memory of the name; whoever attaches or is attached uses   *)
(* it, and it stays exported meanwhile.  At most one message is under way  *)
(* to or from the exporter, and one per importer.                          *)

\* The memory of the import object o is the one exported under the name.
Serves(o) == mExp[o.exporter].state = "EXPORT_SUCCESS" /\ mExp[o.exporter].mem = o.mem

\* A message carries no report flags.
Plain(m) == ~m.created /\ ~m.destroyed

\* The export objects: one, and its memory is lent when it is complete.
ExportInv ==
    /\ \A d, e \in Exporters : mExp[d] # NoObj /\ mExp[e] # NoObj => d = e
    /\ \A e \in Exporters :
          /\ mExp[e] # NoObj => mExp[e].node = e
          /\ mExp[e].state # "EXPORT_DESTROYED"
          /\ mExp[e].state = "EXPORT_SUCCESS" => mExp[e].mem \in lent /\ aExp[e] # NoObj
          /\ mExp[e].state = "EXPORT_RUNNING" => ~mExp[e].created
          /\ mExp[e].state = "EXPORT_DESTROYING" => ~mExp[e].destroyed
          /\ aExp[e] # NoObj => /\ mExp[e] # NoObj /\ aExp[e].mem = mExp[e].mem
                                /\ aExp[e].state = "EXPORT_SUCCESS"
                                /\ aExp[e].mem \in lent

\* The import objects: theirs is the memory exported, and nodes have mapped no
\* other.
ImportAt(i) ==
    /\ mImp[i] # NoObj => Serves(mImp[i]) /\ mImp[i].node = i
    /\ mImp[i].state # "IMPORT_DESTROYED"
    /\ mImp[i].state = "IMPORT_RUNNING" => ~mImp[i].created
    /\ mImp[i].state = "IMPORT_DESTROYING" => ~mImp[i].destroyed
    /\ aImp[i] = NoObj <=> mapped[i] = None
    /\ aImp[i] # NoObj => /\ mImp[i] # NoObj
                          /\ mapped[i] = mImp[i].mem /\ aImp[i].mem = mImp[i].mem

ImportInv == \A i \in Importers : ImportAt(i)

\* What a thread holds is still true of the ledger when it goes on.
LockAt(i) ==
    LET o == lock[i].obj IN
    /\ lock[i].op = "attach" =>
          /\ mImp[i] = NoObj /\ Serves(o) /\ o.node = i
          /\ o.state = "IMPORT_RUNNING" /\ o.expectState = "IMPORT_SUCCESS"
          /\ o.requestId \in Attaches /\ ~o.created
    /\ lock[i].op \in {"detach", "rollback"} =>
          /\ mImp[i] # NoObj /\ o.exporter = mImp[i].exporter
          /\ o.mem = mImp[i].mem /\ o.node = i
          /\ o.state = "IMPORT_DESTROYING" /\ o.expectState = "IMPORT_DESTROYED"
          /\ o.requestId \in Detaches /\ ~o.destroyed
    /\ lock[i].op = "detach" => mImp[i].state \in {"IMPORT_SUCCESS", "IMPORT_ABNORMAL"}
    /\ lock[i].op = "rollback" => mImp[i].state = "IMPORT_DESTROYING"

LockInv == \A i \in Importers : LockAt(i)

\* An export or unexport is under way.
ExportMsg(m) ==
    /\ Plain(m) /\ mExp[m.node] # NoObj /\ mExp[m.node].mem = m.mem
    /\ m.state \in {"EXPORT_SUCCESS", "EXPORT_DESTROYING"} => m.mem \in lent
    /\ m.state \in {"EXPORT_RUNNING", "EXPORT_DESTROYED"} <=> aExp[m.node] = NoObj
    /\ \/ /\ m.expectState = "EXPORT_SUCCESS"
          /\ m.state \in {"EXPORT_RUNNING", "EXPORT_SUCCESS", "EXPORT_DESTROYED"}
          /\ mExp[m.node].state = "EXPORT_RUNNING"
       \/ /\ m.expectState = "EXPORT_DESTROYED"
          /\ m.state \in {"EXPORT_DESTROYING", "EXPORT_SUCCESS", "EXPORT_DESTROYED"}
          /\ mExp[m.node].state = "EXPORT_DESTROYING"
          /\ m.returnReq \in Returns

\* An import or unimport is under way.
ImportMsg(m) ==
    LET i == m.node IN
    /\ Plain(m) /\ lock[i] = Free
    /\ mImp[i] # NoObj /\ mImp[i].mem = m.mem /\ mImp[i].exporter = m.exporter
    /\ m.state \in {"IMPORT_RUNNING", "IMPORT_DESTROYED"} => mapped[i] = None
    /\ \/ /\ m.expectState = "IMPORT_SUCCESS"
          /\ m.state \in {"IMPORT_RUNNING", "IMPORT_SUCCESS", "IMPORT_DESTROYED"}
          /\ mImp[i].state = "IMPORT_RUNNING"
          /\ m.state = "IMPORT_SUCCESS" => mapped[i] # None
          /\ m.requestId \in Attaches
       \/ /\ m.expectState = "IMPORT_DESTROYED"
          /\ m.state \in {"IMPORT_DESTROYING", "IMPORT_ABNORMAL", "IMPORT_DESTROYED"}
          /\ mImp[i].state = "IMPORT_DESTROYING"
          /\ m.requestId \in Detaches

MsgInv ==
    /\ \A m, n \in msgs : m.side = n.side /\ m.node = n.node => m = n
    /\ \A m \in msgs : IF m.side = "export" THEN ExportMsg(m) ELSE ImportMsg(m)

\* Unless a signature failed, what is lent is what the exporters know of.
LentInv == \A b \in lent : \E e \in Exporters : aExp[e] # NoObj /\ aExp[e].mem = b

\* Unless a report was lost, the master waits for a message only while there
\* is one, and the nodes have what they had.
WaitExports ==
    \A e \in Exporters :
        mExp[e].state \in {"EXPORT_RUNNING", "EXPORT_DESTROYING"} =>
            \E m \in msgs : m.side = "export" /\ m.node = e

WaitAt(i) ==
    /\ mImp[i].state = "IMPORT_RUNNING" =>
          \E m \in msgs : m.side = "import" /\ m.node = i
    /\ mImp[i].state = "IMPORT_DESTROYING" =>
          \/ lock[i].op = "rollback"
          \/ \E m \in msgs : m.side = "import" /\ m.node = i
    /\ mImp[i].state \in {"IMPORT_SUCCESS", "IMPORT_ABNORMAL"} \/ lock[i].op = "rollback" =>
          mapped[i] # None

WaitImports ==
    /\ \A i \in Importers : WaitAt(i)
    /\ \A m \in msgs : m.state \in {"IMPORT_DESTROYING", "IMPORT_ABNORMAL"} =>
          mapped[m.node] # None

\* What holds as long as every send that failed was lost.
Sound ==
    /\ ExportInv /\ ImportInv /\ LockInv /\ MsgInv
    /\ "sign" \notin faults => LentInv
    /\ "report" \notin faults => WaitExports /\ WaitImports

IInv == TypeOK /\ ("late" \notin faults => Sound)

-----------------------------------------------------------------------------
(* Lemmas: the objects and their copies.                                   *)

\* The fields of an export object have their types.
LEMMA ExportFields ==
    ASSUME NEW o \in ExportObj
    PROVE  /\ o.side = "export" /\ o.node \in Exporters /\ o.mem \in Borrows
           /\ o.state \in ExportStates
           /\ o.expectState \in {"EXPORT_SUCCESS", "EXPORT_DESTROYED"}
           /\ o.returnReq \in Returns \cup {None}
           /\ o.created \in BOOLEAN /\ o.destroyed \in BOOLEAN
           /\ o # NoObj
BY DEF ExportObj, NoObj, ExportStates

\* The fields of an import object have their types.
LEMMA ImportFields ==
    ASSUME NEW o \in ImportObj
    PROVE  /\ o.side = "import" /\ o.node \in Importers /\ o.exporter \in Exporters
           /\ o.mem \in Borrows /\ o.state \in ImportStates
           /\ o.expectState \in {"IMPORT_SUCCESS", "IMPORT_DESTROYED"}
           /\ o.requestId \in Attaches \cup Detaches
           /\ o.created \in BOOLEAN /\ o.destroyed \in BOOLEAN
           /\ o # NoObj
BY DEF ImportObj, NoObj, ImportStates

\* Where a ledger has no object the state is NONE, which no object has.
LEMMA NoneState ==
    /\ NoObj.state = "NONE"
    /\ "NONE" \notin ExportStates /\ "NONE" \notin ImportStates
BY DEF NoObj, ExportStates, ImportStates

\* The export message n is the object o in state s.
SaysExport(n, o, s) ==
    /\ n \in ExportObj /\ n.side = "export" /\ n.state = s
    /\ n.node = o.node /\ n.mem = o.mem
    /\ n.expectState = o.expectState /\ n.returnReq = o.returnReq

\* The import message n is the object o in state s.
SaysImport(n, o, s) ==
    /\ n \in ImportObj /\ n.side = "import" /\ n.state = s
    /\ n.node = o.node /\ n.mem = o.mem /\ n.exporter = o.exporter
    /\ n.expectState = o.expectState /\ n.requestId = o.requestId

\* Setting the state of an export object leaves its other fields alone.
LEMMA ExportState ==
    ASSUME NEW o \in ExportObj, NEW s \in ExportStates
    PROVE  LET p == [o EXCEPT !.state = s]
           IN  SaysExport(p, o, s) /\ p.created = o.created /\ p.destroyed = o.destroyed
BY DEF ExportObj, SaysExport

\* Setting the state of an import object leaves its other fields alone.
LEMMA ImportState ==
    ASSUME NEW o \in ImportObj, NEW s \in ImportStates
    PROVE  LET p == [o EXCEPT !.state = s]
           IN  SaysImport(p, o, s) /\ p.created = o.created /\ p.destroyed = o.destroyed
BY DEF ImportObj, SaysImport

\* Setting a report flag leaves the other fields alone.
LEMMA ExportFlag ==
    ASSUME NEW o \in ExportObj, NEW flag \in {"created", "destroyed"}
    PROVE  LET p == [o EXCEPT ![flag] = TRUE]
           IN  /\ SaysExport(p, o, o.state)
               /\ flag = "created" => p.created /\ p.destroyed = o.destroyed
               /\ flag = "destroyed" => p.destroyed /\ p.created = o.created
<1>1. CASE flag = "created"
  BY <1>1 DEF ExportObj, SaysExport
<1>2. CASE flag = "destroyed"
  BY <1>2 DEF ExportObj, SaysExport
<1> QED BY <1>1, <1>2

\* Setting a report flag of an import object leaves its other fields alone.
LEMMA ImportFlag ==
    ASSUME NEW o \in ImportObj, NEW flag \in {"created", "destroyed"}
    PROVE  LET p == [o EXCEPT ![flag] = TRUE]
           IN  /\ SaysImport(p, o, o.state)
               /\ flag = "created" => p.created /\ p.destroyed = o.destroyed
               /\ flag = "destroyed" => p.destroyed /\ p.created = o.created
<1>1. CASE flag = "created"
  BY <1>1 DEF ImportObj, SaysImport
<1>2. CASE flag = "destroyed"
  BY <1>2 DEF ImportObj, SaysImport
<1> QED BY <1>1, <1>2

\* Serialisation keeps everything but the report flags.
LEMMA WireExport ==
    ASSUME NEW o \in ExportObj
    PROVE  SaysExport(Wire(o), o, o.state) /\ Plain(Wire(o))
BY DEF ExportObj, SaysExport, Wire, Plain

\* So does that of an import object.
LEMMA WireImport ==
    ASSUME NEW o \in ImportObj
    PROVE  SaysImport(Wire(o), o, o.state) /\ Plain(Wire(o))
BY DEF ImportObj, SaysImport, Wire, Plain

\* What a node reports after bringing the object o to state s.
ReportOf(o, s) == Wire([o EXCEPT !.state = s])

\* A report says what the message said, with the new state.
LEMMA ReportExport ==
    ASSUME NEW o \in ExportObj, NEW s \in ExportStates, NEW f
    PROVE  /\ SaysExport(ReportOf(o, s), o, s) /\ Plain(ReportOf(o, s))
           /\ Reported([o EXCEPT !.state = s], f) =
                 IF "report" \in f THEN {} ELSE {ReportOf(o, s)}
<1> DEFINE p == [o EXCEPT !.state = s]
<1>1. SaysExport(p, o, s)
  BY ExportState
<1> HIDE DEF p
<1>2. SaysExport(Wire(p), o, s) /\ Plain(Wire(p))
  BY <1>1, WireExport DEF SaysExport
<1>3. Reported(p, f) = IF "report" \in f THEN {} ELSE {Wire(p)}
  BY DEF Reported
<1> QED BY <1>2, <1>3 DEF p, ReportOf

\* The report of an importer says what the message said, with the new state.
LEMMA ReportImport ==
    ASSUME NEW o \in ImportObj, NEW s \in ImportStates, NEW f
    PROVE  /\ SaysImport(ReportOf(o, s), o, s) /\ Plain(ReportOf(o, s))
           /\ Reported([o EXCEPT !.state = s], f) =
                 IF "report" \in f THEN {} ELSE {ReportOf(o, s)}
<1> DEFINE p == [o EXCEPT !.state = s]
<1>1. SaysImport(p, o, s)
  BY ImportState
<1> HIDE DEF p
<1>2. SaysImport(Wire(p), o, s) /\ Plain(Wire(p))
  BY <1>1, WireImport DEF SaysImport
<1>3. Reported(p, f) = IF "report" \in f THEN {} ELSE {Wire(p)}
  BY DEF Reported
<1> QED BY <1>2, <1>3 DEF p, ReportOf

\* What a report puts on the wire is an object.
LEMMA ReportTypes ==
    ASSUME NEW o, NEW s, NEW f
    PROVE  /\ o \in ExportObj /\ s \in ExportStates =>
                 Reported([o EXCEPT !.state = s], f) \subseteq ExportObj
           /\ o \in ImportObj /\ s \in ImportStates =>
                 Reported([o EXCEPT !.state = s], f) \subseteq ImportObj
<1> DEFINE R == Reported([o EXCEPT !.state = s], f)
<1>1. ASSUME o \in ExportObj, s \in ExportStates
      PROVE  R \subseteq {ReportOf(o, s)} /\ ReportOf(o, s) \in ExportObj
  <2>1. R = IF "report" \in f THEN {} ELSE {ReportOf(o, s)}
    BY <1>1, ReportExport
  <2>2. ReportOf(o, s) \in ExportObj
    BY <1>1, ReportExport DEF SaysExport
  <2> HIDE DEF R
  <2> QED BY <2>1, <2>2
<1>2. ASSUME o \in ImportObj, s \in ImportStates
      PROVE  R \subseteq {ReportOf(o, s)} /\ ReportOf(o, s) \in ImportObj
  <2>1. R = IF "report" \in f THEN {} ELSE {ReportOf(o, s)}
    BY <1>2, ReportImport
  <2>2. ReportOf(o, s) \in ImportObj
    BY <1>2, ReportImport DEF SaysImport
  <2> HIDE DEF R
  <2> QED BY <2>1, <2>2
<1> HIDE DEF R
<1>3. /\ o \in ExportObj /\ s \in ExportStates => R \subseteq ExportObj
      /\ o \in ImportObj /\ s \in ImportStates => R \subseteq ImportObj
  BY <1>1, <1>2
<1> QED BY <1>3 DEF R

\* The master sends a faithful copy of its object, or nothing.
LEMMA SentFacts ==
    ASSUME NEW o, NEW f
    PROVE  Sent(o, f) = IF "lost" \in f THEN {} ELSE {Wire(o)}
BY DEF Sent

-----------------------------------------------------------------------------
(* Lemmas: faults, messages, responses and the ledgers.                    *)

\* The faults of a step are of the kinds it can meet and stay within bounds.
LEMMA FaultFacts ==
    ASSUME TypeOK, NEW kinds, NEW f \in Faults(kinds), Suffer(f)
    PROVE  /\ f \subseteq kinds /\ faults' = faults \cup f
           /\ faults' \subseteq FaultKinds /\ Cardinality(faults') <= MaxFaults
<1>1. /\ f \subseteq kinds /\ f \subseteq FaultKinds /\ f \cap faults = {}
      /\ Cardinality(faults) + Cardinality(f) <= MaxFaults
  BY DEF Faults
<1>2. IsFiniteSet(FaultKinds)
  <2>1. \A x : IsFiniteSet({x})
    BY FS_Singleton
  <2>2. \A A, B : IsFiniteSet(A) /\ IsFiniteSet(B) => IsFiniteSet(A \cup B)
    BY FS_Union
  <2> DEFINE K == {"refuse"} \cup {"export"} \cup {"sign"} \cup {"unexport"} \cup {"decoder"}
                    \cup {"import"} \cup {"unimport"} \cup {"lost"} \cup {"late"} \cup {"report"}
  <2>3. IsFiniteSet(K)
    BY <2>1, <2>2, Zenon
  <2>4. Kinds = K
    BY DEF Kinds
  <2>5. IsFiniteSet(Kinds)
    BY <2>3, <2>4
  <2> QED BY <2>5, FS_Subset, ShareAssumption
<1>3. IsFiniteSet(faults) /\ IsFiniteSet(f)
  BY <1>1, <1>2, FS_Subset DEF TypeOK
<1>4. /\ Cardinality(faults) \in Nat /\ Cardinality(f) \in Nat
      /\ Cardinality(faults \cup f) =
            Cardinality(faults) + Cardinality(f) - Cardinality(faults \cap f)
  BY <1>3, FS_Union, FS_CardinalityType
<1>5. Cardinality(faults \cap f) = 0
  BY <1>1, FS_EmptySet
<1>6. Cardinality(faults \cup f) <= MaxFaults
  BY <1>1, <1>4, <1>5, ShareAssumption
<1>7. faults' = faults \cup f
  BY DEF Suffer
<1> QED BY <1>1, <1>6, <1>7 DEF TypeOK

\* Messages are import or export objects.
LEMMA MessageSides ==
    ASSUME TypeOK, NEW m \in msgs
    PROVE  /\ m.side = "export" => m \in ExportObj
           /\ m.side = "import" => m \in ImportObj
           /\ m.side \in {"export", "import"}
BY ExportFields, ImportFields DEF TypeOK

\* A response adds one answer to one request.
LEMMA RespondFacts ==
    ASSUME TypeOK, NEW r \in Requests, NEW how \in {"ok", "fail"}, Respond(r, how)
    PROVE  /\ answers' \in [Requests -> SUBSET {"ok", "fail"}]
           /\ answers'[r] = answers[r] \cup {how}
           /\ \A q \in Requests : q # r => answers'[q] = answers[q]
BY DEF Respond, TypeOK

\* What a ledger holds is an object or nothing.
LEMMA LedgerFacts ==
    ASSUME TypeOK
    PROVE  /\ \A e \in Exporters :
                 /\ mExp[e] = NoObj <=> mExp[e].state = "NONE"
                 /\ mExp[e] # NoObj => mExp[e] \in ExportObj
                 /\ aExp[e] = NoObj <=> aExp[e].state = "NONE"
                 /\ aExp[e] # NoObj => aExp[e] \in ExportObj
           /\ \A i \in Importers :
                 /\ mImp[i] = NoObj <=> mImp[i].state = "NONE"
                 /\ mImp[i] # NoObj => mImp[i] \in ImportObj
                 /\ aImp[i] = NoObj <=> aImp[i].state = "NONE"
                 /\ aImp[i] # NoObj => aImp[i] \in ImportObj
BY ExportFields, ImportFields, NoneState DEF TypeOK

\* A lock is free, or its holder has an object.
LEMMA LockFacts ==
    ASSUME TypeOK, NEW i \in Importers
    PROVE  /\ lock[i] = Free <=> lock[i].op = "free"
           /\ lock[i] # Free => /\ lock[i].op \in {"attach", "detach", "rollback"}
                                /\ lock[i].obj \in ImportObj
           /\ Free.op = "free"
BY DEF TypeOK, Held, Free

\* What GetMaxRefCountExportObj finds is no export object, or one with its
\* importers; it never counts a node without import object.
LEMMA FoundFacts ==
    ASSUME TypeOK, NEW found \in MaxRefCountExports
    PROVE  /\ found.node # None => /\ found.node \in Exporters
                                   /\ mExp[found.node] \in ExportObj
                                   /\ found.importers = Attached(found.node)
           /\ \A i \in found.importers : i \in Importers /\ mImp[i] # NoObj
<1> DEFINE live == {e \in Exporters : mExp[e].state \notin {"NONE", "EXPORT_DESTROYING"}}
<1>1. \/ found = [node |-> None, importers |-> {i \in Importers : mImp[i] # NoObj}]
      \/ \E e \in live : found = [node |-> e, importers |-> Attached(e)]
  BY DEF MaxRefCountExports
<1>2. CASE found = [node |-> None, importers |-> {i \in Importers : mImp[i] # NoObj}]
  BY <1>2
<1>3. ASSUME NEW e \in live, found = [node |-> e, importers |-> Attached(e)]
      PROVE  /\ found.node \in Exporters /\ mExp[found.node] \in ExportObj
             /\ found.importers = Attached(found.node)
             /\ \A i \in found.importers : i \in Importers /\ mImp[i] # NoObj
  BY <1>3, LedgerFacts DEF Attached
<1> QED BY <1>1, <1>2, <1>3

-----------------------------------------------------------------------------
(* Type correctness.                                                       *)

\* The variables start with their types.
LEMMA InitTypes == Init => TypeOK
<1> SUFFICES ASSUME Init PROVE TypeOK
  OBVIOUS
<1>1. faults \subseteq FaultKinds /\ Cardinality(faults) <= MaxFaults
  BY FS_EmptySet, ShareAssumption DEF Init
<1>2. /\ mExp \in [Exporters -> ExportObj \cup {NoObj}]
      /\ aExp \in [Exporters -> ExportObj \cup {NoObj}]
      /\ mImp \in [Importers -> ImportObj \cup {NoObj}]
      /\ aImp \in [Importers -> ImportObj \cup {NoObj}]
  BY DEF Init
<1>3. /\ mapped \in [Importers -> Borrows \cup {None}]
      /\ lock \in [Importers -> Held \cup {Free}]
      /\ answers \in [Requests -> SUBSET {"ok", "fail"}]
      /\ target \in [Attaches \cup Detaches -> Importers \cup {None}]
  BY DEF Init
<1> QED BY <1>1, <1>2, <1>3 DEF Init, TypeOK

\* ShareExportRunningAgentCallback keeps the types.
LEMMA ExportRunningTypes ==
    ASSUME TypeOK, NEW m \in ExportObj, m \in msgs, ShareExportRunning(m),
           UNCHANGED <<ledger, aImp, mapped, lock, todo, target, answers>>
    PROVE  TypeOK'
<1> DEFINE e == m.node
           D(s) == [m EXCEPT !.state = s]
<1>1. PICK f \in Faults({"export", "sign", "report"}) :
        /\ Suffer(f)
        /\ \/ msgs' = msgs \ {m} /\ UNCHANGED <<aExp, lent>>
           \/ /\ aExp' = [aExp EXCEPT ![e] = D("EXPORT_SUCCESS")]
              /\ lent' \in {lent, lent \cup {m.mem}}
              /\ msgs' = (msgs \ {m}) \cup Reported(D("EXPORT_SUCCESS"), f)
           \/ /\ aExp' = [aExp EXCEPT ![e] = NoObj]
              /\ lent' \in {lent, lent \cup {m.mem}}
              /\ msgs' = (msgs \ {m}) \cup Reported(D("EXPORT_DESTROYED"), f)
  BY DEF ShareExportRunning
<1>2. faults' \subseteq FaultKinds /\ Cardinality(faults') <= MaxFaults
  BY <1>1, FaultFacts
<1>3. "EXPORT_SUCCESS" \in ExportStates /\ "EXPORT_DESTROYED" \in ExportStates
  BY DEF ExportStates
<1>4. e \in Exporters /\ m.mem \in Borrows /\ D("EXPORT_SUCCESS") \in ExportObj
  BY <1>3, ExportFields, ExportState DEF SaysExport
<1>5. /\ Reported(D("EXPORT_SUCCESS"), f) \subseteq ExportObj
      /\ Reported(D("EXPORT_DESTROYED"), f) \subseteq ExportObj
  BY <1>3, ReportTypes
<1> HIDE DEF D
<1>6. msgs' \subseteq msgs \cup ExportObj
  BY <1>1, <1>5
<1>7. aExp' \in [Exporters -> ExportObj \cup {NoObj}] /\ lent' \subseteq Borrows
  BY <1>1, <1>4 DEF TypeOK
<1> QED BY <1>2, <1>6, <1>7 DEF TypeOK, ledger

\* ShareExportDestroyingAgentCallback keeps the types.
LEMMA ExportDestroyingTypes ==
    ASSUME TypeOK, NEW m \in ExportObj, m \in msgs, ShareExportDestroying(m),
           UNCHANGED <<ledger, aImp, mapped, lock, todo, target, answers>>
    PROVE  TypeOK'
<1> DEFINE e == m.node
           D(s) == [m EXCEPT !.state = s]
<1>1. PICK f \in Faults({"unexport", "report"}) :
        /\ Suffer(f)
        /\ \/ /\ aExp' = [aExp EXCEPT ![e] = D("EXPORT_SUCCESS")]
              /\ msgs' = (msgs \ {m}) \cup Reported(D("EXPORT_SUCCESS"), f)
           \/ /\ aExp' = [aExp EXCEPT ![e] = NoObj]
              /\ msgs' = (msgs \ {m}) \cup Reported(D("EXPORT_DESTROYED"), f)
        /\ lent' \subseteq lent
  BY DEF ShareExportDestroying
<1>2. faults' \subseteq FaultKinds /\ Cardinality(faults') <= MaxFaults
  BY <1>1, FaultFacts
<1>3. "EXPORT_SUCCESS" \in ExportStates /\ "EXPORT_DESTROYED" \in ExportStates
  BY DEF ExportStates
<1>4. e \in Exporters /\ m.mem \in Borrows /\ D("EXPORT_SUCCESS") \in ExportObj
  BY <1>3, ExportFields, ExportState DEF SaysExport
<1>5. /\ Reported(D("EXPORT_SUCCESS"), f) \subseteq ExportObj
      /\ Reported(D("EXPORT_DESTROYED"), f) \subseteq ExportObj
  BY <1>3, ReportTypes
<1> HIDE DEF D
<1>6. msgs' \subseteq msgs \cup ExportObj
  BY <1>1, <1>5
<1>7. aExp' \in [Exporters -> ExportObj \cup {NoObj}] /\ lent' \subseteq Borrows
  BY <1>1, <1>4 DEF TypeOK
<1> QED BY <1>2, <1>6, <1>7 DEF TypeOK, ledger

\* ShareImportRunningAgentCallBack keeps the types.
LEMMA ImportRunningTypes ==
    ASSUME TypeOK, NEW m \in ImportObj, m \in msgs, ShareImportRunning(m),
           UNCHANGED <<ledger, aExp, lent, lock, todo, target, answers>>
    PROVE  TypeOK'
<1> DEFINE i == m.node
           D(s) == [m EXCEPT !.state = s]
<1>1. PICK f \in Faults({"decoder", "import", "report"}) :
        /\ Suffer(f)
        /\ \/ msgs' = msgs \ {m} /\ UNCHANGED <<aImp, mapped>>
           \/ /\ aImp' = [aImp EXCEPT ![i] = D("IMPORT_SUCCESS")]
              /\ mapped' = [mapped EXCEPT ![i] = m.mem]
              /\ msgs' = (msgs \ {m}) \cup Reported(D("IMPORT_SUCCESS"), f)
           \/ /\ \/ aImp' = [aImp EXCEPT ![i] = @]
                 \/ aImp' = [aImp EXCEPT ![i] = NoObj]
              /\ mapped' = [mapped EXCEPT ![i] = @]
              /\ msgs' = (msgs \ {m}) \cup Reported(D("IMPORT_DESTROYED"), f)
  BY DEF ShareImportRunning
<1>2. faults' \subseteq FaultKinds /\ Cardinality(faults') <= MaxFaults
  BY <1>1, FaultFacts
<1>3. "IMPORT_SUCCESS" \in ImportStates /\ "IMPORT_DESTROYED" \in ImportStates
  BY DEF ImportStates
<1>4. i \in Importers /\ m.mem \in Borrows /\ D("IMPORT_SUCCESS") \in ImportObj
  BY <1>3, ImportFields, ImportState DEF SaysImport
<1>5. /\ Reported(D("IMPORT_SUCCESS"), f) \subseteq ImportObj
      /\ Reported(D("IMPORT_DESTROYED"), f) \subseteq ImportObj
  BY <1>3, ReportTypes
<1> HIDE DEF D
<1>6. msgs' \subseteq msgs \cup ImportObj
  BY <1>1, <1>5
<1>7. /\ aImp' \in [Importers -> ImportObj \cup {NoObj}]
      /\ mapped' \in [Importers -> Borrows \cup {None}]
  BY <1>1, <1>4 DEF TypeOK
<1> QED BY <1>2, <1>6, <1>7 DEF TypeOK, ledger

\* ShareImportDestroyingAgentCallBack keeps the types.
LEMMA ImportDestroyingTypes ==
    ASSUME TypeOK, NEW m \in ImportObj, m \in msgs, ShareImportDestroying(m),
           UNCHANGED <<ledger, aExp, lent, lock, todo, target, answers>>
    PROVE  TypeOK'
<1> DEFINE i == m.node
           D(s) == [m EXCEPT !.state = s]
<1>1. PICK f \in Faults({"unimport", "report"}) :
        /\ Suffer(f)
        /\ \/ /\ aImp' = [aImp EXCEPT ![i] = D("IMPORT_ABNORMAL")]
              /\ msgs' = (msgs \ {m}) \cup Reported(D("IMPORT_ABNORMAL"), f)
           \/ /\ aImp' = [aImp EXCEPT ![i] = NoObj]
              /\ msgs' = (msgs \ {m}) \cup Reported(D("IMPORT_DESTROYED"), f)
        /\ \/ mapped' = [mapped EXCEPT ![i] = @]
           \/ mapped' = [mapped EXCEPT ![i] = None]
  BY DEF ShareImportDestroying
<1>2. faults' \subseteq FaultKinds /\ Cardinality(faults') <= MaxFaults
  BY <1>1, FaultFacts
<1>3. "IMPORT_ABNORMAL" \in ImportStates /\ "IMPORT_DESTROYED" \in ImportStates
  BY DEF ImportStates
<1>4. i \in Importers /\ D("IMPORT_ABNORMAL") \in ImportObj
  BY <1>3, ImportFields, ImportState DEF SaysImport
<1>5. /\ Reported(D("IMPORT_ABNORMAL"), f) \subseteq ImportObj
      /\ Reported(D("IMPORT_DESTROYED"), f) \subseteq ImportObj
  BY <1>3, ReportTypes
<1> HIDE DEF D
<1>6. msgs' \subseteq msgs \cup ImportObj
  BY <1>1, <1>5
<1>7. /\ aImp' \in [Importers -> ImportObj \cup {NoObj}]
      /\ mapped' \in [Importers -> Borrows \cup {None}]
  BY <1>1, <1>4 DEF TypeOK
<1> QED BY <1>2, <1>6, <1>7 DEF TypeOK, ledger

\* A response keeps the type of the answers, whatever it answers.
LEMMA RespondTypes ==
    ASSUME TypeOK, NEW r, NEW how \in {"ok", "fail"}, Respond(r, how)
    PROVE  answers' \in [Requests -> SUBSET {"ok", "fail"}]
BY DEF Respond, TypeOK

\* UbseMemShareBorrow keeps the types.
LEMMA BorrowTypes ==
    ASSUME TypeOK, NEW r, NEW e \in Exporters, UbseMemShareBorrow(r, e)
    PROVE  TypeOK'
<1> DEFINE x == [side |-> "export", node |-> e, mem |-> r,
                 state |-> "EXPORT_RUNNING", expectState |-> "EXPORT_SUCCESS",
                 returnReq |-> None, created |-> FALSE, destroyed |-> FALSE]
<1>1. PICK f \in Faults({"refuse", "lost", "late"}) :
        /\ r \in Borrows /\ todo' = todo \ {r}
        /\ Suffer(f)
        /\ \/ Respond(r, "fail") /\ UNCHANGED <<mExp, msgs>>
           \/ /\ msgs' = msgs \cup Sent(x, f)
              /\ \/ Respond(r, "fail") /\ UNCHANGED mExp
                 \/ mExp' = [mExp EXCEPT ![e] = x] /\ UNCHANGED answers
        /\ UNCHANGED <<mImp, aExp, aImp, lent, mapped, lock, target>>
  BY DEF UbseMemShareBorrow, Takes
<1>2. faults' \subseteq FaultKinds /\ Cardinality(faults') <= MaxFaults
  BY <1>1, FaultFacts
<1>3. x \in ExportObj
  BY <1>1 DEF ExportObj, ExportStates
<1> HIDE DEF x
<1>4. Sent(x, f) \subseteq ExportObj
  BY <1>3, WireExport DEF Sent, SaysExport
<1>5. msgs' \subseteq msgs \cup ExportObj
  BY <1>1, <1>4
<1>6. answers' \in [Requests -> SUBSET {"ok", "fail"}]
  BY <1>1, RespondTypes DEF TypeOK
<1>7. mExp' \in [Exporters -> ExportObj \cup {NoObj}]
  BY <1>1, <1>3 DEF TypeOK
<1> QED BY <1>1, <1>2, <1>5, <1>6, <1>7 DEF TypeOK

\* The export object that a delete stores and sends.
Deleted(o, r) == [o EXCEPT !.state = "EXPORT_DESTROYING", !.expectState = "EXPORT_DESTROYED",
                           !.returnReq = r, !.destroyed = FALSE]

\* It is the object with the fields of the delete.
LEMMA DeletedFacts ==
    ASSUME NEW o \in ExportObj, NEW r \in Returns
    PROVE  /\ Deleted(o, r) \in ExportObj
           /\ Deleted(o, r).node = o.node /\ Deleted(o, r).mem = o.mem
           /\ Deleted(o, r).state = "EXPORT_DESTROYING"
           /\ Deleted(o, r).expectState = "EXPORT_DESTROYED"
           /\ Deleted(o, r).returnReq = r /\ ~Deleted(o, r).destroyed
BY DEF Deleted, ExportObj, ExportStates

\* UbseMemShareReturn keeps the types.
LEMMA ReturnTypes ==
    ASSUME TypeOK, NEW r, UbseMemShareReturn(r)
    PROVE  TypeOK'
<1> DEFINE x(e) == Deleted(mExp[e], r)
           y(e) == [x(e) EXCEPT !.state = "EXPORT_SUCCESS"]
<1>1. PICK f \in Faults({"refuse", "lost", "late"}), found \in MaxRefCountExports :
        /\ r \in Returns /\ todo' = todo \ {r}
        /\ Suffer(f)
        /\ \/ Respond(r, "fail") /\ UNCHANGED <<mExp, msgs>>
           \/ /\ found.node # None
              /\ msgs' = msgs \cup Sent(x(found.node), f)
              /\ \/ /\ mExp' = [mExp EXCEPT ![found.node] = y(found.node)]
                    /\ Respond(r, "fail")
                 \/ mExp' = [mExp EXCEPT ![found.node] = x(found.node)] /\ UNCHANGED answers
        /\ UNCHANGED <<mImp, aExp, aImp, lent, mapped, lock, target>>
  BY DEF UbseMemShareReturn, Takes, Returnable, Exported, Deleted
<1> DEFINE e == found.node
           xe == Deleted(mExp[e], r)
           ye == [xe EXCEPT !.state = "EXPORT_SUCCESS"]
<1>a. \/ Respond(r, "fail") /\ UNCHANGED <<mExp, msgs>>
      \/ /\ e # None
         /\ msgs' = msgs \cup Sent(xe, f)
         /\ \/ mExp' = [mExp EXCEPT ![e] = ye] /\ Respond(r, "fail")
            \/ mExp' = [mExp EXCEPT ![e] = xe] /\ UNCHANGED answers
  BY <1>1
<1>2. faults' \subseteq FaultKinds /\ Cardinality(faults') <= MaxFaults
  BY <1>1, FaultFacts
<1>3. e # None => xe \in ExportObj
  BY <1>1, FoundFacts, DeletedFacts
<1> HIDE DEF xe
<1>b. e # None => ye \in ExportObj
  BY <1>3, ExportState DEF SaysExport, ExportStates
<1> HIDE DEF ye
<1>4. e # None => Sent(xe, f) \subseteq ExportObj
  BY <1>3, WireExport DEF Sent, SaysExport
<1>5. msgs' \subseteq msgs \cup ExportObj
  BY <1>a, <1>4
<1>6. answers' \in [Requests -> SUBSET {"ok", "fail"}]
  BY <1>a, RespondTypes DEF TypeOK
<1>7. mExp' \in [Exporters -> ExportObj \cup {NoObj}]
  BY <1>a, <1>3, <1>b DEF TypeOK
<1> QED BY <1>1, <1>2, <1>5, <1>6, <1>7 DEF TypeOK

\* ShareExportMasterCallback keeps the types.
LEMMA ExportMasterTypes ==
    ASSUME TypeOK, NEW m \in ExportObj, m \in msgs, ShareExportMasterCallback(m)
    PROVE  TypeOK'
<1> DEFINE e == m.node
           flag == IF m.expectState = "EXPORT_SUCCESS" THEN "created" ELSE "destroyed"
           r == IF m.expectState = "EXPORT_SUCCESS" THEN m.mem ELSE m.returnReq
           how == IF m.state = m.expectState THEN "ok" ELSE "fail"
           o == [m EXCEPT ![flag] = TRUE]
<1>1. /\ msgs' = msgs \ {m}
      /\ \/ UNCHANGED <<mExp, answers>>
         \/ /\ mExp' = [mExp EXCEPT ![e] = NoObj] \/ mExp' = [mExp EXCEPT ![e] = o]
            /\ Respond(r, how)
      /\ UNCHANGED <<mImp, aExp, aImp, lent, mapped, lock, todo, target, faults>>
  BY DEF ShareExportMasterCallback
<1>2. o \in ExportObj
  <2>1. flag \in {"created", "destroyed"}
    OBVIOUS
  <2> HIDE DEF flag
  <2> QED BY <2>1, ExportFlag DEF SaysExport
<1> HIDE DEF o
<1>3. answers' \in [Requests -> SUBSET {"ok", "fail"}]
  BY <1>1, RespondTypes DEF TypeOK
<1>4. mExp' \in [Exporters -> ExportObj \cup {NoObj}]
  BY <1>1, <1>2 DEF TypeOK
<1> QED BY <1>1, <1>3, <1>4 DEF TypeOK

\* The object of an attach that has passed its checks.
Attaching(r, i, e) ==
    [side |-> "import", node |-> i, exporter |-> e, mem |-> mExp[e].mem,
     state |-> "IMPORT_RUNNING", expectState |-> "IMPORT_SUCCESS", requestId |-> r,
     created |-> FALSE, destroyed |-> FALSE]

\* UbseMemShareAttach keeps the types.
LEMMA AttachTypes ==
    ASSUME TypeOK, NEW r, NEW i \in Importers, UbseMemShareAttach(r, i)
    PROVE  TypeOK'
<1>1. PICK f \in Faults({"refuse"}), found \in MaxRefCountExports :
        /\ r \in Attaches /\ todo' = todo \ {r} /\ target' = [target EXCEPT ![r] = i]
        /\ Suffer(f)
        /\ \/ Respond(r, "fail") /\ UNCHANGED lock
           \/ /\ found.node # None
              /\ lock' = [lock EXCEPT ![i] = [op |-> "attach", obj |-> Attaching(r, i, found.node)]]
              /\ UNCHANGED answers
        /\ UNCHANGED <<ledger, aExp, aImp, lent, mapped, msgs>>
  BY DEF UbseMemShareAttach, Takes, Exported, Attaching
<1> DEFINE o == Attaching(r, i, found.node)
<1>2. faults' \subseteq FaultKinds /\ Cardinality(faults') <= MaxFaults
  BY <1>1, FaultFacts
<1>3. found.node # None => o \in ImportObj
  BY <1>1, FoundFacts, ExportFields DEF Attaching, ImportObj, ImportStates
<1> HIDE DEF o
<1>4. answers' \in [Requests -> SUBSET {"ok", "fail"}]
  BY <1>1, RespondTypes DEF TypeOK
<1>5. found.node # None => [op |-> "attach", obj |-> o] \in Held
  BY <1>3 DEF Held
<1>6. lock' \in [Importers -> Held \cup {Free}]
  BY <1>1, <1>5 DEF TypeOK, o
<1> QED BY <1>1, <1>2, <1>4, <1>6 DEF TypeOK, ledger

\* The rest of UbseMemShareAttach keeps the types.
LEMMA AttachSendTypes ==
    ASSUME TypeOK, NEW i \in Importers, ShareAttachSend(i)
    PROVE  TypeOK'
<1> DEFINE obj == lock[i].obj
<1>1. PICK f \in Faults({"lost", "late"}) :
        /\ lock[i].op = "attach"
        /\ lock' = [lock EXCEPT ![i] = Free]
        /\ msgs' = msgs \cup Sent(obj, f)
        /\ mImp' = [mImp EXCEPT ![i] = NoObj] \/ mImp' = [mImp EXCEPT ![i] = obj]
        /\ Respond(obj.requestId, "fail") \/ UNCHANGED answers
        /\ Suffer(f)
        /\ UNCHANGED <<mExp, aExp, aImp, lent, mapped, todo, target>>
  BY DEF ShareAttachSend
<1>2. faults' \subseteq FaultKinds /\ Cardinality(faults') <= MaxFaults
  BY <1>1, FaultFacts
<1>3. obj \in ImportObj
  BY <1>1, LockFacts
<1> HIDE DEF obj
<1>4. Sent(obj, f) \subseteq ImportObj
  BY <1>3, WireImport DEF Sent, SaysImport
<1>5. msgs' \subseteq msgs \cup ImportObj
  BY <1>1, <1>4
<1>6. answers' \in [Requests -> SUBSET {"ok", "fail"}]
  BY <1>1, RespondTypes DEF TypeOK
<1>7. mImp' \in [Importers -> ImportObj \cup {NoObj}] /\ lock' \in [Importers -> Held \cup {Free}]
  BY <1>1, <1>3 DEF TypeOK
<1> QED BY <1>1, <1>2, <1>5, <1>6, <1>7 DEF TypeOK

\* The object of a detach that has passed its checks.
Detaching(o, r) ==
    [o EXCEPT !.state = "IMPORT_DESTROYING", !.expectState = "IMPORT_DESTROYED",
              !.requestId = r, !.destroyed = FALSE]

\* It is the object with the fields of the detach.
LEMMA DetachingFacts ==
    ASSUME NEW o \in ImportObj, NEW r \in Detaches
    PROVE  /\ Detaching(o, r) \in ImportObj
           /\ Detaching(o, r).node = o.node /\ Detaching(o, r).mem = o.mem
           /\ Detaching(o, r).exporter = o.exporter
           /\ Detaching(o, r).state = "IMPORT_DESTROYING"
           /\ Detaching(o, r).expectState = "IMPORT_DESTROYED"
           /\ Detaching(o, r).requestId = r /\ ~Detaching(o, r).destroyed
BY DEF Detaching, ImportObj, ImportStates

\* UbseMemShareDetach keeps the types.
LEMMA DetachTypes ==
    ASSUME TypeOK, NEW r, NEW i \in Importers, UbseMemShareDetach(r, i)
    PROVE  TypeOK'
<1> DEFINE o == Detaching(mImp[i], r)
<1>1. PICK f \in Faults({"refuse"}), found \in MaxRefCountExports :
        /\ r \in Detaches /\ todo' = todo \ {r} /\ target' = [target EXCEPT ![r] = i]
        /\ Suffer(f)
        /\ \/ Respond(r, "fail") /\ UNCHANGED lock
           \/ /\ i \in found.importers
              /\ lock' = [lock EXCEPT ![i] = [op |-> "detach", obj |-> o]]
              /\ UNCHANGED answers
        /\ UNCHANGED <<ledger, aExp, aImp, lent, mapped, msgs>>
  BY DEF UbseMemShareDetach, Takes, Detachable, Detaching
<1>2. faults' \subseteq FaultKinds /\ Cardinality(faults') <= MaxFaults
  BY <1>1, FaultFacts
<1>3. i \in found.importers => o \in ImportObj
  BY <1>1, FoundFacts, LedgerFacts, DetachingFacts
<1> HIDE DEF o
<1>4. answers' \in [Requests -> SUBSET {"ok", "fail"}]
  BY <1>1, RespondTypes DEF TypeOK
<1>5. i \in found.importers => [op |-> "detach", obj |-> o] \in Held
  BY <1>3 DEF Held
<1>6. lock' \in [Importers -> Held \cup {Free}]
  BY <1>1, <1>5 DEF TypeOK
<1> QED BY <1>1, <1>2, <1>4, <1>6 DEF TypeOK, ledger

\* The rest of UbseMemShareDetach keeps the types.
LEMMA DetachSendTypes ==
    ASSUME TypeOK, NEW i \in Importers, ShareDetachSend(i)
    PROVE  TypeOK'
<1> DEFINE obj == lock[i].obj
           l == [lock[i] EXCEPT !.op = "rollback"]
<1>1. PICK f \in Faults({"lost", "late"}) :
        /\ lock[i].op = "detach"
        /\ mImp' = [mImp EXCEPT ![i] = obj]
        /\ msgs' = msgs \cup Sent(obj, f)
        /\ lock' = [lock EXCEPT ![i] = Free] \/ lock' = [lock EXCEPT ![i] = l]
        /\ Suffer(f)
        /\ UNCHANGED <<mExp, aExp, aImp, lent, mapped, todo, target, answers>>
  BY DEF ShareDetachSend, TypeOK
<1>2. faults' \subseteq FaultKinds /\ Cardinality(faults') <= MaxFaults
  BY <1>1, FaultFacts
<1>3. obj \in ImportObj /\ l \in Held
  BY <1>1, LockFacts DEF TypeOK, Held, Free
<1> HIDE DEF obj, l
<1>4. Sent(obj, f) \subseteq ImportObj
  BY <1>3, WireImport DEF Sent, SaysImport
<1>5. msgs' \subseteq msgs \cup ImportObj
  BY <1>1, <1>4
<1>7. mImp' \in [Importers -> ImportObj \cup {NoObj}] /\ lock' \in [Importers -> Held \cup {Free}]
  BY <1>1, <1>3 DEF TypeOK
<1> QED BY <1>1, <1>2, <1>5, <1>7 DEF TypeOK

\* The object that a detach rolled back leaves.
Restored(o) == [o EXCEPT !.state = "IMPORT_SUCCESS", !.expectState = "IMPORT_SUCCESS"]

\* It is the object in the state before.
LEMMA RestoredFacts ==
    ASSUME NEW o \in ImportObj
    PROVE  /\ Restored(o) \in ImportObj
           /\ Restored(o).node = o.node /\ Restored(o).mem = o.mem
           /\ Restored(o).exporter = o.exporter /\ Restored(o).state = "IMPORT_SUCCESS"
BY DEF Restored, ImportObj, ImportStates

\* The rollback of a detach keeps the types.
LEMMA DetachRollbackTypes ==
    ASSUME TypeOK, NEW i \in Importers, ShareDetachRollback(i)
    PROVE  TypeOK'
<1> DEFINE obj == lock[i].obj
           o == Restored(obj)
<1>1. /\ lock[i].op = "rollback"
      /\ lock' = [lock EXCEPT ![i] = Free]
      /\ mImp' = [mImp EXCEPT ![i] = o]
      /\ Respond(obj.requestId, "fail")
      /\ UNCHANGED <<mExp, aExp, aImp, lent, mapped, msgs, todo, target, faults>>
  BY DEF ShareDetachRollback, Restored
<1>2. o \in ImportObj
  BY <1>1, LockFacts, RestoredFacts
<1> HIDE DEF o
<1>3. answers' \in [Requests -> SUBSET {"ok", "fail"}]
  BY <1>1, RespondTypes DEF TypeOK
<1>4. mImp' \in [Importers -> ImportObj \cup {NoObj}] /\ lock' \in [Importers -> Held \cup {Free}]
  BY <1>1, <1>2 DEF TypeOK
<1> QED BY <1>1, <1>3, <1>4 DEF TypeOK

\* ShareImportMasterCallBack keeps the types.
LEMMA ImportMasterTypes ==
    ASSUME TypeOK, NEW m \in ImportObj, m \in msgs, ShareImportMasterCallBack(m)
    PROVE  TypeOK'
<1> DEFINE i == m.node
           flag == IF m.expectState = "IMPORT_SUCCESS" THEN "created" ELSE "destroyed"
           how == IF m.state = m.expectState THEN "ok" ELSE "fail"
           o == [m EXCEPT ![flag] = TRUE]
<1>1. /\ msgs' = msgs \ {m}
      /\ \/ UNCHANGED <<mImp, answers>>
         \/ /\ mImp' = [mImp EXCEPT ![i] = NoObj] \/ mImp' = [mImp EXCEPT ![i] = o]
            /\ Respond(m.requestId, how)
      /\ UNCHANGED <<mExp, aExp, aImp, lent, mapped, lock, todo, target, faults>>
  BY DEF ShareImportMasterCallBack
<1>2. o \in ImportObj
  <2>1. flag \in {"created", "destroyed"}
    OBVIOUS
  <2> HIDE DEF flag
  <2> QED BY <2>1, ImportFlag DEF SaysImport
<1> HIDE DEF o
<1>3. answers' \in [Requests -> SUBSET {"ok", "fail"}]
  BY <1>1, RespondTypes DEF TypeOK
<1>4. mImp' \in [Importers -> ImportObj \cup {NoObj}]
  BY <1>1, <1>2 DEF TypeOK
<1> QED BY <1>1, <1>3, <1>4 DEF TypeOK

\* Every step keeps the types.
LEMMA StepTypes == TypeOK /\ [Next]_vars => TypeOK'
<1> SUFFICES ASSUME TypeOK, [Next]_vars PROVE TypeOK'
  OBVIOUS
<1>1. CASE UNCHANGED vars
  BY <1>1 DEF vars, TypeOK
<1>2. ASSUME NEW m \in msgs, ShareExportAgentCallback(m) PROVE TypeOK'
  BY <1>2, MessageSides, ExportRunningTypes, ExportDestroyingTypes DEF ShareExportAgentCallback
<1>3. ASSUME NEW m \in msgs, ShareImportAgentCallBack(m) PROVE TypeOK'
  BY <1>3, MessageSides, ImportRunningTypes, ImportDestroyingTypes DEF ShareImportAgentCallBack
<1>4. ASSUME NEW m \in msgs, ShareExportMasterCallback(m) PROVE TypeOK'
  <2>1. m \in ExportObj
    BY <1>4, MessageSides DEF ShareExportMasterCallback
  <2> QED BY <1>4, <2>1, ExportMasterTypes
<1>5. ASSUME NEW m \in msgs, ShareImportMasterCallBack(m) PROVE TypeOK'
  <2>1. m \in ImportObj
    BY <1>5, MessageSides DEF ShareImportMasterCallBack
  <2> QED BY <1>5, <2>1, ImportMasterTypes
<1>6. CASE Callback
  BY <1>2, <1>3, <1>4, <1>5, <1>6 DEF Callback
<1>7. CASE Request
  BY <1>7, BorrowTypes, AttachTypes, DetachTypes, ReturnTypes DEF Request
<1>8. CASE Proceed
  BY <1>8, AttachSendTypes, DetachSendTypes, DetachRollbackTypes DEF Proceed
<1> QED BY <1>1, <1>6, <1>7, <1>8 DEF Next

-----------------------------------------------------------------------------
(* The steps of the nodes.                                                 *)

\* A step that takes m and reports at most n for it leaves the other messages
\* alone, and n takes the place of m.
LEMMA OneForOne ==
    ASSUME MsgInv, NEW m \in msgs, NEW n, n.side = m.side, n.node = m.node,
           msgs' \in {msgs \ {m}, (msgs \ {m}) \cup {n}}
    PROVE  /\ \A k, l \in msgs' : k.side = l.side /\ k.node = l.node => k = l
           /\ \A k \in msgs' : k = n \/ (k \in msgs /\ (k.side = m.side => k.node # m.node))
           /\ \A k \in msgs : k \in msgs' \/ k = m
BY DEF MsgInv

\* The importers do not notice a step on the export side.
LEMMA ImportsWait ==
    ASSUME WaitImports, UNCHANGED <<mImp, lock, mapped>>,
           \A k \in msgs : k.side = "import" => k \in msgs',
           \A k \in msgs' : k \in msgs \/ k.state \notin {"IMPORT_DESTROYING", "IMPORT_ABNORMAL"}
    PROVE  WaitImports'
BY DEF WaitImports, WaitAt

\* The exporters do not notice a step on the import side.
LEMMA ExportsWait ==
    ASSUME WaitExports, UNCHANGED <<mExp, aExp>>,
           \A k \in msgs : k.side = "export" => k \in msgs'
    PROVE  WaitExports'
BY DEF WaitExports

\* What is under way for an importer is not touched by a step on the export side.
LEMMA ImportMsgKept ==
    ASSUME Sound, NEW k \in msgs, k.side # "export", UNCHANGED <<mImp, lock, mapped>>
    PROVE  ImportMsg(k)'
<1>1. ImportMsg(k)
  BY DEF Sound, MsgInv
<1> QED BY <1>1 DEF ImportMsg, Plain

\* What is under way for an exporter is not touched by a step on the import side.
LEMMA ExportMsgKept ==
    ASSUME Sound, NEW k \in msgs, k.side = "export", UNCHANGED <<mExp, aExp, lent>>
    PROVE  ExportMsg(k)'
<1>1. ExportMsg(k)
  BY DEF Sound, MsgInv
<1> QED BY <1>1 DEF ExportMsg, Plain

\* ShareExportRunningAgentCallback keeps the invariant.
LEMMA ExportRunningInv ==
    ASSUME TypeOK, Sound, NEW m \in ExportObj, m \in msgs, m.state = "EXPORT_RUNNING",
           ShareExportRunning(m), "late" \notin faults,
           UNCHANGED <<ledger, aImp, mapped, lock, todo, target, answers>>
    PROVE  Sound'
<1> DEFINE e == m.node
           D(s) == [m EXCEPT !.state = s]
           R(s) == ReportOf(m, s)
           W(s, f) == IF "report" \in f THEN {} ELSE {R(s)}
<1>1. /\ e \in Exporters /\ m.mem \in Borrows /\ m.side = "export"
      /\ ExportMsg(m) /\ aExp[e] = NoObj
      /\ mExp[e].state = "EXPORT_RUNNING" /\ mExp[e].mem = m.mem
      /\ m.expectState = "EXPORT_SUCCESS"
  BY ExportFields DEF Sound, MsgInv, ExportMsg
<1>2. /\ "EXPORT_SUCCESS" \in ExportStates /\ "EXPORT_DESTROYED" \in ExportStates
      /\ aExp[e].state # "EXPORT_SUCCESS"
  BY <1>1, NoneState DEF ExportStates
<1>3. PICK f \in Faults({"export", "sign", "report"}) :
        /\ Suffer(f)
        /\ \/ /\ "export" \notin f /\ "sign" \notin f
              /\ aExp' = [aExp EXCEPT ![e] = D("EXPORT_SUCCESS")]
              /\ lent' = lent \cup {m.mem}
              /\ msgs' = (msgs \ {m}) \cup Reported(D("EXPORT_SUCCESS"), f)
           \/ /\ aExp' = [aExp EXCEPT ![e] = NoObj]
              /\ \/ lent' = lent
                 \/ "sign" \in f /\ lent' = lent \cup {m.mem}
              /\ msgs' = (msgs \ {m}) \cup Reported(D("EXPORT_DESTROYED"), f)
  BY <1>2 DEF ShareExportRunning
<1>4. faults' = faults \cup f
  BY <1>3, FaultFacts
<1>5. /\ D("EXPORT_SUCCESS").mem = m.mem /\ D("EXPORT_SUCCESS").state = "EXPORT_SUCCESS"
      /\ D("EXPORT_SUCCESS") # NoObj
  BY <1>2, ExportState, ExportFields DEF SaysExport
<1>6. /\ Reported(D("EXPORT_SUCCESS"), f) = W("EXPORT_SUCCESS", f)
      /\ Reported(D("EXPORT_DESTROYED"), f) = W("EXPORT_DESTROYED", f)
  BY <1>2, ReportExport
<1>7. \A s \in {"EXPORT_SUCCESS", "EXPORT_DESTROYED"} : SaysExport(R(s), m, s) /\ Plain(R(s))
  BY <1>2, ReportExport
<1> HIDE DEF D, R
<1>8. PICK s \in {"EXPORT_SUCCESS", "EXPORT_DESTROYED"} :
        /\ msgs' = (msgs \ {m}) \cup W(s, f)
        /\ \A x \in Exporters : x # e => aExp'[x] = aExp[x]
        /\ lent \subseteq lent'
        /\ s = "EXPORT_SUCCESS" =>
              /\ aExp'[e] # NoObj /\ aExp'[e].state = "EXPORT_SUCCESS"
              /\ aExp'[e].mem = m.mem /\ lent' = lent \cup {m.mem}
        /\ s = "EXPORT_DESTROYED" =>
              aExp'[e] = NoObj /\ ("sign" \notin f => lent' = lent)
  BY <1>1, <1>3, <1>5, <1>6 DEF TypeOK
<1> DEFINE n == R(s)
<1>9. SaysExport(n, m, s) /\ Plain(n)
  BY <1>7, <1>8
<1> HIDE DEF n
<1>10. /\ msgs' \in {msgs \ {m}, (msgs \ {m}) \cup {n}}
       /\ "report" \notin f => n \in msgs'
  BY <1>8 DEF n
<1>11. /\ \A k, l \in msgs' : k.side = l.side /\ k.node = l.node => k = l
       /\ \A k \in msgs' : k = n \/ (k \in msgs /\ (k.side = m.side => k.node # m.node))
       /\ \A k \in msgs : k \in msgs' \/ k = m
  BY <1>1, <1>9, <1>10, OneForOne DEF Sound, SaysExport
<1>12. ExportInv'
  BY <1>1, <1>8, NoneState DEF Sound, ExportInv, ledger
<1>13. ImportInv' /\ LockInv'
  BY DEF Sound, ImportInv, ImportAt, LockInv, LockAt, Serves, ledger
<1>14. MsgInv'
  <2>1. ASSUME NEW k \in msgs', k # n, k.side = "export" PROVE ExportMsg(k)'
    <3>1. k \in msgs /\ k.node # e /\ ExportMsg(k) /\ k.node \in Exporters
      BY <1>1, <1>11, <2>1, MessageSides, ExportFields DEF Sound, MsgInv
    <3> QED BY <3>1, <1>8 DEF ExportMsg, Plain, ledger
  <2>2. ASSUME NEW k \in msgs', k.side # "export" PROVE ImportMsg(k)'
    BY <1>9, <1>11, <2>2, ImportMsgKept DEF SaysExport, ledger
  <2>3. ExportMsg(n)'
    BY <1>1, <1>8, <1>9, NoneState DEF ExportMsg, Plain, SaysExport, ledger
  <2> QED BY <1>9, <1>11, <2>1, <2>2, <2>3 DEF MsgInv, SaysExport
<1>15. "sign" \notin faults' => LentInv'
  BY <1>1, <1>4, <1>8 DEF Sound, LentInv
<1>16. "report" \notin faults' => WaitExports' /\ WaitImports'
  <2> SUFFICES ASSUME "report" \notin faults' PROVE WaitExports' /\ WaitImports'
    OBVIOUS
  <2>1. /\ n \in msgs' /\ n.side = "export" /\ n.node = e /\ n.state = s
        /\ WaitExports /\ WaitImports
    BY <1>4, <1>9, <1>10 DEF SaysExport, Sound
  <2>2. WaitExports'
    BY <1>1, <1>8, <1>11, <2>1 DEF WaitExports, ledger
  <2>3. WaitImports'
    BY <1>1, <1>8, <1>11, <2>1, ImportsWait DEF ledger
  <2> QED BY <2>2, <2>3
<1> QED BY <1>12, <1>13, <1>14, <1>15, <1>16 DEF Sound

\* ShareExportDestroyingAgentCallback keeps the invariant.
LEMMA ExportDestroyingInv ==
    ASSUME TypeOK, Sound, NEW m \in ExportObj, m \in msgs, m.state = "EXPORT_DESTROYING",
           ShareExportDestroying(m), "late" \notin faults,
           UNCHANGED <<ledger, aImp, mapped, lock, todo, target, answers>>
    PROVE  Sound'
<1> DEFINE e == m.node
           D(s) == [m EXCEPT !.state = s]
           R(s) == ReportOf(m, s)
           W(s, f) == IF "report" \in f THEN {} ELSE {R(s)}
<1>1. /\ e \in Exporters /\ m.mem \in Borrows /\ m.side = "export"
      /\ aExp[e] # NoObj /\ aExp[e].mem = m.mem /\ m.mem \in lent
      /\ mExp[e].state = "EXPORT_DESTROYING" /\ mExp[e].mem = m.mem
      /\ m.expectState = "EXPORT_DESTROYED" /\ m.returnReq \in Returns
  <2>1. ExportMsg(m) /\ e \in Exporters /\ m.mem \in Borrows /\ m.side = "export"
    BY ExportFields DEF Sound, MsgInv
  <2> QED BY <2>1 DEF Sound, ExportInv, ExportMsg
<1>2. "EXPORT_SUCCESS" \in ExportStates /\ "EXPORT_DESTROYED" \in ExportStates
  BY DEF ExportStates
<1>3. PICK f \in Faults({"unexport", "report"}) :
        /\ Suffer(f)
        /\ \/ /\ aExp' = [aExp EXCEPT ![e] = D("EXPORT_SUCCESS")]
              /\ lent' = lent
              /\ msgs' = (msgs \ {m}) \cup Reported(D("EXPORT_SUCCESS"), f)
           \/ /\ aExp' = [aExp EXCEPT ![e] = NoObj]
              /\ lent' = lent \ {m.mem}
              /\ msgs' = (msgs \ {m}) \cup Reported(D("EXPORT_DESTROYED"), f)
  BY <1>1 DEF ShareExportDestroying
<1>4. faults' = faults \cup f
  BY <1>3, FaultFacts
<1>5. /\ D("EXPORT_SUCCESS").mem = m.mem /\ D("EXPORT_SUCCESS").state = "EXPORT_SUCCESS"
      /\ D("EXPORT_SUCCESS") # NoObj
  BY <1>2, ExportState, ExportFields DEF SaysExport
<1>6. /\ Reported(D("EXPORT_SUCCESS"), f) = W("EXPORT_SUCCESS", f)
      /\ Reported(D("EXPORT_DESTROYED"), f) = W("EXPORT_DESTROYED", f)
  BY <1>2, ReportExport
<1>7. \A s \in {"EXPORT_SUCCESS", "EXPORT_DESTROYED"} : SaysExport(R(s), m, s) /\ Plain(R(s))
  BY <1>2, ReportExport
<1> HIDE DEF D, R
<1>8. PICK s \in {"EXPORT_SUCCESS", "EXPORT_DESTROYED"} :
        /\ msgs' = (msgs \ {m}) \cup W(s, f)
        /\ \A x \in Exporters : x # e => aExp'[x] = aExp[x]
        /\ s = "EXPORT_SUCCESS" =>
              /\ aExp'[e] # NoObj /\ aExp'[e].state = "EXPORT_SUCCESS"
              /\ aExp'[e].mem = m.mem /\ lent' = lent
        /\ s = "EXPORT_DESTROYED" => aExp'[e] = NoObj /\ lent' = lent \ {m.mem}
  BY <1>1, <1>3, <1>5, <1>6 DEF TypeOK
<1> DEFINE n == R(s)
<1>9. SaysExport(n, m, s) /\ Plain(n)
  BY <1>7, <1>8
<1> HIDE DEF n
<1>10. /\ msgs' \in {msgs \ {m}, (msgs \ {m}) \cup {n}}
       /\ "report" \notin f => n \in msgs'
  BY <1>8 DEF n
<1>11. /\ \A k, l \in msgs' : k.side = l.side /\ k.node = l.node => k = l
       /\ \A k \in msgs' : k = n \/ (k \in msgs /\ (k.side = m.side => k.node # m.node))
       /\ \A k \in msgs : k \in msgs' \/ k = m
  BY <1>1, <1>9, <1>10, OneForOne DEF Sound, SaysExport
\* No other node exports anything.
<1>a. \A x \in Exporters : x # e => mExp[x] = NoObj /\ aExp[x] = NoObj
  BY <1>1, NoneState DEF Sound, ExportInv
<1>12. ExportInv'
  BY <1>1, <1>8, <1>a, NoneState DEF Sound, ExportInv, ledger
<1>13. ImportInv' /\ LockInv'
  BY DEF Sound, ImportInv, ImportAt, LockInv, LockAt, Serves, ledger
<1>14. MsgInv'
  <2>1. ASSUME NEW k \in msgs', k # n, k.side = "export" PROVE ExportMsg(k)'
    <3>1. k \in msgs /\ k.node # e /\ ExportMsg(k) /\ k.node \in Exporters
      BY <1>1, <1>11, <2>1, MessageSides, ExportFields DEF Sound, MsgInv
    <3> QED BY <3>1, <1>a DEF ExportMsg
  <2>2. ASSUME NEW k \in msgs', k.side # "export" PROVE ImportMsg(k)'
    BY <1>9, <1>11, <2>2, ImportMsgKept DEF SaysExport, ledger
  <2>3. ExportMsg(n)'
    BY <1>1, <1>8, <1>9, NoneState DEF ExportMsg, Plain, SaysExport, ledger
  <2> QED BY <1>9, <1>11, <2>1, <2>2, <2>3 DEF MsgInv, SaysExport
<1>15. "sign" \notin faults' => LentInv'
  BY <1>1, <1>4, <1>8 DEF Sound, LentInv
<1>16. "report" \notin faults' => WaitExports' /\ WaitImports'
  <2> SUFFICES ASSUME "report" \notin faults' PROVE WaitExports' /\ WaitImports'
    OBVIOUS
  <2>1. /\ n \in msgs' /\ n.side = "export" /\ n.node = e /\ n.state = s
        /\ WaitExports /\ WaitImports
    BY <1>4, <1>9, <1>10 DEF SaysExport, Sound
  <2>2. WaitExports'
    BY <1>1, <1>8, <1>11, <2>1 DEF WaitExports, ledger
  <2>3. WaitImports'
    BY <1>1, <1>8, <1>11, <2>1, ImportsWait DEF ledger
  <2> QED BY <2>2, <2>3
<1> QED BY <1>12, <1>13, <1>14, <1>15, <1>16 DEF Sound

\* ShareImportRunningAgentCallBack keeps the invariant.
LEMMA ImportRunningInv ==
    ASSUME TypeOK, Sound, NEW m \in ImportObj, m \in msgs, m.state = "IMPORT_RUNNING",
           ShareImportRunning(m), "late" \notin faults,
           UNCHANGED <<ledger, aExp, lent, lock, todo, target, answers>>
    PROVE  Sound'
<1> DEFINE i == m.node
           D(s) == [m EXCEPT !.state = s]
           R(s) == ReportOf(m, s)
           W(s, f) == IF "report" \in f THEN {} ELSE {R(s)}
<1>1. /\ i \in Importers /\ m.mem \in Borrows /\ m.mem # None /\ m.side = "import"
      /\ lock[i] = Free /\ mImp[i] # NoObj
      /\ mapped[i] = None /\ aImp[i] = NoObj
      /\ mImp[i].state = "IMPORT_RUNNING" /\ mImp[i].mem = m.mem
      /\ mImp[i].exporter = m.exporter
      /\ m.expectState = "IMPORT_SUCCESS" /\ m.requestId \in Attaches
  <2>1. /\ ImportMsg(m) /\ i \in Importers /\ m.mem \in Borrows /\ m.side = "import"
        /\ m.mem # None
    BY ImportFields, ShareAssumption DEF Sound, MsgInv, Requests
  <2> QED BY <2>1 DEF Sound, ImportInv, ImportAt, ImportMsg
<1>2. /\ "IMPORT_SUCCESS" \in ImportStates /\ "IMPORT_DESTROYED" \in ImportStates
      /\ aImp[i].state # "IMPORT_SUCCESS"
  BY <1>1, NoneState DEF ImportStates
<1>3. PICK f \in Faults({"decoder", "import", "report"}) :
        /\ Suffer(f)
        /\ \/ /\ aImp' = [aImp EXCEPT ![i] = D("IMPORT_SUCCESS")]
              /\ mapped' = [mapped EXCEPT ![i] = m.mem]
              /\ msgs' = (msgs \ {m}) \cup Reported(D("IMPORT_SUCCESS"), f)
           \/ /\ \/ aImp' = [aImp EXCEPT ![i] = @]
                 \/ aImp' = [aImp EXCEPT ![i] = NoObj]
              /\ mapped' = [mapped EXCEPT ![i] = @]
              /\ msgs' = (msgs \ {m}) \cup Reported(D("IMPORT_DESTROYED"), f)
  BY <1>2 DEF ShareImportRunning
<1>4. faults' = faults \cup f
  BY <1>3, FaultFacts
<1>5. D("IMPORT_SUCCESS").mem = m.mem /\ D("IMPORT_SUCCESS") # NoObj
  BY <1>2, ImportState, ImportFields DEF SaysImport
<1>6. /\ Reported(D("IMPORT_SUCCESS"), f) = W("IMPORT_SUCCESS", f)
      /\ Reported(D("IMPORT_DESTROYED"), f) = W("IMPORT_DESTROYED", f)
  BY <1>2, ReportImport
<1>7. \A s \in {"IMPORT_SUCCESS", "IMPORT_DESTROYED"} : SaysImport(R(s), m, s) /\ Plain(R(s))
  BY <1>2, ReportImport
<1> HIDE DEF D, R
<1>8. PICK s \in {"IMPORT_SUCCESS", "IMPORT_DESTROYED"} :
        /\ msgs' = (msgs \ {m}) \cup W(s, f)
        /\ \A j \in Importers : j # i => aImp'[j] = aImp[j] /\ mapped'[j] = mapped[j]
        /\ s = "IMPORT_SUCCESS" =>
              aImp'[i] # NoObj /\ aImp'[i].mem = m.mem /\ mapped'[i] = m.mem
        /\ s = "IMPORT_DESTROYED" => aImp'[i] = NoObj /\ mapped'[i] = None
  BY <1>1, <1>3, <1>5, <1>6 DEF TypeOK
<1> DEFINE n == R(s)
<1>9. SaysImport(n, m, s) /\ Plain(n)
  BY <1>7, <1>8
<1> HIDE DEF n
<1>10. /\ msgs' \in {msgs \ {m}, (msgs \ {m}) \cup {n}}
       /\ "report" \notin f => n \in msgs'
  BY <1>8 DEF n
<1>11. /\ \A k, l \in msgs' : k.side = l.side /\ k.node = l.node => k = l
       /\ \A k \in msgs' : k = n \/ (k \in msgs /\ (k.side = m.side => k.node # m.node))
       /\ \A k \in msgs : k \in msgs' \/ k = m
  BY <1>1, <1>9, <1>10, OneForOne DEF Sound, SaysImport
<1>12. ExportInv' /\ LentInv = LentInv'
  BY DEF Sound, ExportInv, LentInv, ledger
<1>13. ImportInv'
  BY <1>1, <1>8 DEF Sound, ImportInv, ImportAt, Serves, ledger
<1>b. LockInv'
  BY DEF Sound, LockInv, LockAt, Serves, ledger
<1>14. MsgInv'
  <2>1. ASSUME NEW k \in msgs', k # n, k.side # "export" PROVE ImportMsg(k)'
    <3>1. k \in msgs /\ k.node # i /\ ImportMsg(k) /\ k.node \in Importers
      BY <1>1, <1>11, <2>1, MessageSides, ImportFields DEF Sound, MsgInv
    <3> QED BY <3>1, <1>8 DEF ImportMsg, Plain, ledger
  <2>2. ASSUME NEW k \in msgs', k.side = "export" PROVE ExportMsg(k)'
    BY <1>9, <1>11, <2>2, ExportMsgKept DEF SaysImport, ledger
  <2>3. ImportMsg(n)'
    BY <1>1, <1>8, <1>9 DEF ImportMsg, Plain, SaysImport, ledger
  <2> QED BY <1>9, <1>11, <2>1, <2>2, <2>3 DEF MsgInv, SaysImport
<1>15. "sign" \notin faults' => LentInv'
  BY <1>4, <1>12 DEF Sound
<1>16. "report" \notin faults' => WaitExports' /\ WaitImports'
  <2> SUFFICES ASSUME "report" \notin faults' PROVE WaitExports' /\ WaitImports'
    OBVIOUS
  <2>1. /\ n \in msgs' /\ n.side = "import" /\ n.node = i /\ n.state = s
        /\ WaitExports /\ WaitImports
    BY <1>4, <1>9, <1>10 DEF SaysImport, Sound
  <2>2. WaitExports'
    BY <1>1, <1>11, <2>1, ExportsWait DEF ledger
  <2>3. \A j \in Importers :
          /\ mImp'[j].state = "IMPORT_RUNNING" =>
                \E k \in msgs' : k.side = "import" /\ k.node = j
          /\ mImp'[j].state = "IMPORT_DESTROYING" =>
                \/ lock'[j].op = "rollback"
                \/ \E k \in msgs' : k.side = "import" /\ k.node = j
    BY <1>1, <1>11, <2>1 DEF WaitImports, WaitAt, ledger
  <2>4. \A j \in Importers :
          mImp'[j].state \in {"IMPORT_SUCCESS", "IMPORT_ABNORMAL"} \/ lock'[j].op = "rollback" =>
                mapped'[j] # None
    BY <1>1, <1>8, <2>1, LockFacts DEF WaitImports, WaitAt, ledger
  <2>5. ASSUME NEW k \in msgs', k.state \in {"IMPORT_DESTROYING", "IMPORT_ABNORMAL"}
        PROVE  mapped'[k.node] # None
    <3>1. k \in msgs /\ mapped[k.node] # None
      BY <1>8, <1>11, <2>1, <2>5 DEF WaitImports, WaitAt
    <3>2. k.side = "import" /\ k.node \in Importers
      BY <2>5, <3>1, MessageSides, ExportFields, ImportFields DEF ExportStates
    <3> QED BY <1>1, <1>8, <1>11, <2>1, <2>5, <3>1, <3>2
  <2> QED BY <2>2, <2>3, <2>4, <2>5 DEF WaitImports, WaitAt
<1> QED BY <1>12, <1>13, <1>b, <1>14, <1>15, <1>16 DEF Sound

\* ShareImportDestroyingAgentCallBack keeps the invariant.
LEMMA ImportDestroyingInv ==
    ASSUME TypeOK, Sound, NEW m \in ImportObj, m \in msgs, m.state = "IMPORT_DESTROYING",
           ShareImportDestroying(m), "late" \notin faults,
           UNCHANGED <<ledger, aExp, lent, lock, todo, target, answers>>
    PROVE  Sound'
<1> DEFINE i == m.node
           D(s) == [m EXCEPT !.state = s]
           R(s) == ReportOf(m, s)
           W(s, f) == IF "report" \in f THEN {} ELSE {R(s)}
<1>1. /\ i \in Importers /\ m.side = "import"
      /\ lock[i] = Free /\ mImp[i] # NoObj
      /\ aImp[i] = NoObj <=> mapped[i] = None
      /\ aImp[i] # NoObj => mapped[i] = m.mem
      /\ mImp[i].state = "IMPORT_DESTROYING" /\ mImp[i].mem = m.mem
      /\ mImp[i].exporter = m.exporter
      /\ m.expectState = "IMPORT_DESTROYED" /\ m.requestId \in Detaches
  <2>1. ImportMsg(m) /\ i \in Importers /\ m.side = "import"
    BY ImportFields DEF Sound, MsgInv
  <2> QED BY <2>1 DEF Sound, ImportInv, ImportAt, ImportMsg
<1>2. "IMPORT_ABNORMAL" \in ImportStates /\ "IMPORT_DESTROYED" \in ImportStates
  BY DEF ImportStates
<1>3. PICK f \in Faults({"unimport", "report"}) :
        /\ Suffer(f)
        /\ \/ /\ aImp[i] # NoObj
              /\ aImp' = [aImp EXCEPT ![i] = D("IMPORT_ABNORMAL")]
              /\ mapped' = [mapped EXCEPT ![i] = @]
              /\ msgs' = (msgs \ {m}) \cup Reported(D("IMPORT_ABNORMAL"), f)
           \/ /\ aImp' = [aImp EXCEPT ![i] = NoObj]
              /\ IF aImp[i] = NoObj THEN mapped' = [mapped EXCEPT ![i] = @]
                 ELSE mapped' = [mapped EXCEPT ![i] = None]
              /\ msgs' = (msgs \ {m}) \cup Reported(D("IMPORT_DESTROYED"), f)
  BY DEF ShareImportDestroying
<1>4. faults' = faults \cup f
  BY <1>3, FaultFacts
<1>5. D("IMPORT_ABNORMAL").mem = m.mem /\ D("IMPORT_ABNORMAL") # NoObj
  BY <1>2, ImportState, ImportFields DEF SaysImport
<1>6. /\ Reported(D("IMPORT_ABNORMAL"), f) = W("IMPORT_ABNORMAL", f)
      /\ Reported(D("IMPORT_DESTROYED"), f) = W("IMPORT_DESTROYED", f)
  BY <1>2, ReportImport
<1>7. \A s \in {"IMPORT_ABNORMAL", "IMPORT_DESTROYED"} : SaysImport(R(s), m, s) /\ Plain(R(s))
  BY <1>2, ReportImport
<1> HIDE DEF D, R
<1>8. PICK s \in {"IMPORT_ABNORMAL", "IMPORT_DESTROYED"} :
        /\ msgs' = (msgs \ {m}) \cup W(s, f)
        /\ \A j \in Importers : j # i => aImp'[j] = aImp[j] /\ mapped'[j] = mapped[j]
        /\ s = "IMPORT_ABNORMAL" => /\ aImp'[i] # NoObj /\ aImp'[i].mem = m.mem
                                    /\ mapped'[i] = m.mem /\ mapped'[i] # None
        /\ s = "IMPORT_DESTROYED" => aImp'[i] = NoObj /\ mapped'[i] = None
  BY <1>1, <1>3, <1>5, <1>6 DEF TypeOK
<1> DEFINE n == R(s)
<1>9. SaysImport(n, m, s) /\ Plain(n)
  BY <1>7, <1>8
<1> HIDE DEF n
<1>10. /\ msgs' \in {msgs \ {m}, (msgs \ {m}) \cup {n}}
       /\ "report" \notin f => n \in msgs'
  BY <1>8 DEF n
<1>11. /\ \A k, l \in msgs' : k.side = l.side /\ k.node = l.node => k = l
       /\ \A k \in msgs' : k = n \/ (k \in msgs /\ (k.side = m.side => k.node # m.node))
       /\ \A k \in msgs : k \in msgs' \/ k = m
  BY <1>1, <1>9, <1>10, OneForOne DEF Sound, SaysImport
<1>12. ExportInv' /\ LentInv = LentInv'
  BY DEF Sound, ExportInv, LentInv, ledger
<1>13. ImportInv'
  BY <1>1, <1>8 DEF Sound, ImportInv, ImportAt, Serves, ledger
<1>b. LockInv'
  BY DEF Sound, LockInv, LockAt, Serves, ledger
<1>14. MsgInv'
  <2>1. ASSUME NEW k \in msgs', k # n, k.side # "export" PROVE ImportMsg(k)'
    <3>1. k \in msgs /\ k.node # i /\ ImportMsg(k) /\ k.node \in Importers
      BY <1>1, <1>11, <2>1, MessageSides, ImportFields DEF Sound, MsgInv
    <3> QED BY <3>1, <1>8 DEF ImportMsg, Plain, ledger
  <2>2. ASSUME NEW k \in msgs', k.side = "export" PROVE ExportMsg(k)'
    BY <1>9, <1>11, <2>2, ExportMsgKept DEF SaysImport, ledger
  <2>3. ImportMsg(n)'
    BY <1>1, <1>8, <1>9 DEF ImportMsg, Plain, SaysImport, ledger
  <2> QED BY <1>9, <1>11, <2>1, <2>2, <2>3 DEF MsgInv, SaysImport
<1>15. "sign" \notin faults' => LentInv'
  BY <1>4, <1>12 DEF Sound
<1>16. "report" \notin faults' => WaitExports' /\ WaitImports'
  <2> SUFFICES ASSUME "report" \notin faults' PROVE WaitExports' /\ WaitImports'
    OBVIOUS
  <2>1. /\ n \in msgs' /\ n.side = "import" /\ n.node = i /\ n.state = s
        /\ WaitExports /\ WaitImports
    BY <1>4, <1>9, <1>10 DEF SaysImport, Sound
  <2>2. WaitExports'
    BY <1>1, <1>11, <2>1, ExportsWait DEF ledger
  <2>3. \A j \in Importers :
          /\ mImp'[j].state = "IMPORT_RUNNING" =>
                \E k \in msgs' : k.side = "import" /\ k.node = j
          /\ mImp'[j].state = "IMPORT_DESTROYING" =>
                \/ lock'[j].op = "rollback"
                \/ \E k \in msgs' : k.side = "import" /\ k.node = j
    BY <1>1, <1>11, <2>1 DEF WaitImports, WaitAt, ledger
  <2>4. \A j \in Importers :
          mImp'[j].state \in {"IMPORT_SUCCESS", "IMPORT_ABNORMAL"} \/ lock'[j].op = "rollback" =>
                mapped'[j] # None
    BY <1>1, <1>8, <2>1, LockFacts DEF WaitImports, WaitAt, ledger
  <2>5. ASSUME NEW k \in msgs', k.state \in {"IMPORT_DESTROYING", "IMPORT_ABNORMAL"}
        PROVE  mapped'[k.node] # None
    <3>1. CASE k = n
      BY <1>8, <2>1, <2>5, <3>1
    <3>2. CASE k # n
      <4>1. k \in msgs /\ mapped[k.node] # None
        BY <1>11, <2>1, <2>5, <3>2 DEF WaitImports, WaitAt
      <4>2. k.side = "import" /\ k.node \in Importers
        BY <2>5, <4>1, MessageSides, ExportFields, ImportFields DEF ExportStates
      <4> QED BY <1>1, <1>8, <1>11, <3>2, <4>1, <4>2
    <3> QED BY <3>1, <3>2
  <2> QED BY <2>2, <2>3, <2>4, <2>5 DEF WaitImports, WaitAt
<1> QED BY <1>12, <1>13, <1>b, <1>14, <1>15, <1>16 DEF Sound

-----------------------------------------------------------------------------
(* The steps of the master.                                                *)

\* A step that only answers a request keeps the invariant.
LEMMA AnswerInv ==
    ASSUME Sound, faults \subseteq faults',
           UNCHANGED <<ledger, aExp, aImp, lent, mapped, lock, msgs>>
    PROVE  Sound'
<1>1. ExportInv' /\ ImportInv' /\ LockInv'
  BY DEF Sound, ExportInv, ImportInv, ImportAt, LockInv, LockAt, Serves, ledger
<1>2. MsgInv'
  BY ExportMsgKept, ImportMsgKept DEF Sound, MsgInv, ledger
<1>3. "sign" \notin faults' => LentInv'
  BY DEF Sound, LentInv
<1>4. "report" \notin faults' => WaitExports' /\ WaitImports'
  BY ExportsWait, ImportsWait DEF Sound, ledger
<1> QED BY <1>1, <1>2, <1>3, <1>4 DEF Sound

\* UbseMemShareBorrow keeps the invariant.
LEMMA BorrowInv ==
    ASSUME TypeOK, Sound, NEW r, NEW e \in Exporters, UbseMemShareBorrow(r, e),
           "late" \notin faults'
    PROVE  Sound'
<1> DEFINE x == [side |-> "export", node |-> e, mem |-> r,
                 state |-> "EXPORT_RUNNING", expectState |-> "EXPORT_SUCCESS",
                 returnReq |-> None, created |-> FALSE, destroyed |-> FALSE]
<1>1. PICK f \in Faults({"refuse", "lost", "late"}) :
        /\ r \in Borrows /\ NameIsFree
        /\ Suffer(f)
        /\ \/ UNCHANGED <<mExp, msgs>>
           \/ /\ \A y \in Exporters : mExp[y] = NoObj
              /\ \A i \in Importers : mImp[i] = NoObj
              /\ f \subseteq {"lost", "late"}
              /\ msgs' = msgs \cup Sent(x, f)
              /\ IF SendFails(f) THEN UNCHANGED mExp
                 ELSE mExp' = [mExp EXCEPT ![e] = x]
        /\ UNCHANGED <<mImp, aExp, aImp, lent, mapped, lock, target>>
  BY DEF UbseMemShareBorrow, Takes
<1>2. faults' = faults \cup f /\ "late" \notin f
  BY <1>1, FaultFacts
<1>3. /\ x \in ExportObj /\ x # NoObj /\ x.node = e /\ x.mem = r /\ x.state = "EXPORT_RUNNING"
      /\ x.expectState = "EXPORT_SUCCESS" /\ ~x.created
  BY <1>1, ExportFields DEF ExportObj, ExportStates
<1> HIDE DEF x
<1>4. CASE UNCHANGED <<mExp, msgs>>
  BY <1>1, <1>2, <1>4, AnswerInv DEF ledger
<1>5. CASE /\ \A y \in Exporters : mExp[y] = NoObj
           /\ \A i \in Importers : mImp[i] = NoObj
           /\ f \subseteq {"lost", "late"}
           /\ msgs' = msgs \cup Sent(x, f)
           /\ IF SendFails(f) THEN UNCHANGED mExp
              ELSE mExp' = [mExp EXCEPT ![e] = x]
  <2> DEFINE n == Wire(x)
  <2>1. SaysExport(n, x, "EXPORT_RUNNING") /\ Plain(n)
    BY <1>3, WireExport
  <2>2. \/ UNCHANGED <<mExp, msgs>>
        \/ /\ msgs' = msgs \cup {n} /\ mExp'[e] = x
           /\ \A y \in Exporters : y # e => mExp'[y] = mExp[y]
    BY <1>2, <1>5 DEF SendFails, Sent, TypeOK
  <2> HIDE DEF n
  <2>3. CASE UNCHANGED <<mExp, msgs>>
    BY <1>1, <1>2, <2>3, AnswerInv DEF ledger
  <2>4. CASE /\ msgs' = msgs \cup {n} /\ mExp'[e] = x
             /\ \A y \in Exporters : y # e => mExp'[y] = mExp[y]
    \* Nothing is under way for the name.
    <3>1. /\ msgs = {} /\ \A y \in Exporters : aExp[y] = NoObj
          /\ \A i \in Importers : aImp[i] = NoObj /\ lock[i] = Free
      <4>1. ASSUME NEW m \in msgs PROVE FALSE
        <5>1. \/ ExportMsg(m) /\ m.node \in Exporters
              \/ ImportMsg(m) /\ m.node \in Importers
          BY <4>1, MessageSides, ExportFields, ImportFields DEF Sound, MsgInv
        <5> QED BY <1>5, <5>1 DEF ExportMsg, ImportMsg
      <4>2. ASSUME NEW i \in Importers PROVE lock[i] = Free
        BY <1>1, <1>5, LockFacts DEF Sound, LockInv, LockAt, NameIsFree
      <4> QED BY <1>5, <4>1, <4>2 DEF Sound, ExportInv, ImportInv, ImportAt
    <3>2. ExportInv'
      BY <1>1, <1>3, <1>5, <2>4, <3>1, NoneState DEF Sound, ExportInv
    <3>3. ImportInv' /\ LockInv'
      BY <1>1, <1>5, <3>1, NoneState, LockFacts DEF Sound, ImportInv, ImportAt, LockInv, LockAt
    <3>4. MsgInv'
      <4>1. ExportMsg(n)' /\ n.side = "export"
        BY <1>1, <1>3, <2>1, <2>4, <3>1 DEF ExportMsg, Plain, SaysExport
      <4> QED BY <2>4, <3>1, <4>1 DEF MsgInv
    <3>5. "sign" \notin faults' => LentInv'
      BY <1>1, <1>2 DEF Sound, LentInv
    <3>6. "report" \notin faults' => WaitExports' /\ WaitImports'
      <4>1. WaitExports'
        BY <1>3, <1>5, <2>1, <2>4, <3>1, NoneState DEF WaitExports, SaysExport
      <4>2. "report" \notin faults' => WaitImports'
        BY <1>1, <1>2, <2>1, <2>4, <3>1, ImportsWait DEF Sound, SaysExport
      <4> QED BY <4>1, <4>2
    <3> QED BY <3>2, <3>3, <3>4, <3>5, <3>6 DEF Sound
  <2> QED BY <2>2, <2>3, <2>4
<1> QED BY <1>1, <1>4, <1>5

\* An export object that is found complete has all importers of the name, for
\* there is no other.
LEMMA FoundAll ==
    ASSUME TypeOK, ExportInv, ImportInv, NEW found \in MaxRefCountExports, Exported(found)
    PROVE  /\ found.node \in Exporters /\ mExp[found.node].state = "EXPORT_SUCCESS"
           /\ mExp[found.node] \in ExportObj
           /\ found.importers = {i \in Importers : mImp[i] # NoObj}
<1>1. /\ found.node \in Exporters /\ mExp[found.node].state = "EXPORT_SUCCESS"
      /\ mExp[found.node] \in ExportObj /\ mExp[found.node] # NoObj
      /\ found.importers = Attached(found.node)
  BY FoundFacts, NoneState DEF Exported
<1>2. ASSUME NEW i \in Importers, mImp[i] # NoObj PROVE mImp[i].exporter = found.node
  <2>1. mImp[i] \in ImportObj /\ Serves(mImp[i])
    BY <1>2, LedgerFacts DEF ImportInv, ImportAt
  <2>2. mImp[i].exporter \in Exporters /\ mExp[mImp[i].exporter] # NoObj
    BY <2>1, ImportFields, NoneState DEF Serves
  <2> QED BY <1>1, <2>2 DEF ExportInv
<1> QED BY <1>1, <1>2 DEF Attached

\* Where a delete passes its checks, nothing is under way for the name.
LEMMA NothingUnderWay ==
    ASSUME TypeOK, Sound, NEW e \in Exporters, mExp[e].state = "EXPORT_SUCCESS",
           NameIsFree, \A i \in Importers : mImp[i] = NoObj
    PROVE  msgs = {} /\ \A i \in Importers : lock[i] = Free
<1>1. ASSUME NEW m \in msgs PROVE FALSE
  <2>1. \/ ExportMsg(m) /\ m.node \in Exporters
        \/ ImportMsg(m) /\ m.node \in Importers
    BY <1>1, MessageSides, ExportFields, ImportFields DEF Sound, MsgInv
  <2>2. CASE ExportMsg(m) /\ m.node \in Exporters
    <3>1. m.node = e
      BY <2>2, NoneState DEF ExportMsg, Sound, ExportInv
    <3> QED BY <2>2, <3>1 DEF ExportMsg
  <2>3. CASE ImportMsg(m) /\ m.node \in Importers
    BY <2>3 DEF ImportMsg
  <2> QED BY <2>1, <2>2, <2>3
<1>2. ASSUME NEW i \in Importers PROVE lock[i] = Free
  BY <1>2, LockFacts DEF Sound, LockInv, LockAt, NameIsFree
<1> QED BY <1>1, <1>2

\* UbseMemShareReturn keeps the invariant.
LEMMA ReturnInv ==
    ASSUME TypeOK, Sound, NEW r, UbseMemShareReturn(r), "late" \notin faults'
    PROVE  Sound'
<1>1. PICK f \in Faults({"refuse", "lost", "late"}), found \in MaxRefCountExports :
        /\ r \in Returns /\ NameIsFree
        /\ Suffer(f)
        /\ \/ UNCHANGED <<mExp, msgs>>
           \/ /\ Returnable(found) /\ f \subseteq {"lost", "late"}
              /\ msgs' = msgs \cup Sent(Deleted(mExp[found.node], r), f)
              /\ IF SendFails(f)
                 THEN mExp' = [mExp EXCEPT ![found.node] =
                         [Deleted(mExp[found.node], r) EXCEPT !.state = "EXPORT_SUCCESS"]]
                 ELSE mExp' = [mExp EXCEPT ![found.node] = Deleted(mExp[found.node], r)]
        /\ UNCHANGED <<mImp, aExp, aImp, lent, mapped, lock, target>>
  BY DEF UbseMemShareReturn, Takes, Deleted
<1> DEFINE e == found.node
           x == Deleted(mExp[e], r)
           y == [x EXCEPT !.state = "EXPORT_SUCCESS"]
<1>2. faults' = faults \cup f /\ "late" \notin f
  BY <1>1, FaultFacts
<1>3. CASE UNCHANGED <<mExp, msgs>>
  BY <1>1, <1>2, <1>3, AnswerInv DEF ledger
<1>4. CASE /\ Returnable(found) /\ f \subseteq {"lost", "late"}
           /\ msgs' = msgs \cup Sent(x, f)
           /\ IF SendFails(f) THEN mExp' = [mExp EXCEPT ![e] = y]
              ELSE mExp' = [mExp EXCEPT ![e] = x]
  <2>1. /\ e \in Exporters /\ mExp[e].state = "EXPORT_SUCCESS" /\ mExp[e] \in ExportObj
        /\ \A i \in Importers : mImp[i] = NoObj
    BY <1>1, <1>4, FoundAll DEF Returnable, Sound
  <2>2. /\ x \in ExportObj /\ x # NoObj /\ x.node = mExp[e].node /\ x.mem = mExp[e].mem
        /\ x.state = "EXPORT_DESTROYING" /\ x.expectState = "EXPORT_DESTROYED"
        /\ x.returnReq = r /\ ~x.destroyed
    BY <1>1, <2>1, DeletedFacts, ExportFields
  <2> HIDE DEF x
  <2>3. /\ y # NoObj /\ y.node = mExp[e].node /\ y.mem = mExp[e].mem
        /\ y.state = "EXPORT_SUCCESS"
    BY <2>2, ExportState, ExportFields DEF SaysExport, ExportStates
  <2>4. PICK n : n = Wire(x) /\ SaysExport(n, x, "EXPORT_DESTROYING") /\ Plain(n)
    BY <2>2, WireExport
  <2> HIDE DEF y
  <2>5. msgs = {} /\ \A i \in Importers : lock[i] = Free
    BY <1>1, <2>1, NothingUnderWay
  <2>6. /\ mExp[e].node = e /\ mExp[e].mem \in lent /\ aExp[e] # NoObj
        /\ mExp[e] # NoObj /\ \A d \in Exporters : d # e => mExp[d] = NoObj
    BY <2>1, NoneState DEF Sound, ExportInv
  <2>7. /\ \A d \in Exporters : d # e => mExp'[d] = mExp[d]
        /\ \/ mExp'[e] = y /\ msgs' = msgs
           \/ mExp'[e] = x /\ msgs' = {n}
    <3>1. SendFails(f) <=> "lost" \in f
      BY <1>2, <1>4 DEF SendFails
    <3>2. Sent(x, f) = IF "lost" \in f THEN {} ELSE {n}
      BY <2>4 DEF Sent
    <3> QED BY <1>4, <2>1, <2>5, <3>1, <3>2 DEF TypeOK
  <2>8. ExportInv'
    BY <1>1, <2>1, <2>2, <2>3, <2>6, <2>7 DEF Sound, ExportInv
  <2>9. ImportInv' /\ LockInv'
    BY <1>1, <2>1, <2>5, NoneState, LockFacts DEF Sound, ImportInv, ImportAt, LockInv, LockAt
  <2>10. MsgInv'
    <3>1. CASE msgs' = msgs
      BY <2>5, <3>1 DEF MsgInv
    <3>2. CASE mExp'[e] = x /\ msgs' = {n}
      <4>1. ExportMsg(n)' /\ n.side = "export"
        BY <1>1, <2>2, <2>4, <2>6, <3>2 DEF ExportMsg, Plain, SaysExport
      <4> QED BY <3>2, <4>1 DEF MsgInv
    <3> QED BY <2>7, <3>1, <3>2
  <2>11. "sign" \notin faults' => LentInv'
    BY <1>1, <1>2 DEF Sound, LentInv
  <2>12. WaitExports'
    BY <2>1, <2>2, <2>3, <2>4, <2>6, <2>7, NoneState DEF WaitExports, SaysExport
  <2>13. "report" \notin faults' => WaitImports'
    BY <1>1, <1>2, <2>4, <2>5, <2>7, ImportsWait DEF Sound, SaysExport
  <2> QED BY <2>8, <2>9, <2>10, <2>11, <2>12, <2>13 DEF Sound
<1> QED BY <1>1, <1>3, <1>4

\* What the report m of an exporter makes of the master's export object.
LEMMA ExportMasterFacts ==
    ASSUME TypeOK, Sound, NEW m \in ExportObj, m \in msgs, ShareExportMasterCallback(m)
    PROVE  /\ m.node \in Exporters /\ ExportMsg(m) /\ NameIsFree
           /\ m.state \in {"EXPORT_SUCCESS", "EXPORT_DESTROYED"}
           /\ msgs' = msgs \ {m}
           /\ \A d \in Exporters : d # m.node => mExp'[d] = mExp[d]
           /\ m.state = "EXPORT_DESTROYED" => mExp'[m.node] = NoObj
           /\ m.state = "EXPORT_SUCCESS" =>
                 /\ mExp'[m.node] # NoObj /\ mExp'[m.node].node = m.node
                 /\ mExp'[m.node].mem = m.mem /\ mExp'[m.node].state = "EXPORT_SUCCESS"
           /\ Respond(IF m.expectState = "EXPORT_SUCCESS" THEN m.mem ELSE m.returnReq,
                      IF m.state = m.expectState THEN "ok" ELSE "fail")
           /\ UNCHANGED <<mImp, aExp, aImp, lent, mapped, lock, todo, target, faults>>
<1> DEFINE e == m.node
           flag == IF m.expectState = "EXPORT_SUCCESS" THEN "created" ELSE "destroyed"
           o == [m EXCEPT ![flag] = TRUE]
<1>1. e \in Exporters /\ ExportMsg(m)
  BY ExportFields DEF Sound, MsgInv
<1>2. FirstReport(mExp[e], flag)
  <2>1. CASE m.expectState = "EXPORT_SUCCESS"
    <3>1. mExp[e].state = "EXPORT_RUNNING" /\ flag = "created"
      BY <1>1, <2>1 DEF ExportMsg
    <3>2. ~mExp[e].created
      BY <1>1, <3>1 DEF Sound, ExportInv
    <3>3. mExp[e] \in ExportObj
      BY <1>1, LedgerFacts DEF ExportMsg
    <3>4. mExp[e]["created"] = mExp[e].created
      OBVIOUS
    <3> QED BY <3>1, <3>2, <3>4 DEF FirstReport
  <2>2. CASE m.expectState # "EXPORT_SUCCESS"
    <3>1. mExp[e].state = "EXPORT_DESTROYING" /\ flag = "destroyed"
      BY <1>1, <2>2 DEF ExportMsg
    <3>2. ~mExp[e].destroyed
      BY <1>1, <3>1 DEF Sound, ExportInv
    <3> QED BY <3>1, <3>2 DEF FirstReport
  <2> QED BY <2>1, <2>2
<1>3. /\ NameIsFree /\ msgs' = msgs \ {m}
      /\ m.state \in {"EXPORT_SUCCESS", "EXPORT_DESTROYED"}
      /\ IF m.state = "EXPORT_DESTROYED" THEN mExp' = [mExp EXCEPT ![e] = NoObj]
         ELSE mExp' = [mExp EXCEPT ![e] = o]
      /\ Respond(IF m.expectState = "EXPORT_SUCCESS" THEN m.mem ELSE m.returnReq,
                 IF m.state = m.expectState THEN "ok" ELSE "fail")
      /\ UNCHANGED <<mImp, aExp, aImp, lent, mapped, lock, todo, target, faults>>
  BY <1>2 DEF ShareExportMasterCallback
<1>4. SaysExport(o, m, m.state) /\ o # NoObj
  <2>1. flag \in {"created", "destroyed"}
    OBVIOUS
  <2> HIDE DEF flag
  <2>2. SaysExport(o, m, m.state)
    BY <2>1, ExportFlag
  <2> HIDE DEF o
  <2> QED BY <2>2, ExportFields DEF SaysExport
<1> HIDE DEF o
<1>5. /\ \A d \in Exporters : d # e => mExp'[d] = mExp[d]
      /\ m.state = "EXPORT_DESTROYED" => mExp'[e] = NoObj
      /\ m.state # "EXPORT_DESTROYED" => mExp'[e] = o
  BY <1>1, <1>3 DEF TypeOK
<1> QED BY <1>1, <1>3, <1>4, <1>5 DEF SaysExport

\* While the export object is not complete it is the only one and nobody is
\* attached.
LEMMA NobodyAttached ==
    ASSUME TypeOK, Sound, NEW e \in Exporters,
           mExp[e].state \in {"EXPORT_RUNNING", "EXPORT_DESTROYING"}
    PROVE  /\ \A d \in Exporters : d # e => mExp[d] = NoObj /\ aExp[d] = NoObj
           /\ \A i \in Importers : mImp[i] = NoObj /\ aImp[i] = NoObj /\ mapped[i] = None
<1>1. \A d \in Exporters : d # e => mExp[d] = NoObj /\ aExp[d] = NoObj
  BY NoneState DEF Sound, ExportInv
<1>2. ASSUME NEW i \in Importers, mImp[i] # NoObj PROVE FALSE
  <2>1. Serves(mImp[i]) /\ mImp[i].exporter \in Exporters
    BY <1>2, LedgerFacts, ImportFields DEF Sound, ImportInv, ImportAt
  <2> QED BY <1>1, <2>1, NoneState DEF Serves
<1> QED BY <1>1, <1>2 DEF Sound, ImportInv, ImportAt

\* ShareExportMasterCallback keeps the invariant.
LEMMA ExportMasterInv ==
    ASSUME TypeOK, Sound, NEW m \in ExportObj, m \in msgs, ShareExportMasterCallback(m)
    PROVE  Sound'
<1> DEFINE e == m.node
<1>1. /\ e \in Exporters /\ ExportMsg(m) /\ NameIsFree
      /\ m.state \in {"EXPORT_SUCCESS", "EXPORT_DESTROYED"}
      /\ msgs' = msgs \ {m}
      /\ \A d \in Exporters : d # e => mExp'[d] = mExp[d]
      /\ m.state = "EXPORT_DESTROYED" => mExp'[e] = NoObj
      /\ m.state = "EXPORT_SUCCESS" =>
            /\ mExp'[e] # NoObj /\ mExp'[e].node = e
            /\ mExp'[e].mem = m.mem /\ mExp'[e].state = "EXPORT_SUCCESS"
      /\ UNCHANGED <<mImp, aExp, aImp, lent, mapped, lock, todo, target, faults>>
  BY ExportMasterFacts
\* The object was not complete, so nobody was attached.
<1>2. /\ mExp[e].state \in {"EXPORT_RUNNING", "EXPORT_DESTROYING"}
      /\ mExp[e] # NoObj /\ mExp[e].mem = m.mem /\ m.side = "export"
      /\ m.state = "EXPORT_SUCCESS" => m.mem \in lent /\ aExp[e] # NoObj
      /\ m.state = "EXPORT_DESTROYED" => aExp[e] = NoObj
      /\ \A d \in Exporters : d # e => mExp[d] = NoObj /\ aExp[d] = NoObj
  BY <1>1, ExportFields, NoneState DEF ExportMsg, Sound, ExportInv
<1>3. \A i \in Importers : mImp[i] = NoObj /\ aImp[i] = NoObj /\ mapped[i] = None
  BY <1>1, <1>2, NobodyAttached
<1>4. \A i \in Importers : lock[i] = Free
  BY <1>1, <1>3, LockFacts DEF Sound, LockInv, LockAt, NameIsFree
<1>5. msgs' = {}
  <2>1. ASSUME NEW k \in msgs, k # m PROVE FALSE
    <3>1. \/ k.side = "export" /\ ExportMsg(k) /\ k.node \in Exporters
          \/ ImportMsg(k) /\ k.node \in Importers
      BY <2>1, MessageSides, ExportFields, ImportFields DEF Sound, MsgInv
    <3>2. CASE k.side = "export" /\ ExportMsg(k) /\ k.node \in Exporters
      <4>1. k.node = e
        BY <1>2, <3>2 DEF ExportMsg
      <4> QED BY <1>2, <2>1, <3>2, <4>1 DEF Sound, MsgInv
    <3>3. CASE ImportMsg(k) /\ k.node \in Importers
      BY <1>3, <3>3 DEF ImportMsg
    <3> QED BY <3>1, <3>2, <3>3
  <2> QED BY <1>1, <2>1
<1>6. ExportInv'
  BY <1>1, <1>2, NoneState DEF Sound, ExportInv
<1>7. ImportInv' /\ LockInv'
  BY <1>1, <1>3, <1>4, NoneState, LockFacts DEF ImportInv, ImportAt, LockInv, LockAt
<1>8. MsgInv'
  BY <1>5 DEF MsgInv
<1>9. "sign" \notin faults' => LentInv'
  BY <1>1 DEF Sound, LentInv
<1>10. WaitExports' /\ WaitImports'
  BY <1>1, <1>2, <1>3, <1>4, <1>5, NoneState, LockFacts DEF WaitExports, WaitImports, WaitAt
<1> QED BY <1>6, <1>7, <1>8, <1>9, <1>10 DEF Sound

\* A step of the master for the importer i keeps the invariant if it does so
\* for i: it leaves the other objects, locks and messages alone.  It may send n.
LEMMA ImporterStep ==
    ASSUME TypeOK, Sound, NEW i \in Importers, NEW n,
           UNCHANGED <<mExp, aExp, aImp, lent, mapped>>, faults \subseteq faults',
           \A j \in Importers : j # i => mImp'[j] = mImp[j] /\ lock'[j] = lock[j],
           ImportAt(i)', LockAt(i)',
           msgs' \subseteq msgs \cup {n},
           \A k \in msgs \cap msgs' : k.side = "import" => k.node # i,
           \A k \in msgs : k \in msgs' \/ (k.side = "import" /\ k.node = i),
           n \in msgs' => n.side = "import" /\ n.node = i /\ ImportMsg(n)',
           "report" \notin faults' =>
              /\ WaitAt(i)'
              /\ n \in msgs' /\ n.state \in {"IMPORT_DESTROYING", "IMPORT_ABNORMAL"} =>
                    mapped[i] # None
    PROVE  Sound'
<1>1. ExportInv' /\ LentInv' = LentInv
  BY DEF Sound, ExportInv, LentInv
<1>2. ImportInv'
  BY DEF Sound, ImportInv, ImportAt, Serves
<1>3. LockInv'
  BY DEF Sound, LockInv, LockAt, Serves
<1>4. MsgInv'
  <2>1. ASSUME NEW k \in msgs', k.side = "export" PROVE ExportMsg(k)'
    BY <2>1, ExportMsgKept
  <2>2. ASSUME NEW k \in msgs', k.side # "export", k # n PROVE ImportMsg(k)'
    <3>1. k \in msgs /\ k.node \in Importers /\ k.node # i /\ ImportMsg(k)
      BY <2>2, MessageSides, ImportFields DEF Sound, MsgInv
    <3> QED BY <3>1 DEF ImportMsg, Plain
  <2>3. \A k, l \in msgs' : k.side = l.side /\ k.node = l.node => k = l
    BY DEF Sound, MsgInv
  <2> QED BY <2>1, <2>2, <2>3 DEF MsgInv
<1>5. "sign" \notin faults' => LentInv'
  BY <1>1 DEF Sound
<1>6. "report" \notin faults' => WaitExports' /\ WaitImports'
  <2> SUFFICES ASSUME "report" \notin faults' PROVE WaitExports' /\ WaitImports'
    OBVIOUS
  <2>1. WaitExports /\ WaitImports
    BY DEF Sound
  <2>2. WaitExports'
    BY <2>1, ExportsWait
  <2>3. ASSUME NEW j \in Importers PROVE WaitAt(j)'
    <3>1. CASE j = i
      BY <3>1
    <3>2. CASE j # i
      BY <2>1, <3>2 DEF WaitImports, WaitAt
    <3> QED BY <3>1, <3>2
  <2>4. ASSUME NEW k \in msgs', k.state \in {"IMPORT_DESTROYING", "IMPORT_ABNORMAL"}
        PROVE  mapped'[k.node] # None
    BY <2>1, <2>4 DEF WaitImports
  <2> QED BY <2>2, <2>3, <2>4 DEF WaitImports
<1> QED BY <1>1, <1>2, <1>3, <1>4, <1>5, <1>6 DEF Sound

\* No message is under way for a node whose lock is taken or whose object waits
\* for none.
LEMMA NoMessage ==
    ASSUME Sound, NEW i \in Importers,
           lock[i] # Free \/ mImp[i].state \notin {"IMPORT_RUNNING", "IMPORT_DESTROYING"}
    PROVE  \A k \in msgs : k.side = "import" => k.node # i
<1> SUFFICES ASSUME NEW k \in msgs, k.side = "import", k.node = i PROVE FALSE
  OBVIOUS
<1>1. ImportMsg(k)
  BY DEF Sound, MsgInv
<1> QED BY <1>1 DEF ImportMsg

\* UbseMemShareAttach keeps the invariant: the memory that it has found is the
\* only one and the node is not attached to it.
LEMMA AttachInv ==
    ASSUME TypeOK, Sound, NEW r, NEW i \in Importers, UbseMemShareAttach(r, i)
    PROVE  Sound'
<1>1. PICK f \in Faults({"refuse"}), found \in MaxRefCountExports :
        /\ r \in Attaches
        /\ Suffer(f)
        /\ \/ UNCHANGED lock
           \/ /\ Exported(found) /\ i \notin found.importers
              /\ lock' = [lock EXCEPT ![i] = [op |-> "attach", obj |-> Attaching(r, i, found.node)]]
        /\ UNCHANGED <<ledger, aExp, aImp, lent, mapped, msgs>>
  BY DEF UbseMemShareAttach, Takes, Attaching
<1>2. faults \subseteq faults'
  BY <1>1, FaultFacts
<1>3. CASE UNCHANGED lock
  BY <1>1, <1>2, <1>3, AnswerInv
<1>4. CASE /\ Exported(found) /\ i \notin found.importers
           /\ lock' = [lock EXCEPT ![i] = [op |-> "attach", obj |-> Attaching(r, i, found.node)]]
  <2> DEFINE e == found.node
  <2>1. e \in Exporters /\ mExp[e].state = "EXPORT_SUCCESS" /\ mImp[i] = NoObj
    BY <1>1, <1>4, FoundAll DEF Sound
  <2>2. PICK o : o = Attaching(r, i, e)
    OBVIOUS
  <2>3. /\ o.node = i /\ o.exporter = e /\ o.mem = mExp[e].mem
        /\ o.state = "IMPORT_RUNNING" /\ o.expectState = "IMPORT_SUCCESS"
        /\ o.requestId = r /\ ~o.created
    BY <2>2 DEF Attaching
  <2>4. /\ lock'[i].op = "attach" /\ lock'[i].obj = o
        /\ \A j \in Importers : j # i => lock'[j] = lock[j]
    BY <1>4, <2>2 DEF TypeOK
  <2>5. LockAt(i)'
    BY <1>1, <2>1, <2>3, <2>4 DEF LockAt, Serves, ledger
  <2>6. ImportAt(i)'
    BY <1>1 DEF Sound, ImportInv, ImportAt, Serves, ledger
  <2>7. \A k \in msgs : k.side = "import" => k.node # i
    BY <2>1, NoMessage, NoneState
  <2>8. WaitAt(i)'
    BY <1>1, <2>1, <2>4, NoneState DEF WaitAt, ledger
  <2>9. PICK n : n \notin msgs'
    <3>1. NoObj \notin msgs'
      BY <1>1, ExportFields, ImportFields DEF TypeOK
    <3> QED BY <3>1
  <2> QED BY <1>1, <1>2, <2>4, <2>5, <2>6, <2>7, <2>8, <2>9, ImporterStep DEF ledger
<1> QED BY <1>1, <1>3, <1>4

\* The rest of UbseMemShareAttach keeps the invariant: the memory is still there.
LEMMA AttachSendInv ==
    ASSUME TypeOK, Sound, NEW i \in Importers, ShareAttachSend(i), "late" \notin faults'
    PROVE  Sound'
<1>0. PICK o : o = lock[i].obj
  OBVIOUS
<1>1. PICK f \in Faults({"lost", "late"}) :
        /\ o = lock[i].obj /\ lock[i].op = "attach"
        /\ lock' = [lock EXCEPT ![i] = Free]
        /\ msgs' = msgs \cup Sent(o, f)
        /\ mImp' = [mImp EXCEPT ![i] = IF SendFails(f) THEN NoObj ELSE o]
        /\ Suffer(f)
        /\ UNCHANGED <<mExp, aExp, aImp, lent, mapped>>
  BY <1>0 DEF ShareAttachSend
<1>2. faults' = faults \cup f /\ f \subseteq {"lost", "late"} /\ "late" \notin f
  BY <1>1, FaultFacts
<1>3. /\ o \in ImportObj /\ o # NoObj /\ mImp[i] = NoObj /\ Serves(o) /\ o.node = i
      /\ o.state = "IMPORT_RUNNING" /\ o.expectState = "IMPORT_SUCCESS"
      /\ o.requestId \in Attaches /\ ~o.created
  BY <1>1, LockFacts, ImportFields DEF Sound, LockInv, LockAt
<1>4. PICK n : n = Wire(o) /\ SaysImport(n, o, "IMPORT_RUNNING") /\ Plain(n)
  BY <1>3, WireImport
<1>5. /\ lock'[i] = Free /\ Free.op = "free"
      /\ \A j \in Importers : j # i => mImp'[j] = mImp[j] /\ lock'[j] = lock[j]
  BY <1>1, LockFacts DEF TypeOK
<1>6. aImp[i] = NoObj /\ mapped[i] = None
  BY <1>3 DEF Sound, ImportInv, ImportAt
<1>7. \A k \in msgs : k.side = "import" => k.node # i
  BY <1>3, NoMessage, NoneState
<1>8. \/ mImp'[i] = NoObj /\ msgs' = msgs
      \/ mImp'[i] = o /\ msgs' = msgs \cup {n}
  <2>1. SendFails(f) <=> "lost" \in f
    BY <1>2 DEF SendFails
  <2>2. Sent(o, f) = IF "lost" \in f THEN {} ELSE {n}
    BY <1>4 DEF Sent
  <2> QED BY <1>1, <2>1, <2>2 DEF TypeOK
<1>9. LockAt(i)'
  BY <1>5 DEF LockAt
<1>10. ImportAt(i)'
  BY <1>1, <1>3, <1>6, <1>8, NoneState DEF ImportAt, Serves
<1>11. n \notin msgs /\ n.side = "import" /\ n.node = i
  BY <1>3, <1>4, <1>7 DEF SaysImport
<1>12. n \in msgs' => ImportMsg(n)'
  BY <1>1, <1>3, <1>4, <1>5, <1>6, <1>8, <1>11 DEF ImportMsg, Plain, SaysImport
<1>13. WaitAt(i)'
  BY <1>3, <1>5, <1>8, <1>11, NoneState DEF WaitAt
<1>14. n.state \notin {"IMPORT_DESTROYING", "IMPORT_ABNORMAL"}
  BY <1>4 DEF SaysImport
<1> QED BY <1>1, <1>2, <1>5, <1>7, <1>8, <1>9, <1>10, <1>11, <1>12, <1>13, <1>14, ImporterStep

\* UbseMemShareDetach keeps the invariant.
LEMMA DetachInv ==
    ASSUME TypeOK, Sound, NEW r, NEW i \in Importers, UbseMemShareDetach(r, i)
    PROVE  Sound'
<1>1. PICK f \in Faults({"refuse"}), found \in MaxRefCountExports :
        /\ r \in Detaches
        /\ Suffer(f)
        /\ \/ UNCHANGED lock
           \/ /\ Detachable(found, i)
              /\ lock' = [lock EXCEPT ![i] = [op |-> "detach", obj |-> Detaching(mImp[i], r)]]
        /\ UNCHANGED <<ledger, aExp, aImp, lent, mapped, msgs>>
  BY DEF UbseMemShareDetach, Takes, Detaching
<1>2. faults \subseteq faults'
  BY <1>1, FaultFacts
<1>3. CASE UNCHANGED lock
  BY <1>1, <1>2, <1>3, AnswerInv
<1>4. CASE /\ Detachable(found, i)
           /\ lock' = [lock EXCEPT ![i] = [op |-> "detach", obj |-> Detaching(mImp[i], r)]]
  <2>1. /\ mImp[i] # NoObj /\ mImp[i] \in ImportObj /\ mImp[i].node = i
        /\ mImp[i].state \in {"IMPORT_SUCCESS", "IMPORT_ABNORMAL"}
    BY <1>1, <1>4, FoundFacts, LedgerFacts DEF Detachable, Sound, ImportInv, ImportAt
  <2>2. PICK o : o = Detaching(mImp[i], r)
    OBVIOUS
  <2>3. /\ o.node = i /\ o.exporter = mImp[i].exporter /\ o.mem = mImp[i].mem
        /\ o.state = "IMPORT_DESTROYING" /\ o.expectState = "IMPORT_DESTROYED"
        /\ o.requestId = r /\ ~o.destroyed
    BY <1>1, <2>1, <2>2, DetachingFacts
  <2>4. /\ lock'[i].op = "detach" /\ lock'[i].obj = o
        /\ \A j \in Importers : j # i => lock'[j] = lock[j]
    BY <1>4, <2>2 DEF TypeOK
  <2>5. LockAt(i)'
    BY <1>1, <2>1, <2>3, <2>4 DEF LockAt, ledger
  <2>6. ImportAt(i)'
    BY <1>1 DEF Sound, ImportInv, ImportAt, Serves, ledger
  <2>7. \A k \in msgs : k.side = "import" => k.node # i
    BY <2>1, NoMessage
  <2>8. "report" \notin faults' => WaitAt(i)'
    BY <1>1, <1>2, <2>1, <2>4 DEF Sound, WaitImports, WaitAt, ledger
  <2>9. PICK n : n \notin msgs'
    <3>1. NoObj \notin msgs'
      BY <1>1, ExportFields, ImportFields DEF TypeOK
    <3> QED BY <3>1
  <2> QED BY <1>1, <1>2, <2>4, <2>5, <2>6, <2>7, <2>8, <2>9, ImporterStep DEF ledger
<1> QED BY <1>1, <1>3, <1>4

\* The rest of UbseMemShareDetach keeps the invariant.
LEMMA DetachSendInv ==
    ASSUME TypeOK, Sound, NEW i \in Importers, ShareDetachSend(i), "late" \notin faults'
    PROVE  Sound'
<1>0. PICK o : o = lock[i].obj
  OBVIOUS
<1>1. PICK f \in Faults({"lost", "late"}) :
        /\ o = lock[i].obj /\ lock[i].op = "detach"
        /\ mImp' = [mImp EXCEPT ![i] = o]
        /\ msgs' = msgs \cup Sent(o, f)
        /\ lock' = [lock EXCEPT ![i] = IF SendFails(f) THEN [@ EXCEPT !.op = "rollback"] ELSE Free]
        /\ Suffer(f)
        /\ UNCHANGED <<mExp, aExp, aImp, lent, mapped>>
  BY <1>0 DEF ShareDetachSend
<1>2. faults' = faults \cup f /\ f \subseteq {"lost", "late"} /\ "late" \notin f
  BY <1>1, FaultFacts
<1>3. /\ o \in ImportObj /\ o # NoObj /\ mImp[i] # NoObj
      /\ mImp[i].state \in {"IMPORT_SUCCESS", "IMPORT_ABNORMAL"}
      /\ o.exporter = mImp[i].exporter /\ o.mem = mImp[i].mem /\ o.node = i
      /\ o.state = "IMPORT_DESTROYING" /\ o.expectState = "IMPORT_DESTROYED"
      /\ o.requestId \in Detaches /\ ~o.destroyed
  BY <1>1, LockFacts, ImportFields DEF Sound, LockInv, LockAt
<1>4. PICK n : n = Wire(o) /\ SaysImport(n, o, "IMPORT_DESTROYING") /\ Plain(n)
  BY <1>3, WireImport
<1>5. \A j \in Importers : j # i => mImp'[j] = mImp[j] /\ lock'[j] = lock[j]
  BY <1>1 DEF TypeOK
<1>7. \A k \in msgs : k.side = "import" => k.node # i
  BY <1>3, NoMessage
<1>8. /\ mImp'[i] = o /\ Free.op = "free"
      /\ \/ lock'[i].op = "rollback" /\ lock'[i].obj = o /\ msgs' = msgs
         \/ lock'[i] = Free /\ msgs' = msgs \cup {n}
  <2>1. SendFails(f) <=> "lost" \in f
    BY <1>2 DEF SendFails
  <2>2. Sent(o, f) = IF "lost" \in f THEN {} ELSE {n}
    BY <1>4 DEF Sent
  <2>3. lock[i] \in Held /\ Free.op = "free"
    BY <1>1, LockFacts DEF TypeOK
  <2>4. PICK l : l = [lock[i] EXCEPT !.op = "rollback"]
    OBVIOUS
  <2>5. l.op = "rollback" /\ l.obj = o
    BY <1>1, <2>3, <2>4 DEF Held
  <2>6. lock' = [lock EXCEPT ![i] = IF SendFails(f) THEN l ELSE Free]
    BY <1>1, <2>4 DEF TypeOK
  <2> QED BY <1>1, <2>1, <2>2, <2>3, <2>5, <2>6 DEF TypeOK
<1>9. LockAt(i)'
  BY <1>3, <1>8 DEF LockAt
<1>10. ImportAt(i)'
  BY <1>1, <1>3, <1>8 DEF Sound, ImportInv, ImportAt, Serves
<1>11. n \notin msgs /\ n.side = "import" /\ n.node = i
  BY <1>3, <1>4, <1>7 DEF SaysImport
<1>12. n \in msgs' => ImportMsg(n)'
  BY <1>1, <1>3, <1>4, <1>8, <1>11 DEF ImportMsg, Plain, SaysImport
<1>13. "report" \notin faults' => mapped[i] # None
  BY <1>2, <1>3 DEF Sound, WaitImports, WaitAt
<1>14. "report" \notin faults' => WaitAt(i)'
  BY <1>1, <1>3, <1>8, <1>11, <1>13 DEF WaitAt
<1> QED BY <1>1, <1>2, <1>5, <1>7, <1>8, <1>9, <1>10, <1>11, <1>12, <1>13, <1>14, ImporterStep

\* The rollback of a detach keeps the invariant: nothing was reported meanwhile.
LEMMA DetachRollbackInv ==
    ASSUME TypeOK, Sound, NEW i \in Importers, ShareDetachRollback(i)
    PROVE  Sound'
<1>1. PICK o :
      /\ o = Restored(lock[i].obj) /\ lock[i].op = "rollback"
      /\ lock' = [lock EXCEPT ![i] = Free]
      /\ mImp' = [mImp EXCEPT ![i] = o]
      /\ UNCHANGED <<mExp, aExp, aImp, lent, mapped, msgs, faults>>
  BY DEF ShareDetachRollback, Restored
<1>2. /\ mImp[i] # NoObj /\ o # NoObj /\ o.exporter = mImp[i].exporter
      /\ o.mem = mImp[i].mem /\ o.node = i /\ o.state = "IMPORT_SUCCESS"
  BY <1>1, LockFacts, ImportFields, RestoredFacts DEF Sound, LockInv, LockAt
<1>3. /\ lock'[i] = Free /\ Free.op = "free" /\ lock[i] # Free /\ mImp'[i] = o
      /\ \A j \in Importers : j # i => mImp'[j] = mImp[j] /\ lock'[j] = lock[j]
  BY <1>1, LockFacts DEF TypeOK
<1>4. \A k \in msgs : k.side = "import" => k.node # i
  BY <1>3, NoMessage
<1>5. LockAt(i)'
  BY <1>3 DEF LockAt
<1>6. ImportAt(i)'
  BY <1>1, <1>2, <1>3 DEF Sound, ImportInv, ImportAt, Serves
<1>7. "report" \notin faults' => WaitAt(i)'
  BY <1>1, <1>2, <1>3 DEF Sound, WaitImports, WaitAt
<1>8. PICK n : n \notin msgs'
  <2>1. NoObj \notin msgs'
    BY <1>1, ExportFields, ImportFields DEF TypeOK
  <2> QED BY <2>1
<1> QED BY <1>1, <1>3, <1>4, <1>5, <1>6, <1>7, <1>8, ImporterStep

\* What the report m of an importer makes of the master's import object.
LEMMA ImportMasterFacts ==
    ASSUME TypeOK, Sound, NEW m \in ImportObj, m \in msgs, ShareImportMasterCallBack(m)
    PROVE  /\ m.node \in Importers /\ ImportMsg(m)
           /\ m.state \notin {"IMPORT_RUNNING", "IMPORT_DESTROYING"}
           /\ msgs' = msgs \ {m}
           /\ \A j \in Importers : j # m.node => mImp'[j] = mImp[j]
           /\ m.state = "IMPORT_DESTROYED" => mImp'[m.node] = NoObj
           /\ m.state # "IMPORT_DESTROYED" =>
                 /\ mImp'[m.node] # NoObj /\ mImp'[m.node].node = m.node
                 /\ mImp'[m.node].mem = m.mem /\ mImp'[m.node].state = m.state
                 /\ mImp'[m.node].exporter = m.exporter
           /\ Respond(m.requestId, IF m.state = m.expectState THEN "ok" ELSE "fail")
           /\ UNCHANGED <<mExp, aExp, aImp, lent, mapped, lock, todo, target, faults>>
<1> DEFINE i == m.node
           flag == IF m.expectState = "IMPORT_SUCCESS" THEN "created" ELSE "destroyed"
           o == [m EXCEPT ![flag] = TRUE]
<1>1. i \in Importers /\ ImportMsg(m)
  BY ImportFields DEF Sound, MsgInv
<1>2. FirstReport(mImp[i], flag)
  <2>1. CASE m.expectState = "IMPORT_SUCCESS"
    <3>1. mImp[i].state = "IMPORT_RUNNING" /\ flag = "created"
      BY <1>1, <2>1 DEF ImportMsg
    <3>2. ~mImp[i].created
      BY <1>1, <3>1 DEF Sound, ImportInv, ImportAt
    <3> QED BY <3>1, <3>2 DEF FirstReport
  <2>2. CASE m.expectState # "IMPORT_SUCCESS"
    <3>1. mImp[i].state = "IMPORT_DESTROYING" /\ flag = "destroyed"
      BY <1>1, <2>2 DEF ImportMsg
    <3>2. ~mImp[i].destroyed
      BY <1>1, <3>1 DEF Sound, ImportInv, ImportAt
    <3> QED BY <3>1, <3>2 DEF FirstReport
  <2> QED BY <2>1, <2>2
<1>3. /\ msgs' = msgs \ {m}
      /\ m.state \notin {"IMPORT_RUNNING", "IMPORT_DESTROYING"}
      /\ IF m.state = "IMPORT_DESTROYED" THEN mImp' = [mImp EXCEPT ![i] = NoObj]
         ELSE mImp' = [mImp EXCEPT ![i] = o]
      /\ Respond(m.requestId, IF m.state = m.expectState THEN "ok" ELSE "fail")
      /\ UNCHANGED <<mExp, aExp, aImp, lent, mapped, lock, todo, target, faults>>
  BY <1>2 DEF ShareImportMasterCallBack
<1>4. SaysImport(o, m, m.state) /\ o # NoObj
  <2>1. flag \in {"created", "destroyed"}
    OBVIOUS
  <2> HIDE DEF flag
  <2>2. SaysImport(o, m, m.state)
    BY <2>1, ImportFlag
  <2> HIDE DEF o
  <2> QED BY <2>2, ImportFields DEF SaysImport
<1> HIDE DEF o
<1>5. /\ \A j \in Importers : j # i => mImp'[j] = mImp[j]
      /\ m.state = "IMPORT_DESTROYED" => mImp'[i] = NoObj
      /\ m.state # "IMPORT_DESTROYED" => mImp'[i] = o
  BY <1>1, <1>3 DEF TypeOK
<1> QED BY <1>1, <1>3, <1>4, <1>5 DEF SaysImport

\* ShareImportMasterCallBack keeps the invariant.
LEMMA ImportMasterInv ==
    ASSUME TypeOK, Sound, NEW m \in ImportObj, m \in msgs, ShareImportMasterCallBack(m)
    PROVE  Sound'
<1> DEFINE i == m.node
<1>1. /\ i \in Importers /\ ImportMsg(m)
      /\ m.state \notin {"IMPORT_RUNNING", "IMPORT_DESTROYING"}
      /\ msgs' = msgs \ {m}
      /\ \A j \in Importers : j # i => mImp'[j] = mImp[j]
      /\ m.state = "IMPORT_DESTROYED" => mImp'[i] = NoObj
      /\ m.state # "IMPORT_DESTROYED" =>
            /\ mImp'[i] # NoObj /\ mImp'[i].node = i
            /\ mImp'[i].mem = m.mem /\ mImp'[i].state = m.state
            /\ mImp'[i].exporter = m.exporter
      /\ UNCHANGED <<mExp, aExp, aImp, lent, mapped, lock, todo, target, faults>>
  BY ImportMasterFacts
<1>2. /\ m.side = "import" /\ lock[i] = Free /\ Free.op = "free"
      /\ mImp[i] # NoObj /\ mImp[i].mem = m.mem /\ mImp[i].exporter = m.exporter
      /\ m.state \in {"IMPORT_SUCCESS", "IMPORT_ABNORMAL", "IMPORT_DESTROYED"}
      /\ m.state = "IMPORT_DESTROYED" => mapped[i] = None
      /\ m.state = "IMPORT_SUCCESS" => mapped[i] # None
  BY <1>1, ImportFields, LockFacts DEF ImportMsg
<1>3. \A k \in msgs' : k.side = "import" => k.node # i
  BY <1>1, <1>2 DEF Sound, MsgInv
<1>4. LockAt(i)'
  BY <1>1, <1>2 DEF LockAt
<1>5. ImportAt(i)'
  BY <1>1, <1>2, NoneState DEF Sound, ImportInv, ImportAt, Serves
<1>6. "report" \notin faults' => WaitAt(i)'
  BY <1>1, <1>2, NoneState DEF Sound, WaitImports, WaitAt
<1> QED BY <1>1, <1>2, <1>3, <1>4, <1>5, <1>6, ImporterStep

-----------------------------------------------------------------------------
(* The theorems.                                                           *)

\* The invariant holds at the start.
LEMMA InitInv == Init => IInv
<1> SUFFICES ASSUME Init PROVE IInv
  OBVIOUS
<1>1. TypeOK
  BY InitTypes
<1>2. /\ \A e \in Exporters : mExp[e] = NoObj /\ aExp[e] = NoObj
      /\ \A i \in Importers : /\ mImp[i] = NoObj /\ aImp[i] = NoObj /\ mapped[i] = None
                              /\ lock[i].op = "free"
      /\ msgs = {} /\ lent = {}
  BY DEF Init, Free
<1>3. ExportInv /\ ImportInv /\ LockInv /\ MsgInv
  BY <1>2, NoneState DEF ExportInv, ImportInv, ImportAt, LockInv, LockAt, MsgInv
<1>4. LentInv /\ WaitExports /\ WaitImports
  BY <1>2, NoneState DEF LentInv, WaitExports, WaitImports, WaitAt
<1> QED BY <1>1, <1>3, <1>4 DEF IInv, Sound

\* Faults are not forgotten.
LEMMA FaultsGrow == TypeOK /\ [Next]_vars => faults \subseteq faults'
<1> SUFFICES ASSUME TypeOK, [Next]_vars PROVE faults \subseteq faults'
  OBVIOUS
<1>1. \A f : Suffer(f) => faults \subseteq faults'
  BY DEF Suffer
<1>2. CASE UNCHANGED vars
  BY <1>2 DEF vars
<1>3. CASE Callback
  BY <1>1, <1>3, Zenon DEF Callback, ShareExportAgentCallback, ShareExportRunning,
     ShareExportDestroying, ShareImportAgentCallBack, ShareImportRunning,
     ShareImportDestroying, ShareExportMasterCallback, ShareImportMasterCallBack
<1>4. CASE Request
  <2>1. ASSUME NEW r, NEW e, UbseMemShareBorrow(r, e) PROVE faults \subseteq faults'
    BY <1>1, <2>1, Zenon DEF UbseMemShareBorrow
  <2>2. ASSUME NEW r, NEW i, UbseMemShareAttach(r, i) PROVE faults \subseteq faults'
    BY <1>1, <2>2, Zenon DEF UbseMemShareAttach
  <2>3. ASSUME NEW r, NEW i, UbseMemShareDetach(r, i) PROVE faults \subseteq faults'
    BY <1>1, <2>3, Zenon DEF UbseMemShareDetach
  <2>4. ASSUME NEW r, UbseMemShareReturn(r) PROVE faults \subseteq faults'
    BY <1>1, <2>4, Zenon DEF UbseMemShareReturn
  <2> QED BY <1>4, <2>1, <2>2, <2>3, <2>4 DEF Request
<1>5. CASE Proceed
  BY <1>1, <1>5, Zenon DEF Proceed, ShareAttachSend, ShareDetachSend, ShareDetachRollback
<1> QED BY <1>2, <1>3, <1>4, <1>5 DEF Next

\* Every step keeps the invariant.
LEMMA StepInv == IInv /\ [Next]_vars => IInv'
<1> SUFFICES ASSUME IInv, [Next]_vars PROVE IInv'
  OBVIOUS
<1>1. TypeOK /\ TypeOK' /\ faults \subseteq faults'
  BY StepTypes, FaultsGrow DEF IInv
<1> SUFFICES ASSUME "late" \notin faults' PROVE Sound'
  BY <1>1 DEF IInv
<1>2. TypeOK /\ Sound /\ "late" \notin faults
  BY <1>1 DEF IInv
<1>3. CASE UNCHANGED vars
  BY <1>2, <1>3, AnswerInv DEF vars, ledger
<1>4. ASSUME NEW m \in msgs, ShareExportAgentCallback(m) PROVE Sound'
  BY <1>2, <1>4, MessageSides, ExportRunningInv, ExportDestroyingInv DEF ShareExportAgentCallback
<1>5. ASSUME NEW m \in msgs, ShareImportAgentCallBack(m) PROVE Sound'
  BY <1>2, <1>5, MessageSides, ImportRunningInv, ImportDestroyingInv DEF ShareImportAgentCallBack
<1>6. ASSUME NEW m \in msgs, ShareExportMasterCallback(m) PROVE Sound'
  <2>1. m \in ExportObj
    BY <1>2, <1>6, MessageSides DEF ShareExportMasterCallback
  <2> QED BY <1>2, <1>6, <2>1, ExportMasterInv
<1>7. ASSUME NEW m \in msgs, ShareImportMasterCallBack(m) PROVE Sound'
  <2>1. m \in ImportObj
    BY <1>2, <1>7, MessageSides DEF ShareImportMasterCallBack
  <2> QED BY <1>2, <1>7, <2>1, ImportMasterInv
<1>8. CASE Callback
  BY <1>4, <1>5, <1>6, <1>7, <1>8 DEF Callback
<1>9. CASE Request
  BY <1>2, <1>9, BorrowInv, AttachInv, DetachInv, ReturnInv DEF Request
<1>10. CASE Proceed
  BY <1>2, <1>10, AttachSendInv, DetachSendInv, DetachRollbackInv DEF Proceed
<1> QED BY <1>3, <1>8, <1>9, <1>10 DEF Next

\* The inductive invariant holds in every reachable state.
THEOREM ShareInvariant == Spec => []IInv
<1> QED BY InitInv, StepInv, PTL DEF Spec

\* The state keeps its type, whatever fails.
THEOREM ShareTypeCorrect == Spec => []TypeOK
<1>1. IInv => TypeOK
  BY DEF IInv
<1> QED BY <1>1, ShareInvariant, PTL

\* Memory that a node has mapped is exported, for any number of importers,
\* exporters, requests and faults other than a failed send that was delivered.
THEOREM ShareUsedIsLent == Spec => []UsedIsLent
<1>1. IInv => UsedIsLent
  <2> SUFFICES ASSUME IInv, "late" \notin faults, NEW i \in Importers, mapped[i] # None
               PROVE  mapped[i] \in lent
    BY DEF UsedIsLent
  <2>1. mImp[i] # NoObj /\ mapped[i] = mImp[i].mem /\ Serves(mImp[i])
    BY DEF IInv, Sound, ImportInv, ImportAt
  <2>2. mImp[i].exporter \in Exporters
    BY <2>1, LedgerFacts, ImportFields DEF IInv
  <2> QED BY <2>1, <2>2 DEF IInv, Sound, ExportInv, Serves
<1> QED BY <1>1, ShareInvariant, PTL

\* Once everything is handled, the ledgers of the master and of the nodes and
\* the hardware agree.
THEOREM ShareQuietAgreement == Spec => []QuietAgreement
<1>1. IInv => QuietAgreement
  <2> SUFFICES ASSUME IInv, Quiet, faults \cap {"late", "report", "sign"} = {}
               PROVE  /\ \A e \in Exporters :
                            /\ mExp[e].state = aExp[e].state
                            /\ mExp[e] # NoObj => mExp[e].mem = aExp[e].mem
                      /\ lent = {aExp[e].mem : e \in {x \in Exporters : aExp[x] # NoObj}}
                      /\ \A i \in Importers :
                            /\ (mImp[i] = NoObj) = (aImp[i] = NoObj)
                            /\ mapped[i] = IF aImp[i] = NoObj THEN None ELSE aImp[i].mem
    BY DEF QuietAgreement
  <2>1. TypeOK /\ Sound /\ LentInv /\ WaitExports /\ WaitImports
    BY DEF IInv, Sound
  <2>2. msgs = {} /\ \A i \in Importers : lock[i].op = "free"
    BY <2>1, LockFacts DEF Quiet
  <2>3. ASSUME NEW e \in Exporters
        PROVE  /\ mExp[e] = NoObj <=> aExp[e] = NoObj
               /\ mExp[e].state = aExp[e].state
               /\ mExp[e] # NoObj => mExp[e].mem = aExp[e].mem
               /\ aExp[e] # NoObj => aExp[e].mem \in lent
    <3>1. mExp[e].state \in {"NONE", "EXPORT_SUCCESS"}
      BY <2>1, <2>2, LedgerFacts, ExportFields DEF WaitExports, Sound, ExportInv, ExportStates
    <3> QED BY <2>1, <3>1, LedgerFacts, NoneState DEF Sound, ExportInv
  <2>4. lent = {aExp[e].mem : e \in {x \in Exporters : aExp[x] # NoObj}}
    BY <2>1, <2>3 DEF LentInv
  <2>5. ASSUME NEW i \in Importers
        PROVE  /\ mImp[i] = NoObj <=> aImp[i] = NoObj
               /\ mapped[i] = IF aImp[i] = NoObj THEN None ELSE aImp[i].mem
    <3>1. mImp[i].state \in {"NONE", "IMPORT_SUCCESS", "IMPORT_ABNORMAL"}
      BY <2>1, <2>2, LedgerFacts, ImportFields
         DEF WaitImports, WaitAt, Sound, ImportInv, ImportAt, ImportStates
    <3> QED BY <2>1, <3>1, LedgerFacts DEF WaitImports, WaitAt, Sound, ImportInv, ImportAt
  <2> QED BY <2>3, <2>4, <2>5
<1> QED BY <1>1, ShareInvariant, PTL

-----------------------------------------------------------------------------
(* Answers.                                                                *)

\* The object o is for importer i, and so is the request it answers.
Names(o, i) == o.node = i /\ o.requestId \notin todo /\ target[o.requestId] = i

\* The objects that carry a request to an importer, back to the master or
\* across the unlocked part of an attach or detach are for the importer that
\* the request names.
TargetInv ==
    /\ \A m \in msgs : m.side = "import" => Names(m, m.node)
    /\ \A i \in Importers : lock[i] # Free => Names(lock[i].obj, i)
    /\ \A i \in Importers : mImp[i] # NoObj => mImp[i].node = i

\* A request that has been handled keeps its importer.
LEMMA NamesKept ==
    ASSUME TypeOK, NEW o \in ImportObj, NEW i, Names(o, i),
           todo' \subseteq todo,
           target' = target \/ \E r \in todo : \E k : target' = [target EXCEPT ![r] = k]
    PROVE  Names(o, i)'
<1>1. o.requestId \in Attaches \cup Detaches
  BY ImportFields
<1> QED BY <1>1 DEF Names, TypeOK

\* A step that sends at most one object for an importer, and stores or keeps
\* locked at most one, keeps the correspondence.
LEMMA TargetStep ==
    ASSUME TypeOK, TypeOK', TargetInv, todo' \subseteq todo,
           target' = target \/ \E r \in todo : \E k : target' = [target EXCEPT ![r] = k],
           \A m \in msgs' : m.side = "import" => m \in msgs \/ Names(m, m.node)',
           \A i \in Importers :
               lock'[i] # Free => lock'[i] = lock[i] \/ Names(lock[i].obj, i)',
           \A i \in Importers : mImp'[i] # NoObj => mImp'[i] = mImp[i] \/ mImp'[i].node = i
    PROVE  TargetInv'
<1>1. ASSUME NEW m \in msgs', m.side = "import" PROVE Names(m, m.node)'
  <2>1. CASE m \in msgs
    <3>1. m \in ImportObj
      BY <1>1, <2>1, MessageSides
    <3> QED BY <1>1, <2>1, <3>1, NamesKept DEF TargetInv
  <2> QED BY <1>1, <2>1
<1>2. ASSUME NEW i \in Importers, lock'[i] # Free PROVE Names(lock[i].obj, i)'
  <2>1. CASE lock'[i] = lock[i]
    <3>1. lock[i].obj \in ImportObj /\ Names(lock[i].obj, i)
      BY <1>2, <2>1 DEF TargetInv, TypeOK, Held
    <3> QED BY <2>1, <3>1, NamesKept, Zenon DEF Names
  <2> QED BY <1>2, <2>1
<1>3. ASSUME NEW i \in Importers, mImp'[i] # NoObj PROVE mImp'[i].node = i
  BY <1>3 DEF TargetInv
<1> QED BY <1>1, <1>2, <1>3 DEF TargetInv

\* What is sent or reported of an object is for the same importer.
LEMMA WireNames ==
    ASSUME NEW o \in ImportObj, NEW s \in ImportStates
    PROVE  LET w == Wire([o EXCEPT !.state = s]) IN
           w.node = o.node /\ w.requestId = o.requestId /\ Wire(o).node = o.node
           /\ Wire(o).requestId = o.requestId
BY DEF Wire, ImportObj

\* The correspondence holds initially and is kept by every step.
LEMMA TargetInduction ==
    /\ Init => TargetInv
    /\ TypeOK /\ TypeOK' /\ TargetInv /\ [Next]_vars => TargetInv'
<1>1. Init => TargetInv
  BY DEF Init, TargetInv
<1> SUFFICES ASSUME TypeOK, TypeOK', TargetInv, [Next]_vars PROVE TargetInv'
  BY <1>1
<1>2. CASE UNCHANGED vars
  BY <1>2, TargetStep DEF vars
<1>3. ASSUME NEW m \in msgs, ShareExportAgentCallback(m) PROVE TargetInv'
  <2>1. m \in ExportObj
    BY <1>3, MessageSides DEF ShareExportAgentCallback
  <2>2. \A k \in msgs' : k \in msgs \/ k.side # "import"
    <3>1. \A s \in ExportStates : Wire([m EXCEPT !.state = s]).side = "export"
      BY <2>1 DEF Wire, ExportObj
    <3>2. CASE ShareExportRunning(m)
      BY <3>1, <3>2 DEF ShareExportRunning, Reported, ExportStates
    <3>3. CASE ShareExportDestroying(m)
      BY <3>1, <3>3 DEF ShareExportDestroying, Reported, ExportStates
    <3> QED BY <1>3, <3>2, <3>3 DEF ShareExportAgentCallback
  <2> QED BY <1>3, <2>2, TargetStep DEF ShareExportAgentCallback, ledger
<1>4. ASSUME NEW m \in msgs, ShareImportAgentCallBack(m) PROVE TargetInv'
  <2>1. m \in ImportObj /\ Names(m, m.node)
    BY <1>4, MessageSides DEF ShareImportAgentCallBack, TargetInv
  <2>2. \A k \in msgs' : k \in msgs \/ \E s \in ImportStates : k = Wire([m EXCEPT !.state = s])
    <3>1. CASE ShareImportRunning(m)
      BY <3>1 DEF ShareImportRunning, Reported, ImportStates
    <3>2. CASE ShareImportDestroying(m)
      BY <3>2 DEF ShareImportDestroying, Reported, ImportStates
    <3> QED BY <1>4, <3>1, <3>2 DEF ShareImportAgentCallBack
  <2>3. UNCHANGED <<mImp, lock, todo, target>>
    BY <1>4 DEF ShareImportAgentCallBack, ledger
  <2>4. \A k \in msgs' : k \in msgs \/ Names(k, k.node)'
    BY <2>1, <2>2, <2>3, WireNames DEF Names
  <2> QED BY <2>3, <2>4, TargetStep
<1>5. ASSUME NEW m \in msgs, ShareExportMasterCallback(m) PROVE TargetInv'
  BY <1>5, TargetStep DEF ShareExportMasterCallback
<1>6. ASSUME NEW m \in msgs, ShareImportMasterCallBack(m) PROVE TargetInv'
  <2>1. m \in ImportObj
    BY <1>6, MessageSides DEF ShareImportMasterCallBack
  <2>2. \A f \in {"created", "destroyed"} : [m EXCEPT ![f] = TRUE].node = m.node
    BY <2>1 DEF ImportObj
  <2>3. \A i \in Importers : mImp'[i] # NoObj => mImp'[i] = mImp[i] \/ mImp'[i].node = i
    BY <1>6, <2>1, <2>2 DEF ShareImportMasterCallBack, TypeOK
  <2> QED BY <1>6, <2>3, TargetStep DEF ShareImportMasterCallBack
<1>7. ASSUME NEW r, NEW e \in Exporters, UbseMemShareBorrow(r, e) PROVE TargetInv'
  <2> DEFINE x == [side |-> "export", node |-> e, mem |-> r,
                   state |-> "EXPORT_RUNNING", expectState |-> "EXPORT_SUCCESS",
                   returnReq |-> None, created |-> FALSE, destroyed |-> FALSE]
  <2>2. UNCHANGED msgs \/ \E f : msgs' = msgs \cup Sent(x, f)
    BY <1>7, Zenon DEF UbseMemShareBorrow
  <2>3. Wire(x).side # "import"
    BY DEF Wire
  <2>1. \A k \in msgs' : k \in msgs \/ k.side # "import"
    BY <2>2, <2>3 DEF Sent
  <2> QED BY <1>7, <2>1, TargetStep DEF UbseMemShareBorrow, Takes
<1>8. ASSUME NEW r, UbseMemShareReturn(r) PROVE TargetInv'
  <2>1. PICK found \in MaxRefCountExports :
          /\ UNCHANGED <<mImp, lock, target>> /\ todo' \subseteq todo
          /\ \/ UNCHANGED msgs
             \/ /\ Exported(found)
                /\ \E f : msgs' = msgs \cup Sent(Deleted(mExp[found.node], r), f)
    BY <1>8, Zenon DEF UbseMemShareReturn, Takes, Returnable, Deleted
  <2>2. Exported(found) => mExp[found.node] \in ExportObj
    BY <2>1, FoundFacts DEF Exported
  <2>3. Exported(found) => Wire(Deleted(mExp[found.node], r)).side # "import"
    BY <2>2 DEF Wire, Deleted, ExportObj
  <2>4. \A k \in msgs' : k \in msgs \/ k.side # "import"
    BY <2>1, <2>3 DEF Sent
  <2> QED BY <2>1, <2>4, TargetStep
<1>9. ASSUME NEW r, NEW i \in Importers, UbseMemShareAttach(r, i) PROVE TargetInv'
  <2>1. PICK e :
          /\ r \in Attaches /\ r \in todo /\ todo' = todo \ {r}
          /\ target' = [target EXCEPT ![r] = i]
          /\ \/ UNCHANGED lock
             \/ lock' = [lock EXCEPT ![i] = [op |-> "attach", obj |-> Attaching(r, i, e)]]
          /\ UNCHANGED <<mImp, msgs>>
    BY <1>9 DEF UbseMemShareAttach, Takes, Attaching, ledger
  <2>2. Attaching(r, i, e).node = i /\ Attaching(r, i, e).requestId = r
    BY DEF Attaching
  <2>3. target'[r] = i /\ r \notin todo'
    BY <2>1 DEF TypeOK
  <2>4. \A k \in Importers :
            lock'[k] # Free => lock'[k] = lock[k] \/ Names(lock[k].obj, k)'
    BY <2>1, <2>2, <2>3 DEF TypeOK, Names
  <2> QED BY <2>1, <2>4, TargetStep
<1>10. ASSUME NEW r, NEW i \in Importers, UbseMemShareDetach(r, i) PROVE TargetInv'
  <2>1. PICK found \in MaxRefCountExports :
          /\ r \in Detaches /\ r \in todo /\ todo' = todo \ {r}
          /\ target' = [target EXCEPT ![r] = i]
          /\ \/ UNCHANGED lock
             \/ /\ i \in found.importers
                /\ lock' = [lock EXCEPT ![i] = [op |-> "detach", obj |-> Detaching(mImp[i], r)]]
          /\ UNCHANGED <<mImp, msgs>>
    BY <1>10 DEF UbseMemShareDetach, Takes, Detachable, Detaching, ledger
  <2>2. ASSUME i \in found.importers
        PROVE  Detaching(mImp[i], r).node = i /\ Detaching(mImp[i], r).requestId = r
    <3>1. mImp[i] \in ImportObj /\ mImp[i].node = i
      BY <2>1, <2>2, FoundFacts, LedgerFacts, NoneState DEF TargetInv
    <3> QED BY <3>1 DEF Detaching, ImportObj
  <2>3. target'[r] = i /\ r \notin todo'
    BY <2>1 DEF TypeOK
  <2>4. \A k \in Importers :
            lock'[k] # Free => lock'[k] = lock[k] \/ Names(lock[k].obj, k)'
    BY <2>1, <2>2, <2>3 DEF TypeOK, Names
  <2> QED BY <2>1, <2>4, TargetStep
<1>11. ASSUME NEW i \in Importers, lock[i] # Free
       PROVE  /\ lock[i].obj \in ImportObj /\ Names(lock[i].obj, i)
              /\ Restored(lock[i].obj).node = i
              /\ Wire(lock[i].obj).node = i
              /\ Wire(lock[i].obj).requestId = lock[i].obj.requestId
  <2>1. lock[i].obj \in ImportObj /\ Names(lock[i].obj, i)
    BY <1>11 DEF TargetInv, TypeOK, Held
  <2> QED BY <2>1, WireNames, RestoredFacts DEF Names, ImportStates
<1>12. ASSUME NEW i \in Importers, ShareAttachSend(i) PROVE TargetInv'
  <2>1. lock[i] # Free
    BY <1>12 DEF ShareAttachSend, Free
  <2>2. /\ UNCHANGED <<todo, target>>
        /\ lock' = [lock EXCEPT ![i] = Free]
        /\ \A k \in msgs' : k \in msgs \/ k = Wire(lock[i].obj)
        /\ mImp' = [mImp EXCEPT ![i] = NoObj] \/ mImp' = [mImp EXCEPT ![i] = lock[i].obj]
    BY <1>12 DEF ShareAttachSend, Sent
  <2>3. \A k \in msgs' : k \in msgs \/ Names(k, k.node)'
    BY <1>11, <2>1, <2>2 DEF Names
  <2>4. \A k \in Importers : mImp'[k] # NoObj => mImp'[k] = mImp[k] \/ mImp'[k].node = k
    BY <1>11, <2>1, <2>2 DEF Names, TypeOK
  <2>5. \A k \in Importers : lock'[k] # Free => lock'[k] = lock[k]
    BY <2>2 DEF TypeOK
  <2> QED BY <2>2, <2>3, <2>4, <2>5, TargetStep
<1>13. ASSUME NEW i \in Importers, ShareDetachSend(i) PROVE TargetInv'
  <2>1. lock[i] # Free
    BY <1>13 DEF ShareDetachSend, Free
  <2>2. /\ UNCHANGED <<todo, target>>
        /\ \/ lock' = [lock EXCEPT ![i] = Free]
           \/ lock' = [lock EXCEPT ![i] = [lock[i] EXCEPT !.op = "rollback"]]
        /\ \A k \in msgs' : k \in msgs \/ k = Wire(lock[i].obj)
        /\ mImp' = [mImp EXCEPT ![i] = lock[i].obj]
    BY <1>13 DEF ShareDetachSend, Sent, TypeOK
  <2>3. \A k \in msgs' : k \in msgs \/ Names(k, k.node)'
    BY <1>11, <2>1, <2>2 DEF Names
  <2>4. \A k \in Importers : mImp'[k] # NoObj => mImp'[k] = mImp[k] \/ mImp'[k].node = k
    BY <1>11, <2>1, <2>2 DEF Names, TypeOK
  <2>5. [lock[i] EXCEPT !.op = "rollback"].obj = lock[i].obj
    BY <2>1 DEF TypeOK, Held
  <2>6. \A k \in Importers :
            lock'[k] # Free => lock'[k] = lock[k] \/ Names(lock[k].obj, k)'
    <3>1. \A k \in Importers : k # i => lock'[k] = lock[k]
      BY <2>2 DEF TypeOK
    <3>2. lock'[i] # Free => lock'[i].obj = lock[i].obj
      BY <2>2, <2>5 DEF TypeOK
    <3>3. lock'[i] # Free => Names(lock[i].obj, i)'
      BY <1>11, <2>1, <2>2, <3>2 DEF Names
    <3> QED BY <3>1, <3>3
  <2> QED BY <2>2, <2>3, <2>4, <2>6, TargetStep
<1>14. ASSUME NEW i \in Importers, ShareDetachRollback(i) PROVE TargetInv'
  <2>1. lock[i] # Free
    BY <1>14 DEF ShareDetachRollback, Free
  <2>2. /\ UNCHANGED <<todo, target, msgs>>
        /\ lock' = [lock EXCEPT ![i] = Free]
        /\ mImp' = [mImp EXCEPT ![i] = Restored(lock[i].obj)]
    BY <1>14 DEF ShareDetachRollback, Restored
  <2>3. \A k \in Importers : mImp'[k] # NoObj => mImp'[k] = mImp[k] \/ mImp'[k].node = k
    BY <1>11, <2>1, <2>2 DEF TypeOK
  <2>4. \A k \in Importers : lock'[k] # Free => lock'[k] = lock[k]
    BY <2>2 DEF TypeOK
  <2> QED BY <2>2, <2>3, <2>4, TargetStep
<1>15. CASE Callback
  BY <1>3, <1>4, <1>5, <1>6, <1>15 DEF Callback
<1>16. CASE Request
  BY <1>7, <1>8, <1>9, <1>10, <1>16 DEF Request
<1>17. CASE Proceed
  BY <1>12, <1>13, <1>14, <1>17 DEF Proceed
<1> QED BY <1>2, <1>15, <1>16, <1>17 DEF Next

\* An object on its way to or from an importer is for the importer that its
\* request names.
THEOREM ShareTargets == Spec => []TargetInv
<1> QED BY TargetInduction, ShareTypeCorrect, PTL DEF Spec

\* Only the report of a node brings a successful answer.
LEMMA OkIsReported ==
    ASSUME TypeOK, [Next]_vars, NEW q \in Requests, "ok" \in New(q)
    PROVE  \E m \in msgs : ShareExportMasterCallback(m) \/ ShareImportMasterCallBack(m)
<1>1. \A r : Respond(r, "fail") => "ok" \notin New(q)
  BY DEF Respond, New, TypeOK
<1>2. UNCHANGED answers => "ok" \notin New(q)
  BY DEF New
<1>3. CASE UNCHANGED vars
  BY <1>2, <1>3 DEF vars
<1>4. CASE Callback
  <2>1. ASSUME NEW m \in msgs, ShareExportAgentCallback(m) \/ ShareImportAgentCallBack(m)
        PROVE  FALSE
    BY <1>2, <2>1 DEF ShareExportAgentCallback, ShareImportAgentCallBack
  <2> QED BY <1>4, <2>1 DEF Callback
<1>5. CASE Request
  <2>1. ASSUME NEW r, NEW e, UbseMemShareBorrow(r, e) PROVE FALSE
    BY <1>1, <1>2, <2>1, Zenon DEF UbseMemShareBorrow
  <2>2. ASSUME NEW r, NEW i, UbseMemShareAttach(r, i) PROVE FALSE
    BY <1>1, <1>2, <2>2, Zenon DEF UbseMemShareAttach
  <2>3. ASSUME NEW r, NEW i, UbseMemShareDetach(r, i) PROVE FALSE
    BY <1>1, <1>2, <2>3, Zenon DEF UbseMemShareDetach
  <2>4. ASSUME NEW r, UbseMemShareReturn(r) PROVE FALSE
    BY <1>1, <1>2, <2>4, Zenon DEF UbseMemShareReturn
  <2> QED BY <1>5, <2>1, <2>2, <2>3, <2>4 DEF Request
<1>6. CASE Proceed
  BY <1>1, <1>2, <1>6, Zenon DEF Proceed, ShareAttachSend, ShareDetachSend, ShareDetachRollback
<1> QED BY <1>3, <1>4, <1>5, <1>6 DEF Next

\* What a new successful answer says of the moment it is given.
TruthfulTo(q) ==
    "ok" \in New(q) =>
        /\ q \in Attaches => LET i == target[q] IN mImp'[i] # NoObj /\ mapped[i] = mImp'[i].mem
        /\ q \in Detaches => LET i == target[q] IN mImp'[i] = NoObj /\ mapped[i] = None
        /\ q \in Returns => lent = {} /\ \A i \in Importers : mapped[i] = None

\* The answer to a delete is true.
LEMMA ExportAnswer ==
    ASSUME TypeOK, Sound, "sign" \notin faults, NEW m \in ExportObj, m \in msgs,
           ShareExportMasterCallback(m), NEW q \in Requests
    PROVE  TruthfulTo(q)
<1> SUFFICES ASSUME "ok" \in New(q)
             PROVE  /\ q \notin Attaches /\ q \notin Detaches
                    /\ q \in Returns => lent = {} /\ \A i \in Importers : mapped[i] = None
  BY DEF TruthfulTo
<1> DEFINE r == IF m.expectState = "EXPORT_SUCCESS" THEN m.mem ELSE m.returnReq
           how == IF m.state = m.expectState THEN "ok" ELSE "fail"
<1>1. m.node \in Exporters /\ ExportMsg(m) /\ Respond(r, how)
  BY ExportMasterFacts
<1>2. q = r /\ how = "ok"
  BY <1>1 DEF Respond, New, TypeOK
<1>3. m.state = m.expectState
  BY <1>2
<1>4. CASE m.expectState = "EXPORT_SUCCESS"
  BY <1>2, <1>4, ExportFields, ShareAssumption
<1>5. CASE m.expectState # "EXPORT_SUCCESS"
  <2>1. /\ q \in Returns /\ m.state = "EXPORT_DESTROYED"
        /\ mExp[m.node].state = "EXPORT_DESTROYING" /\ aExp[m.node] = NoObj
    BY <1>1, <1>2, <1>3, <1>5 DEF ExportMsg
  <2>2. /\ \A d \in Exporters : aExp[d] = NoObj
        /\ \A i \in Importers : mapped[i] = None
    BY <1>1, <2>1, NobodyAttached
  <2>3. lent = {}
    BY <2>2 DEF Sound, LentInv
  <2> QED BY <2>1, <2>2, <2>3, ShareAssumption
<1> QED BY <1>4, <1>5

\* The answers to attaches and detaches are true.
LEMMA ImportAnswer ==
    ASSUME TypeOK, Sound, TargetInv, NEW m \in ImportObj, m \in msgs,
           ShareImportMasterCallBack(m), NEW q \in Requests
    PROVE  TruthfulTo(q)
<1> SUFFICES ASSUME "ok" \in New(q)
             PROVE  /\ q \in Attaches =>
                          LET i == target[q] IN mImp'[i] # NoObj /\ mapped[i] = mImp'[i].mem
                    /\ q \in Detaches => LET i == target[q] IN mImp'[i] = NoObj /\ mapped[i] = None
                    /\ q \notin Returns
  BY DEF TruthfulTo
<1> DEFINE i == m.node
           how == IF m.state = m.expectState THEN "ok" ELSE "fail"
<1>1. /\ i \in Importers /\ ImportMsg(m) /\ Respond(m.requestId, how)
      /\ m.state = "IMPORT_DESTROYED" => mImp'[i] = NoObj
      /\ m.state # "IMPORT_DESTROYED" => mImp'[i] # NoObj /\ mImp'[i].mem = m.mem
  BY ImportMasterFacts
<1>2. q = m.requestId /\ how = "ok"
  BY <1>1 DEF Respond, New, TypeOK
<1>3. m.state = m.expectState
  BY <1>2
<1>6. target[q] = i
  BY <1>2, MessageSides, ImportFields DEF TargetInv, Names
<1>4. CASE m.expectState = "IMPORT_SUCCESS"
  <2>1. q \in Attaches /\ mapped[i] # None /\ mImp[i].mem = m.mem
    BY <1>1, <1>2, <1>3, <1>4 DEF ImportMsg
  <2>2. mapped[i] = mImp[i].mem
    BY <1>1, <2>1 DEF Sound, ImportInv, ImportAt
  <2> QED BY <1>1, <1>3, <1>4, <1>6, <2>1, <2>2, ShareAssumption
<1>5. CASE m.expectState # "IMPORT_SUCCESS"
  <2>1. q \in Detaches /\ m.state = "IMPORT_DESTROYED" /\ mapped[i] = None
    BY <1>1, <1>2, <1>3, <1>5 DEF ImportMsg
  <2> QED BY <1>1, <1>6, <2>1, ShareAssumption
<1> QED BY <1>4, <1>5

\* A successful answer is true when it is given: after an attach the importer
\* that the request names has mapped the memory, after a detach that importer
\* has none, after a delete none is left.
THEOREM ShareAnswersTruthful == Spec => AnswersTruthful
<1> DEFINE True ==
        faults \cap {"late", "sign"} = {} =>
            /\ \A r \in Attaches : "ok" \in New(r) =>
                   LET i == target[r] IN mImp'[i] # NoObj /\ mapped[i] = mImp'[i].mem
            /\ \A r \in Detaches : "ok" \in New(r) =>
                   LET i == target[r] IN mImp'[i] = NoObj /\ mapped[i] = None
            /\ \A r \in Returns : "ok" \in New(r) =>
                   lent = {} /\ \A i \in Importers : mapped[i] = None
<1>1. IInv /\ TargetInv /\ [Next]_vars => [True]_vars
  <2> SUFFICES ASSUME IInv, TargetInv, [Next]_vars, faults \cap {"late", "sign"} = {},
                      NEW q \in Requests, "ok" \in New(q)
               PROVE  TruthfulTo(q)
    BY DEF TruthfulTo, Requests
  <2>1. TypeOK /\ Sound /\ "sign" \notin faults
    BY DEF IInv
  <2>2. PICK m \in msgs : ShareExportMasterCallback(m) \/ ShareImportMasterCallBack(m)
    BY <2>1, OkIsReported
  <2>3. CASE ShareExportMasterCallback(m)
    <3>1. m \in ExportObj
      BY <2>1, <2>3, MessageSides DEF ShareExportMasterCallback
    <3> QED BY <2>1, <2>3, <3>1, ExportAnswer
  <2>4. CASE ShareImportMasterCallBack(m)
    <3>1. m \in ImportObj
      BY <2>1, <2>4, MessageSides DEF ShareImportMasterCallBack
    <3> QED BY <2>1, <2>4, <3>1, ImportAnswer
  <2> QED BY <2>2, <2>3, <2>4
<1>2. Spec => [][True]_vars
  BY <1>1, ShareInvariant, ShareTargets, PTL DEF Spec
<1> QED BY <1>2 DEF AnswersTruthful

=============================================================================
