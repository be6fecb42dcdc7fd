--------------------------- MODULE SupplierMaster ---------------------------
(***************************************************************************)
(* Supplier Master beside the imports that register suppliers: creation,   *)
(* edits and lifecycle of suppliers, branches and contacts, and the pages  *)
(* in which they are listed. Every operation of the service reads first    *)
(* and writes by a statement of its own, without a revision, so other      *)
(* operations and imports come in between. Of what a client may write, the *)
(* tax identifier of a supplier and the branch of a contact are kept; the  *)
(* other fields are free text that only their own UPDATE writes.           *)
(***************************************************************************)
EXTENDS PurchaseImport, SequencesExt

CONSTANTS
  Editors,       \* concurrent callers of the service
  Contacts,      \* bound: the contact rows that may exist
  MaxEdits,      \* bound: operations begun
  DefaultLimit,  \* the page size of a query without a limit
  Blank          \* details without any identifier, a contact without a name

VARIABLES
  active,     \* the rows of the three tables that are active
  contactOf,  \* supplier and branch of each contact row
  editor,     \* the operation of each caller between its read and its write
  read,       \* the record it read
  edits,      \* operations begun
  told        \* the caller answered in the last step and its outcome

masterVars == <<active, contactOf, editor, read, edits, told>>
allVars == <<vars, masterVars>>

Rows == SupplierIds \cup Branches \cup Contacts

\* A row belongs to one of the three tables.
ASSUME RowAssumption ==
  /\ SupplierIds \cap Branches = {}
  /\ SupplierIds \cap Contacts = {}
  /\ Branches \cap Contacts = {}
  /\ None \notin Contacts

\* The suppliers that may exist are finitely many and a page holds a row.
ASSUME PageAssumption ==
  IsFiniteSet(SupplierIds) /\ DefaultLimit \in Nat \ {0}

MasterInit ==
  /\ Init
  /\ active = FirstSuppliers
  /\ contactOf = [c \in Contacts |-> None]
  /\ editor = [e \in Editors |-> None] /\ read = [e \in Editors |-> None]
  /\ edits = 0 /\ told = None

-----------------------------------------------------------------------------
\* GetSupplier, GetBranch and GetContact: the children are read within the
\* supplier the caller names.
Found(v, r) ==
  \/ r \in suppliers /\ v = r
  \/ r \in Branches /\ branchOf[r] = v
  \/ r \in Contacts /\ contactOf[r] # None /\ contactOf[r].supplier = v

Details(r) ==
  IF r \in SupplierIds THEN taxIdentifier[r]
  ELSE IF r \in Contacts THEN contactOf[r].branch ELSE None

Record(r) == [details |-> Details(r), active |-> r \in active]

\* ensureBranchOwnership, and the composite foreign key behind it.
OwnsBranch(v, b) == branchOf[b] = v

\* Mutant: the identifier of an inactive supplier is free.
TakenByActive(t, v) ==
  t # None /\ \E w \in suppliers \cap active : w # v /\ taxIdentifier[w] = t

\* The unique index on the tax identifier, over active and inactive rows.
Taken(t, v) == t # None /\ \E w \in suppliers \ {v} : taxIdentifier[w] = t

Requests ==
  LET taxes == TaxIds \cup {None, Blank}
      branches == Branches \cup {None, Blank}
  IN  [op : {"create"}, supplier : {None}, row : {None}, to : taxes]
      \cup [op : {"update"}, supplier : SupplierIds, row : SupplierIds, to : taxes]
      \cup [op : {"update"}, supplier : SupplierIds, row : Contacts, to : branches]
      \cup [op : {"update"}, supplier : SupplierIds, row : Branches, to : {None}]
      \cup [op : {"activate", "deactivate"}, supplier : SupplierIds, row : Rows, to : {None}]
      \cup [op : {"add branch"}, supplier : SupplierIds, row : {None}, to : {None}]
      \cup [op : {"add contact"}, supplier : SupplierIds, row : {None}, to : branches]

Lifecycle(q) == q.op \in {"activate", "deactivate"}

\* The row whose existence the operation reads first.
Target(q) == IF q.row = None THEN q.supplier ELSE q.row

Unchanged(q) == Lifecycle(q) /\ (q.row \in active <=> q.op = "activate")

\* Free ids of the table an insert goes to.
FreshRows(q) ==
  CASE q.op = "create" -> SupplierIds \ suppliers
    [] q.op = "add branch" -> {b \in Branches : branchOf[b] = None}
    [] q.op = "add contact" -> {c \in Contacts : contactOf[c] = None}
    [] OTHER -> {q.row}

importVars == <<branchOf, storeVars, lockVars, requestVars, pc, supplier, registered,
                lineNo, reply>>
recordVars == <<suppliers, taxIdentifier, active, contactOf>>

Tell(e, outcome) ==
  /\ told' = <<e, outcome>>
  /\ editor' = [editor EXCEPT ![e] = None] /\ read' = [read EXCEPT ![e] = None]

\* The read of an operation, and what it refuses or finds done by then.
Ask(e, q) ==
  /\ editor[e] = None /\ edits < MaxEdits /\ FreshRows(q) # {}
  /\ edits' = edits + 1
  /\ LET found == q.op = "create" \/ Found(q.supplier, Target(q)) IN
     \/ ~found /\ Tell(e, "ErrNotFound")
     \/ found /\ q.to = Blank /\ Tell(e, "ErrValidation")
     \/ found /\ q.to # Blank /\ Unchanged(q) /\ Tell(e, "current")
     \/ /\ found /\ q.to # Blank /\ ~Unchanged(q)
        /\ editor' = [editor EXCEPT ![e] = q]
        /\ read' = [read EXCEPT ![e] = IF q.row = None THEN None ELSE Record(q.row)]
        /\ told' = None
  /\ UNCHANGED <<importVars, recordVars>>

\* The branch of a contact, read after the contact or its supplier.
NamesBranch(q) == q.to \in Branches

CheckBranch(e) ==
  /\ editor[e] # None /\ NamesBranch(editor[e])
  /\ ~OwnsBranch(editor[e].supplier, editor[e].to)
  /\ Tell(e, "ErrBranchOwnership")
  /\ UNCHANGED <<importVars, recordVars, edits>>

-----------------------------------------------------------------------------
(***************************************************************************)
(* The statement of an operation.                                          *)
(***************************************************************************)
SetDetails(r, q) ==
  IF r \in SupplierIds
  THEN taxIdentifier' = [taxIdentifier EXCEPT ![r] = q.to] /\ UNCHANGED contactOf
  ELSE IF r \in Contacts
  THEN /\ contactOf' = [contactOf EXCEPT ![r] = [supplier |-> q.supplier, branch |-> q.to]]
       /\ UNCHANGED taxIdentifier
  ELSE UNCHANGED <<taxIdentifier, contactOf>>

\* Mutant: an edit writes the whole record, with the activity it had read.
UpdateRecord(e, r) ==
  /\ SetDetails(r, editor[e])
  /\ active' = IF read[e].active THEN active \cup {r} ELSE active \ {r}

\* UPDATE of the detail columns: activity is not among them.
UpdateDetails(e, r) == SetDetails(r, editor[e]) /\ UNCHANGED active

\* UPDATE of the activity column alone.
SetActive(e, r) ==
  /\ active' = IF editor[e].op = "activate" THEN active \cup {r} ELSE active \ {r}
  /\ UNCHANGED <<taxIdentifier, contactOf>>

\* INSERT of an active row.
InsertRow(e, r) ==
  /\ SetDetails(r, editor[e]) /\ active' = active \cup {r}

Conflict(q, r) == r \in SupplierIds /\ ~Lifecycle(q) /\ Taken(q.to, r)

Write(e) ==
  LET q == editor[e] IN
  /\ q # None
  /\ NamesBranch(q) => OwnsBranch(q.supplier, q.to)
  /\ edits' = edits
  /\ \E r \in FreshRows(q) :
       \/ /\ Conflict(q, r) /\ Tell(e, "ErrTaxIdentifierConflict")
          /\ UNCHANGED <<importVars, recordVars>>
       \/ /\ ~Conflict(q, r) /\ Tell(e, "ok")
          /\ \/ Lifecycle(q) /\ SetActive(e, r)
             \/ q.op = "update" /\ UpdateDetails(e, r)
             \/ q.row = None /\ InsertRow(e, r)
          /\ suppliers' = IF q.op = "create" THEN suppliers \cup {r} ELSE suppliers
          /\ branchOf' = IF q.op = "add branch" THEN [branchOf EXCEPT ![r] = q.supplier]
                         ELSE branchOf
          /\ UNCHANGED <<storeVars, lockVars, requestVars, pc, supplier, registered, lineNo,
                         reply>>

\* The context is cancelled between the two statements.
CancelEdit(e) ==
  /\ editor[e] # None /\ Tell(e, "error")
  /\ UNCHANGED <<importVars, recordVars, edits>>

\* A step of an import; a supplier it registers is active.
ImportStep ==
  /\ Next
  /\ active' = active \cup (suppliers' \ suppliers)
  /\ told' = None /\ UNCHANGED <<contactOf, editor, read, edits>>

MasterNext ==
  \/ ImportStep
  \/ \E e \in Editors :
       (\E q \in Requests : Ask(e, q)) \/ CheckBranch(e) \/ Write(e) \/ CancelEdit(e)

MasterSpec == MasterInit /\ [][MasterNext]_allVars

-----------------------------------------------------------------------------
(***************************************************************************)
(* Pages. The repository is asked for one row more than the page holds and *)
(* the bridge cuts it off: its presence says that there is a next page.    *)
(***************************************************************************)
Listed(scope) ==
  SetToSeq({v \in suppliers : scope = "ALL" \/ (v \in active <=> scope = "ACTIVE")})

effectiveLimit(limit) == IF limit = 0 THEN DefaultLimit ELSE limit

\* LIMIT and OFFSET over the ordered rows.
SearchRows(scope, limit, offset) ==
  LET rows == Listed(scope) IN SubSeq(rows, offset + 1, Min({offset + limit, Len(rows)}))

\* Mutant: the page asks for as many rows as it holds.
PageWithoutExtra(scope, limit, offset) ==
  LET size == effectiveLimit(limit)
      rows == SearchRows(scope, size, offset)
  IN  [rows |-> rows, next |-> Len(rows) > size]

SearchSuppliers(scope, limit, offset) ==
  LET size == effectiveLimit(limit)
      rows == SearchRows(scope, size + 1, offset)
  IN  [rows |-> SubSeq(rows, 1, Min({size, Len(rows)})), next |-> Len(rows) > size]

\* What a reader collects who follows the pages to the last one.
Collected(scope, limit) ==
  LET page(n) == SearchSuppliers(scope, limit, n * effectiveLimit(limit))
      walk[n \in Nat] == IF page(n).next THEN page(n).rows \o walk[n + 1] ELSE page(n).rows
  IN  walk[0]

-----------------------------------------------------------------------------
\* Whatever order edits and imports write in: a tax identifier has one owner
\* among active and inactive suppliers, and a contact's branch is one of its
\* own supplier's (the unique index; ensureBranchOwnership and the composite
\* key).
MasterIsConsistent ==
  /\ \A v, w \in suppliers : v # w => taxIdentifier[v] # taxIdentifier[w] \/ taxIdentifier[v] = None
  /\ \A c \in Contacts : contactOf[c] # None /\ contactOf[c].branch # None =>
       branchOf[contactOf[c].branch] = contactOf[c].supplier

Known(r) == \E v \in suppliers : Found(v, r)

\* A record after a request: an edit replaces the details, a lifecycle request
\* the activity.
Applied(q, record) ==
  IF Lifecycle(q) THEN [record EXCEPT !.active = (q.op = "activate")]
  ELSE [record EXCEPT !.details = q.to]

\* The step answers the request of e with this outcome.
Reports(e, outcome) ==
  editor[e] # None /\ editor'[e] = None /\ told' = <<e, outcome>>

\* The step stores the request of e, which is one for record r.
Accepts(e, r) == Reports(e, "ok") /\ editor[e].row = r

\* The last write wins, and it wins as a whole request: a record changes only in
\* the step that accepts a request for it, which is applied to the record as
\* it is then, not as it was read. So an edit leaves a lifecycle change that
\* was stored since its read, and the reverse; an edit stored since the read
\* is lost: the later one replaces all of its details. Nobody is told, since
\* the only conflict reported is an identifier that another supplier has.
\* (UpdateSupplier and setSupplierActive and the same for branches and
\* contacts; the lost update is documented in suppliercore/doc.go:59-65 and
\* accepted in openspec/specs/supplier-master-core/spec.md:174.)
LastWriteWins ==
  [][/\ \A r \in Rows : Known(r) =>
          \/ \E e \in Editors : Accepts(e, r) /\ Record(r)' = Applied(editor[e], Record(r))
          \/ (\A e \in Editors : ~Accepts(e, r)) /\ Record(r)' = Record(r)
     /\ \A e \in Editors : Reports(e, "ErrTaxIdentifierConflict") =>
          Taken(editor[e].to, editor[e].row)]_allVars

\* Following the pages of a search to the one without a next page shows every
\* supplier of the scope once, for limits below, at and above the number of
\* suppliers and without a limit (SearchSuppliers, effectiveLimit, trimToPage).
PagesListEverything ==
  \A scope \in {"ACTIVE", "INACTIVE", "ALL"}, limit \in 0 .. Cardinality(SupplierIds) :
    Collected(scope, limit) = Listed(scope)
=============================================================================
