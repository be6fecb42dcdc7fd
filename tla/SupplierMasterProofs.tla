------------------------ MODULE SupplierMasterProofs ------------------------
(***************************************************************************)
(* Supplier Master and the imports beside it stay consistent, for any      *)
(* callers, imports, suppliers, branches and contacts.                     *)
(***************************************************************************)
EXTENDS SupplierMaster, PurchaseImportProofs, SequenceTheorems, FiniteSetTheorems,
        WellFoundedInduction

Contact == [supplier : SupplierIds, branch : Branches \cup {None}]

\* What the callers hold between their read and their write is a request that
\* passed the validation of details.
MasterTypes ==
  /\ active \subseteq Rows
  /\ contactOf \in [Contacts -> Contact \cup {None}]
  /\ editor \in [Editors -> Requests \cup {None}]
  /\ \A e \in Editors : editor[e] # None => editor[e].to # Blank

\* The tables of the master and the invariant of the imports.
MasterInv == ImportInv /\ MasterTypes

\* What a validated request of each kind carries.
LEMMA RequestFacts ==
  ASSUME NEW q \in Requests, q.to # Blank
  PROVE  /\ q.op \in {"create", "update", "activate", "deactivate",
                      "add branch", "add contact"}
         /\ q.op = "create" => q.row = None /\ q.to \in TaxIds \cup {None}
         /\ q.op = "update" =>
              /\ q.supplier \in SupplierIds /\ q.row \in Rows
              /\ q.row \in SupplierIds => q.to \in TaxIds \cup {None}
              /\ q.row \in Contacts => q.to \in Branches \cup {None}
              /\ q.row \in Branches => q.to = None
         /\ Lifecycle(q) => q.row \in Rows
         /\ q.op = "add branch" => q.row = None /\ q.supplier \in SupplierIds
         /\ q.op = "add contact" =>
              /\ q.row = None /\ q.supplier \in SupplierIds
              /\ q.to \in Branches \cup {None}
         /\ None \notin Rows
<1> DEFINE taxes == TaxIds \cup {None, Blank}
           branches == Branches \cup {None, Blank}
<1>0. None \notin Rows
  BY RowAssumption, DocumentAssumption DEF Rows
<1>1. \/ q \in [op : {"create"}, supplier : {None}, row : {None}, to : taxes]
      \/ q \in [op : {"update"}, supplier : SupplierIds, row : SupplierIds, to : taxes]
      \/ q \in [op : {"update"}, supplier : SupplierIds, row : Contacts, to : branches]
      \/ q \in [op : {"update"}, supplier : SupplierIds, row : Branches, to : {None}]
      \/ q \in [op : {"activate", "deactivate"}, supplier : SupplierIds, row : Rows,
                to : {None}]
      \/ q \in [op : {"add branch"}, supplier : SupplierIds, row : {None}, to : {None}]
      \/ q \in [op : {"add contact"}, supplier : SupplierIds, row : {None}, to : branches]
  BY DEF Requests
<1>2. CASE q \in [op : {"create"}, supplier : {None}, row : {None}, to : taxes]
  BY <1>0, <1>2 DEF Lifecycle
<1>3. CASE q \in [op : {"update"}, supplier : SupplierIds, row : SupplierIds, to : taxes]
  BY <1>0, <1>3, RowAssumption DEF Lifecycle, Rows
<1>4. CASE q \in [op : {"update"}, supplier : SupplierIds, row : Contacts, to : branches]
  BY <1>0, <1>4, RowAssumption DEF Lifecycle, Rows
<1>5. CASE q \in [op : {"update"}, supplier : SupplierIds, row : Branches, to : {None}]
  BY <1>0, <1>5, RowAssumption DEF Lifecycle, Rows
<1>6. CASE q \in [op : {"activate", "deactivate"}, supplier : SupplierIds, row : Rows,
                  to : {None}]
  BY <1>0, <1>6 DEF Lifecycle
<1>7. CASE q \in [op : {"add branch"}, supplier : SupplierIds, row : {None}, to : {None}]
  BY <1>0, <1>7 DEF Lifecycle
<1>8. CASE q \in [op : {"add contact"}, supplier : SupplierIds, row : {None}, to : branches]
  BY <1>0, <1>8 DEF Lifecycle
<1>9. QED
  BY <1>1, <1>2, <1>3, <1>4, <1>5, <1>6, <1>7, <1>8

----------------------------------------------------------------------------
(***************************************************************************)
(* The kinds of step there are.                                            *)
(***************************************************************************)

\* A caller is answered, or has read its record; no row changes.
Talks ==
  /\ UNCHANGED <<importVars, recordVars>>
  /\ editor' \in [Editors -> Requests \cup {None}]
  /\ \A e \in Editors : editor'[e] # None => editor'[e].to # Blank

\* The write of an operation reaches row r.
Edits(e, r) ==
  /\ editor[e] # None /\ told' = <<e, "ok">>
  /\ NamesBranch(editor[e]) => OwnsBranch(editor[e].supplier, editor[e].to)
  /\ r \in FreshRows(editor[e])
  /\ ~Conflict(editor[e], r)
  /\ \/ Lifecycle(editor[e]) /\ SetActive(e, r)
     \/ editor[e].op = "update" /\ UpdateDetails(e, r)
     \/ editor[e].row = None /\ InsertRow(e, r)
  /\ suppliers' = IF editor[e].op = "create" THEN suppliers \cup {r} ELSE suppliers
  /\ branchOf' = IF editor[e].op = "add branch"
                 THEN [branchOf EXCEPT ![r] = editor[e].supplier] ELSE branchOf
  /\ UNCHANGED <<storeVars, lockVars, requestVars, pc, supplier, registered, lineNo,
                 reply>>
  /\ editor' = [editor EXCEPT ![e] = None]

\* Every step of the master is one of these, or one of an import.
LEMMA MasterCases ==
  ASSUME MasterInv, [MasterNext]_allVars
  PROVE  \/ Talks
         \/ ImportStep
         \/ \E e \in Editors : \E r \in FreshRows(editor[e]) : Edits(e, r)
<1>0. /\ editor \in [Editors -> Requests \cup {None}]
      /\ \A e \in Editors : editor[e] # None => editor[e].to # Blank
  BY DEF MasterInv, MasterTypes
<1>1. CASE UNCHANGED allVars
  BY <1>0, <1>1 DEF allVars, vars, masterVars, Talks, importVars, recordVars,
     supplierVars
<1>2. ASSUME NEW e \in Editors, NEW o, Tell(e, o), UNCHANGED <<importVars, recordVars>>
      PROVE  Talks
  BY <1>0, <1>2 DEF Tell, Talks
<1>3. ASSUME NEW e \in Editors, NEW q \in Requests, Ask(e, q)
      PROVE  Talks
  <2>1. UNCHANGED <<importVars, recordVars>>
    BY <1>3 DEF Ask
  <2>2. CASE q.to # Blank /\ editor' = [editor EXCEPT ![e] = q]
    BY <1>0, <2>1, <2>2 DEF Talks
  <2>3. CASE \E o \in {"ErrNotFound", "ErrValidation", "current"} : Tell(e, o)
    BY <1>2, <2>1, <2>3
  <2>4. QED
    BY <1>3, <2>2, <2>3 DEF Ask
<1>4. ASSUME NEW e \in Editors, CheckBranch(e) \/ CancelEdit(e)
      PROVE  Talks
  BY <1>2, <1>4 DEF CheckBranch, CancelEdit
<1>5. ASSUME NEW e \in Editors, Write(e)
      PROVE  Talks \/ \E r \in FreshRows(editor[e]) : Edits(e, r)
  <2>1. PICK r \in FreshRows(editor[e]) :
          \/ Tell(e, "ErrTaxIdentifierConflict") /\ UNCHANGED <<importVars, recordVars>>
          \/ Edits(e, r)
    BY <1>5 DEF Write, Edits, Tell
  <2>2. QED
    BY <1>2, <2>1
<1>6. QED
  BY <1>1, <1>3, <1>4, <1>5 DEF MasterNext

\* What an accepted write does to the tables of suppliers and branches: a fresh
\* supplier or branch at most, and a tax identifier nobody else has.
LEMMA EditEffects ==
  ASSUME MasterInv, NEW e \in Editors, NEW r \in FreshRows(editor[e]), Edits(e, r)
  PROVE  /\ r \in Rows
         /\ suppliers' \subseteq SupplierIds
         /\ branchOf' \in [Branches -> SupplierIds \cup {None}]
         /\ SuppliersGrow
         /\ \/ taxIdentifier' = taxIdentifier /\ suppliers' = suppliers
            \/ /\ r \in SupplierIds /\ editor[e].to \in TaxIds \cup {None}
               /\ ~Taken(editor[e].to, r)
               /\ taxIdentifier' = [taxIdentifier EXCEPT ![r] = editor[e].to]
               /\ suppliers' \in {suppliers, suppliers \cup {r}}
         /\ \/ contactOf' = contactOf
            \/ /\ r \in Contacts
               /\ editor[e].supplier \in SupplierIds
               /\ editor[e].to \in Branches \cup {None}
               /\ editor[e].to # None => branchOf[editor[e].to] = editor[e].supplier
               /\ contactOf' = [contactOf EXCEPT ![r] =
                    [supplier |-> editor[e].supplier, branch |-> editor[e].to]]
         /\ active' \subseteq active \cup {r}
<1> DEFINE q == editor[e]
<1>0. /\ q \in Requests /\ q.to # Blank
      /\ suppliers \subseteq SupplierIds
      /\ branchOf \in [Branches -> SupplierIds \cup {None}]
      /\ active \subseteq Rows
  BY DEF Edits, MasterInv, MasterTypes, ImportInv, TypeOK
<1>1. /\ q.op \in {"create", "update", "activate", "deactivate",
                   "add branch", "add contact"}
      /\ q.op = "create" => q.row = None /\ q.to \in TaxIds \cup {None}
      /\ q.op = "update" =>
           /\ q.supplier \in SupplierIds /\ q.row \in Rows
           /\ q.row \in SupplierIds => q.to \in TaxIds \cup {None}
           /\ q.row \in Contacts => q.to \in Branches \cup {None}
      /\ Lifecycle(q) => q.row \in Rows
      /\ q.op = "add branch" => q.row = None /\ q.supplier \in SupplierIds
      /\ q.op = "add contact" =>
           /\ q.row = None /\ q.supplier \in SupplierIds
           /\ q.to \in Branches \cup {None}
      /\ None \notin Rows
  BY <1>0, RequestFacts
<1>2. /\ q.op = "create" => r \in SupplierIds \ suppliers
      /\ q.op = "add branch" => r \in Branches /\ branchOf[r] = None
      /\ q.op = "add contact" => r \in Contacts
      /\ q.op \in {"update", "activate", "deactivate"} => r = q.row
  BY DEF FreshRows
<1>3. /\ SupplierIds \cap Branches = {} /\ SupplierIds \cap Contacts = {}
      /\ Branches \cap Contacts = {} /\ None \notin Branches
  BY RowAssumption, DocumentAssumption
<1>4. /\ q.to \in Branches => branchOf[q.to] = q.supplier
      /\ ~Conflict(q, r)
      /\ suppliers' = IF q.op = "create" THEN suppliers \cup {r} ELSE suppliers
      /\ branchOf' = IF q.op = "add branch"
                     THEN [branchOf EXCEPT ![r] = q.supplier] ELSE branchOf
      /\ \/ Lifecycle(q) /\ SetActive(e, r)
         \/ q.op = "update" /\ SetDetails(r, q) /\ active' = active
         \/ q.row = None /\ SetDetails(r, q) /\ active' = active \cup {r}
  BY DEF Edits, NamesBranch, OwnsBranch, UpdateDetails, InsertRow
<1>5. Lifecycle(q) <=> q.op \in {"activate", "deactivate"}
  BY DEF Lifecycle
<1>6. CASE Lifecycle(q)
  <2>1. /\ UNCHANGED <<taxIdentifier, contactOf>>
        /\ active' \subseteq active \cup {r} /\ r \in Rows
    BY <1>1, <1>2, <1>4, <1>5, <1>6 DEF SetActive
  <2> HIDE DEF q
  <2>2. QED
    BY <1>0, <1>4, <1>5, <1>6, <2>1 DEF SuppliersGrow
<1>7. CASE q.op \in {"update", "create", "add branch", "add contact"}
  <2>1. SetDetails(r, q) /\ active' \subseteq active \cup {r} /\ r \in Rows
    BY <1>1, <1>2, <1>4, <1>5, <1>7 DEF Rows
  <2>2. /\ suppliers' \subseteq SupplierIds
        /\ branchOf' \in [Branches -> SupplierIds \cup {None}]
        /\ SuppliersGrow
    BY <1>0, <1>1, <1>2, <1>4, <1>7 DEF SuppliersGrow
  <2>3. CASE r \in SupplierIds
    <3>1. q.op \in {"update", "create"} /\ q.to \in TaxIds \cup {None}
      BY <1>1, <1>2, <1>3, <1>7, <2>3
    <3>2. ~Taken(q.to, r)
      BY <1>4, <1>5, <2>3, <3>1 DEF Conflict
    <3>3. /\ taxIdentifier' = [taxIdentifier EXCEPT ![r] = q.to]
          /\ contactOf' = contactOf
      BY <2>1, <2>3 DEF SetDetails
    <3>4. QED
      BY <1>4, <2>1, <2>2, <2>3, <3>1, <3>2, <3>3
  <2>4. CASE r \in Contacts
    <3>1. /\ q.op \in {"update", "add contact"}
          /\ q.to \in Branches \cup {None} /\ q.supplier \in SupplierIds
      BY <1>1, <1>2, <1>3, <1>7, <2>4
    <3>2. /\ contactOf' = [contactOf EXCEPT ![r] =
               [supplier |-> q.supplier, branch |-> q.to]]
          /\ taxIdentifier' = taxIdentifier
      BY <1>3, <2>1, <2>4 DEF SetDetails
    <3>3. q.to # None => branchOf[q.to] = q.supplier
      BY <1>4, <3>1
    <3>4. QED
      BY <1>4, <2>1, <2>2, <2>4, <3>1, <3>2, <3>3
  <2>5. CASE r \notin SupplierIds \cup Contacts
    <3>1. UNCHANGED <<taxIdentifier, contactOf>> /\ q.op # "create"
      BY <1>2, <2>1, <2>5 DEF SetDetails
    <3>2. QED
      BY <1>4, <2>1, <2>2, <3>1
  <2>6. QED
    BY <2>3, <2>4, <2>5
<1>8. QED
  BY <1>1, <1>5, <1>6, <1>7

----------------------------------------------------------------------------
\* The tables start in order.
LEMMA InitMasterInv == MasterInit => MasterInv
  BY InitImportInv, DocumentAssumption DEF MasterInit, MasterInv, MasterTypes, Rows

\* An answer or a read changes no table.
LEMMA TalksKeepsInv ==
  ASSUME MasterInv, Talks
  PROVE  MasterInv'
<1>1. UNCHANGED vars /\ active' = active /\ contactOf' = contactOf
  BY DEF Talks, importVars, recordVars, vars, supplierVars
<1>2. ImportInv'
  BY <1>1, NextImportInv DEF MasterInv
<1>3. QED
  BY <1>1, <1>2 DEF MasterInv, MasterTypes, Talks

\* An import touches the master by a new active supplier at most.
LEMMA ImportStepKeepsInv ==
  ASSUME MasterInv, ImportStep
  PROVE  MasterInv'
<1>1. ImportInv'
  BY NextImportInv DEF MasterInv, ImportStep
<1>2. suppliers' \subseteq Rows
  BY <1>1 DEF ImportInv, TypeOK, Rows
<1>3. QED
  BY <1>1, <1>2 DEF MasterInv, MasterTypes, ImportStep

\* A write keeps what the imports under way rely on: their suppliers exist and
\* the branches they checked stay with their suppliers.
LEMMA EditsKeepsInv ==
  ASSUME MasterInv, NEW e \in Editors, NEW r \in FreshRows(editor[e]), Edits(e, r)
  PROVE  MasterInv'
<1>1. /\ r \in Rows
      /\ suppliers' \subseteq SupplierIds
      /\ branchOf' \in [Branches -> SupplierIds \cup {None}]
      /\ SuppliersGrow
      /\ active' \subseteq active \cup {r}
  BY EditEffects
<1>2. UNCHANGED <<purchases, products, lastSeen, uuidClaim, productLock, doc, branch, pc,
                  supplier, registered, lineNo, reply>>
  BY DEF Edits, storeVars, lockVars, requestVars
<1>3. taxIdentifier' \in [SupplierIds -> TaxIds \cup {None}]
  <2>1. taxIdentifier \in [SupplierIds -> TaxIds \cup {None}]
    BY DEF MasterInv, ImportInv, TypeOK
  <2>2. QED
    BY <2>1, EditEffects
<1>4. contactOf' \in [Contacts -> Contact \cup {None}]
  <2>1. contactOf \in [Contacts -> Contact \cup {None}]
    BY DEF MasterInv, MasterTypes
  <2>2. QED
    BY <2>1, EditEffects DEF Contact
<1>5. TypeOK'
  BY <1>1, <1>2, <1>3 DEF MasterInv, ImportInv, TypeOK
<1>6. StagesAreSound'
  <2>1. None \notin SupplierIds /\ suppliers \subseteq SupplierIds
        /\ branch \in [Sessions -> Branches \cup {None}]
    BY DocumentAssumption DEF MasterInv, ImportInv, TypeOK
  <2>2. StagesAreSound
    BY DEF MasterInv, ImportInv
  <2>3. QED
    BY <1>1, <1>2, <2>1, <2>2 DEF StagesAreSound, SuppliersGrow
<1>7. /\ purchases' = [u \in Uuids |-> purchases'[u]]
      /\ ClaimsAreSound' /\ ProductLocksAreSound'
  BY <1>2 DEF MasterInv, ImportInv, ClaimsAreSound, ProductLocksAreSound
<1>8. MasterTypes'
  <2>1. active' \subseteq Rows
    BY <1>1 DEF MasterInv, MasterTypes
  <2>2. /\ editor' \in [Editors -> Requests \cup {None}]
        /\ \A f \in Editors : editor'[f] # None => editor'[f].to # Blank
    BY DEF MasterInv, MasterTypes, Edits
  <2>3. QED
    BY <1>4, <2>1, <2>2 DEF MasterTypes
<1>9. QED
  BY <1>5, <1>6, <1>7, <1>8 DEF MasterInv, ImportInv

\* No step of callers or imports breaks the invariant.
LEMMA NextMasterInv == MasterInv /\ [MasterNext]_allVars => MasterInv'
  BY MasterCases, TalksKeepsInv, ImportStepKeepsInv, EditsKeepsInv

\* The imports' invariant, with the locks and claims it speaks of, survives
\* edits of the suppliers and branches the imports read.
THEOREM MasterSafety == MasterSpec => []MasterInv
  BY InitMasterInv, NextMasterInv, PTL DEF MasterSpec

----------------------------------------------------------------------------
\* Stored purchases stay whole beside edits: the supplier of a purchase exists
\* and its branch is still that supplier's.
THEOREM WholeBesideEdits == MasterSpec => []PurchasesAreWhole
<1>1. MasterInit => PurchasesAreWhole
  BY DEF MasterInit, Init, PurchasesAreWhole
<1>2. ASSUME MasterInv, PurchasesAreWhole, [MasterNext]_allVars
      PROVE  PurchasesAreWhole'
  <2>0. ImportInv
    BY <1>2 DEF MasterInv
  <2>1. CASE Talks
    <3>1. UNCHANGED storeVars /\ SuppliersGrow
      BY <2>1 DEF Talks, importVars, recordVars, SuppliersGrow
    <3>2. QED
      BY <1>2, <2>0, <3>1, WholeWithoutStore
  <2>2. CASE ImportStep
    <3>1. [Next]_vars
      BY <2>2 DEF ImportStep
    <3>2. QED
      BY <1>2, <2>0, <3>1, OnlyCommitsStore, ImportsKeepSuppliers, WholeWithoutStore,
         WholeAfterStore
  <2>3. ASSUME NEW e \in Editors, NEW r \in FreshRows(editor[e]), Edits(e, r)
        PROVE  PurchasesAreWhole'
    <3>1. UNCHANGED storeVars
      BY <2>3 DEF Edits
    <3>2. SuppliersGrow
      BY <1>2, <2>3, EditEffects
    <3>3. QED
      BY <1>2, <2>0, <3>1, <3>2, WholeWithoutStore
  <2>4. QED
    BY <1>2, <2>1, <2>2, <2>3, MasterCases
<1>3. QED
  BY <1>1, <1>2, MasterSafety, PTL DEF MasterSpec

----------------------------------------------------------------------------
\* What an import does to the tax identifiers: it registers one supplier under
\* an identifier nobody has, or nothing.
LEMMA ImportEffects ==
  ASSUME MasterInv, ImportStep
  PROVE  /\ \/ suppliers' = suppliers /\ taxIdentifier' = taxIdentifier
            \/ \E v \in SupplierIds \ suppliers, t \in TaxIds :
                 /\ ~Taken(t, v)
                 /\ suppliers' = suppliers \cup {v}
                 /\ taxIdentifier' = [taxIdentifier EXCEPT ![v] = t]
         /\ SuppliersGrow /\ contactOf' = contactOf
<1>0. ImportInv /\ [Next]_vars
  BY DEF MasterInv, ImportStep
<1>1. ASSUME NEW s \in Sessions, Registers(s)
      PROVE  \E v \in SupplierIds \ suppliers, t \in TaxIds :
               /\ ~Taken(t, v)
               /\ suppliers' = suppliers \cup {v}
               /\ taxIdentifier' = [taxIdentifier EXCEPT ![v] = t]
  <2>1. PICK v \in SupplierIds \ suppliers :
          /\ pc[s] = "register"
          /\ OwnersOf(s) = {}
          /\ suppliers' = suppliers \cup {v}
          /\ taxIdentifier' = [taxIdentifier EXCEPT ![v] = Issuer[doc[s]]]
    BY <1>1 DEF Registers
  <2>2. Issuer[doc[s]] \in TaxIds
    BY <1>0, <2>1 DEF ImportInv, StagesAreSound, TaxIds
  <2>3. ~Taken(Issuer[doc[s]], v)
    BY <2>1 DEF Taken, OwnersOf
  <2>4. QED
    BY <2>1, <2>2, <2>3
<1>2. ASSUME NEW s \in Sessions,
             \/ Starts(s) \/ Moves(s) \/ Ends(s)
             \/ InsertPurchase(s) \/ StoreLine(s) \/ Commits(s)
      PROVE  suppliers' = suppliers /\ taxIdentifier' = taxIdentifier
  BY <1>2 DEF Starts, Moves, Ends, Refuse, InsertPurchase, StoreLine, Commits, Store,
     supplierVars
<1>3. CASE UNCHANGED vars
  BY <1>0, <1>3, ImportsKeepSuppliers DEF vars, supplierVars, ImportStep
<1>4. QED
  BY <1>0, <1>1, <1>2, <1>3, StepCases, ImportsKeepSuppliers DEF ImportStep

\* A tax identifier written while no other row has it keeps identifiers unique.
LEMMA TaxStaysUnique ==
  ASSUME NEW v \in SupplierIds, NEW t \in TaxIds \cup {None},
         suppliers \subseteq SupplierIds,
         taxIdentifier \in [SupplierIds -> TaxIds \cup {None}],
         \A x, y \in suppliers : x # y =>
           taxIdentifier[x] # taxIdentifier[y] \/ taxIdentifier[x] = None,
         ~Taken(t, v),
         taxIdentifier' = [taxIdentifier EXCEPT ![v] = t],
         suppliers' \in {suppliers, suppliers \cup {v}}
  PROVE  \A x, y \in suppliers' : x # y =>
           taxIdentifier'[x] # taxIdentifier'[y] \/ taxIdentifier'[x] = None
<1> SUFFICES ASSUME NEW x \in suppliers', NEW y \in suppliers', x # y,
                    taxIdentifier'[x] # None
             PROVE  taxIdentifier'[x] # taxIdentifier'[y]
  OBVIOUS
<1>1. x \in suppliers \cup {v} /\ y \in suppliers \cup {v}
  OBVIOUS
<1>2. CASE x = v
  BY <1>1, <1>2 DEF Taken
<1>3. CASE y = v
  BY <1>1, <1>3 DEF Taken
<1>4. CASE x # v /\ y # v
  BY <1>1, <1>4
<1>5. QED
  BY <1>2, <1>3, <1>4

\* The branch of every contact is one of its supplier's.
ContactsAreOwned ==
  \A c \in Contacts : contactOf[c] # None /\ contactOf[c].branch # None =>
    branchOf[contactOf[c].branch] = contactOf[c].supplier

\* Branches stay with their suppliers, so the contacts nobody writes stay owned.
LEMMA ContactsStayOwned ==
  ASSUME MasterInv, ContactsAreOwned, SuppliersGrow,
         \/ contactOf' = contactOf
         \/ \E r \in Contacts, v \in SupplierIds, b \in Branches \cup {None} :
              /\ b # None => branchOf[b] = v
              /\ contactOf' = [contactOf EXCEPT ![r] = [supplier |-> v, branch |-> b]]
  PROVE  ContactsAreOwned'
<1>0. contactOf \in [Contacts -> Contact \cup {None}] /\ None \notin SupplierIds
  BY DocumentAssumption DEF MasterInv, MasterTypes
<1>1. ASSUME NEW c \in Contacts, contactOf[c] # None, contactOf[c].branch # None
      PROVE  branchOf'[contactOf[c].branch] = contactOf[c].supplier
  <2>1. contactOf[c] \in Contact
    BY <1>0, <1>1
  <2>2. contactOf[c].supplier \in SupplierIds /\ contactOf[c].branch \in Branches
    BY <1>1, <2>1 DEF Contact
  <2>3. QED
    BY <1>0, <1>1, <2>2 DEF ContactsAreOwned, SuppliersGrow
<1>2. CASE contactOf' = contactOf
  BY <1>1, <1>2 DEF ContactsAreOwned
<1>3. ASSUME NEW r \in Contacts, NEW v \in SupplierIds, NEW b \in Branches \cup {None},
             b # None => branchOf[b] = v,
             contactOf' = [contactOf EXCEPT ![r] = [supplier |-> v, branch |-> b]]
      PROVE  ContactsAreOwned'
  <2>1. b # None => branchOf'[b] = v
    BY <1>0, <1>3 DEF SuppliersGrow
  <2>2. /\ contactOf'[r].branch = b /\ contactOf'[r].supplier = v
        /\ \A c \in Contacts \ {r} : contactOf'[c] = contactOf[c]
    BY <1>0, <1>3
  <2>3. QED
    BY <1>1, <2>1, <2>2 DEF ContactsAreOwned
<1>4. QED
  BY <1>2, <1>3

\* Tax identifiers have one owner and contacts a branch of their own supplier,
\* in whatever order edits and imports write.
THEOREM ConsistentMaster == MasterSpec => []MasterIsConsistent
<1> DEFINE Unique == \A v, w \in suppliers : v # w =>
             taxIdentifier[v] # taxIdentifier[w] \/ taxIdentifier[v] = None
<1>0. MasterIsConsistent <=> Unique /\ ContactsAreOwned
  BY DEF MasterIsConsistent, ContactsAreOwned
<1>1. ASSUME MasterInit
      PROVE  Unique /\ ContactsAreOwned
  <2>1. /\ FirstSuppliers \subseteq SupplierIds /\ suppliers = FirstSuppliers
        /\ taxIdentifier = [v \in SupplierIds |-> None]
        /\ contactOf = [c \in Contacts |-> None]
    BY <1>1, DocumentAssumption DEF MasterInit, Init
  <2>2. QED
    BY <2>1 DEF ContactsAreOwned
<1>2. ASSUME MasterInv, Unique, ContactsAreOwned, [MasterNext]_allVars
      PROVE  Unique' /\ ContactsAreOwned'
  <2>0. /\ suppliers \subseteq SupplierIds
        /\ taxIdentifier \in [SupplierIds -> TaxIds \cup {None}]
    BY <1>2 DEF MasterInv, ImportInv, TypeOK
  <2>1. CASE Talks
    BY <1>2, <2>1 DEF Talks, importVars, recordVars, ContactsAreOwned
  <2>2. CASE ImportStep
    <3>1. SuppliersGrow /\ contactOf' = contactOf
      BY <1>2, <2>2, ImportEffects
    <3>2. ContactsAreOwned'
      BY <1>2, <3>1, ContactsStayOwned
    <3>3. CASE suppliers' = suppliers /\ taxIdentifier' = taxIdentifier
      BY <1>2, <3>2, <3>3
    <3>4. ASSUME NEW v \in SupplierIds \ suppliers, NEW t \in TaxIds,
                 ~Taken(t, v), suppliers' = suppliers \cup {v},
                 taxIdentifier' = [taxIdentifier EXCEPT ![v] = t]
          PROVE  Unique'
      BY <1>2, <2>0, <3>4, TaxStaysUnique
    <3>5. QED
      BY <1>2, <2>2, <3>2, <3>3, <3>4, ImportEffects
  <2>3. ASSUME NEW e \in Editors, NEW r \in FreshRows(editor[e]), Edits(e, r)
        PROVE  Unique' /\ ContactsAreOwned'
    <3>1. SuppliersGrow
      BY <1>2, <2>3, EditEffects
    <3>2. \/ contactOf' = contactOf
          \/ \E c \in Contacts, v \in SupplierIds, b \in Branches \cup {None} :
               /\ b # None => branchOf[b] = v
               /\ contactOf' = [contactOf EXCEPT ![c] = [supplier |-> v, branch |-> b]]
      BY <1>2, <2>3, EditEffects
    <3>3. ContactsAreOwned'
      BY <1>2, <3>1, <3>2, ContactsStayOwned
    <3>4. CASE taxIdentifier' = taxIdentifier /\ suppliers' = suppliers
      BY <1>2, <3>3, <3>4
    <3>5. CASE /\ r \in SupplierIds /\ editor[e].to \in TaxIds \cup {None}
               /\ ~Taken(editor[e].to, r)
               /\ taxIdentifier' = [taxIdentifier EXCEPT ![r] = editor[e].to]
               /\ suppliers' \in {suppliers, suppliers \cup {r}}
      BY <1>2, <2>0, <3>3, <3>5, TaxStaysUnique
    <3>6. QED
      BY <1>2, <2>3, <3>4, <3>5, EditEffects
  <2>4. QED
    BY <1>2, <2>1, <2>2, <2>3, MasterCases
<1>3. QED
  BY <1>0, <1>1, <1>2, MasterSafety, PTL DEF MasterSpec

----------------------------------------------------------------------------
\* The rows a read finds are not the rows an insert takes.
LEMMA FreshIsUnknown ==
  ASSUME MasterInv, NEW e \in Editors, editor[e] # None, editor[e].row = None,
         NEW r \in FreshRows(editor[e])
  PROVE  r \notin suppliers /\ \A v \in suppliers : ~Found(v, r)
<1> DEFINE q == editor[e]
<1>0. /\ q \in Requests /\ q.to # Blank
      /\ suppliers \subseteq SupplierIds /\ None \notin SupplierIds
  BY DocumentAssumption DEF MasterInv, MasterTypes, ImportInv, TypeOK
<1>1. q.op \in {"create", "add branch", "add contact"}
  <2>1. /\ q.op \in {"create", "update", "activate", "deactivate",
                     "add branch", "add contact"}
        /\ q.op = "update" => q.row \in Rows
        /\ Lifecycle(q) => q.row \in Rows
        /\ None \notin Rows
    BY <1>0, RequestFacts
  <2>2. QED
    BY <2>1 DEF Lifecycle
<1>2. /\ q.op = "create" => r \in SupplierIds \ suppliers
      /\ q.op = "add branch" => r \in Branches /\ branchOf[r] = None
      /\ q.op = "add contact" => r \in Contacts /\ contactOf[r] = None
  BY DEF FreshRows
<1>3. /\ SupplierIds \cap Branches = {} /\ SupplierIds \cap Contacts = {}
      /\ Branches \cap Contacts = {}
  BY RowAssumption
<1> HIDE DEF q
<1>4. QED
  BY <1>0, <1>1, <1>2, <1>3 DEF Found

\* The step that reports a request as stored writes it, and a conflict is
\* reported only for an identifier that another supplier has.
LEMMA WritesAnswer ==
  ASSUME MasterInv, [MasterNext]_allVars
  PROVE  /\ \/ /\ Talks \/ ImportStep
               /\ \A e \in Editors : ~Reports(e, "ok")
            \/ \E e \in Editors : \E w \in FreshRows(editor[e]) : Edits(e, w)
         /\ \A e \in Editors : Reports(e, "ErrTaxIdentifierConflict") =>
              Taken(editor[e].to, editor[e].row)
<1>0. /\ editor \in [Editors -> Requests \cup {None}]
      /\ \A e \in Editors : editor[e] # None => editor[e].to # Blank
  BY DEF MasterInv, MasterTypes
<1>1. ASSUME NEW e \in Editors, NEW o, Tell(e, o), NEW x \in Editors, NEW p, Reports(x, p)
      PROVE  x = e /\ p = o /\ editor[e] # None
  BY <1>1 DEF Tell, Reports
<1>2. CASE UNCHANGED editor /\ (Talks \/ ImportStep)
  BY <1>2 DEF Reports
<1>3. ASSUME NEW e \in Editors, NEW o, o \notin {"ok", "ErrTaxIdentifierConflict"},
             Tell(e, o), Talks
      PROVE  \A x \in Editors : ~Reports(x, "ok") /\ ~Reports(x, "ErrTaxIdentifierConflict")
  BY <1>1, <1>3
<1>4. CASE UNCHANGED allVars
  <2>1. Talks /\ UNCHANGED editor
    BY <1>0, <1>4 DEF allVars, vars, masterVars, Talks, importVars, recordVars, supplierVars
  <2>2. QED
    BY <1>2, <2>1
<1>5. CASE ImportStep
  BY <1>2, <1>5 DEF ImportStep
<1>6. ASSUME NEW e \in Editors, NEW o, o \notin {"ok", "ErrTaxIdentifierConflict"},
             Tell(e, o), UNCHANGED <<importVars, recordVars>>
      PROVE  /\ Talks
             /\ \A x \in Editors :
                  ~Reports(x, "ok") /\ ~Reports(x, "ErrTaxIdentifierConflict")
  <2>1. Talks
    BY <1>0, <1>6 DEF Tell, Talks
  <2>2. QED
    BY <1>3, <1>6, <2>1
<1>7. CASE \E e \in Editors : \E q \in Requests : Ask(e, q)
  <2>1. PICK e \in Editors, q \in Requests : Ask(e, q)
    BY <1>7
  <2>2. editor[e] = None /\ UNCHANGED <<importVars, recordVars>>
    BY <2>1 DEF Ask
  <2>3. CASE q.to # Blank /\ editor' = [editor EXCEPT ![e] = q]
    <3>1. Talks
      BY <1>0, <2>2, <2>3 DEF Talks
    <3>2. \A x \in Editors : editor[x] # None => editor'[x] = editor[x]
      BY <1>0, <2>2, <2>3
    <3>3. QED
      BY <3>1, <3>2 DEF Reports
  <2>4. CASE \E o \in {"ErrNotFound", "ErrValidation", "current"} : Tell(e, o)
    BY <1>6, <2>2, <2>4
  <2>5. QED
    BY <2>1, <2>3, <2>4 DEF Ask
<1>8. CASE \E e \in Editors : CheckBranch(e) \/ CancelEdit(e)
  BY <1>6, <1>8 DEF CheckBranch, CancelEdit
<1>9. ASSUME NEW e \in Editors, Write(e)
      PROVE  /\ \/ /\ Talks \/ ImportStep
                   /\ \A x \in Editors : ~Reports(x, "ok")
                \/ \E w \in FreshRows(editor[e]) : Edits(e, w)
             /\ \A x \in Editors : Reports(x, "ErrTaxIdentifierConflict") =>
                  Taken(editor[x].to, editor[x].row)
  <2> DEFINE q == editor[e]
  <2>1. PICK r \in FreshRows(q) :
          \/ /\ Conflict(q, r) /\ Tell(e, "ErrTaxIdentifierConflict")
             /\ UNCHANGED <<importVars, recordVars>>
          \/ Tell(e, "ok") /\ Edits(e, r)
    BY <1>9 DEF Write, Edits, Tell
  <2>2. CASE /\ Conflict(q, r) /\ Tell(e, "ErrTaxIdentifierConflict")
             /\ UNCHANGED <<importVars, recordVars>>
    <3>1. Talks
      BY <1>0, <2>2 DEF Tell, Talks
    <3>2. \A x \in Editors : ~Reports(x, "ok")
      BY <1>1, <2>2
    <3>3. q # None
      BY <1>9 DEF Write
    <3>4. Taken(q.to, q.row)
      <4>1. /\ q \in Requests /\ q.to # Blank
            /\ suppliers \subseteq SupplierIds /\ None \notin SupplierIds
        BY <1>0, <3>3, DocumentAssumption DEF MasterInv, ImportInv, TypeOK
      <4>2. /\ q.op \in {"create", "update", "activate", "deactivate",
                         "add branch", "add contact"}
            /\ q.op = "create" => q.row = None
        BY <4>1, RequestFacts
      <4>3. r \in SupplierIds /\ ~Lifecycle(q) /\ Taken(q.to, r)
        BY <2>2 DEF Conflict
      <4>4. q.row = None \/ q.row = r
        BY <4>2, <4>3, RowAssumption DEF FreshRows
      <4> HIDE DEF q
      <4>5. QED
        BY <4>1, <4>3, <4>4 DEF Taken
    <3>5. QED
      BY <1>1, <2>2, <3>1, <3>2, <3>4
  <2>3. CASE Tell(e, "ok") /\ Edits(e, r)
    <3>1. \A x \in Editors : ~Reports(x, "ErrTaxIdentifierConflict")
      BY <1>1, <2>3
    <3>2. QED
      BY <2>3, <3>1
  <2>4. QED
    BY <2>1, <2>2, <2>3
<1>10. QED
  BY <1>4, <1>5, <1>7, <1>8, <1>9 DEF MasterNext

\* What a stored request does to the records there are: it is applied to its
\* own as it is, and the others stay.
LEMMA EditsApply ==
  ASSUME MasterInv, NEW e \in Editors, NEW w \in FreshRows(editor[e]), Edits(e, w),
         NEW r \in Rows, Known(r)
  PROVE  Record(r)' = IF editor[e].row = r THEN Applied(editor[e], Record(r)) ELSE Record(r)
<1> DEFINE q == editor[e]
<1>0. /\ q \in Requests /\ q.to # Blank /\ q # None /\ None \notin Rows
      /\ taxIdentifier \in [SupplierIds -> TaxIds \cup {None}]
      /\ contactOf \in [Contacts -> Contact \cup {None}]
  BY RowAssumption, DocumentAssumption DEF Edits, MasterInv, MasterTypes, ImportInv, TypeOK, Rows
<1>1. SupplierIds \cap Contacts = {} /\ Rows = SupplierIds \cup Branches \cup Contacts
  BY RowAssumption DEF Rows
<1>2. ASSUME SetDetails(w, q), w \in SupplierIds \cup Contacts
      PROVE  Details(r)' = IF r = w THEN q.to ELSE Details(r)
  <2>1. CASE w \in SupplierIds
    <3>1. /\ taxIdentifier' = [taxIdentifier EXCEPT ![w] = q.to]
          /\ contactOf' = contactOf
      BY <1>2, <2>1 DEF SetDetails
    <3>2. /\ taxIdentifier'[w] = q.to
          /\ \A x \in SupplierIds \ {w} : taxIdentifier'[x] = taxIdentifier[x]
      BY <1>0, <2>1, <3>1
    <3> HIDE DEF q
    <3>3. QED
      BY <2>1, <3>1, <3>2 DEF Details
  <2>2. CASE w \in Contacts
    <3>1. /\ contactOf' = [contactOf EXCEPT ![w] =
               [supplier |-> q.supplier, branch |-> q.to]]
          /\ taxIdentifier' = taxIdentifier
      BY <1>1, <1>2, <2>2 DEF SetDetails
    <3>2. /\ contactOf'[w].branch = q.to
          /\ \A x \in Contacts \ {w} : contactOf'[x] = contactOf[x]
      BY <1>0, <2>2, <3>1
    <3> HIDE DEF q
    <3>3. QED
      BY <1>1, <2>2, <3>1, <3>2 DEF Details
  <2>3. QED
    BY <1>2, <2>1, <2>2
<1>3. ASSUME SetDetails(w, q), w \notin SupplierIds \cup Contacts
      PROVE  Details(r)' = Details(r)
  BY <1>3 DEF SetDetails, Details
<1>4. CASE Lifecycle(q) /\ SetActive(e, w)
  <2>1. q.op \in {"activate", "deactivate"} /\ w = q.row
    BY <1>4 DEF Lifecycle, FreshRows
  <2>2. /\ active' = IF q.op = "activate" THEN active \cup {w} ELSE active \ {w}
        /\ UNCHANGED <<taxIdentifier, contactOf>>
    BY <1>4 DEF SetActive
  <2>3. Details(r)' = Details(r)
    BY <2>2 DEF Details
  <2> HIDE DEF q
  <2>4. /\ r = w => (r \in active' <=> q.op = "activate")
        /\ r # w => (r \in active' <=> r \in active)
    BY <2>1, <2>2
  <2>5. CASE r = w
    <3>1. Record(r)' = [details |-> Details(r), active |-> (q.op = "activate")]
      BY <2>3, <2>4, <2>5 DEF Record
    <3>2. Applied(q, Record(r)) = [details |-> Details(r), active |-> (q.op = "activate")]
      BY <1>4 DEF Applied, Record
    <3>3. QED
      BY <2>1, <2>5, <3>1, <3>2 DEF q
  <2>6. CASE r # w
    BY <2>1, <2>3, <2>4, <2>6 DEF Record, q
  <2>7. QED
    BY <2>5, <2>6
<1>5. CASE q.op = "update" /\ UpdateDetails(e, w)
  <2>1. w = q.row /\ SetDetails(w, q) /\ active' = active
    BY <1>5 DEF UpdateDetails, FreshRows
  <2>2. w \in Branches => q.to = None
    BY <1>0, <1>5, <2>1, RequestFacts
  <2>3. ~Lifecycle(q)
    BY <1>5 DEF Lifecycle
  <2>4. CASE r = w
    <3>1. Details(r)' = q.to
      <4>1. CASE w \in SupplierIds \cup Contacts
        BY <1>2, <2>1, <2>4, <4>1
      <4>2. CASE w \notin SupplierIds \cup Contacts
        <5>1. w \in Branches
          BY <1>1, <2>4, <4>2
        <5>2. Details(r)' = None
          BY <2>4, <4>2 DEF Details
        <5>3. QED
          BY <2>2, <5>1, <5>2
      <4>3. QED
        BY <4>1, <4>2
    <3>2. Record(r)' = [details |-> q.to, active |-> r \in active]
      BY <2>1, <3>1 DEF Record
    <3> HIDE DEF q
    <3>3. Applied(q, Record(r)) = [details |-> q.to, active |-> r \in active]
      BY <2>3 DEF Applied, Record
    <3>4. QED
      BY <2>1, <2>4, <3>2, <3>3 DEF q
  <2>5. CASE r # w
    <3>1. Details(r)' = Details(r)
      BY <1>2, <1>3, <2>1, <2>5
    <3>2. QED
      BY <2>1, <2>5, <3>1 DEF Record
  <2>6. QED
    BY <2>4, <2>5
<1>6. CASE q.row = None /\ InsertRow(e, w)
  <2>1. SetDetails(w, q) /\ active' = active \cup {w}
    BY <1>6 DEF InsertRow
  <2>2. w # r /\ q.row # r
    BY <1>0, <1>6, FreshIsUnknown DEF Known
  <2>3. Details(r)' = Details(r)
    BY <1>2, <1>3, <2>1, <2>2
  <2>4. r \in active' <=> r \in active
    BY <2>1, <2>2
  <2>5. QED
    BY <2>2, <2>3, <2>4 DEF Record
<1>7. QED
  BY <1>4, <1>5, <1>6 DEF Edits

\* An import and a caller who is only answered leave the records there are.
LEMMA OtherStepsKeepRecords ==
  ASSUME MasterInv, Talks \/ ImportStep, NEW r \in Rows, Known(r)
  PROVE  Record(r)' = Record(r)
<1>1. CASE Talks
  BY <1>1 DEF Talks, recordVars, Record, Details
<1>2. CASE ImportStep
  <2>1. /\ active' = active \cup (suppliers' \ suppliers) /\ contactOf' = contactOf
        /\ suppliers \subseteq SupplierIds
        /\ taxIdentifier \in [SupplierIds -> TaxIds \cup {None}]
    BY <1>2 DEF ImportStep, MasterInv, ImportInv, TypeOK
  <2>2. r \in SupplierIds => r \in suppliers
    BY RowAssumption DEF Known, Found
  <2>3. /\ suppliers' \subseteq SupplierIds
        /\ \A v \in suppliers : taxIdentifier'[v] = taxIdentifier[v]
    BY <1>2, <2>1, ImportEffects
  <2>4. Details(r)' = Details(r)
    BY <2>1, <2>2, <2>3 DEF Details
  <2>5. r \in active' <=> r \in active
    BY <2>1, <2>2, <2>3
  <2>6. QED
    BY <2>4, <2>5 DEF Record
<1>3. QED
  BY <1>1, <1>2

\* A request that is stored is applied to the record as it is then, whatever
\* was stored since its read, and nothing else changes a record: edits and
\* lifecycle changes leave each other alone, and of two edits the later one
\* replaces the earlier, which is lost without a conflict being reported
\* (suppliercore/doc.go:59-65).
THEOREM LastWriterSafety == MasterSpec => LastWriteWins
<1>1. ASSUME MasterInv, [MasterNext]_allVars, NEW r \in Rows, Known(r)
      PROVE  \/ \E e \in Editors :
                  Accepts(e, r) /\ Record(r)' = Applied(editor[e], Record(r))
             \/ (\A e \in Editors : ~Accepts(e, r)) /\ Record(r)' = Record(r)
  <2>1. CASE (Talks \/ ImportStep) /\ \A e \in Editors : ~Reports(e, "ok")
    BY <1>1, <2>1, OtherStepsKeepRecords DEF Accepts
  <2>2. ASSUME NEW e \in Editors, NEW w \in FreshRows(editor[e]), Edits(e, w)
        PROVE  \/ Accepts(e, r) /\ Record(r)' = Applied(editor[e], Record(r))
               \/ (\A x \in Editors : ~Accepts(x, r)) /\ Record(r)' = Record(r)
    <3>1. /\ told' = <<e, "ok">> /\ editor[e] # None
          /\ editor' = [editor EXCEPT ![e] = None]
          /\ editor \in [Editors -> Requests \cup {None}]
      BY <1>1, <2>2 DEF Edits, MasterInv, MasterTypes
    <3>2. Reports(e, "ok") /\ \A x \in Editors \ {e} : ~Reports(x, "ok")
      BY <3>1 DEF Reports
    <3>3. Record(r)' = IF editor[e].row = r THEN Applied(editor[e], Record(r)) ELSE Record(r)
      BY <1>1, <2>2, EditsApply
    <3>4. QED
      BY <3>2, <3>3 DEF Accepts
  <2>3. QED
    BY <1>1, <2>1, <2>2, WritesAnswer
<1>2. ASSUME MasterInv, [MasterNext]_allVars
      PROVE  /\ \A r \in Rows : Known(r) =>
                  \/ \E e \in Editors :
                       Accepts(e, r) /\ Record(r)' = Applied(editor[e], Record(r))
                  \/ (\A e \in Editors : ~Accepts(e, r)) /\ Record(r)' = Record(r)
             /\ \A e \in Editors : Reports(e, "ErrTaxIdentifierConflict") =>
                  Taken(editor[e].to, editor[e].row)
  BY <1>1, <1>2, WritesAnswer
<1>3. QED
  BY <1>2, MasterSafety, PTL DEF MasterSpec, LastWriteWins

----------------------------------------------------------------------------
(***************************************************************************)
(* The pages of a search show all of its rows.                             *)
(***************************************************************************)
\* Consecutive pages begin where the one before ends, and enough pages reach
\* any length.
LEMMA PageOffsets ==
  ASSUME NEW size \in Nat \ {0}
  PROVE  /\ \A n \in Nat : n * size \in Nat /\ (n + 1) * size = n * size + size
         /\ \A n \in Nat : n <= n * size
<1>1. \A n \in Nat : n * size \in Nat
  OBVIOUS
<1>2. \A n \in Nat : (n + 1) * size = n * size + size
  OBVIOUS
<1>3. \A n \in Nat : n <= n * size
  OBVIOUS
<1>4. QED
  BY <1>1, <1>2, <1>3

\* The smaller of two numbers.
LEMMA MinOfTwo ==
  ASSUME NEW x \in Int, NEW y \in Int
  PROVE  Min({x, y}) = IF x <= y THEN x ELSE y
<1> DEFINE m == IF x <= y THEN x ELSE y
<1>1. m \in {x, y} /\ \A z \in {x, y} : m <= z
  OBVIOUS
<1>2. \A k \in {x, y} : (\A z \in {x, y} : k <= z) => k = m
  OBVIOUS
<1> HIDE DEF m
<1>3. Min({x, y}) = m
  BY <1>1, <1>2 DEF Min
<1>4. QED
  BY <1>3 DEF m

\* The rows of a search are a sequence of suppliers.
LEMMA ListedIsSequence ==
  ASSUME MasterInv, NEW scope
  PROVE  Listed(scope) \in Seq(SupplierIds)
<1> DEFINE S == {v \in suppliers : scope = "ALL" \/ (v \in active <=> scope = "ACTIVE")}
<1>1. S \subseteq SupplierIds
  BY DEF MasterInv, ImportInv, TypeOK
<1>2. IsFiniteSet(S)
  BY <1>1, PageAssumption, FS_Subset
<1> HIDE DEF S
<1>3. Cardinality(S) \in Nat
  BY <1>2, FS_CardinalityType
<1>4. PICK f : f \in Bijection(1 .. Cardinality(S), S)
  BY <1>2, FS_CardinalityType DEF ExistsBijection
<1>5. f \in [1 .. Cardinality(S) -> S] /\ IsInjective(f)
  BY <1>4 DEF Bijection, Injection, IsInjective
<1>6. SetToSeq(S) \in [1 .. Cardinality(S) -> S]
  BY <1>5 DEF SetToSeq
<1>7. SetToSeq(S) \in Seq(SupplierIds)
  BY <1>1, <1>3, <1>6
<1>8. QED
  BY <1>7 DEF Listed, S

\* A bounded set of numbers has a largest one.
LEMMA LargestOf ==
  ASSUME NEW S \in SUBSET Nat, S # {}, NEW n \in Nat, \A x \in S : x <= n
  PROVE  \E m \in S : \A x \in S : x <= m
<1> DEFINE T == {n - x : x \in S}
           R == OpToRel(<, Nat)
<1>1. T \subseteq Nat /\ T # {}
  <2>1. \A x \in S : n - x \in Nat
    OBVIOUS
  <2>2. PICK x \in S : TRUE
    OBVIOUS
  <2>3. n - x \in T
    BY <2>2
  <2>4. QED
    BY <2>1, <2>3
<1>2. IsWellFoundedOn(R, Nat)
  BY NatLessThanWellFounded
<1>3. \A x, y \in Nat : <<x, y>> \in R <=> x < y
  BY DEF OpToRel
<1> HIDE DEF T, R
<1>4. PICK y \in T : \A z \in T : <<z, y>> \notin R
  BY <1>1, <1>2, WFMin
<1>5. PICK m \in S : y = n - m
  BY DEF T
<1>6. ASSUME NEW x \in S
      PROVE  x <= m
  <2>1. n - x \in T
    BY DEF T
  <2>2. ~(n - x < n - m)
    BY <1>1, <1>3, <1>4, <1>5, <2>1
  <2>3. QED
    BY <2>2
<1>7. QED
  BY <1>5, <1>6

\* A page from an offset within the rows: the rows after the offset, as many as
\* a page holds, and a next page when there are more.
LEMMA PageContent ==
  ASSUME MasterInv, NEW scope, NEW limit \in Nat, NEW offset \in Nat,
         offset <= Len(Listed(scope))
  PROVE  LET rows == Listed(scope)
             size == effectiveLimit(limit)
             page == SearchSuppliers(scope, limit, offset)
         IN  /\ size \in Nat \ {0}
             /\ page.next <=> offset + size < Len(rows)
             /\ page.rows = IF page.next THEN SubSeq(rows, offset + 1, offset + size)
                            ELSE SubSeq(rows, offset + 1, Len(rows))
<1> DEFINE rows == Listed(scope)
           size == effectiveLimit(limit)
           last == IF offset + (size + 1) <= Len(rows) THEN offset + (size + 1) ELSE Len(rows)
           asked == SubSeq(rows, offset + 1, last)
           kept == IF size <= Len(asked) THEN size ELSE Len(asked)
<1>1. rows \in Seq(SupplierIds) /\ Len(rows) \in Nat
  BY ListedIsSequence
<1>2. size \in Nat \ {0}
  BY PageAssumption DEF effectiveLimit
<1>3. SearchRows(scope, size + 1, offset) = asked
  <2>1. Min({offset + (size + 1), Len(rows)}) = last
    BY <1>1, <1>2, MinOfTwo
  <2>2. QED
    BY <2>1 DEF SearchRows
<1> HIDE DEF rows, size
<1>4. /\ asked \in Seq(SupplierIds)
      /\ Len(asked) = last - offset
      /\ \A i \in 1 .. last - offset : asked[i] = rows[offset + i]
  <2>1. last \in Int /\ offset + 1 \in Int /\ last <= Len(rows) /\ offset <= last
    BY <1>1, <1>2 DEF rows
  <2>2. \A i \in offset + 1 .. last : rows[i] \in SupplierIds
    BY <1>1, <2>1
  <2> HIDE DEF last
  <2>3. /\ asked \in Seq(SupplierIds)
        /\ Len(asked) = IF offset + 1 <= last THEN last - (offset + 1) + 1 ELSE 0
        /\ \A i \in 1 .. last - (offset + 1) + 1 : asked[i] = rows[offset + 1 + i - 1]
    BY <2>1, <2>2, SubSeqProperties
  <2>4. QED
    BY <2>1, <2>3
<1>5. Min({size, Len(asked)}) = kept
  <2>1. Len(asked) \in Int /\ size \in Int
    BY <1>1, <1>2, <1>4
  <2> HIDE DEF asked
  <2>2. QED
    BY <2>1, MinOfTwo
<1>6. SearchSuppliers(scope, limit, offset) =
        [rows |-> SubSeq(asked, 1, kept), next |-> Len(asked) > size]
  BY <1>3, <1>5 DEF SearchSuppliers, size
<1>7. (Len(asked) > size) <=> offset + size < Len(rows)
  BY <1>1, <1>2, <1>4
<1> HIDE DEF asked
<1>8. SubSeq(asked, 1, kept) = IF Len(asked) > size THEN SubSeq(rows, offset + 1, offset + size)
                               ELSE SubSeq(rows, offset + 1, Len(rows))
  <2> DEFINE upto == IF Len(asked) > size THEN offset + size ELSE Len(rows)
  <2>1. /\ kept \in Nat /\ upto = offset + kept /\ upto <= last
        /\ upto \in Nat /\ last \in Nat /\ last <= Len(rows) /\ kept <= last - offset
    BY <1>1, <1>2, <1>4
  <2> HIDE DEF kept, upto, last
  <2>2. SubSeq(asked, 1, kept) = [i \in 1 .. kept |-> asked[i]]
    BY <1>4, <2>1
  <2>3. SubSeq(rows, offset + 1, upto) = [i \in 1 .. kept |-> rows[offset + i]]
    BY <1>1, <2>1
  <2>4. \A i \in 1 .. kept : asked[i] = rows[offset + i]
    BY <1>1, <1>4, <2>1
  <2>5. SubSeq(asked, 1, kept) = SubSeq(rows, offset + 1, upto)
    BY <2>2, <2>3, <2>4
  <2>6. QED
    BY <2>5 DEF upto
<1> HIDE DEF kept
<1> DEFINE page == SearchSuppliers(scope, limit, offset)
<1>9. (page.next <=> Len(asked) > size) /\ page.rows = SubSeq(asked, 1, kept)
  <2> DEFINE p == SubSeq(asked, 1, kept)
             b == Len(asked) > size
  <2>1. page = [rows |-> p, next |-> b] /\ b \in BOOLEAN
    BY <1>6
  <2> HIDE DEF page, p, b
  <2>2. page.rows = p
    BY <2>1
  <2>3. page.next = b
    BY <2>1
  <2>4. QED
    BY <2>2, <2>3 DEF p, b
<1>10. /\ size \in Nat \ {0}
       /\ page.next <=> offset + size < Len(rows)
       /\ page.rows = IF page.next THEN SubSeq(rows, offset + 1, offset + size)
                      ELSE SubSeq(rows, offset + 1, Len(rows))
  <2> HIDE DEF page
  <2>1. QED
    BY <1>2, <1>7, <1>8, <1>9
<1>11. QED
  BY <1>10 DEF rows, size

\* A reader who takes the rows page by page until none are left ends with all
\* of them: were a page from which the walk misses some of the rest, there
\* would be a last one, and it is neither the last page nor one before it.
LEMMA WalkListsAll ==
  ASSUME NEW S, NEW rows \in Seq(S), NEW size \in Nat \ {0}, NEW walk,
         \A n \in Nat : n * size <= Len(rows) =>
           walk[n] = IF n * size + size < Len(rows)
                     THEN SubSeq(rows, n * size + 1, n * size + size) \o walk[n + 1]
                     ELSE SubSeq(rows, n * size + 1, Len(rows))
  PROVE  walk[0] = rows
<1> DEFINE rest(n) == SubSeq(rows, n * size + 1, Len(rows))
           bad == {n \in Nat : n * size <= Len(rows) /\ walk[n] # rest(n)}
<1>0. Len(rows) \in Nat
  OBVIOUS
<1>1. ASSUME NEW n \in bad
      PROVE  n + 1 \in bad
  <2>1. /\ n \in Nat /\ n * size \in Nat /\ n * size <= Len(rows) /\ walk[n] # rest(n)
        /\ n + 1 \in Nat /\ (n + 1) * size = n * size + size
    BY PageOffsets
  <2>2. n * size + size < Len(rows)
    BY <2>1
  <2>3. walk[n] = SubSeq(rows, n * size + 1, n * size + size) \o walk[n + 1]
    BY <2>1, <2>2
  <2>4. SubSeq(rows, n * size + 1, n * size + size) \o rest(n + 1) = rest(n)
    <3> DEFINE m == n * size + 1
               k == n * size + size
    <3>1. m \in 1 .. Len(rows) + 1 /\ k \in m - 1 .. Len(rows) /\ Len(rows) \in k .. Len(rows)
      BY <1>0, <2>1, <2>2
    <3>2. rest(n + 1) = SubSeq(rows, k + 1, Len(rows))
      BY <2>1
    <3> HIDE DEF m, k
    <3>3. SubSeq(rows, m, k) \o SubSeq(rows, k + 1, Len(rows)) = SubSeq(rows, m, Len(rows))
      BY <3>1, ConcatAdjacentSubSeq
    <3>4. QED
      BY <3>2, <3>3 DEF m, k
  <2>5. walk[n + 1] # rest(n + 1)
    BY <2>1, <2>3, <2>4
  <2>6. QED
    BY <1>0, <2>1, <2>2, <2>5
<1>2. ASSUME NEW n \in bad
      PROVE  n <= Len(rows)
  <2>1. n \in Nat /\ n <= n * size /\ n * size \in Nat /\ n * size <= Len(rows)
    BY PageOffsets
  <2> DEFINE x == n * size
  <2>2. n \in Nat /\ n <= x /\ x \in Nat /\ x <= Len(rows)
    BY <2>1
  <2> HIDE DEF x
  <2>3. QED
    BY <1>0, <2>2
<1>3. bad = {}
  <2>1. SUFFICES ASSUME bad # {} PROVE FALSE
    OBVIOUS
  <2>2. bad \in SUBSET Nat
    OBVIOUS
  <2> HIDE DEF bad
  <2>3. PICK m \in bad : \A x \in bad : x <= m
    BY <1>0, <1>2, <2>1, <2>2, LargestOf
  <2>4. m + 1 \in bad /\ m \in Nat
    BY <1>1, <2>2
  <2>5. QED
    BY <2>3, <2>4
<1>4. 0 \in Nat /\ 0 * size = 0 /\ 0 * size <= Len(rows)
  BY <1>0
<1>5. walk[0] = rest(0)
  BY <1>3, <1>4
<1>6. rest(0) = rows
  BY <1>4, SubSeqFull
<1>7. QED
  BY <1>5, <1>6

\* A walk over pages of which some have more after them.
IsWalk(walk, more, shown) ==
  walk = [n \in Nat |-> IF more[n] THEN shown[n] \o walk[n + 1] ELSE shown[n]]

\* Pages of a size over some rows.
ArePages(rows, size, more, shown) ==
  \A n \in Nat :
    /\ n * size <= Len(rows) =>
         /\ more[n] <=> n * size + size < Len(rows)
         /\ shown[n] = IF more[n] THEN SubSeq(rows, n * size + 1, n * size + size)
                       ELSE SubSeq(rows, n * size + 1, Len(rows))
    /\ n * size > Len(rows) => ~more[n]

\* Such a walk exists, so the function that collects the pages is one.
LEMMA WalkExists ==
  ASSUME NEW S, NEW rows \in Seq(S), NEW size \in Nat \ {0}, NEW more, NEW shown,
         ArePages(rows, size, more, shown)
  PROVE  \E walk : IsWalk(walk, more, shown)
<1> DEFINE rest(n) == SubSeq(rows, n * size + 1, Len(rows))
           w == [n \in Nat |-> IF more[n] THEN rest(n) ELSE shown[n]]
<1>0. Len(rows) \in Nat
  OBVIOUS
<1>1. ASSUME NEW n \in Nat, more[n]
      PROVE  rest(n) = shown[n] \o w[n + 1]
  <2> DEFINE m == n * size + 1
             k == n * size + size
  <2>1. /\ n * size \in Nat /\ n + 1 \in Nat /\ (n + 1) * size = k /\ k \in Nat
    BY PageOffsets
  <2>2. k < Len(rows) /\ n * size <= Len(rows)
    <3> DEFINE x == n * size
    <3>1. x \in Nat /\ ~(x > Len(rows))
      BY <1>1, <2>1 DEF ArePages
    <3>2. x <= Len(rows)
      <4> HIDE DEF x
      <4> QED BY <1>0, <3>1
    <3>3. QED
      BY <1>1, <3>2 DEF ArePages
  <2>3. shown[n] = SubSeq(rows, m, k)
    BY <1>1, <2>2 DEF ArePages
  <2>4. w[n + 1] = SubSeq(rows, k + 1, Len(rows))
    <3>1. (n + 1) * size <= Len(rows)
      BY <1>0, <2>1, <2>2
    <3>2. shown[n + 1] = rest(n + 1) \/ more[n + 1]
      BY <2>1, <3>1 DEF ArePages
    <3>3. w[n + 1] = rest(n + 1)
      BY <2>1, <3>2
    <3>4. QED
      BY <2>1, <3>3
  <2>5. m \in 1 .. Len(rows) + 1 /\ k \in m - 1 .. Len(rows) /\ Len(rows) \in k .. Len(rows)
    BY <1>0, <2>1, <2>2
  <2>6. rest(n) = SubSeq(rows, m, Len(rows))
    OBVIOUS
  <2> HIDE DEF m, k, w, rest
  <2>7. SubSeq(rows, m, k) \o SubSeq(rows, k + 1, Len(rows)) = SubSeq(rows, m, Len(rows))
    BY <2>5, ConcatAdjacentSubSeq
  <2>8. QED
    BY <2>3, <2>4, <2>6, <2>7
<1>2. w = [n \in Nat |-> IF more[n] THEN shown[n] \o w[n + 1] ELSE shown[n]]
  BY <1>1
<1>3. QED
  BY <1>2 DEF IsWalk

\* Following the pages collects the rows of the search.
LEMMA CollectedIsListed ==
  ASSUME MasterInv, NEW scope, NEW limit \in Nat
  PROVE  Collected(scope, limit) = Listed(scope)
<1> DEFINE rows == Listed(scope)
           size == effectiveLimit(limit)
           page(n) == SearchSuppliers(scope, limit, n * size)
           walk[n \in Nat] == IF page(n).next THEN page(n).rows \o walk[n + 1] ELSE page(n).rows
           more == [n \in Nat |-> page(n).next]
           shown == [n \in Nat |-> page(n).rows]
<1>1. Collected(scope, limit) = walk[0]
  BY DEF Collected
<1>2. walk = CHOOSE w : w = [n \in Nat |-> IF page(n).next THEN page(n).rows \o w[n + 1]
                                           ELSE page(n).rows]
  BY DEF walk
<1>3. rows \in Seq(SupplierIds) /\ size \in Nat \ {0} /\ Len(rows) \in Nat
  BY ListedIsSequence, PageAssumption DEF effectiveLimit
<1>4. \A n \in Nat : n * size \in Nat
  BY <1>3, PageOffsets
<1>5. ASSUME NEW n \in Nat, n * size <= Len(rows)
      PROVE  /\ page(n).next <=> n * size + size < Len(rows)
             /\ page(n).rows = IF page(n).next THEN SubSeq(rows, n * size + 1, n * size + size)
                               ELSE SubSeq(rows, n * size + 1, Len(rows))
  BY <1>4, <1>5, PageContent
<1>6. ASSUME NEW n \in Nat, n * size > Len(rows)
      PROVE  ~page(n).next
  <2> DEFINE offset == n * size
             last == IF offset + (size + 1) <= Len(rows) THEN offset + (size + 1) ELSE Len(rows)
             asked == SubSeq(rows, offset + 1, last)
  <2>1. offset \in Nat /\ offset > Len(rows)
    BY <1>4, <1>6
  <2> HIDE DEF offset, rows, size
  <2>2. last = Len(rows) /\ last < offset + 1 /\ Min({offset + (size + 1), Len(rows)}) = last
    BY <1>3, <2>1, MinOfTwo
  <2>3. asked = <<>>
    BY <1>3, <2>1, <2>2, SubSeqEmpty
  <2>4. SearchRows(scope, size + 1, offset) = <<>>
    BY <2>2, <2>3 DEF SearchRows, rows
  <2>5. page(n) = SearchSuppliers(scope, limit, offset)
    BY DEF offset
  <2>6. page(n).next <=> Len(<<>>) > size
    BY <2>4, <2>5 DEF SearchSuppliers, size
  <2>7. QED
    BY <1>3, <2>6
<1> HIDE DEF rows, size, page, walk
<1>7. ArePages(rows, size, more, shown)
  BY <1>5, <1>6 DEF ArePages
<1> HIDE DEF more, shown
<1>8. PICK w : IsWalk(w, more, shown)
  BY <1>3, <1>7, WalkExists
<1>9. walk = [n \in Nat |-> IF page(n).next THEN page(n).rows \o walk[n + 1] ELSE page(n).rows]
  <2>1. w = [n \in Nat |-> IF page(n).next THEN page(n).rows \o w[n + 1] ELSE page(n).rows]
    BY <1>8 DEF IsWalk, more, shown
  <2>2. QED
    BY <1>2, <2>1
<1>10. \A n \in Nat : n * size <= Len(rows) =>
         walk[n] = IF n * size + size < Len(rows)
                   THEN SubSeq(rows, n * size + 1, n * size + size) \o walk[n + 1]
                   ELSE SubSeq(rows, n * size + 1, Len(rows))
  <2>1. \A n \in Nat : walk[n] = IF page(n).next THEN page(n).rows \o walk[n + 1] ELSE page(n).rows
    BY <1>9
  <2>2. QED
    BY <1>5, <2>1
<1>11. walk[0] = rows
  BY <1>3, <1>10, WalkListsAll
<1>12. QED
  BY <1>1, <1>11 DEF rows

\* Following the pages of a search to the last shows every supplier of the
\* scope once, for every page size and in every state (SearchSuppliers,
\* effectiveLimit, trimToPage).
THEOREM PagesAreComplete == MasterSpec => []PagesListEverything
<1>1. MasterInv => PagesListEverything
  <2>1. \A limit \in 0 .. Cardinality(SupplierIds) : limit \in Nat
    BY PageAssumption, FS_CardinalityType
  <2>2. QED
    BY <2>1, CollectedIsListed DEF PagesListEverything
<1>2. QED
  BY <1>1, MasterSafety, PTL
============================================================================
