--------------------------- MODULE PurchaseImport ---------------------------
(***************************************************************************)
(* Concurrent import of CFDI purchase documents. An import resolves the    *)
(* issuer to a supplier (registering an unknown one in a transaction of    *)
(* its own), checks the branch, builds the draft and then stores purchase, *)
(* lines and product identities in one PostgreSQL transaction (READ        *)
(* COMMITTED). The insert of the purchase waits for an uncommitted insert  *)
(* of the same fiscal UUID, the upsert of a product for the transaction    *)
(* that last wrote its row; both hold until the transaction ends, so what  *)
(* the transaction wrote is part of the action that commits it.            *)
(***************************************************************************)
EXTENDS Naturals, Sequences, FiniteSets

CONSTANTS
  Sessions,     \* concurrent imports
  Documents,    \* CFDI documents clients may send
  Uuid,         \* the fiscal UUID of each document
  Issuer,       \* the tax identifier of each document's issuer
  Header,       \* series, folio, currency, date and totals of each document
  Skus,         \* supplier SKUs
  Concepts,     \* each document's lines, in order: a SKU, or NoSku
  Usable,       \* "ok", or what makes the document unusable
  SupplierIds,  \* bound: the supplier rows that may exist
  Branches,     \* bound: the branch rows that may exist
  FirstSuppliers,\* suppliers that exist already, without a tax identifier
  NoSku,
  None          \* a nil identifier, a row that does not exist

Uuids  == {Uuid[d] : d \in Documents}
TaxIds == {Issuer[d] : d \in Documents}

ASSUME DocumentAssumption ==
  /\ DOMAIN Uuid = Documents /\ DOMAIN Issuer = Documents
  /\ DOMAIN Header = Documents
  /\ Concepts \in [Documents -> Seq(Skus \cup {NoSku})]
  /\ Usable \in [Documents -> {"no stamp", "bad amount", "ok"}]
  /\ FirstSuppliers \subseteq SupplierIds
  /\ NoSku \notin Skus
  /\ None \notin TaxIds \cup SupplierIds \cup Branches \cup Sessions

VARIABLES
  suppliers,      \* supplier rows
  taxIdentifier,  \* tax_identifier of each, None for null
  branchOf,       \* the supplier of each branch row
  purchases,      \* the stored purchase of each fiscal UUID, with its lines
  products,       \* product rows: <<supplier, SKU>>
  lastSeen,       \* the document each product's description comes from
  uuidClaim,      \* the transaction with an uncommitted insert of the UUID
  productLock,    \* the transaction that wrote the product row
  pc, doc, branch, \* where each import is, and its request
  supplier,       \* the supplier it resolved
  registered,     \* the supplier row it created, if any
  lineNo,         \* the concept it stores next
  reply           \* the last answer its client received

supplierVars == <<suppliers, taxIdentifier, branchOf>>
storeVars    == <<purchases, products, lastSeen>>
lockVars     == <<uuidClaim, productLock>>
requestVars  == <<doc, branch>>
vars == <<supplierVars, storeVars, lockVars, requestVars, pc, supplier,
          registered, lineNo, reply>>

ProductKeys == SupplierIds \X Skus

StoredPurchase ==
  [doc : Documents, supplier : SupplierIds, branch : Branches \cup {None},
   lines : Seq(ProductKeys \cup {None})]

\* A nil identifier or a missing row is no document, product or purchase.
ASSUME NilAssumption ==
  None \notin Documents \cup ProductKeys \cup StoredPurchase

Init ==
  /\ suppliers = FirstSuppliers
  /\ taxIdentifier = [v \in SupplierIds |-> None]
  /\ branchOf = [b \in Branches |-> None]
  /\ purchases = [u \in Uuids |-> None]
  /\ products = {}
  /\ lastSeen = [k \in ProductKeys |-> None]
  /\ uuidClaim = [u \in Uuids |-> None]
  /\ productLock = [k \in ProductKeys |-> None]
  /\ pc = [s \in Sessions |-> "idle"]
  /\ doc = [s \in Sessions |-> None]
  /\ branch = [s \in Sessions |-> None]
  /\ supplier = [s \in Sessions |-> None]
  /\ registered = [s \in Sessions |-> None]
  /\ lineNo = [s \in Sessions |-> 1]
  /\ reply = [s \in Sessions |-> "none"]

----------------------------------------------------------------------------
\* Mutant: an import that ends leaves its transaction open.
AnswerWithoutRollback(s, answer) ==
  /\ pc' = [pc EXCEPT ![s] = "idle"]
  /\ doc' = [doc EXCEPT ![s] = None]
  /\ branch' = [branch EXCEPT ![s] = None]
  /\ supplier' = [supplier EXCEPT ![s] = None]
  /\ registered' = [registered EXCEPT ![s] = None]
  /\ lineNo' = [lineNo EXCEPT ![s] = 1]
  /\ reply' = [reply EXCEPT ![s] = answer]
  /\ UNCHANGED lockVars

\* The import ends and its transaction, if any, releases what it holds.
Answer(s, answer) ==
  /\ uuidClaim' = [u \in Uuids |->
                     IF uuidClaim[u] = s THEN None ELSE uuidClaim[u]]
  /\ productLock' = [k \in ProductKeys |->
                       IF productLock[k] = s THEN None ELSE productLock[k]]
  /\ pc' = [pc EXCEPT ![s] = "idle"]
  /\ doc' = [doc EXCEPT ![s] = None]
  /\ branch' = [branch EXCEPT ![s] = None]
  /\ supplier' = [supplier EXCEPT ![s] = None]
  /\ registered' = [registered EXCEPT ![s] = None]
  /\ lineNo' = [lineNo EXCEPT ![s] = 1]
  /\ reply' = [reply EXCEPT ![s] = answer]

Refuse(s, error) == Answer(s, error) /\ UNCHANGED <<supplierVars, storeVars>>

\* The import goes on with the supplier v.
GoOn(s, stage, v) ==
  /\ pc' = [pc EXCEPT ![s] = stage]
  /\ supplier' = [supplier EXCEPT ![s] = v]
  /\ UNCHANGED <<branchOf, storeVars, lockVars, requestVars, lineNo, reply>>

\* A document without usable XML or stamp is refused before anything is read.
ImportCFDI(s) ==
  \E d \in Documents, b \in Branches \cup {None} :
    /\ pc[s] = "idle"
    /\ IF Usable[d] = "no stamp"
       THEN Refuse(s, "ErrValidation")
       ELSE /\ pc' = [pc EXCEPT ![s] = "lookup"]
            /\ doc' = [doc EXCEPT ![s] = d]
            /\ branch' = [branch EXCEPT ![s] = b]
            /\ reply' = [reply EXCEPT ![s] = "none"]
            /\ UNCHANGED <<supplierVars, storeVars, lockVars, supplier,
                           registered, lineNo>>

\* The supplier rows that own the issuer's tax identifier, active or not.
OwnersOf(s) == {v \in suppliers : taxIdentifier[v] = Issuer[doc[s]]}

LookupSupplier(s) ==
  /\ pc[s] = "lookup"
  /\ \/ \E v \in OwnersOf(s) : GoOn(s, "branch", v)
     \/ OwnersOf(s) = {} /\ GoOn(s, "register", None)
  /\ UNCHANGED <<suppliers, taxIdentifier, registered>>

\* Mutant: nothing keeps two suppliers from having one tax identifier.
RegisterAnySupplier(s) ==
  /\ pc[s] = "register"
  /\ \E v \in SupplierIds \ suppliers :
       /\ suppliers' = suppliers \cup {v}
       /\ taxIdentifier' = [taxIdentifier EXCEPT ![v] = Issuer[doc[s]]]
       /\ registered' = [registered EXCEPT ![s] = v]
       /\ GoOn(s, "branch", v)

\* CreateSupplier commits by itself; the unique index refuses a second owner
\* of the tax identifier.
RegisterSupplier(s) ==
  /\ pc[s] = "register"
  /\ \/ \E v \in SupplierIds \ suppliers :
          /\ OwnersOf(s) = {}
          /\ suppliers' = suppliers \cup {v}
          /\ taxIdentifier' = [taxIdentifier EXCEPT ![v] = Issuer[doc[s]]]
          /\ registered' = [registered EXCEPT ![s] = v]
          /\ GoOn(s, "branch", v)
     \/ /\ OwnersOf(s) # {}
        /\ GoOn(s, "relookup", None)
        /\ UNCHANGED <<suppliers, taxIdentifier, registered>>

\* Somebody registered the issuer in between: use that supplier, unless its
\* tax identifier was edited meanwhile.
RelookupSupplier(s) ==
  /\ pc[s] = "relookup"
  /\ \/ /\ \E v \in OwnersOf(s) : GoOn(s, "branch", v)
        /\ UNCHANGED <<suppliers, taxIdentifier, registered>>
     \/ OwnersOf(s) = {} /\ Refuse(s, "ErrNotFound")

\* Mutant: the branch is looked up by its id alone.
BranchUnknown(s) == branch[s] # None /\ branchOf[branch[s]] = None

\* GetBranch, scoped to the supplier, then the validation of the draft.
BranchMissing(s) == branch[s] # None /\ branchOf[branch[s]] # supplier[s]

BuildDraft(s) ==
  /\ pc[s] = "branch"
  /\ \/ BranchMissing(s) /\ Refuse(s, "ErrNotFound")
     \/ /\ ~BranchMissing(s) /\ Usable[doc[s]] = "bad amount"
        /\ Refuse(s, "ErrValidation")
     \/ /\ ~BranchMissing(s) /\ Usable[doc[s]] = "ok"
        /\ GoOn(s, "insert", supplier[s])
        /\ UNCHANGED <<suppliers, taxIdentifier, registered>>

----------------------------------------------------------------------------
(***************************************************************************)
(* The import transaction.                                                 *)
(***************************************************************************)

\* Mutant: the UUID is looked up, and an uncommitted one is not waited for.
InsertUnseenPurchase(s) ==
  /\ pc[s] = "insert"
  /\ pc' = [pc EXCEPT ![s] = IF purchases[Uuid[doc[s]]] = None
                             THEN "lines" ELSE "duplicate"]
  /\ UNCHANGED <<supplierVars, storeVars, lockVars, requestVars, supplier,
                 registered, lineNo, reply>>

\* INSERT ... ON CONFLICT (cfdi_uuid) DO NOTHING: waits for an uncommitted
\* insert of the UUID, then inserts, or finds the UUID registered.
InsertPurchase(s) ==
  LET u == Uuid[doc[s]] IN
  /\ pc[s] = "insert"
  /\ uuidClaim[u] = None
  /\ \/ /\ purchases[u] = None
        /\ uuidClaim' = [uuidClaim EXCEPT ![u] = s]
        /\ pc' = [pc EXCEPT ![s] = "lines"]
     \/ /\ purchases[u] # None
        /\ pc' = [pc EXCEPT ![s] = "duplicate"]
        /\ UNCHANGED uuidClaim
  /\ UNCHANGED <<supplierVars, storeVars, productLock, requestVars, supplier,
                 registered, lineNo, reply>>

\* SameRelevantContent and SameLines: the branch and the supplier row are not
\* compared, and neither is the layout of the XML.
SameContent(d, e) ==
  Header[d] = Header[e] /\ Issuer[d] = Issuer[e] /\ Concepts[d] = Concepts[e]

resolveDuplicateImport(s) ==
  /\ pc[s] = "duplicate"
  /\ Refuse(s, IF SameContent(purchases[Uuid[doc[s]]].doc, doc[s])
               THEN "existing" ELSE "ErrPurchaseConflict")

MoreLines(s) == pc[s] = "lines" /\ lineNo[s] <= Len(Concepts[doc[s]])

NextSku(s) == Concepts[doc[s]][lineNo[s]]

NextProduct(s) == <<supplier[s], NextSku(s)>>

\* One round of the loop over the lines: upsertSupplierProduct waits for the
\* product row when another transaction wrote it, then the line is inserted.
StoreLine(s) ==
  /\ MoreLines(s)
  /\ \/ NextSku(s) = NoSku /\ UNCHANGED productLock
     \/ /\ NextSku(s) # NoSku
        /\ productLock[NextProduct(s)] \in {None, s}
        /\ productLock' = [productLock EXCEPT ![NextProduct(s)] = s]
  /\ lineNo' = [lineNo EXCEPT ![s] = @ + 1]
  /\ UNCHANGED <<supplierVars, storeVars, uuidClaim, requestVars, pc, supplier,
                 registered, reply>>

\* Mutant: a line without SKU gets a product all the same.
ProductOfAnyLine(s, sku) == <<supplier[s], sku>>

\* The products the transaction wrote, and the lines that refer to them.
ProductOf(s, sku) == IF sku = NoSku THEN None ELSE <<supplier[s], sku>>

WrittenProducts(s) == {k \in ProductKeys : productLock[k] = s}

Store(s) ==
  /\ purchases' = [purchases EXCEPT ![Uuid[doc[s]]] =
       [doc |-> doc[s], supplier |-> supplier[s], branch |-> branch[s],
        lines |-> [i \in DOMAIN Concepts[doc[s]] |->
                     ProductOf(s, Concepts[doc[s]][i])]]]
  /\ products' = products \cup WrittenProducts(s)
  /\ lastSeen' = [k \in ProductKeys |->
                    IF k \in WrittenProducts(s) THEN doc[s] ELSE lastSeen[k]]
  /\ UNCHANGED supplierVars

\* Mutant: the transaction commits before the last line.
StoredEarly(s) == pc[s] = "lines" /\ lineNo[s] >= Len(Concepts[doc[s]])

Stored(s) == pc[s] = "lines" /\ lineNo[s] > Len(Concepts[doc[s]])

Commit(s) == Stored(s) /\ Store(s) /\ Answer(s, "created")

\* The commit took effect and its acknowledgement was lost: the client only
\* learns that something failed.
CommitUnacknowledged(s) == Stored(s) /\ Store(s) /\ Answer(s, "error")

\* Cancelled context, lost connection, failed commit or a crash.
Abort(s) == pc[s] # "idle" /\ Refuse(s, "error")

----------------------------------------------------------------------------
\* The transaction that s waits for, None if it waits for nobody.
WaitsFor(s) ==
  IF pc[s] = "insert" THEN uuidClaim[Uuid[doc[s]]]
  ELSE IF MoreLines(s) /\ NextSku(s) # NoSku /\ productLock[NextProduct(s)] # s
  THEN productLock[NextProduct(s)]
  ELSE None

\* The transactions s waits for, directly or through others: those in every
\* set that holds the one each of its members, and s, waits for.
Blockers(s) ==
  {t \in Sessions :
     \A C \in SUBSET Sessions :
       (\A u \in C \cup {s} : WaitsFor(u) # None => WaitsFor(u) \in C) => t \in C}

\* PostgreSQL aborts one transaction of a circle of waiting ones.
DeadlockVictim(s) == s \in Blockers(s) /\ Refuse(s, "error")

Serve(s) ==
  \/ LookupSupplier(s)
  \/ RegisterSupplier(s)
  \/ RelookupSupplier(s)
  \/ BuildDraft(s)
  \/ InsertPurchase(s)
  \/ resolveDuplicateImport(s)
  \/ StoreLine(s)
  \/ Commit(s)
  \/ CommitUnacknowledged(s)
  \/ DeadlockVictim(s)

Next ==
  \/ \E s \in Sessions : ImportCFDI(s)
  \/ \E s \in Sessions : Serve(s)
  \/ \E s \in Sessions : Abort(s)

Spec == Init /\ [][Next]_vars

\* A transaction that can proceed does, waiters get a released lock in turn,
\* and PostgreSQL finds every deadlock.
FairSpec == Spec /\ \A s \in Sessions : SF_vars(Serve(s))

----------------------------------------------------------------------------
(***************************************************************************)
(* Properties.                                                             *)
(***************************************************************************)
\* Every variable holds what its column or Go value can hold.
TypeOK ==
  /\ suppliers \subseteq SupplierIds
  /\ taxIdentifier \in [SupplierIds -> TaxIds \cup {None}]
  /\ branchOf \in [Branches -> SupplierIds \cup {None}]
  /\ \A u \in Uuids : purchases[u] # None => purchases[u] \in StoredPurchase
  /\ products \subseteq ProductKeys
  /\ lastSeen \in [ProductKeys -> Documents \cup {None}]
  /\ uuidClaim \in [Uuids -> Sessions \cup {None}]
  /\ productLock \in [ProductKeys -> Sessions \cup {None}]
  /\ pc \in [Sessions -> {"idle", "lookup", "register", "relookup", "branch",
                          "insert", "duplicate", "lines"}]
  /\ doc \in [Sessions -> Documents \cup {None}]
  /\ branch \in [Sessions -> Branches \cup {None}]
  /\ supplier \in [Sessions -> SupplierIds \cup {None}]
  /\ registered \in [Sessions -> SupplierIds \cup {None}]
  /\ lineNo \in [Sessions -> Nat]
  /\ reply \in [Sessions -> {"none", "created", "existing", "error",
                 "ErrValidation", "ErrNotFound", "ErrPurchaseConflict"}]

\* A document is stored whole or not at all: a stored purchase has one line
\* per concept, each with the product its SKU names among its own supplier's
\* products, and no product row or description comes from an import that did
\* not store its purchase (Repository.Import's single transaction).
PurchasesAreWhole ==
  /\ \A u \in Uuids : purchases[u] # None =>
       LET p == purchases[u] IN
       /\ Uuid[p.doc] = u
       /\ p.supplier \in suppliers
       /\ p.branch # None => branchOf[p.branch] = p.supplier
       /\ Len(p.lines) = Len(Concepts[p.doc])
       /\ \A i \in DOMAIN p.lines :
            IF Concepts[p.doc][i] = NoSku THEN p.lines[i] = None
            ELSE /\ p.lines[i] = <<p.supplier, Concepts[p.doc][i]>>
                 /\ p.lines[i] \in products
  /\ \A k \in products :
       LET d == lastSeen[k] IN
       /\ d # None
       /\ purchases[Uuid[d]] # None
       /\ purchases[Uuid[d]].doc = d
       /\ \E i \in DOMAIN purchases[Uuid[d]].lines :
            purchases[Uuid[d]].lines[i] = k

\* However imports of one fiscal UUID interleave, at most one is told that it
\* stored the purchase; the others are told whether theirs has the content of
\* the stored one, and nobody changes a stored purchase.
ImportTellsTruth ==
  [][/\ \A u \in Uuids : purchases[u] # None => purchases'[u] = purchases[u]
     /\ \A s \in Sessions :
          pc[s] # "idle" /\ pc'[s] = "idle" =>
            LET u == Uuid[doc[s]] IN
            /\ reply'[s] = "created" =>
                 /\ purchases[u] = None
                 /\ purchases'[u].doc = doc[s]
                 /\ purchases'[u].supplier = supplier[s]
            /\ reply'[s] = "existing" =>
                 purchases[u] # None /\ SameContent(purchases[u].doc, doc[s])
            /\ reply'[s] = "ErrPurchaseConflict" =>
                 purchases[u] # None /\ ~SameContent(purchases[u].doc, doc[s])
            /\ reply'[s] \in {"ErrValidation", "ErrNotFound"} =>
                 UNCHANGED purchases]_vars

\* While nobody edits tax identifiers, concurrent imports of documents of one
\* issuer end up with one supplier (resolveSupplier's second lookup).
OneSupplierPerIssuer ==
  \A s \in Sessions, u \in Uuids :
    /\ supplier[s] # None
    /\ purchases[u] # None
    /\ Issuer[doc[s]] = Issuer[purchases[u].doc]
    => supplier[s] = purchases[u].supplier

\* Imports of the same document never deadlock: a deadlock needs two different
\* fiscal UUIDs whose documents name common products in different orders.
SameUuidNeverDeadlocks ==
  \A s, t \in Sessions :
    s # t /\ s \in Blockers(s) /\ t \in Blockers(s) =>
      /\ pc[s] = "lines" /\ pc[t] = "lines"
      /\ Uuid[doc[s]] # Uuid[doc[t]]

\* Every import is answered: it waits for ever neither for another import of
\* the document nor in a deadlock.
EveryImportAnswered ==
  \A s \in Sessions : pc[s] # "idle" ~> pc[s] = "idle"

\* The comment on ImportCFDI: the whole write persists the purchase and its
\* relations "or persists nothing", so an import that was refused leaves
\* nothing of its own behind.
RefusedImportPersistsNothing ==
  [][\A s \in Sessions :
       reply'[s] \in {"ErrValidation", "ErrNotFound", "ErrPurchaseConflict"} =>
         registered[s] = None]_vars
============================================================================
