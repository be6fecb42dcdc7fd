------------------------ MODULE PurchaseImportProofs ------------------------
(***************************************************************************)
(* Safety of concurrent imports, for any sessions, documents, suppliers    *)
(* and products.                                                           *)
(***************************************************************************)
EXTENDS PurchaseImport, TLAPS

Stages == {"idle", "lookup", "register", "relookup", "branch", "insert",
           "duplicate", "lines"}

Answers == {"none", "created", "existing", "error", "ErrValidation",
            "ErrNotFound", "ErrPurchaseConflict"}

\* What an import knows at each stage: a document from the start, a supplier
\* row from the branch check on, a branch of that supplier from the draft on,
\* and a stored purchase when its own insert found one.
StagesAreSound ==
  \A s \in Sessions :
    /\ IF pc[s] = "lines" THEN lineNo[s] \in Nat \ {0} ELSE lineNo[s] = 1
    /\ pc[s] # "idle" => doc[s] \in Documents
    /\ IF pc[s] \in {"branch", "insert", "duplicate", "lines"}
       THEN supplier[s] \in suppliers
       ELSE supplier[s] = None
    /\ pc[s] \in {"insert", "duplicate", "lines"} /\ branch[s] # None =>
         branchOf[branch[s]] = supplier[s]
    /\ pc[s] = "duplicate" => purchases[Uuid[doc[s]]] # None

\* The fiscal UUID is claimed by exactly the import that stores its lines, and
\* only while no purchase of that UUID is stored.
ClaimsAreSound ==
  /\ \A s \in Sessions : pc[s] = "lines" => uuidClaim[Uuid[doc[s]]] = s
  /\ \A u \in Uuids, s \in Sessions : uuidClaim[u] = s =>
       pc[s] = "lines" /\ Uuid[doc[s]] = u /\ purchases[u] = None

\* The product rows an import has locked are those of the lines it has stored.
ProductLocksAreSound ==
  /\ \A s \in Sessions : pc[s] = "lines" =>
       \A i \in DOMAIN Concepts[doc[s]] :
         i < lineNo[s] /\ Concepts[doc[s]][i] # NoSku =>
           productLock[<<supplier[s], Concepts[doc[s]][i]>>] = s
  /\ \A k \in ProductKeys, s \in Sessions : productLock[k] = s =>
       /\ pc[s] = "lines"
       /\ \E i \in DOMAIN Concepts[doc[s]] :
            /\ Concepts[doc[s]][i] # NoSku
            /\ k = <<supplier[s], Concepts[doc[s]][i]>>

\* The inductive invariant of the imports.
ImportInv ==
  /\ TypeOK
  /\ purchases = [u \in Uuids |-> purchases[u]]
  /\ StagesAreSound
  /\ ClaimsAreSound
  /\ ProductLocksAreSound

----------------------------------------------------------------------------
(***************************************************************************)
(* The kinds of step there are.                                            *)
(***************************************************************************)

\* A new import, of a stamped document.
Starts(s) ==
  \E d \in Documents, b \in Branches \cup {None} :
    /\ pc[s] = "idle"
    /\ pc' = [pc EXCEPT ![s] = "lookup"]
    /\ doc' = [doc EXCEPT ![s] = d]
    /\ branch' = [branch EXCEPT ![s] = b]
    /\ reply' = [reply EXCEPT ![s] = "none"]
    /\ UNCHANGED <<supplierVars, storeVars, lockVars, supplier, registered,
                   lineNo>>

\* The import goes on to another stage before its transaction, with the
\* supplier the new stage needs.
Moves(s) ==
  \E stage \in {"register", "relookup", "branch", "insert"},
     v \in suppliers \cup {None} :
    /\ pc[s] \in {"lookup", "register", "relookup", "branch"}
    /\ GoOn(s, stage, v)
    /\ UNCHANGED <<suppliers, taxIdentifier>>
    /\ stage \in {"register", "relookup"} <=> v = None
    /\ stage = "branch" => v \in OwnersOf(s)
    /\ stage = "insert" => pc[s] = "branch" /\ v = supplier[s] /\ ~BranchMissing(s)
    /\ registered' = registered

\* The import registers the issuer as a new supplier.
Registers(s) ==
  \E v \in SupplierIds \ suppliers :
    /\ pc[s] = "register"
    /\ OwnersOf(s) = {}
    /\ suppliers' = suppliers \cup {v}
    /\ taxIdentifier' = [taxIdentifier EXCEPT ![v] = Issuer[doc[s]]]
    /\ registered' = [registered EXCEPT ![s] = v]
    /\ GoOn(s, "branch", v)

\* The import ends without effect: with an error, or because the purchase is
\* stored already.
Ends(s) == \E e \in Answers \ {"none", "created"} :
  /\ Refuse(s, e)
  /\ e = "existing" =>
       pc[s] = "duplicate" /\ SameContent(purchases[Uuid[doc[s]]].doc, doc[s])
  /\ e = "ErrPurchaseConflict" =>
       pc[s] = "duplicate" /\ ~SameContent(purchases[Uuid[doc[s]]].doc, doc[s])

\* The transaction of the import takes effect.
Commits(s) == Stored(s) /\ Store(s) /\ \E a \in {"created", "error"} : Answer(s, a)

\* Every step of the system is one of these, of one import.
LEMMA StepCases ==
  ASSUME ImportInv, [Next]_vars
  PROVE  \/ UNCHANGED vars
         \/ \E s \in Sessions :
              \/ Starts(s) \/ Moves(s) \/ Registers(s) \/ Ends(s)
              \/ InsertPurchase(s) \/ StoreLine(s) \/ Commits(s)
<1>0. None \notin SupplierIds /\ suppliers \subseteq SupplierIds
  BY DocumentAssumption DEF ImportInv, TypeOK
<1>r. ASSUME NEW s \in Sessions,
             NEW e \in {"error", "ErrValidation", "ErrNotFound"}, Refuse(s, e)
      PROVE  Ends(s)
  BY <1>r DEF Ends, Answers
<1>1. ASSUME NEW s \in Sessions, ImportCFDI(s)
      PROVE  Starts(s) \/ Ends(s)
  BY <1>1, <1>r DEF ImportCFDI, Starts
<1>2. ASSUME NEW s \in Sessions, LookupSupplier(s)
      PROVE  Moves(s)
  BY <1>0, <1>2 DEF LookupSupplier, Moves, OwnersOf
<1>3. ASSUME NEW s \in Sessions, RegisterSupplier(s)
      PROVE  Moves(s) \/ Registers(s)
  BY <1>0, <1>3 DEF RegisterSupplier, Moves, Registers
<1>4. ASSUME NEW s \in Sessions, RelookupSupplier(s)
      PROVE  Moves(s) \/ Ends(s)
  BY <1>0, <1>4, <1>r DEF RelookupSupplier, Moves, OwnersOf
<1>5. ASSUME NEW s \in Sessions, BuildDraft(s)
      PROVE  Moves(s) \/ Ends(s)
  <2>1. pc[s] = "branch" /\ supplier[s] \in suppliers
    BY <1>5 DEF BuildDraft, ImportInv, StagesAreSound
  <2>2. CASE /\ ~BranchMissing(s) /\ GoOn(s, "insert", supplier[s])
             /\ UNCHANGED <<suppliers, taxIdentifier, registered>>
    BY <1>0, <2>1, <2>2 DEF Moves
  <2>3. QED
    BY <1>5, <1>r, <2>2 DEF BuildDraft
<1>6. ASSUME NEW s \in Sessions, resolveDuplicateImport(s)
      PROVE  Ends(s)
  BY <1>6 DEF resolveDuplicateImport, Ends, Answers
<1>7. ASSUME NEW s \in Sessions, Commit(s) \/ CommitUnacknowledged(s)
      PROVE  Commits(s)
  BY <1>7 DEF Commit, CommitUnacknowledged, Commits
<1>8. ASSUME NEW s \in Sessions, Abort(s) \/ DeadlockVictim(s)
      PROVE  Ends(s)
  BY <1>8, <1>r DEF Abort, DeadlockVictim
<1>9. QED
  BY <1>1, <1>2, <1>3, <1>4, <1>5, <1>6, <1>7, <1>8 DEF Next, Serve

----------------------------------------------------------------------------
\* A new import holds nothing.
LEMMA StartsKeepsInv ==
  ASSUME ImportInv, NEW s \in Sessions, Starts(s)
  PROVE  ImportInv'
<1> USE DEF ImportInv
<1>1. PICK d \in Documents, b \in Branches \cup {None} :
        /\ pc[s] = "idle"
        /\ pc' = [pc EXCEPT ![s] = "lookup"]
        /\ doc' = [doc EXCEPT ![s] = d]
        /\ branch' = [branch EXCEPT ![s] = b]
        /\ reply' = [reply EXCEPT ![s] = "none"]
        /\ UNCHANGED <<supplierVars, storeVars, lockVars, supplier, registered,
                       lineNo>>
  BY DEF Starts
<1>2. TypeOK' /\ purchases' = [u \in Uuids |-> purchases'[u]]
  BY <1>1 DEF TypeOK, supplierVars, storeVars, lockVars
<1>3. StagesAreSound'
  BY <1>1 DEF TypeOK, StagesAreSound, supplierVars, storeVars, lockVars
<1>4. ClaimsAreSound'
  BY <1>1 DEF TypeOK, ClaimsAreSound, storeVars, lockVars
<1>5. ProductLocksAreSound'
  BY <1>1 DEF TypeOK, ProductLocksAreSound, lockVars
<1>6. QED
  BY <1>2, <1>3, <1>4, <1>5

\* Before its transaction an import holds nothing either.
LEMMA MovesKeepsInv ==
  ASSUME ImportInv, NEW s \in Sessions, Moves(s)
  PROVE  ImportInv'
<1> USE DEF ImportInv
<1>1. PICK stage \in {"register", "relookup", "branch", "insert"},
           v \in suppliers \cup {None} :
        /\ pc[s] \in {"lookup", "register", "relookup", "branch"}
        /\ pc' = [pc EXCEPT ![s] = stage]
        /\ supplier' = [supplier EXCEPT ![s] = v]
        /\ UNCHANGED <<branchOf, storeVars, lockVars, requestVars, lineNo, reply>>
        /\ UNCHANGED <<suppliers, taxIdentifier, registered>>
        /\ stage \in {"register", "relookup"} <=> v = None
        /\ stage = "insert" => v = supplier[s] /\ ~BranchMissing(s)
  BY DEF Moves, GoOn
<1>2. TypeOK' /\ purchases' = [u \in Uuids |-> purchases'[u]]
  BY <1>1 DEF TypeOK, storeVars, lockVars, requestVars
<1>3. StagesAreSound'
  BY <1>1 DEF TypeOK, StagesAreSound, storeVars, requestVars, BranchMissing
<1>4. ClaimsAreSound'
  BY <1>1 DEF TypeOK, ClaimsAreSound, storeVars, lockVars, requestVars
<1>5. ProductLocksAreSound'
  BY <1>1 DEF TypeOK, ProductLocksAreSound, lockVars, requestVars
<1>6. QED
  BY <1>2, <1>3, <1>4, <1>5

\* A new supplier row changes nothing for the other imports.
LEMMA RegistersKeepsInv ==
  ASSUME ImportInv, NEW s \in Sessions, Registers(s)
  PROVE  ImportInv'
<1> USE DEF ImportInv
<1>1. PICK v \in SupplierIds \ suppliers :
        /\ pc[s] = "register"
        /\ suppliers' = suppliers \cup {v}
        /\ taxIdentifier' = [taxIdentifier EXCEPT ![v] = Issuer[doc[s]]]
        /\ registered' = [registered EXCEPT ![s] = v]
        /\ pc' = [pc EXCEPT ![s] = "branch"]
        /\ supplier' = [supplier EXCEPT ![s] = v]
        /\ UNCHANGED <<branchOf, storeVars, lockVars, requestVars, lineNo, reply>>
  BY DEF Registers, GoOn
<1>2. Issuer[doc[s]] \in TaxIds
  BY <1>1 DEF StagesAreSound, TaxIds
<1>3. TypeOK' /\ purchases' = [u \in Uuids |-> purchases'[u]]
  BY <1>1, <1>2 DEF TypeOK, storeVars, lockVars, requestVars
<1>4. StagesAreSound'
  BY <1>1 DEF TypeOK, StagesAreSound, storeVars, requestVars
<1>5. ClaimsAreSound'
  BY <1>1 DEF TypeOK, ClaimsAreSound, storeVars, lockVars, requestVars
<1>6. ProductLocksAreSound'
  BY <1>1 DEF TypeOK, ProductLocksAreSound, lockVars, requestVars
<1>7. QED
  BY <1>3, <1>4, <1>5, <1>6

\* The lines of a document are numbered from 1 and have a SKU or none.
LEMMA ConceptFacts ==
  ASSUME NEW d \in Documents
  PROVE  /\ Concepts[d] \in Seq(Skus \cup {NoSku})
         /\ Len(Concepts[d]) \in Nat
         /\ DOMAIN Concepts[d] = 1 .. Len(Concepts[d])
         /\ \A i \in DOMAIN Concepts[d] :
              /\ i \in Nat \ {0} /\ i <= Len(Concepts[d])
              /\ Concepts[d][i] \in Skus \cup {NoSku}
<1>1. Concepts[d] \in Seq(Skus \cup {NoSku})
  BY DocumentAssumption
<1>2. /\ Len(Concepts[d]) \in Nat
      /\ DOMAIN Concepts[d] = 1 .. Len(Concepts[d])
  BY <1>1
<1>3. QED
  BY <1>1, <1>2

\* The insert claims the fiscal UUID, which nobody else has claimed, or finds
\* the purchase that has it.
LEMMA InsertKeepsInv ==
  ASSUME ImportInv, NEW s \in Sessions, InsertPurchase(s)
  PROVE  ImportInv'
<1> USE DEF ImportInv
<1> DEFINE u == Uuid[doc[s]]
<1>1. /\ pc[s] = "insert" /\ doc[s] \in Documents /\ u \in Uuids
      /\ uuidClaim[u] = None
      /\ UNCHANGED <<supplierVars, storeVars, productLock, requestVars, supplier,
                     registered, lineNo, reply>>
  BY DEF InsertPurchase, StagesAreSound, Uuids
<1>2. \/ /\ purchases[u] = None
         /\ uuidClaim' = [uuidClaim EXCEPT ![u] = s]
         /\ pc' = [pc EXCEPT ![s] = "lines"]
      \/ /\ purchases[u] # None
         /\ pc' = [pc EXCEPT ![s] = "duplicate"]
         /\ UNCHANGED uuidClaim
  BY DEF InsertPurchase
<1> HIDE DEF u
<1>3. TypeOK' /\ purchases' = [w \in Uuids |-> purchases'[w]]
  BY <1>1, <1>2 DEF TypeOK, supplierVars, storeVars, requestVars
<1>4. StagesAreSound'
  BY <1>1, <1>2 DEF u, TypeOK, StagesAreSound, supplierVars, storeVars, requestVars
<1>5. ClaimsAreSound'
  <2>1. ASSUME NEW t \in Sessions, pc'[t] = "lines"
        PROVE  uuidClaim'[Uuid[doc'[t]]] = t
    <3>1. CASE t = s
      BY <1>1, <1>2, <2>1, <3>1 DEF u, TypeOK, requestVars
    <3>2. CASE t # s
      <4>1. pc[t] = "lines" /\ doc'[t] = doc[t]
        BY <1>1, <1>2, <2>1, <3>2 DEF TypeOK, requestVars
      <4>2. uuidClaim[Uuid[doc[t]]] = t /\ Uuid[doc[t]] \in Uuids
        BY <4>1 DEF ClaimsAreSound, StagesAreSound, Uuids
      <4>3. Uuid[doc[t]] # u
        BY <1>1, <4>2, DocumentAssumption
      <4>4. QED
        BY <1>2, <4>1, <4>2, <4>3 DEF TypeOK
    <3>3. QED
      BY <3>1, <3>2
  <2>2. ASSUME NEW w \in Uuids, NEW t \in Sessions, uuidClaim'[w] = t
        PROVE  pc'[t] = "lines" /\ Uuid[doc'[t]] = w /\ purchases'[w] = None
    <3>1. CASE uuidClaim[w] = t
      BY <1>1, <1>2, <3>1 DEF ClaimsAreSound, TypeOK, requestVars, storeVars
    <3>2. CASE uuidClaim[w] # t
      BY <1>1, <1>2, <2>2, <3>2 DEF u, TypeOK, requestVars, storeVars
    <3>3. QED
      BY <3>1, <3>2
  <2>3. QED
    BY <2>1, <2>2 DEF ClaimsAreSound
<1>6. ProductLocksAreSound'
  <2>1. lineNo[s] = 1 /\ \A k \in ProductKeys : productLock[k] # s
    BY <1>1 DEF StagesAreSound, ProductLocksAreSound
  <2>2. \A i \in DOMAIN Concepts[doc[s]] : ~(i < 1)
    BY <1>1, ConceptFacts
  <2>3. ASSUME NEW t \in Sessions
        PROVE  ProductLocksAreSound!1!(t)'
    <3>1. CASE t = s
      BY <1>1, <2>1, <2>2, <3>1 DEF requestVars
    <3>2. CASE t # s
      BY <1>1, <1>2, <3>2 DEF TypeOK, ProductLocksAreSound, requestVars
    <3>3. QED
      BY <3>1, <3>2
  <2>4. ASSUME NEW k \in ProductKeys, NEW t \in Sessions
        PROVE  ProductLocksAreSound!2!(k, t)'
    BY <1>1, <1>2, <2>1 DEF TypeOK, ProductLocksAreSound, requestVars
  <2>5. QED
    BY <2>3, <2>4 DEF ProductLocksAreSound
<1>7. QED
  BY <1>3, <1>4, <1>5, <1>6

\* The next line's product is one of the import's own supplier's.
LEMMA NextProductType ==
  ASSUME ImportInv, NEW s \in Sessions, MoreLines(s)
  PROVE  /\ doc[s] \in Documents /\ lineNo[s] \in DOMAIN Concepts[doc[s]]
         /\ lineNo[s] \in Nat
         /\ NextSku(s) \in Skus \cup {NoSku}
         /\ NextSku(s) # NoSku => NextProduct(s) \in ProductKeys
<1>1. /\ doc[s] \in Documents /\ lineNo[s] \in Nat \ {0}
      /\ lineNo[s] <= Len(Concepts[doc[s]]) /\ supplier[s] \in SupplierIds
  BY DEF MoreLines, ImportInv, StagesAreSound, TypeOK
<1>2. Concepts[doc[s]] \in Seq(Skus \cup {NoSku})
  BY <1>1, DocumentAssumption
<1>3. lineNo[s] \in DOMAIN Concepts[doc[s]]
  BY <1>1, <1>2
<1>4. NextSku(s) \in Skus \cup {NoSku}
  BY <1>2, <1>3 DEF NextSku
<1>5. QED
  BY <1>1, <1>3, <1>4 DEF NextProduct, ProductKeys

\* A stored line adds its product, if any, to the rows its import has locked.
LEMMA StoreLineKeepsInv ==
  ASSUME ImportInv, NEW s \in Sessions, StoreLine(s)
  PROVE  ImportInv'
<1> USE DEF ImportInv
<1> DEFINE n == lineNo[s]
           d == doc[s]
<1>1. /\ MoreLines(s) /\ pc[s] = "lines" /\ d \in Documents
      /\ n \in DOMAIN Concepts[d] /\ n \in Nat
      /\ NextSku(s) # NoSku => NextProduct(s) \in ProductKeys
      /\ lineNo' = [lineNo EXCEPT ![s] = n + 1]
      /\ UNCHANGED <<supplierVars, storeVars, uuidClaim, requestVars, pc,
                     supplier, registered, reply>>
  BY NextProductType DEF StoreLine, MoreLines
<1>2. \/ NextSku(s) = NoSku /\ UNCHANGED productLock
      \/ /\ NextSku(s) # NoSku
         /\ productLock[NextProduct(s)] \in {None, s}
         /\ productLock' = [productLock EXCEPT ![NextProduct(s)] = s]
  BY DEF StoreLine
<1>3. NextSku(s) = Concepts[d][n] /\ NextProduct(s) = <<supplier[s], Concepts[d][n]>>
  BY DEF NextSku, NextProduct
<1> HIDE DEF n, d
<1>4. TypeOK' /\ purchases' = [u \in Uuids |-> purchases'[u]]
  BY <1>1, <1>2 DEF TypeOK, supplierVars, storeVars, requestVars
<1>5. StagesAreSound' /\ ClaimsAreSound'
  BY <1>1 DEF TypeOK, StagesAreSound, ClaimsAreSound, supplierVars, storeVars,
     requestVars
<1>6. ProductLocksAreSound'
  <2>0. \A k \in ProductKeys, w \in Sessions :
          productLock[k] = w => productLock'[k] = w
    <3>1. None \notin Sessions
      BY DocumentAssumption
    <3>2. productLock \in [ProductKeys -> Sessions \cup {None}]
      BY DEF TypeOK
    <3>3. QED
      BY <1>2, <3>1, <3>2
  <2>1. ASSUME NEW t \in Sessions, pc'[t] = "lines",
               NEW i \in DOMAIN Concepts[doc'[t]],
               i < lineNo'[t], Concepts[doc'[t]][i] # NoSku
        PROVE  productLock'[<<supplier'[t], Concepts[doc'[t]][i]>>] = t
    <3>0. /\ <<supplier[t], Concepts[doc[t]][i]>> \in ProductKeys
          /\ doc[t] \in Documents
          /\ pc[t] = "lines" /\ doc'[t] = doc[t] /\ supplier'[t] = supplier[t]
      <4>1. /\ doc'[t] = doc[t] /\ supplier'[t] = supplier[t] /\ pc[t] = "lines"
            /\ doc[t] \in Documents /\ supplier[t] \in SupplierIds
        BY <1>1, <2>1 DEF requestVars, StagesAreSound, TypeOK
      <4>2. Concepts[doc[t]][i] \in Skus
        BY <2>1, <4>1, ConceptFacts
      <4>3. QED
        BY <4>1, <4>2 DEF ProductKeys
    <3>1. CASE t = s /\ i = n
      BY <1>1, <1>2, <1>3, <2>1, <3>0, <3>1 DEF d, TypeOK
    <3>2. CASE t = s /\ i # n
      <4>1. i \in Nat /\ i < n + 1
        BY <1>1, <2>1, <3>0, <3>2, ConceptFacts DEF TypeOK
      <4>2. QED
        BY <1>1, <2>0, <2>1, <3>0, <3>2, <4>1 DEF n, ProductLocksAreSound
    <3>3. CASE t # s
      <4>1. productLock[<<supplier[t], Concepts[doc[t]][i]>>] = t
        BY <1>1, <2>1, <3>0, <3>3 DEF TypeOK, ProductLocksAreSound
      <4>2. QED
        BY <2>0, <3>0, <4>1
    <3>4. QED
      BY <3>1, <3>2, <3>3
  <2>2. ASSUME NEW k \in ProductKeys, NEW t \in Sessions, productLock'[k] = t
        PROVE  /\ pc'[t] = "lines"
               /\ \E i \in DOMAIN Concepts[doc'[t]] :
                    /\ Concepts[doc'[t]][i] # NoSku
                    /\ k = <<supplier'[t], Concepts[doc'[t]][i]>>
    <3>1. pc' = pc /\ doc' = doc /\ supplier' = supplier
      BY <1>1 DEF requestVars
    <3>2. CASE productLock[k] = t
      BY <3>1, <3>2 DEF ProductLocksAreSound
    <3>3. CASE productLock[k] # t
      BY <1>1, <1>2, <1>3, <2>2, <3>1, <3>3 DEF d, TypeOK
    <3>4. QED
      BY <3>2, <3>3
  <2>3. QED
    BY <2>1, <2>2 DEF ProductLocksAreSound
<1>7. QED
  BY <1>4, <1>5, <1>6

\* The end of an import releases its claim and its product rows, and nobody
\* else's; stored purchases stay, and a new one has the UUID its import held.
LEMMA AnswerKeepsInv ==
  ASSUME ImportInv, NEW s \in Sessions, NEW a \in Answers, Answer(s, a),
         UNCHANGED supplierVars,
         purchases' = [u \in Uuids |-> purchases'[u]],
         \A u \in Uuids : purchases'[u] # None => purchases'[u] \in StoredPurchase,
         \A u \in Uuids : purchases'[u] = purchases[u] \/ uuidClaim[u] = s,
         products' \subseteq ProductKeys,
         lastSeen' \in [ProductKeys -> Documents \cup {None}]
  PROVE  ImportInv'
<1> USE DEF ImportInv
<1>0. None \notin Sessions
  BY DocumentAssumption
<1>1. TypeOK'
  BY DEF Answer, TypeOK, supplierVars, Answers
<1>2. ASSUME NEW t \in Sessions, t # s
      PROVE  /\ pc'[t] = pc[t] /\ doc'[t] = doc[t] /\ branch'[t] = branch[t]
             /\ supplier'[t] = supplier[t] /\ lineNo'[t] = lineNo[t]
             /\ \A u \in Uuids : uuidClaim'[u] = t <=> uuidClaim[u] = t
             /\ \A k \in ProductKeys : productLock'[k] = t <=> productLock[k] = t
  BY <1>0, <1>2 DEF Answer, TypeOK
<1>3. /\ pc'[s] = "idle" /\ supplier'[s] = None /\ lineNo'[s] = 1
      /\ \A u \in Uuids : uuidClaim'[u] # s
      /\ \A k \in ProductKeys : productLock'[k] # s
  BY <1>0 DEF Answer, TypeOK
<1>4. StagesAreSound'
  <2> SUFFICES ASSUME NEW t \in Sessions
               PROVE  StagesAreSound!(t)'
    BY DEF StagesAreSound
  <2>1. CASE t = s
    BY <1>3, <2>1
  <2>2. CASE t # s
    <3>1. pc[t] = "duplicate" => purchases'[Uuid[doc[t]]] # None
      <4> SUFFICES ASSUME pc[t] = "duplicate"
                   PROVE  purchases'[Uuid[doc[t]]] # None
        OBVIOUS
      <4>1. purchases[Uuid[doc[t]]] # None /\ Uuid[doc[t]] \in Uuids
        BY DEF StagesAreSound, Uuids
      <4>2. QED
        BY <4>1 DEF ClaimsAreSound
    <3>2. QED
      BY <1>2, <2>2, <3>1 DEF StagesAreSound, supplierVars
  <2>3. QED
    BY <2>1, <2>2
<1>5. ClaimsAreSound'
  <2>1. ASSUME NEW t \in Sessions, pc'[t] = "lines"
        PROVE  uuidClaim'[Uuid[doc'[t]]] = t
    <3>1. t # s
      BY <1>3, <2>1
    <3>2. /\ uuidClaim[Uuid[doc[t]]] = t /\ Uuid[doc[t]] \in Uuids
          /\ doc'[t] = doc[t]
      BY <1>2, <2>1, <3>1 DEF ClaimsAreSound, StagesAreSound, Uuids
    <3>3. QED
      BY <1>2, <3>1, <3>2
  <2>2. ASSUME NEW w \in Uuids, NEW t \in Sessions, uuidClaim'[w] = t
        PROVE  pc'[t] = "lines" /\ Uuid[doc'[t]] = w /\ purchases'[w] = None
    <3>1. t # s
      BY <1>3, <2>2
    <3>2. uuidClaim[w] = t
      BY <1>2, <2>2, <3>1
    <3>3. purchases'[w] = purchases[w]
      BY <3>1, <3>2
    <3>4. QED
      BY <1>2, <3>1, <3>2, <3>3 DEF ClaimsAreSound
  <2>3. QED
    BY <2>1, <2>2 DEF ClaimsAreSound
<1>6. ProductLocksAreSound'
  <2>1. ASSUME NEW t \in Sessions, pc'[t] = "lines",
               NEW i \in DOMAIN Concepts[doc'[t]],
               i < lineNo'[t], Concepts[doc'[t]][i] # NoSku
        PROVE  productLock'[<<supplier'[t], Concepts[doc'[t]][i]>>] = t
    <3>1. t # s
      BY <1>3, <2>1
    <3>2. /\ pc[t] = "lines" /\ doc'[t] = doc[t] /\ supplier'[t] = supplier[t]
          /\ lineNo'[t] = lineNo[t]
      BY <1>2, <2>1, <3>1
    <3>3. productLock[<<supplier[t], Concepts[doc[t]][i]>>] = t
      BY <2>1, <3>2 DEF ProductLocksAreSound
    <3>4. doc[t] \in Documents /\ supplier[t] \in SupplierIds
      BY <3>2 DEF StagesAreSound, TypeOK
    <3>5. <<supplier[t], Concepts[doc[t]][i]>> \in ProductKeys
      BY <2>1, <3>2, <3>4, ConceptFacts DEF ProductKeys
    <3>6. QED
      BY <1>2, <3>1, <3>2, <3>3, <3>5
  <2>2. ASSUME NEW k \in ProductKeys, NEW t \in Sessions, productLock'[k] = t
        PROVE  /\ pc'[t] = "lines"
               /\ \E i \in DOMAIN Concepts[doc'[t]] :
                    /\ Concepts[doc'[t]][i] # NoSku
                    /\ k = <<supplier'[t], Concepts[doc'[t]][i]>>
    <3>1. t # s
      BY <1>3, <2>2
    <3>2. productLock[k] = t
      BY <1>2, <2>2, <3>1
    <3>3. QED
      BY <1>2, <3>1, <3>2 DEF ProductLocksAreSound
  <2>3. QED
    BY <2>1, <2>2 DEF ProductLocksAreSound
<1>7. QED
  BY <1>1, <1>4, <1>5, <1>6

\* An import that ends without effect.
LEMMA EndsKeepsInv ==
  ASSUME ImportInv, NEW s \in Sessions, Ends(s)
  PROVE  ImportInv'
<1>1. PICK e \in Answers : Refuse(s, e)
  BY DEF Ends
<1>2. Answer(s, e) /\ UNCHANGED <<supplierVars, storeVars>>
  BY <1>1 DEF Refuse
<1>3. QED
  BY <1>2, AnswerKeepsInv DEF ImportInv, TypeOK, storeVars

\* The purchase an import stores: its own document, supplier and branch, and
\* for each concept the product of its SKU.
LEMMA StoredIsWhole ==
  ASSUME ImportInv, NEW s \in Sessions, Stored(s), Store(s)
  PROVE  /\ doc[s] \in Documents /\ Uuid[doc[s]] \in Uuids
         /\ supplier[s] \in suppliers
         /\ purchases[Uuid[doc[s]]] = None /\ uuidClaim[Uuid[doc[s]]] = s
         /\ purchases' = [u \in Uuids |-> IF u = Uuid[doc[s]]
                                          THEN purchases'[u] ELSE purchases[u]]
         /\ LET p == purchases'[Uuid[doc[s]]] IN
            /\ p \in StoredPurchase /\ p # None
            /\ p.doc = doc[s] /\ p.supplier = supplier[s] /\ p.branch = branch[s]
            /\ Len(p.lines) = Len(Concepts[doc[s]])
            /\ DOMAIN p.lines = DOMAIN Concepts[doc[s]]
            /\ \A i \in DOMAIN Concepts[doc[s]] :
                 p.lines[i] = IF Concepts[doc[s]][i] = NoSku THEN None
                              ELSE <<supplier[s], Concepts[doc[s]][i]>>
<1> USE DEF ImportInv
<1> DEFINE d == doc[s]
           u == Uuid[d]
           lines == [i \in DOMAIN Concepts[d] |-> ProductOf(s, Concepts[d][i])]
           p == [doc |-> d, supplier |-> supplier[s], branch |-> branch[s],
                 lines |-> lines]
<1>1. /\ pc[s] = "lines" /\ d \in Documents /\ u \in Uuids
      /\ supplier[s] \in suppliers /\ supplier[s] \in SupplierIds
      /\ uuidClaim[u] = s /\ purchases[u] = None
      /\ branch[s] \in Branches \cup {None}
  <2>1. pc[s] = "lines"
    BY DEF Stored
  <2>2. d \in Documents /\ supplier[s] \in suppliers
    BY <2>1 DEF StagesAreSound
  <2>3. u \in Uuids /\ uuidClaim[u] = s
    BY <2>1, <2>2 DEF ClaimsAreSound, Uuids
  <2>4. purchases[u] = None
    BY <2>3 DEF ClaimsAreSound
  <2>5. supplier[s] \in SupplierIds /\ branch[s] \in Branches \cup {None}
    BY <2>2 DEF TypeOK
  <2>6. QED
    BY <2>1, <2>2, <2>3, <2>4, <2>5
<1>2. purchases' = [purchases EXCEPT ![u] = p]
  BY DEF Store
<1>3. /\ lines \in Seq(ProductKeys \cup {None})
      /\ Len(lines) = Len(Concepts[d])
      /\ DOMAIN lines = DOMAIN Concepts[d]
      /\ \A i \in DOMAIN Concepts[d] :
           lines[i] = IF Concepts[d][i] = NoSku THEN None
                      ELSE <<supplier[s], Concepts[d][i]>>
  <2>1. \A i \in DOMAIN Concepts[d] :
          ProductOf(s, Concepts[d][i]) \in ProductKeys \cup {None}
    BY <1>1, ConceptFacts DEF ProductOf, ProductKeys
  <2>2. /\ DOMAIN Concepts[d] = 1 .. Len(Concepts[d])
        /\ Len(Concepts[d]) \in Nat
    BY <1>1, ConceptFacts
  <2>3. lines \in [1 .. Len(Concepts[d]) -> ProductKeys \cup {None}]
    BY <2>1, <2>2
  <2>4. lines \in Seq(ProductKeys \cup {None}) /\ Len(lines) = Len(Concepts[d])
    BY <2>2, <2>3
  <2>5. QED
    BY <2>4 DEF ProductOf
<1> HIDE DEF lines
<1>4. p \in StoredPurchase
  BY <1>1, <1>3 DEF StoredPurchase
<1>5. p.doc = d /\ p.supplier = supplier[s] /\ p.branch = branch[s] /\ p.lines = lines
  OBVIOUS
<1> HIDE DEF d, u, p
<1>6. p # None
  BY <1>4, NilAssumption
<1>7. purchases'[u] = p /\ \A w \in Uuids \ {u} : purchases'[w] = purchases[w]
  BY <1>1, <1>2
<1>8. purchases' = [w \in Uuids |-> IF w = u THEN purchases'[w] ELSE purchases[w]]
  BY <1>1, <1>2, <1>7
<1>9. QED
  BY <1>1, <1>3, <1>4, <1>5, <1>6, <1>7, <1>8 DEF d, u

\* An import whose transaction takes effect.
LEMMA CommitsKeepsInv ==
  ASSUME ImportInv, NEW s \in Sessions, Commits(s)
  PROVE  ImportInv'
<1>1. PICK a \in Answers : Answer(s, a)
  BY DEF Commits, Answers
<1>2. Stored(s) /\ Store(s)
  BY DEF Commits
<1>3. /\ purchases' = [u \in Uuids |-> purchases'[u]]
      /\ \A u \in Uuids : purchases'[u] # None => purchases'[u] \in StoredPurchase
      /\ \A u \in Uuids : purchases'[u] = purchases[u] \/ uuidClaim[u] = s
  <2> DEFINE w == Uuid[doc[s]]
  <2>1. /\ w \in Uuids /\ uuidClaim[w] = s /\ purchases'[w] \in StoredPurchase
        /\ purchases' = [u \in Uuids |-> IF u = w THEN purchases'[u]
                                         ELSE purchases[u]]
    BY <1>2, StoredIsWhole
  <2> HIDE DEF w
  <2>2. \A u \in Uuids : u = w \/ purchases'[u] = purchases[u]
    BY <2>1
  <2>3. purchases' = [u \in Uuids |-> purchases'[u]]
    BY <2>1
  <2>4. QED
    BY <2>1, <2>2, <2>3 DEF ImportInv, TypeOK
<1>4. /\ UNCHANGED supplierVars
      /\ products' \subseteq ProductKeys
      /\ lastSeen' \in [ProductKeys -> Documents \cup {None}]
  BY <1>2, StoredIsWhole DEF Store, WrittenProducts, ImportInv, TypeOK
<1>5. QED
  BY <1>1, <1>3, <1>4, AnswerKeepsInv

\* At the start there are no imports.
LEMMA InitImportInv == Init => ImportInv
<1> SUFFICES ASSUME Init PROVE ImportInv
  OBVIOUS
<1>1. TypeOK /\ purchases = [u \in Uuids |-> purchases[u]]
  BY DocumentAssumption DEF Init, TypeOK
<1>2. StagesAreSound
  BY DEF Init, StagesAreSound
<1>3. ClaimsAreSound /\ ProductLocksAreSound
  BY DocumentAssumption DEF Init, ClaimsAreSound, ProductLocksAreSound
<1>4. QED
  BY <1>1, <1>2, <1>3 DEF ImportInv

\* No step breaks the invariant of the imports.
LEMMA NextImportInv == ImportInv /\ [Next]_vars => ImportInv'
<1> SUFFICES ASSUME ImportInv, [Next]_vars PROVE ImportInv'
  OBVIOUS
<1>1. CASE UNCHANGED vars
  BY <1>1 DEF vars, supplierVars, storeVars, lockVars, requestVars, ImportInv,
     TypeOK, StagesAreSound, ClaimsAreSound, ProductLocksAreSound
<1>2. QED
  BY <1>1, StepCases, StartsKeepsInv, MovesKeepsInv, RegistersKeepsInv,
     EndsKeepsInv, InsertKeepsInv, StoreLineKeepsInv, CommitsKeepsInv

\* The stages of the imports, their claims and their row locks are sound in
\* every reachable state.
THEOREM ImportSafety == Spec => []ImportInv
  BY InitImportInv, NextImportInv, PTL DEF Spec

\* Every table and every import keeps its type.
THEOREM TypeCorrectness == Spec => []TypeOK
<1>1. ImportInv => TypeOK
  BY DEF ImportInv
<1>2. QED
  BY <1>1, ImportSafety, PTL

----------------------------------------------------------------------------
\* Until its transaction commits an import changes no purchase and no product.
LEMMA OnlyCommitsStore ==
  ASSUME ImportInv, [Next]_vars
  PROVE  \/ UNCHANGED storeVars
         \/ \E s \in Sessions : Commits(s)
<1>1. ASSUME NEW s \in Sessions,
             \/ Starts(s) \/ Moves(s) \/ Registers(s) \/ Ends(s)
             \/ InsertPurchase(s) \/ StoreLine(s)
      PROVE  UNCHANGED storeVars
  BY <1>1 DEF Starts, Moves, Registers, GoOn, Ends, Refuse, InsertPurchase,
     StoreLine
<1>2. QED
  BY <1>1, StepCases DEF vars

\* Supplier rows and their branches are only ever added.
SuppliersGrow ==
  /\ suppliers \subseteq suppliers'
  /\ \A b \in Branches : branchOf[b] # None => branchOf'[b] = branchOf[b]

\* An import removes no supplier and moves no branch.
LEMMA ImportsKeepSuppliers ==
  ASSUME ImportInv, [Next]_vars
  PROVE  SuppliersGrow
<1>1. ASSUME NEW s \in Sessions, Registers(s)
      PROVE  suppliers \subseteq suppliers' /\ branchOf' = branchOf
  BY <1>1 DEF Registers, GoOn
<1>2. ASSUME NEW s \in Sessions,
             \/ Starts(s) \/ Moves(s) \/ Ends(s)
             \/ InsertPurchase(s) \/ StoreLine(s) \/ Commits(s)
      PROVE  suppliers' = suppliers /\ branchOf' = branchOf
  BY <1>2 DEF Starts, Moves, GoOn, Ends, Refuse, InsertPurchase, StoreLine,
     Commits, Store, supplierVars
<1>3. CASE UNCHANGED vars
  BY <1>3 DEF vars, supplierVars, SuppliersGrow
<1>4. QED
  BY <1>1, <1>2, <1>3, StepCases DEF SuppliersGrow

\* Stored purchases stay whole while nothing is stored and suppliers grow.
LEMMA WholeWithoutStore ==
  ASSUME ImportInv, PurchasesAreWhole, UNCHANGED storeVars, SuppliersGrow
  PROVE  PurchasesAreWhole'
<1>1. purchases' = purchases /\ products' = products /\ lastSeen' = lastSeen
  BY DEF storeVars
<1>2. ASSUME NEW u \in Uuids, purchases[u] # None
      PROVE  /\ purchases[u].supplier \in suppliers'
             /\ purchases[u].branch # None =>
                  branchOf'[purchases[u].branch] = purchases[u].supplier
  <2>1. /\ purchases[u] \in StoredPurchase
        /\ purchases[u].supplier \in suppliers
        /\ purchases[u].branch # None =>
             branchOf[purchases[u].branch] = purchases[u].supplier
    BY <1>2 DEF PurchasesAreWhole, ImportInv, TypeOK
  <2>2. /\ purchases[u].branch \in Branches \cup {None}
        /\ purchases[u].supplier \in SupplierIds
    BY <2>1 DEF StoredPurchase
  <2>3. purchases[u].supplier # None
    BY <2>2, DocumentAssumption
  <2>4. QED
    BY <2>1, <2>2, <2>3 DEF SuppliersGrow
<1>3. QED
  BY <1>1, <1>2 DEF PurchasesAreWhole

\* A commit stores the whole document: all lines are stored, and the products
\* of those with a SKU are the rows its transaction has locked.
LEMMA WholeAfterStore ==
  ASSUME ImportInv, PurchasesAreWhole, NEW s \in Sessions, Commits(s)
  PROVE  PurchasesAreWhole'
<1> USE DEF ImportInv
<1> DEFINE d == doc[s]
           x == Uuid[d]
           p == purchases'[x]
           Written == WrittenProducts(s)
<1>0. pc[s] = "lines" /\ lineNo[s] > Len(Concepts[d]) /\ Stored(s) /\ Store(s)
  BY DEF Commits, Stored
<1>1. /\ d \in Documents /\ x \in Uuids /\ supplier[s] \in suppliers
      /\ purchases[x] = None
      /\ p # None /\ p.doc = d /\ p.supplier = supplier[s]
      /\ p.branch = branch[s]
      /\ Len(p.lines) = Len(Concepts[d])
      /\ DOMAIN p.lines = DOMAIN Concepts[d]
      /\ \A i \in DOMAIN Concepts[d] :
           p.lines[i] = IF Concepts[d][i] = NoSku THEN None
                        ELSE <<supplier[s], Concepts[d][i]>>
  BY <1>0, StoredIsWhole
<1>2. \A u \in Uuids \ {x} : purchases'[u] = purchases[u]
  <2>1. purchases' = [u \in Uuids |-> IF u = x THEN purchases'[u] ELSE purchases[u]]
    BY <1>0, StoredIsWhole
  <2> HIDE DEF x
  <2>2. QED
    BY <2>1
<1>3. /\ products' = products \cup Written
      /\ lastSeen' = [k \in ProductKeys |-> IF k \in Written THEN d ELSE lastSeen[k]]
      /\ suppliers' = suppliers /\ branchOf' = branchOf
  BY <1>0 DEF Store, supplierVars
<1>4. \A k \in Written : k \in ProductKeys /\ \E i \in DOMAIN p.lines : p.lines[i] = k
  <2>1. \A k \in Written : k \in ProductKeys /\ productLock[k] = s
    BY DEF WrittenProducts
  <2>2. QED
    BY <1>1, <2>1 DEF ProductLocksAreSound
<1>5. ASSUME NEW i \in DOMAIN Concepts[d], Concepts[d][i] # NoSku
      PROVE  <<supplier[s], Concepts[d][i]>> \in Written
  <2>1. i \in Nat /\ Concepts[d][i] \in Skus /\ i <= Len(Concepts[d])
        /\ Len(Concepts[d]) \in Nat
    BY <1>1, <1>5, ConceptFacts
  <2>2. i < lineNo[s]
    BY <1>0, <2>1 DEF StagesAreSound
  <2>3. <<supplier[s], Concepts[d][i]>> \in ProductKeys
    BY <1>1, <2>1 DEF TypeOK, ProductKeys
  <2>4. productLock[<<supplier[s], Concepts[d][i]>>] = s
    BY <1>0, <1>5, <2>2 DEF ProductLocksAreSound
  <2>5. QED
    BY <2>3, <2>4 DEF WrittenProducts
<1>6. p.branch # None => branchOf[p.branch] = p.supplier
  BY <1>0, <1>1 DEF StagesAreSound
<1> HIDE DEF Written
<1>7. PurchasesAreWhole!1'
  <2> SUFFICES ASSUME NEW u \in Uuids, purchases'[u] # None
               PROVE  LET q == purchases'[u] IN
                      /\ Uuid[q.doc] = u
                      /\ q.supplier \in suppliers
                      /\ q.branch # None => branchOf[q.branch] = q.supplier
                      /\ Len(q.lines) = Len(Concepts[q.doc])
                      /\ \A i \in DOMAIN q.lines :
                           IF Concepts[q.doc][i] = NoSku THEN q.lines[i] = None
                           ELSE /\ q.lines[i] = <<q.supplier, Concepts[q.doc][i]>>
                                /\ q.lines[i] \in products'
    BY <1>3
  <2>1. CASE u = x
    <3>1. \A i \in DOMAIN p.lines :
            IF Concepts[d][i] = NoSku THEN p.lines[i] = None
            ELSE /\ p.lines[i] = <<p.supplier, Concepts[d][i]>>
                 /\ p.lines[i] \in products'
      <4> SUFFICES ASSUME NEW i \in DOMAIN Concepts[d]
                   PROVE  IF Concepts[d][i] = NoSku THEN p.lines[i] = None
                          ELSE /\ p.lines[i] = <<p.supplier, Concepts[d][i]>>
                               /\ p.lines[i] \in products'
        BY <1>1
      <4>1. p.supplier = supplier[s]
        BY <1>1
      <4>2. p.lines[i] = IF Concepts[d][i] = NoSku THEN None
                         ELSE <<supplier[s], Concepts[d][i]>>
        BY <1>1
      <4> HIDE DEF p, d
      <4>3. QED
        BY <1>3, <1>5, <4>1, <4>2
    <3>2. /\ p.doc = d /\ p.supplier \in suppliers
          /\ Len(p.lines) = Len(Concepts[d])
      BY <1>1
    <3> HIDE DEF p
    <3>3. QED
      BY <1>6, <2>1, <3>1, <3>2 DEF p
  <2>2. CASE u # x
    <3>1. purchases'[u] = purchases[u]
      BY <1>2, <2>2
    <3>2. QED
      BY <1>3, <3>1 DEF PurchasesAreWhole
  <2>3. QED
    BY <2>1, <2>2
<1>8. PurchasesAreWhole!2'
  <2> SUFFICES ASSUME NEW k \in products'
               PROVE  /\ lastSeen'[k] # None
                      /\ purchases'[Uuid[lastSeen'[k]]] # None
                      /\ purchases'[Uuid[lastSeen'[k]]].doc = lastSeen'[k]
                      /\ \E i \in DOMAIN purchases'[Uuid[lastSeen'[k]]].lines :
                           purchases'[Uuid[lastSeen'[k]]].lines[i] = k
    OBVIOUS
  <2>1. CASE k \in Written
    <3>1. lastSeen'[k] = d /\ d # None
      BY <1>1, <1>3, <1>4, <2>1, NilAssumption
    <3>2. QED
      BY <1>1, <1>4, <2>1, <3>1
  <2>2. CASE k \notin Written
    <3>1. /\ k \in products /\ k \in ProductKeys /\ lastSeen'[k] = lastSeen[k]
      BY <1>3, <2>2 DEF TypeOK
    <3> DEFINE e == lastSeen[k]
    <3>2. /\ e # None /\ purchases[Uuid[e]] # None /\ purchases[Uuid[e]].doc = e
          /\ \E i \in DOMAIN purchases[Uuid[e]].lines :
               purchases[Uuid[e]].lines[i] = k
      BY <3>1 DEF PurchasesAreWhole
    <3>3. Uuid[e] \in Uuids /\ Uuid[e] # x
      BY <1>1, <3>1, <3>2 DEF TypeOK, Uuids
    <3>4. purchases'[Uuid[e]] = purchases[Uuid[e]]
      BY <1>2, <3>3
    <3>5. QED
      BY <3>1, <3>2, <3>4
  <2>3. QED
    BY <2>1, <2>2
<1>9. QED
  BY <1>7, <1>8 DEF PurchasesAreWhole

\* A document is stored whole or not at all, whatever imports run beside each
\* other, fail or lose their acknowledgement.
THEOREM WholeDocuments == Spec => []PurchasesAreWhole
<1>1. Init => PurchasesAreWhole
  BY DEF Init, PurchasesAreWhole
<1>2. ImportInv /\ PurchasesAreWhole /\ [Next]_vars => PurchasesAreWhole'
  BY OnlyCommitsStore, ImportsKeepSuppliers, WholeWithoutStore, WholeAfterStore
<1>3. QED
  BY <1>1, <1>2, ImportSafety, PTL DEF Spec

----------------------------------------------------------------------------
\* Imports of one fiscal UUID are told the truth about who stored it, and a
\* stored purchase never changes.
THEOREM ImportsAreTruthful == Spec => ImportTellsTruth
<1> DEFINE Kept == \A u \in Uuids : purchases[u] # None => purchases'[u] = purchases[u]
           Told(s) ==
             pc[s] # "idle" /\ pc'[s] = "idle" =>
               LET u == Uuid[doc[s]] IN
               /\ reply'[s] = "created" =>
                    /\ purchases[u] = None
                    /\ purchases'[u].doc = doc[s]
                    /\ purchases'[u].supplier = supplier[s]
               /\ reply'[s] = "existing" =>
                    purchases[u] # None /\ SameContent(purchases[u].doc, doc[s])
               /\ reply'[s] = "ErrPurchaseConflict" =>
                    purchases[u] # None /\ ~SameContent(purchases[u].doc, doc[s])
               /\ reply'[s] \in {"ErrValidation", "ErrNotFound"} =>
                    UNCHANGED purchases
<1>1. ImportInv /\ [Next]_vars => [Kept /\ \A s \in Sessions : Told(s)]_vars
  <2> SUFFICES ASSUME ImportInv, [Next]_vars
               PROVE  UNCHANGED vars \/ (Kept /\ \A s \in Sessions : Told(s))
    OBVIOUS
  <2>0. /\ pc \in [Sessions -> Stages] /\ reply \in [Sessions -> Answers]
    BY DEF ImportInv, TypeOK, Stages, Answers
  <2>1. ASSUME NEW t \in Sessions,
               \/ Starts(t) \/ Moves(t) \/ Registers(t)
               \/ InsertPurchase(t) \/ StoreLine(t)
        PROVE  purchases' = purchases /\ \A s \in Sessions : pc'[s] = "idle" => pc[s] = "idle"
    BY <2>0, <2>1 DEF Starts, Moves, Registers, GoOn, InsertPurchase, StoreLine,
       storeVars
  <2>2. ASSUME NEW t \in Sessions, Ends(t)
        PROVE  Kept /\ \A s \in Sessions : Told(s)
    <3>1. PICK e \in Answers \ {"none", "created"} :
            /\ Refuse(t, e)
            /\ e = "existing" => /\ pc[t] = "duplicate"
                                 /\ SameContent(purchases[Uuid[doc[t]]].doc, doc[t])
            /\ e = "ErrPurchaseConflict" =>
                 /\ pc[t] = "duplicate"
                 /\ ~SameContent(purchases[Uuid[doc[t]]].doc, doc[t])
      BY <2>2 DEF Ends
    <3>2. purchases' = purchases
      BY <3>1 DEF Refuse, storeVars
    <3>3. /\ reply'[t] = e
          /\ \A s \in Sessions : s # t => pc'[s] = pc[s]
      BY <2>0, <3>1 DEF Refuse, Answer
    <3>4. pc[t] = "duplicate" => purchases[Uuid[doc[t]]] # None
      BY DEF ImportInv, StagesAreSound
    <3>5. QED
      BY <3>1, <3>2, <3>3, <3>4
  <2>3. ASSUME NEW t \in Sessions, Commits(t)
        PROVE  Kept /\ \A s \in Sessions : Told(s)
    <3>1. PICK a \in {"created", "error"} : Answer(t, a)
      BY <2>3 DEF Commits
    <3>2. /\ reply'[t] = a
          /\ \A s \in Sessions : s # t => pc'[s] = pc[s]
      BY <2>0, <3>1 DEF Answer
    <3>3. /\ purchases[Uuid[doc[t]]] = None
          /\ purchases'[Uuid[doc[t]]].doc = doc[t]
          /\ purchases'[Uuid[doc[t]]].supplier = supplier[t]
      BY <2>3, StoredIsWhole DEF Commits
    <3>4. Kept
      <4>1. purchases' = [u \in Uuids |-> IF u = Uuid[doc[t]]
                                          THEN purchases'[u] ELSE purchases[u]]
        BY <2>3, StoredIsWhole DEF Commits
      <4>2. QED
        BY <3>3, <4>1
    <3>5. QED
      BY <3>1, <3>2, <3>3, <3>4
  <2>4. QED
    BY <2>1, <2>2, <2>3, StepCases
<1>2. QED
  BY <1>1, ImportSafety, PTL DEF Spec, ImportTellsTruth

----------------------------------------------------------------------------
\* While imports alone write suppliers: a tax identifier has one owner, and the
\* supplier of an import or of a purchase owns the identifier of its issuer.
IssuersAreOwned ==
  /\ \A v, w \in suppliers :
       taxIdentifier[v] = taxIdentifier[w] /\ taxIdentifier[v] # None => v = w
  /\ \A s \in Sessions : supplier[s] # None =>
       taxIdentifier[supplier[s]] = Issuer[doc[s]]
  /\ \A u \in Uuids : purchases[u] # None =>
       /\ purchases[u].supplier \in suppliers
       /\ taxIdentifier[purchases[u].supplier] = Issuer[purchases[u].doc]

\* No import takes an owned tax identifier or gives one up.
LEMMA IssuersStep ==
  ImportInv /\ IssuersAreOwned /\ [Next]_vars => IssuersAreOwned'
<1> SUFFICES ASSUME ImportInv, IssuersAreOwned, [Next]_vars
             PROVE  IssuersAreOwned'
  OBVIOUS
<1> USE DEF ImportInv
<1>0. /\ supplier \in [Sessions -> SupplierIds \cup {None}]
      /\ taxIdentifier \in [SupplierIds -> TaxIds \cup {None}]
      /\ doc \in [Sessions -> Documents \cup {None}]
      /\ suppliers \subseteq SupplierIds /\ None \notin SupplierIds
      /\ None \notin TaxIds
      /\ \A s \in Sessions : supplier[s] # None => supplier[s] \in suppliers
      /\ \A s \in Sessions : pc[s] # "idle" => Issuer[doc[s]] \in TaxIds
  BY DocumentAssumption DEF TypeOK, StagesAreSound, TaxIds
<1>1. CASE UNCHANGED vars
  BY <1>1 DEF vars, supplierVars, storeVars, requestVars, IssuersAreOwned
<1>2. ASSUME NEW s \in Sessions, Starts(s)
      PROVE  IssuersAreOwned'
  <2>1. supplier[s] = None /\ supplier' = supplier
    BY <1>2 DEF Starts, StagesAreSound
  <2>2. QED
    BY <1>0, <1>2, <2>1 DEF Starts, supplierVars, storeVars, IssuersAreOwned
<1>3. ASSUME NEW s \in Sessions, Moves(s)
      PROVE  IssuersAreOwned'
  <2>1. PICK v \in suppliers \cup {None} :
          /\ supplier' = [supplier EXCEPT ![s] = v]
          /\ v # None => taxIdentifier[v] = Issuer[doc[s]]
    BY <1>3 DEF Moves, GoOn, OwnersOf, IssuersAreOwned
  <2>2. /\ doc' = doc /\ purchases' = purchases
        /\ suppliers' = suppliers /\ taxIdentifier' = taxIdentifier
    BY <1>3 DEF Moves, GoOn, storeVars, requestVars
  <2>3. QED
    BY <1>0, <2>1, <2>2 DEF IssuersAreOwned
<1>4. ASSUME NEW s \in Sessions, Registers(s)
      PROVE  IssuersAreOwned'
  <2>1. PICK v \in SupplierIds \ suppliers :
          /\ pc[s] = "register" /\ OwnersOf(s) = {}
          /\ suppliers' = suppliers \cup {v}
          /\ taxIdentifier' = [taxIdentifier EXCEPT ![v] = Issuer[doc[s]]]
          /\ supplier' = [supplier EXCEPT ![s] = v]
          /\ doc' = doc /\ purchases' = purchases
    BY <1>4 DEF Registers, GoOn, storeVars, requestVars
  <2>2. /\ taxIdentifier'[v] = Issuer[doc[s]]
        /\ \A w \in suppliers : taxIdentifier'[w] = taxIdentifier[w]
        /\ \A w \in suppliers : taxIdentifier[w] # Issuer[doc[s]]
    BY <1>0, <2>1 DEF OwnersOf
  <2>3. IssuersAreOwned!1'
    BY <2>1, <2>2 DEF IssuersAreOwned
  <2>4. IssuersAreOwned!2'
    BY <1>0, <2>1, <2>2 DEF IssuersAreOwned
  <2>5. IssuersAreOwned!3'
    BY <2>1, <2>2 DEF IssuersAreOwned
  <2>6. QED
    BY <2>3, <2>4, <2>5 DEF IssuersAreOwned
<1>5. ASSUME NEW s \in Sessions, InsertPurchase(s) \/ StoreLine(s)
      PROVE  IssuersAreOwned'
  BY <1>5 DEF InsertPurchase, StoreLine, supplierVars, storeVars, requestVars,
     IssuersAreOwned
<1>6. ASSUME NEW s \in Sessions, Ends(s)
      PROVE  IssuersAreOwned'
  BY <1>0, <1>6 DEF Ends, Refuse, Answer, supplierVars, storeVars,
     IssuersAreOwned
<1>7. ASSUME NEW s \in Sessions, Commits(s)
      PROVE  IssuersAreOwned'
  <2> DEFINE x == Uuid[doc[s]]
  <2>1. /\ supplier[s] \in suppliers
        /\ purchases'[x].doc = doc[s] /\ purchases'[x].supplier = supplier[s]
        /\ purchases' = [u \in Uuids |-> IF u = x THEN purchases'[u] ELSE purchases[u]]
    BY <1>7, StoredIsWhole DEF Commits
  <2>2. suppliers' = suppliers /\ taxIdentifier' = taxIdentifier
    BY <1>7 DEF Commits, Store, supplierVars
  <2>3. IssuersAreOwned!2'
    BY <1>0, <1>7, <2>2 DEF Commits, Answer, IssuersAreOwned
  <2>4. taxIdentifier[supplier[s]] = Issuer[doc[s]]
    BY <1>0, <2>1 DEF IssuersAreOwned
  <2> HIDE DEF x
  <2>5. IssuersAreOwned!3'
    BY <2>1, <2>2, <2>4 DEF IssuersAreOwned
  <2>6. QED
    BY <2>2, <2>3, <2>5 DEF IssuersAreOwned
<1>8. QED
  BY <1>1, <1>2, <1>3, <1>4, <1>5, <1>6, <1>7, StepCases

\* Concurrent imports of one issuer's documents end up with one supplier.
THEOREM OneSupplier == Spec => []OneSupplierPerIssuer
<1>1. Init => IssuersAreOwned
  <2> SUFFICES ASSUME Init PROVE IssuersAreOwned
    OBVIOUS
  <2>1. \A v \in suppliers : taxIdentifier[v] = None
    BY DocumentAssumption DEF Init
  <2>2. /\ \A s \in Sessions : supplier[s] = None
        /\ \A u \in Uuids : purchases[u] = None
    BY DEF Init
  <2>3. QED
    BY <2>1, <2>2 DEF IssuersAreOwned
<1>2. ImportInv /\ IssuersAreOwned => OneSupplierPerIssuer
  <2> SUFFICES ASSUME ImportInv, IssuersAreOwned, NEW s \in Sessions,
                      NEW u \in Uuids, supplier[s] # None, purchases[u] # None,
                      Issuer[doc[s]] = Issuer[purchases[u].doc]
               PROVE  supplier[s] = purchases[u].supplier
    BY DEF OneSupplierPerIssuer
  <2>1. supplier[s] \in suppliers /\ doc[s] \in Documents
    BY DEF ImportInv, StagesAreSound
  <2>2. Issuer[doc[s]] # None
    BY <2>1, DocumentAssumption DEF TaxIds
  <2>3. QED
    BY <2>1, <2>2 DEF IssuersAreOwned
<1>3. QED
  BY <1>1, <1>2, IssuersStep, ImportSafety, PTL DEF Spec

----------------------------------------------------------------------------
\* An import waits only for imports that are storing their lines.
LEMMA WaitsForStoring ==
  ASSUME ImportInv, NEW s \in Sessions, WaitsFor(s) # None
  PROVE  WaitsFor(s) \in {t \in Sessions : pc[t] = "lines"}
<1> USE DEF ImportInv
<1>1. CASE pc[s] = "insert"
  <2>1. Uuid[doc[s]] \in Uuids /\ WaitsFor(s) = uuidClaim[Uuid[doc[s]]]
    BY <1>1 DEF WaitsFor, StagesAreSound, Uuids
  <2>2. WaitsFor(s) \in Sessions
    BY <2>1 DEF TypeOK
  <2>3. QED
    BY <2>1, <2>2 DEF ClaimsAreSound
<1>2. CASE pc[s] # "insert"
  <2>1. /\ MoreLines(s) /\ NextSku(s) # NoSku
        /\ WaitsFor(s) = productLock[NextProduct(s)]
    BY <1>2 DEF WaitsFor
  <2>2. NextProduct(s) \in ProductKeys
    BY <2>1, NextProductType
  <2>3. WaitsFor(s) \in Sessions
    BY <2>1, <2>2 DEF TypeOK
  <2>4. QED
    BY <2>1, <2>2, <2>3 DEF ProductLocksAreSound
<1>3. QED
  BY <1>1, <1>2

\* Whoever waits in a circle is storing lines, and no two such imports have the
\* same fiscal UUID: repeated imports of one document cannot deadlock.
THEOREM SameUuidSafety == Spec => []SameUuidNeverDeadlocks
<1>1. ImportInv => SameUuidNeverDeadlocks
  <2> SUFFICES ASSUME ImportInv, NEW s \in Sessions, NEW t \in Sessions, s # t,
                      s \in Blockers(s), t \in Blockers(s)
               PROVE  /\ pc[s] = "lines" /\ pc[t] = "lines"
                      /\ Uuid[doc[s]] # Uuid[doc[t]]
    BY DEF SameUuidNeverDeadlocks
  <2> DEFINE L == {u \in Sessions : pc[u] = "lines"}
  <2>1. \A u \in L \cup {s} : WaitsFor(u) # None => WaitsFor(u) \in L
    BY WaitsForStoring
  <2>2. L \in SUBSET Sessions
    OBVIOUS
  <2> HIDE DEF L
  <2>3. s \in L /\ t \in L
    BY <2>1, <2>2 DEF Blockers
  <2>4. QED
    BY <2>3 DEF L, ImportInv, ClaimsAreSound
<1>2. QED
  BY <1>1, ImportSafety, PTL
============================================================================
