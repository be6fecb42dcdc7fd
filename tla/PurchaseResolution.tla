------------------------- MODULE PurchaseResolution -------------------------
(***************************************************************************)
(* The transactional core of the purchases component. Clients send mapping *)
(* decisions about SupplierProducts and resolution commands about purchase *)
(* lines; every command runs as one PostgreSQL transaction (READ           *)
(* COMMITTED) that locks the rows it decides on with SELECT ... FOR UPDATE *)
(* (first the line, then the product, then the resources by ascending id), *)
(* decides on the snapshot it read, writes under a compare-and-set on the  *)
(* row's revision, appends an audit entry and commits.                     *)
(*                                                                         *)
(* A session is one server goroutine with its transaction. Its steps are   *)
(* the points where it can wait for another session; what a transaction    *)
(* wrote becomes visible when it commits, so the writes are part of the    *)
(* Commit action. A product is named by its unique (supplier, SKU).        *)
(***************************************************************************)
EXTENDS SupplierProductMapping, Sequences

CONSTANTS
  Sessions,         \* concurrent requests
  Suppliers,
  Products,         \* (supplier, SKU) identities that may get a row
  Lines,            \* purchase lines that may be imported
  ProductSupplier,  \* the supplier of each product identity
  LineSupplier,     \* the supplier of each line's purchase
  Resources,        \* Resource Master identifiers: positive, ordered
  None,             \* a nil identifier, an idle session's request
  Free,             \* an unheld row lock
  Offered,          \* bound: the operations clients ask for
  Reasons,          \* bound: whether decisions state a reason
  MaxRevision       \* bound: the revisions a client may expect

ASSUME IdentifierAssumption ==
  /\ ProductSupplier \in [Products -> Suppliers]
  /\ LineSupplier \in [Lines -> Suppliers]
  /\ Resources \subseteq Nat \ {0}
  /\ Reasons \subseteq BOOLEAN
  /\ MaxRevision \in Nat
  /\ None \notin Products
  /\ Free \notin Sessions

VARIABLES
  recursos,            \* the state of each resource row
  supplierProducts,    \* products that have a committed row
  mapping,             \* resource_id, mapping_identity_conflict
  mappingRevision,
  mappingAudit,        \* supplier_product_mapping_audit, by product
  purchaseLines,       \* lines that have a committed row
  association,         \* supplier_product_id of each line
  override,            \* resolution_override of each line
  resolutionRevision,
  resolutionAudit,     \* purchase_line_resolution_audit, by line
  lineLock, productLock, resourceLock,   \* holder of each row lock
  pc,                  \* where each session's transaction is
  cmd,                 \* the request each session serves
  seen,                \* the rows its transaction has read
  reply                \* the last answer each client received

productVars  == <<supplierProducts, mapping, mappingRevision, mappingAudit>>
lineVars     == <<purchaseLines, association, override, resolutionRevision,
                  resolutionAudit>>
lockVars     == <<lineLock, productLock, resourceLock>>
sessionVars  == <<pc, cmd, seen, reply>>
vars == <<recursos, productVars, lineVars, lockVars, sessionVars>>

Mapping == [resource : Resources \cup {NoResource}, conflict : BOOLEAN]

MappingAuditEntry ==
  [op : MappingOperations, previous : Mapping, next : Mapping,
   previousRevision : Nat, newRevision : Nat]

ResolutionAuditEntry ==
  [previous : Overrides, next : Overrides,
   previousRevision : Nat, newRevision : Nat]

LineOperations == {"RESOLVE_PURCHASE_LINE", "SET_RESOLUTION_OVERRIDE"}

(***************************************************************************)
(* A request: product is the SupplierProduct named by a mapping decision,  *)
(* or the one a line is expected to have, or (fresh) the one its supplier  *)
(* and the commercial SKU of the command identify. expected is a mapping   *)
(* revision, lineExpected a resolution revision.                           *)
(***************************************************************************)
Request ==
  [op : MappingOperations \cup LineOperations,
   line : Lines \cup {None}, product : Products \cup {None}, fresh : BOOLEAN,
   target : Resources \cup {NoResource}, current : Resources \cup {NoResource},
   expected : Nat, lineExpected : Nat, override : Overrides, reason : BOOLEAN]

BlankRequest ==
  [op |-> "CONFIRM", line |-> None, product |-> None, fresh |-> FALSE,
   target |-> NoResource, current |-> NoResource,
   expected |-> 0, lineExpected |-> 0, override |-> "NONE", reason |-> FALSE]

\* The rows a transaction read under its locks; active holds the resources
\* it found active.
Snapshot ==
  [mapping : Mapping, revision : Nat, override : Overrides,
   lineRevision : Nat, active : SUBSET Resources]

BlankSnapshot ==
  [mapping |-> Unresolved, revision |-> 0, override |-> "NONE",
   lineRevision |-> 0, active |-> {}]

Dispositions == {"CREATED", "REUSED", "ALREADY_MAPPED"}

Replies ==
  {"none", "changed", "unchanged", "cancelled", "ErrCommitAmbiguous",
   "ErrSupplierProductNotFound", "ErrPurchaseLineNotFound",
   "ErrResourceNotFound", "ErrResourceInactive",
   "ErrInvalidDecisionMetadata", "ErrInvalidMappingTransition",
   "ErrStaleMappingRevision", "ErrStaleResolutionRevision",
   "ErrPurchaseLineStateConflict", "ErrMappingTargetConflict",
   "ErrPurchaseIntegrityConflict"} \cup Dispositions

Revisions == 0 .. (MaxRevision - 1)

Init ==
  /\ recursos = [r \in Resources |-> "absent"]
  /\ supplierProducts = {}
  /\ mapping = [p \in Products |-> Unresolved]
  /\ mappingRevision = [p \in Products |-> 0]
  /\ mappingAudit = [p \in Products |-> <<>>]
  /\ purchaseLines = {}
  /\ association = [l \in Lines |-> None]
  /\ override = [l \in Lines |-> "NONE"]
  /\ resolutionRevision = [l \in Lines |-> 0]
  /\ resolutionAudit = [l \in Lines |-> <<>>]
  /\ lineLock = [l \in Lines |-> Free]
  /\ productLock = [p \in Products |-> Free]
  /\ resourceLock = [r \in Resources |-> Free]
  /\ pc = [s \in Sessions |-> "idle"]
  /\ cmd = [s \in Sessions |-> None]
  /\ seen = [s \in Sessions |-> BlankSnapshot]
  /\ reply = [s \in Sessions |-> "none"]

----------------------------------------------------------------------------
(***************************************************************************)
(* Requests. The public seam and the application service let a request     *)
(* through only with positive identifiers, a manual decision with actor    *)
(* and time, and a consistent line snapshot (a product comes with a        *)
(* mapping revision and no SKU, no product comes with a SKU).              *)
(***************************************************************************)
Begin(s, request, first) ==
  /\ pc[s] = "idle"
  /\ request.op \in Offered
  /\ pc' = [pc EXCEPT ![s] = first]
  /\ cmd' = [cmd EXCEPT ![s] = request]
  /\ reply' = [reply EXCEPT ![s] = "none"]
  /\ UNCHANGED <<recursos, productVars, lineVars, lockVars, seen>>

RequestConfirm(s) ==
  \E p \in Products, r \in Resources, e \in Revisions :
    Begin(s, [BlankRequest EXCEPT !.op = "CONFIRM", !.product = p,
                !.target = r, !.expected = e], "product")

RequestCorrect(s) ==
  \E p \in Products, c, r \in Resources, e \in Revisions, why \in Reasons :
    Begin(s, [BlankRequest EXCEPT !.op = "CORRECT", !.product = p,
                !.current = c, !.target = r, !.expected = e, !.reason = why],
          "product")

RequestUnlink(s) ==
  \E p \in Products, c \in Resources, e \in Revisions, why \in Reasons :
    Begin(s, [BlankRequest EXCEPT !.op = "EXCEPTIONAL_UNLINK", !.product = p,
                !.current = c, !.expected = e, !.reason = why], "product")

RequestReportConflict(s) ==
  \E p \in Products, c \in Resources, e \in Revisions, why \in Reasons :
    Begin(s, [BlankRequest EXCEPT !.op = "REPORT_IDENTITY_CONFLICT",
                !.product = p, !.current = c, !.expected = e, !.reason = why],
          "product")

RequestResolveConflict(s) ==
  \E p \in Products, c, r \in Resources, e \in Revisions, why \in Reasons :
    Begin(s, [BlankRequest EXCEPT !.op = "RESOLVE_IDENTITY_CONFLICT",
                !.product = p, !.current = c, !.target = r,
                !.expected = e, !.reason = why], "product")

\* A line without product: the command's SKU names one of its supplier's.
RequestResolveFresh(s) ==
  \E l \in Lines, p \in Products, r \in Resources, n \in Revisions :
    /\ ProductSupplier[p] = LineSupplier[l]
    /\ Begin(s, [BlankRequest EXCEPT !.op = "RESOLVE_PURCHASE_LINE",
                   !.line = l, !.product = p, !.fresh = TRUE, !.target = r,
                   !.lineExpected = n], "line")

\* A line with a product: the client names the product and both revisions.
RequestResolveKnown(s) ==
  \E l \in Lines, p \in Products, r \in Resources, e, n \in Revisions :
    Begin(s, [BlankRequest EXCEPT !.op = "RESOLVE_PURCHASE_LINE",
                !.line = l, !.product = p, !.target = r,
                !.expected = e, !.lineExpected = n], "line")

RequestOverride(s) ==
  \E l \in Lines, o \in Overrides, n \in Revisions :
    Begin(s, [BlankRequest EXCEPT !.op = "SET_RESOLUTION_OVERRIDE",
                !.line = l, !.override = o, !.lineExpected = n], "line")

----------------------------------------------------------------------------
(***************************************************************************)
(* What a transaction decides, and on which snapshot.                      *)
(***************************************************************************)

\* Mutant: the override is not looked at.
LineVerdictWithoutOverride(s) ==
  LET l == cmd[s].line IN
  IF l \notin purchaseLines THEN "ErrPurchaseLineNotFound"
  ELSE IF cmd[s].op = "SET_RESOLUTION_OVERRIDE" THEN "ok"
  ELSE IF resolutionRevision[l] # cmd[s].lineExpected
  THEN "ErrStaleResolutionRevision"
  ELSE IF association[l] # (IF cmd[s].fresh THEN None ELSE cmd[s].product)
  THEN "ErrPurchaseLineStateConflict"
  ELSE "ok"

\* The checks on the locked line before anything else is read.
LineVerdict(s) ==
  LET l == cmd[s].line IN
  CASE l \notin purchaseLines -> "ErrPurchaseLineNotFound"
    [] l \in purchaseLines /\ cmd[s].op = "SET_RESOLUTION_OVERRIDE" -> "ok"
    [] l \in purchaseLines /\ cmd[s].op = "RESOLVE_PURCHASE_LINE" ->
         IF resolutionRevision[l] # cmd[s].lineExpected
         THEN "ErrStaleResolutionRevision"
         ELSE IF association[l] # (IF cmd[s].fresh THEN None
                                   ELSE cmd[s].product)
         THEN "ErrPurchaseLineStateConflict"
         ELSE IF override[l] # "NONE" THEN "ErrPurchaseLineStateConflict"
         ELSE "ok"

\* The checks on the locked (or just inserted) product.
ProductVerdict(s) ==
  LET p == cmd[s].product
      k == KnowledgeState(mapping[p])
  IN
  IF cmd[s].op \in MappingOperations
  THEN IF p \in supplierProducts THEN "ok" ELSE "ErrSupplierProductNotFound"
  ELSE IF cmd[s].fresh
  THEN IF \/ k = "UNRESOLVED"
          \/ k = "CONFIRMED" /\ mapping[p].resource = cmd[s].target
       THEN "ok" ELSE "ErrMappingTargetConflict"
  ELSE IF \/ p \notin supplierProducts
          \/ ProductSupplier[p] # LineSupplier[cmd[s].line]
       THEN "ErrPurchaseIntegrityConflict"
       ELSE IF k = "UNRESOLVED" THEN "ok" ELSE "ErrPurchaseLineStateConflict"

\* Resolving a line confirms its product. A fresh association carries no
\* expected mapping revision: the one just read stands for it.
MappingOp(s) == IF cmd[s].op = "RESOLVE_PURCHASE_LINE" THEN "CONFIRM"
                ELSE cmd[s].op

MappingRequest(s) == IF cmd[s].fresh
                     THEN [cmd[s] EXCEPT !.expected = seen[s].revision]
                     ELSE cmd[s]

DomainVerdict(s) ==
  IF cmd[s].op = "SET_RESOLUTION_OVERRIDE"
  THEN ChangeResolutionOverride(seen[s].override, seen[s].lineRevision,
                                cmd[s].override, cmd[s].lineExpected)
  ELSE MappingVerdict(MappingOp(s), seen[s].mapping, seen[s].revision,
                      MappingRequest(s))

\* A confirmation decides first and locks its target only for a change; the
\* other decisions lock first.
ResourcesToLock(s) ==
  CASE cmd[s].op = "CONFIRM" ->
         IF DomainVerdict(s) = "changed" THEN {cmd[s].target} ELSE {}
    [] cmd[s].op \in {"CORRECT", "RESOLVE_IDENTITY_CONFLICT"} ->
         {cmd[s].current, cmd[s].target}
    [] cmd[s].op \in {"EXCEPTIONAL_UNLINK", "REPORT_IDENTITY_CONFLICT"} ->
         {cmd[s].current}
    [] cmd[s].op = "RESOLVE_PURCHASE_LINE" -> {cmd[s].target}
    [] cmd[s].op = "SET_RESOLUTION_OVERRIDE" -> {}

Wanted(s) == {r \in ResourcesToLock(s) : resourceLock[r] # s}

\* Mutant: resolving a conflict does not look at the target's activity.
RequiresActiveTargetUnlessConflict(s) ==
  \/ cmd[s].op \in {"CORRECT", "RESOLVE_PURCHASE_LINE"}
  \/ cmd[s].op = "CONFIRM" /\ DomainVerdict(s) = "changed"

RequiresActiveTarget(s) ==
  \/ cmd[s].op \in {"CORRECT", "RESOLVE_IDENTITY_CONFLICT",
                    "RESOLVE_PURCHASE_LINE"}
  \/ cmd[s].op = "CONFIRM" /\ DomainVerdict(s) = "changed"

\* The UPDATE statements write only over the revision (and, for a fresh
\* association, the null product) the decision was made on.
StillCurrent(s) ==
  IF cmd[s].op = "SET_RESOLUTION_OVERRIDE"
  THEN resolutionRevision[cmd[s].line] = cmd[s].lineExpected
  ELSE mappingRevision[cmd[s].product] = MappingRequest(s).expected

Verdict(s) ==
  IF RequiresActiveTarget(s) /\ cmd[s].target \notin seen[s].active
  THEN "ErrResourceInactive"
  ELSE IF cmd[s].fresh /\ DomainVerdict(s) = "ErrInvalidMappingTransition"
  THEN "ErrMappingTargetConflict"
  ELSE IF DomainVerdict(s) = "changed" /\ ~StillCurrent(s)
  THEN IF cmd[s].op = "SET_RESOLUTION_OVERRIDE"
       THEN "ErrStaleResolutionRevision" ELSE "ErrStaleMappingRevision"
  ELSE IF cmd[s].fresh /\ association[cmd[s].line] # None
  THEN "ErrPurchaseLineStateConflict"
  ELSE DomainVerdict(s)

Accepted(s) == Verdict(s) \in {"changed", "unchanged"}

\* The answer of a successful commit.
commercialIdentityDisposition(s) ==
  CASE cmd[s].product \notin supplierProducts -> "CREATED"
    [] cmd[s].product \in supplierProducts /\ Verdict(s) = "changed" -> "REUSED"
    [] cmd[s].product \in supplierProducts /\ Verdict(s) # "changed" ->
         "ALREADY_MAPPED"

Answer(s) == IF cmd[s].op = "RESOLVE_PURCHASE_LINE"
             THEN commercialIdentityDisposition(s) ELSE Verdict(s)

----------------------------------------------------------------------------
(***************************************************************************)
(* Transaction steps.                                                      *)
(***************************************************************************)

\* Mutant: a transaction that ends keeps its product row locked.
FinishKeepingProduct(s, answer) ==
  /\ lineLock' = [l \in Lines |->
                    IF lineLock[l] = s THEN Free ELSE lineLock[l]]
  /\ resourceLock' = [r \in Resources |->
                        IF resourceLock[r] = s THEN Free ELSE resourceLock[r]]
  /\ pc' = [pc EXCEPT ![s] = "idle"]
  /\ cmd' = [cmd EXCEPT ![s] = None]
  /\ seen' = [seen EXCEPT ![s] = BlankSnapshot]
  /\ reply' = [reply EXCEPT ![s] = answer]
  /\ UNCHANGED productLock

\* The transaction ends, by commit or rollback: its locks are released and
\* the client is answered.
Finish(s, answer) ==
  /\ lineLock' = [l \in Lines |->
                    IF lineLock[l] = s THEN Free ELSE lineLock[l]]
  /\ productLock' = [p \in Products |->
                       IF productLock[p] = s THEN Free ELSE productLock[p]]
  /\ resourceLock' = [r \in Resources |->
                        IF resourceLock[r] = s THEN Free ELSE resourceLock[r]]
  /\ pc' = [pc EXCEPT ![s] = "idle"]
  /\ cmd' = [cmd EXCEPT ![s] = None]
  /\ seen' = [seen EXCEPT ![s] = BlankSnapshot]
  /\ reply' = [reply EXCEPT ![s] = answer]

Refuse(s, error) ==
  /\ Finish(s, error)
  /\ UNCHANGED <<recursos, productVars, lineVars>>

\* SELECT ... FOR UPDATE OF pl: waits for the holder of a visible row.
LineReady(s) == cmd[s].line \in purchaseLines => lineLock[cmd[s].line] = Free

LockLine(s) ==
  /\ pc[s] = "line"
  /\ LineReady(s)
  /\ LineVerdict(s) = "ok"
  /\ lineLock' = [lineLock EXCEPT ![cmd[s].line] = s]
  /\ seen' = [seen EXCEPT ![s] =
                [@ EXCEPT !.override = override[cmd[s].line],
                          !.lineRevision = resolutionRevision[cmd[s].line]]]
  /\ pc' = [pc EXCEPT ![s] = IF cmd[s].op = "SET_RESOLUTION_OVERRIDE"
                             THEN "decide" ELSE "product"]
  /\ UNCHANGED <<recursos, productVars, lineVars, productLock, resourceLock,
                 cmd, reply>>

RefuseLine(s) ==
  /\ pc[s] = "line"
  /\ LineReady(s)
  /\ LineVerdict(s) # "ok"
  /\ Refuse(s, LineVerdict(s))

(***************************************************************************)
(* A mapping decision locks a visible product row and finds no other. A    *)
(* fresh association inserts the product or takes the existing row with an *)
(* UPDATE; it waits both for a row's holder and for an uncommitted insert  *)
(* of the same (supplier, SKU).                                            *)
(***************************************************************************)
ProductReady(s) ==
  cmd[s].fresh \/ cmd[s].product \in supplierProducts =>
    productLock[cmd[s].product] = Free

\* Mutant: the product is read without FOR UPDATE.
ReadProduct(s) ==
  /\ pc[s] = "product"
  /\ ProductReady(s)
  /\ ProductVerdict(s) = "ok"
  /\ seen' = [seen EXCEPT ![s] =
                [@ EXCEPT !.mapping = mapping[cmd[s].product],
                          !.revision = mappingRevision[cmd[s].product]]]
  /\ pc' = [pc EXCEPT ![s] = "decide"]
  /\ UNCHANGED <<recursos, productVars, lineVars, lockVars, cmd, reply>>

LockProduct(s) ==
  /\ pc[s] = "product"
  /\ ProductReady(s)
  /\ ProductVerdict(s) = "ok"
  /\ productLock' = [productLock EXCEPT ![cmd[s].product] = s]
  /\ seen' = [seen EXCEPT ![s] =
                [@ EXCEPT !.mapping = mapping[cmd[s].product],
                          !.revision = mappingRevision[cmd[s].product]]]
  /\ pc' = [pc EXCEPT ![s] = "decide"]
  /\ UNCHANGED <<recursos, productVars, lineVars, lineLock, resourceLock,
                 cmd, reply>>

RefuseProduct(s) ==
  /\ pc[s] = "product"
  /\ ProductReady(s)
  /\ ProductVerdict(s) # "ok"
  /\ Refuse(s, ProductVerdict(s))

\* Mutant: the current resource is locked first, whatever its identifier.
CurrentResourceFirst(s, r) ==
  /\ pc[s] = "decide"
  /\ r \in Wanted(s)
  /\ cmd[s].current \in Wanted(s) => r = cmd[s].current

\* The resource a transaction locks next: ascending identifiers.
NextResource(s, r) ==
  /\ pc[s] = "decide"
  /\ r \in Wanted(s)
  /\ \A q \in Wanted(s) : r <= q

LockResource(s) ==
  \E r \in Resources :
    /\ NextResource(s, r)
    /\ recursos[r] # "absent"
    /\ resourceLock[r] = Free
    /\ resourceLock' = [resourceLock EXCEPT ![r] = s]
    /\ seen' = IF recursos[r] = "active"
               THEN [seen EXCEPT ![s] = [seen[s] EXCEPT !.active = @ \cup {r}]]
               ELSE seen
    /\ UNCHANGED <<recursos, productVars, lineVars, lineLock, productLock,
                   pc, cmd, reply>>

RefuseResource(s) ==
  \E r \in Resources :
    /\ NextResource(s, r)
    /\ recursos[r] = "absent"
    /\ Refuse(s, "ErrResourceNotFound")

RefuseDecision(s) ==
  /\ pc[s] = "decide"
  /\ Wanted(s) = {}
  /\ ~Accepted(s)
  /\ Refuse(s, Verdict(s))

\* Mutant: the previous revision is written back instead of the next one.
WriteMappingBackwards(s) ==
  LET p    == cmd[s].product
      next == NextMapping(MappingOp(s), seen[s].mapping, cmd[s])
  IN
  /\ mapping' = [mapping EXCEPT ![p] = next]
  /\ mappingRevision' = [mappingRevision EXCEPT ![p] = @ - 1]
  /\ UNCHANGED mappingAudit

\* Mutant: the audit entry is built after the aggregate took its new mapping.
WriteMappingThenAudit(s) ==
  LET p    == cmd[s].product
      next == NextMapping(MappingOp(s), seen[s].mapping, cmd[s])
      rev  == seen[s].revision
  IN
  /\ mapping' = [mapping EXCEPT ![p] = next]
  /\ mappingRevision' = [mappingRevision EXCEPT ![p] = rev + 1]
  /\ mappingAudit' = [mappingAudit EXCEPT ![p] = Append(@,
       [op |-> MappingOp(s), previous |-> next, next |-> next,
        previousRevision |-> rev, newRevision |-> rev + 1])]

\* persistMappingTransition, the association of the line and the override
\* update: nothing but the changed rows and their audit entries.
WriteMapping(s) ==
  LET p    == cmd[s].product
      next == NextMapping(MappingOp(s), seen[s].mapping, cmd[s])
      rev  == seen[s].revision
  IN
  /\ mapping' = [mapping EXCEPT ![p] = next]
  /\ mappingRevision' = [mappingRevision EXCEPT ![p] = rev + 1]
  /\ mappingAudit' = [mappingAudit EXCEPT ![p] = Append(@,
       [op |-> MappingOp(s), previous |-> seen[s].mapping, next |-> next,
        previousRevision |-> rev, newRevision |-> rev + 1])]

WriteOverride(s) ==
  LET l   == cmd[s].line
      rev == seen[s].lineRevision
  IN
  /\ override' = [override EXCEPT ![l] = cmd[s].override]
  /\ resolutionRevision' = [resolutionRevision EXCEPT ![l] = rev + 1]
  /\ resolutionAudit' = [resolutionAudit EXCEPT ![l] = Append(@,
       [previous |-> seen[s].override, next |-> cmd[s].override,
        previousRevision |-> rev, newRevision |-> rev + 1])]

\* Mutant: the product is inserted, the line is not updated.
AssociateNothing(s) ==
  /\ supplierProducts' = supplierProducts \cup {cmd[s].product}
  /\ UNCHANGED association

\* A resolved line without product gets the one inserted or found.
Associate(s) ==
  /\ supplierProducts' = supplierProducts \cup {cmd[s].product}
  /\ association' = [association EXCEPT ![cmd[s].line] = cmd[s].product]

Persist(s) ==
  /\ IF cmd[s].op # "SET_RESOLUTION_OVERRIDE" /\ Verdict(s) = "changed"
     THEN WriteMapping(s)
     ELSE UNCHANGED <<mapping, mappingRevision, mappingAudit>>
  /\ IF cmd[s].op = "SET_RESOLUTION_OVERRIDE" /\ Verdict(s) = "changed"
     THEN WriteOverride(s)
     ELSE UNCHANGED <<override, resolutionRevision, resolutionAudit>>
  /\ IF cmd[s].fresh
     THEN Associate(s)
     ELSE UNCHANGED <<supplierProducts, association>>
  /\ UNCHANGED <<recursos, purchaseLines>>

Ready(s) == pc[s] = "decide" /\ Wanted(s) = {} /\ Accepted(s)

Commit(s) == Ready(s) /\ Persist(s) /\ Finish(s, Answer(s))

\* The commit took effect and its acknowledgement was lost.
CommitUnacknowledged(s) ==
  Ready(s) /\ Persist(s) /\ Finish(s, "ErrCommitAmbiguous")

\* The commit failed; the client gets the same answer.
CommitFailed(s) == Ready(s) /\ Refuse(s, "ErrCommitAmbiguous")

\* Cancelled context, lost connection or a crash: the database rolls back.
Rollback(s) == pc[s] # "idle" /\ Refuse(s, "cancelled")

----------------------------------------------------------------------------
(***************************************************************************)
(* The neighbours that write the same rows.                                *)
(***************************************************************************)

\* Import of a purchase with the line l: without a SKU it has no product, with
\* one it inserts or takes the product row. Mapping authority is left alone.
ImportPlainLine(l) ==
  /\ l \notin purchaseLines
  /\ purchaseLines' = purchaseLines \cup {l}
  /\ UNCHANGED <<recursos, productVars, association, override,
                 resolutionRevision, resolutionAudit, lockVars, sessionVars>>

ImportSkuLine(l, p) ==
  /\ l \notin purchaseLines
  /\ ProductSupplier[p] = LineSupplier[l]
  /\ productLock[p] = Free
  /\ purchaseLines' = purchaseLines \cup {l}
  /\ supplierProducts' = supplierProducts \cup {p}
  /\ association' = [association EXCEPT ![l] = p]
  /\ UNCHANGED <<recursos, mapping, mappingRevision, mappingAudit, override,
                 resolutionRevision, resolutionAudit, lockVars, sessionVars>>

\* Resource Master: creation, and a lifecycle change under the row's lock.
SetResource(r, from, to) ==
  /\ recursos[r] = from
  /\ resourceLock[r] = Free
  /\ recursos' = [recursos EXCEPT ![r] = to]
  /\ UNCHANGED <<productVars, lineVars, lockVars, sessionVars>>

CreateResource(r)     == SetResource(r, "absent", "active")
DeactivateResource(r) == SetResource(r, "active", "inactive")
ReactivateResource(r) == SetResource(r, "inactive", "active")

----------------------------------------------------------------------------
NewRequest(s) ==
  \/ RequestConfirm(s)
  \/ RequestCorrect(s)
  \/ RequestUnlink(s)
  \/ RequestReportConflict(s)
  \/ RequestResolveConflict(s)
  \/ RequestResolveFresh(s)
  \/ RequestResolveKnown(s)
  \/ RequestOverride(s)

\* What the server and the database do for a session once it has a request.
Serve(s) ==
  \/ LockLine(s)
  \/ RefuseLine(s)
  \/ LockProduct(s)
  \/ RefuseProduct(s)
  \/ LockResource(s)
  \/ RefuseResource(s)
  \/ RefuseDecision(s)
  \/ Commit(s)
  \/ CommitUnacknowledged(s)
  \/ CommitFailed(s)

Neighbours ==
  \/ \E l \in Lines : ImportPlainLine(l)
  \/ \E l \in Lines, p \in Products : ImportSkuLine(l, p)
  \/ \E r \in Resources : CreateResource(r)
  \/ \E r \in Resources : DeactivateResource(r)
  \/ \E r \in Resources : ReactivateResource(r)

Next ==
  \/ \E s \in Sessions : NewRequest(s)
  \/ \E s \in Sessions : Serve(s)
  \/ \E s \in Sessions : Rollback(s)
  \/ Neighbours

Spec == Init /\ [][Next]_vars

\* A lock's holder hands it to a waiter when it ends (PostgreSQL queues the
\* waiters), and a transaction that can proceed does.
FairSpec == Spec /\ \A s \in Sessions : SF_vars(Serve(s))

----------------------------------------------------------------------------
(***************************************************************************)
(* Properties.                                                             *)
(***************************************************************************)

\* Every variable holds what its column or Go value can hold.
TypeOK ==
  /\ recursos \in [Resources -> {"absent", "active", "inactive"}]
  /\ supplierProducts \subseteq Products
  /\ mapping \in [Products -> Mapping]
  /\ mappingRevision \in [Products -> Nat]
  /\ mappingAudit \in [Products -> Seq(MappingAuditEntry)]
  /\ purchaseLines \subseteq Lines
  /\ association \in [Lines -> Products \cup {None}]
  /\ override \in [Lines -> Overrides]
  /\ resolutionRevision \in [Lines -> Nat]
  /\ resolutionAudit \in [Lines -> Seq(ResolutionAuditEntry)]
  /\ lineLock \in [Lines -> Sessions \cup {Free}]
  /\ productLock \in [Products -> Sessions \cup {Free}]
  /\ resourceLock \in [Resources -> Sessions \cup {Free}]
  /\ pc \in [Sessions -> {"idle", "line", "product", "decide"}]
  /\ cmd \in [Sessions -> Request \cup {None}]
  /\ seen \in [Sessions -> Snapshot]
  /\ reply \in [Sessions -> Replies]

\* Requests as the public seam lets them through: a mapping decision names a
\* product, a line command a line, and the resources its operation needs.
WellFormed(q) ==
  /\ q \in Request
  /\ q.op # "SET_RESOLUTION_OVERRIDE" => q.product \in Products
  /\ q.op \in LineOperations => q.line \in Lines
  /\ q.op \notin {"EXCEPTIONAL_UNLINK", "REPORT_IDENTITY_CONFLICT",
                  "SET_RESOLUTION_OVERRIDE"} => q.target \in Resources
  /\ q.op \notin {"CONFIRM", "RESOLVE_PURCHASE_LINE",
                  "SET_RESOLUTION_OVERRIDE"} => q.current \in Resources
  /\ q.fresh => /\ q.op = "RESOLVE_PURCHASE_LINE"
                /\ ProductSupplier[q.product] = LineSupplier[q.line]

\* A session serves a well-formed request, and only the operations that lock a
\* line, or a product, wait for one.
RequestsWellFormed ==
  \A s \in Sessions :
    pc[s] # "idle" =>
      /\ WellFormed(cmd[s])
      /\ pc[s] = "line" => cmd[s].op \in LineOperations
      /\ pc[s] = "product" => cmd[s].op # "SET_RESOLUTION_OVERRIDE"

HoldsLine(s)    == pc[s] \in {"product", "decide"} /\ cmd[s].op \in LineOperations
HoldsProduct(s) == pc[s] = "decide" /\ cmd[s].op # "SET_RESOLUTION_OVERRIDE"

\* A session holds the lock of its line from LockLine on, of its product from
\* LockProduct on, of resources only while it decides, and no others.
LocksAreHeld ==
  \A s \in Sessions :
    /\ \A l \in Lines : lineLock[l] = s <=> HoldsLine(s) /\ cmd[s].line = l
    /\ \A p \in Products :
         productLock[p] = s <=> HoldsProduct(s) /\ cmd[s].product = p
    /\ \A r \in Resources : resourceLock[r] = s => pc[s] = "decide"

\* What a transaction has read is still what the rows hold when it uses it:
\* the product and line it decides on, the line snapshot it checked before
\* waiting for the product, and the activity of the resources it locked.
SnapshotsAreCurrent ==
  \A s \in Sessions :
    /\ HoldsProduct(s) =>
         /\ seen[s].mapping = mapping[cmd[s].product]
         /\ seen[s].revision = mappingRevision[cmd[s].product]
         /\ cmd[s].fresh \/ cmd[s].product \in supplierProducts
    /\ HoldsLine(s) =>
         /\ cmd[s].line \in purchaseLines
         /\ seen[s].override = override[cmd[s].line]
         /\ seen[s].lineRevision = resolutionRevision[cmd[s].line]
         /\ cmd[s].op = "RESOLVE_PURCHASE_LINE" =>
              /\ resolutionRevision[cmd[s].line] = cmd[s].lineExpected
              /\ override[cmd[s].line] = "NONE"
              /\ association[cmd[s].line] =
                   IF cmd[s].fresh THEN None ELSE cmd[s].product
    /\ \A r \in seen[s].active :
         resourceLock[r] = s /\ recursos[r] = "active"

\* The audit trail of a product explains its current mapping: the revision
\* counts the entries, each entry starts from what the one before it stored,
\* the first from unresolved knowledge, and the last one stored the current
\* mapping (persistMappingTransition under runMappingTransition's row lock).
AuditReplaysMapping ==
  \A p \in Products :
    LET a == mappingAudit[p] IN
    /\ mappingRevision[p] = Len(a)
    /\ mapping[p] = IF a = <<>> THEN Unresolved ELSE a[Len(a)].next
    /\ \A i \in 1 .. Len(a) :
         /\ a[i].previousRevision = i - 1
         /\ a[i].newRevision = i
         /\ a[i].previous = IF i = 1 THEN Unresolved ELSE a[i - 1].next

\* The same for the override of a line (SetResolutionOverride): the trail
\* replays to the stored override, and no entry records a non-change.
AuditReplaysOverride ==
  \A l \in Lines :
    LET a == resolutionAudit[l] IN
    /\ resolutionRevision[l] = Len(a)
    /\ override[l] = IF a = <<>> THEN "NONE" ELSE a[Len(a)].next
    /\ \A i \in 1 .. Len(a) :
         /\ a[i].previousRevision = i - 1
         /\ a[i].newRevision = i
         /\ a[i].previous = IF i = 1 THEN "NONE" ELSE a[i - 1].next
         /\ a[i].previous # a[i].next

\* No mapping is learned without a line that needs it: a product row comes
\* from an import or from a resolution and is committed together with the
\* line that uses it, and a line's product is one of its own supplier's.
ProductsHaveLines ==
  /\ \A p \in supplierProducts : \E l \in purchaseLines : association[l] = p
  /\ \A l \in Lines : association[l] # None =>
       /\ l \in purchaseLines
       /\ association[l] \in supplierProducts
       /\ ProductSupplier[association[l]] = LineSupplier[l]

\* Knowledge names only resources that exist, and conflict keeps its target.
KnowledgeNamesResources ==
  \A p \in Products :
    /\ mapping[p].resource # NoResource => recursos[mapping[p].resource] # "absent"
    /\ mapping[p].conflict => mapping[p].resource # NoResource

\* The sessions that hold a lock s is waiting for.
WaitsFor(s) ==
  {t \in Sessions \ {s} :
     \/ /\ pc[s] = "line"
        /\ cmd[s].line \in purchaseLines
        /\ lineLock[cmd[s].line] = t
     \/ /\ pc[s] = "product"
        /\ cmd[s].fresh \/ cmd[s].product \in supplierProducts
        /\ productLock[cmd[s].product] = t
     \/ \E r \in Resources : NextResource(s, r) /\ resourceLock[r] = t}

\* Transactions never wait for each other in a circle: while some are under
\* way, one of them waits for nobody (line before product before resources in
\* the order of orderedResourceIDs).
NoDeadlock ==
  (\E s \in Sessions : pc[s] # "idle") =>
    \E s \in Sessions : pc[s] # "idle" /\ WaitsFor(s) = {}

\* A target becomes (or becomes again) confirmed knowledge only while it is an
\* active resource: the check made when the resource was locked still holds
\* when the transaction commits.
TargetActiveWhenLearned ==
  [][\A p \in Products :
       mapping'[p] # mapping[p] /\ KnowledgeState(mapping'[p]) = "CONFIRMED"
         => recursos[mapping'[p].resource] = "active"]_vars

\* What the joins of a line query find: the line's mapping, and the activity of
\* its resource, true where there is none.
MappingOf(l) == IF association[l] = None THEN Unresolved
                ELSE mapping[association[l]]

ActiveOf(l) == MappingOf(l).resource # NoResource =>
                 recursos[MappingOf(l).resource] = "active"

StatusOf(l) == EffectiveLineStatus(override[l], MappingOf(l), ActiveOf(l))[1]

\* The workbench, which filters on a status computed in SQL, shows every line
\* with the status and the cause the domain derives for it.
WorkbenchAgrees ==
  \A l \in purchaseLines :
    LET k == MappingOf(l)
        found == k.resource # NoResource /\ recursos[k.resource] # "absent"
    IN  WorkbenchStatus(override[l], association[l] # None, k, found, ActiveOf(l))
          = EffectiveLineStatus(override[l], k, ActiveOf(l))

\* ResolvePurchaseLine keeps its word: when the client is told that its line
\* was resolved, the line is linked to the resource and the product it named,
\* and the line was the one of the client's snapshot, with the same revision
\* and without override.
ResolutionTellsTruth ==
  [][\A s \in Sessions, l \in Lines :
       /\ pc[s] # "idle"
       /\ cmd[s].line = l
       /\ reply'[s] \in Dispositions
       =>
         /\ StatusOf(l)' = "VINCULADO"
         /\ association'[l] = cmd[s].product
         /\ mapping'[cmd[s].product].resource = cmd[s].target
         /\ resolutionRevision[l] = cmd[s].lineExpected
         /\ association[l] = IF cmd[s].fresh THEN None ELSE cmd[s].product]_vars

\* A line's product is decided once, and only on a line without override.
AssociationIsWriteOnce ==
  [][\A l \in purchaseLines :
       association'[l] # association[l] =>
         association[l] = None /\ override[l] = "NONE"]_vars

\* Mapping knowledge behaves as the abstract ledger of atomic decisions.
Ledger == INSTANCE MappingLedger WITH
            activity <- recursos, knowledge <- mapping, ledger <- mappingAudit

ImplementsLedger == Ledger!LedgerSpec

\* Every request is answered: no waiting for ever on a lock.
EveryRequestAnswered ==
  \A s \in Sessions : pc[s] # "idle" ~> pc[s] = "idle"
============================================================================
