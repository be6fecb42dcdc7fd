# A TLA+ verification of garfex-backend

garfex-backend is a Go service over PostgreSQL. It keeps a master of resources
(materials, tools and the like, described by a catalog of types and attributes),
a master of suppliers, and the purchases imported from CFDI documents, whose
lines it links to resources. This directory models the parts of it that are
concurrent, transactional or otherwise hard to test, checks them with TLC and
proves theorems about them with TLAPS. `PROJECT.json` lists components, runs,
mutants, the definition-to-source map, hazards, findings and theorems.

## 1. Inventory

| Component | State it keeps | Operations | What is hard | What makes it correct |
|---|---|---|---|---|
| Mapping of supplier products (`modules/purchases/domain`, `postgres/mapping.go`) | per product: resource, conflict flag, revision, append-only audit | confirm, correct, unlink, report and resolve conflict | row locks on product and resources, optimistic revisions, ambiguous commits, resources changing activity | knowledge follows authorized edges, the audit replays to it, targets are active when learned |
| Line resolution (`postgres/resolve_purchase_line.go`, `postgres/link.go`) | per line: product, override, revision, audit | resolve a line, set an override | two row locks with a wait between them, in-flight inserts of the same SKU | a reported resolution is true, a line's product is decided once, overrides are respected |
| Workbench and history reads (`postgres/purchase_line.go`, `history.go`) | none | filtered pages | a status computed twice, in SQL and in Go | both agree |
| CFDI import (`app/import_purchase.go`, `postgres/import.go`) | purchases, lines, product identities | import a document | concurrent imports of a document or of an issuer, product rows locked in document order, lost acknowledgements | stored whole or not at all, answered truthfully, always answered |
| Supplier Master (`modules/suppliers`) | suppliers, branches, contacts | create, update, (de)activate, search | read, then write without a revision; imports registering suppliers meanwhile | one owner of a tax identifier, edits and lifecycle changes keep each other, complete pages; two edits of one record are last-write-wins by design |
| Resource Master (`app/recursos`, `postgres/resource_repository_crud.go`) | resources, attribute values, revision | create, update, (de)activate, with and without expected revision | validation against a catalog snapshot, writes in a later transaction, rules evaluated in Go and in SQL | no lost update, what is accepted can be read, a reactivated resource has its identity |
| Catalog (`app/catalogo`, `postgres/catalog_admin_*`, `domain/catalog_*`) | the published catalog and its revision; a latch | mutate an entry, reload, reset | indeterminate commits, snapshots published by several writers | the published catalog is one the database had; no write while its state is unknown |
| Attribute order (`resource_attribute_order*`) | a revisioned permutation per type | replace, read | table and row locks, compare-and-set, catalog drift, lost answers | one winner per revision, true answers, catalog changes do not reorder |
| Resource domain (`domain/resource_*`) | none | validate, canonical identity, effective attributes | pure, many cases | agrees with what the repository reads |
| Process (`cmd/api/main.go`, `garfex.go`) | listener, pool | start, serve, drain, close | stop while handlers wait, crash | it stops, with every connection returned |
| CFDI parser, public seams, bridges, HTTP API | none | decode, check, copy, route | little | - |

The components interact by calls and through shared rows. HTTP handlers call the
public seams (`purchasecore`, `resourcecore`, `suppliercore`), which call bridges,
application services and repositories. An import calls Supplier Master in
transactions of its own, then stores in one transaction. Purchases
transactions lock resource rows that Resource Master deactivates concurrently.
Resource Master validates against the catalog snapshot of the catalog service.

## 2. Modules

* `SupplierProductMapping` - the pure rules of the domain: the knowledge of a
  product (`Unresolved`, `Confirmed(r)`, conflict), the guards of the five
  decisions in the code's order with the error each returns, the next knowledge,
  the effective status of a line in Go (`EffectiveLineStatus`) and in the
  workbench's SQL (`WorkbenchStatus`), and the override decision.
* `MappingLedger` - the abstract promise: every decision about a product is one
  atomic step along an authorized edge, recorded in a ledger, and a resource is
  learned only while active. It knows no transactions, locks or revisions.
* `PurchaseResolution` - the transactional core. A session is a server goroutine
  with its transaction; `pc` is the point where it may wait (`line`, `product`,
  `decide`). `LockLine`, `LockProduct` and `LockResource` are the `SELECT ... FOR
  UPDATE` (or `INSERT ... ON CONFLICT DO UPDATE`) statements, `seen` the rows
  read, `LineVerdict`, `ProductVerdict` and `Verdict` the checks in the order of
  the code. All writes of a transaction become visible together, so they are part
  of `Commit`; `CommitUnacknowledged` and `CommitFailed` are the two outcomes
  behind `ErrCommitAmbiguous`, `Rollback` a cancelled context, lost connection or
  crash. `ImportPlainLine`, `ImportSkuLine` and the resource actions are the
  neighbours writing the same rows.
* `PurchaseImport` - concurrent imports from `ImportCFDI` to the answer.
  `LookupSupplier`, `RegisterSupplier` and `RelookupSupplier` are three separate
  database calls; `InsertPurchase` waits on the unique fiscal UUID, `StoreLine`
  on the product row, and `DeadlockVictim` is PostgreSQL breaking a circle.
* `CatalogAuthority` - the rows of classes, families and types, the published
  snapshot, the revision-aware writer and the creation of resources meanwhile.
  `wpc` is where the write that holds `Service.mu` is: `insertLocked`,
  `UpdateRevision`, `setActiveRevision` and `HardDeleteRevision` are the checks on
  the snapshot; `BeginWrite` is the update's probe for references, `Apply` the
  statement with the reload, validation and comparison that follow it in the
  transaction, `Commit` and `publishCoherent` the last two steps, kept apart
  because a crash (`Restart`) can fall between them. `CommitUnanswered` is a
  commit whose answer is lost, `AbandonWrite` any earlier failure. A creation
  validates on the snapshot (`NewResource`), selects rows by codes
  (`InsertResource`), locks them for its foreign keys (`LockReferences`) and
  commits.
* `SupplierMaster` - extends `PurchaseImport` with the service's own operations.
  Each is a read (`Ask`, which refuses, finds nothing to do, or keeps the record in
  `read`) and a statement (`Write`: `InsertRow`, `UpdateDetails` or `SetActive`, the
  columns each UPDATE names and no others), and other callers and imports step in
  between. `SearchSuppliers` and `SearchRows` are the bridge's and the repository's
  halves of a page. Of these operations the seam and the API expose creation and
  edit of suppliers; lifecycle, branches and contacts are service methods that
  only tests call so far.
* `AttributeOrder` - the order of a type's attributes. `Baseline` is what
  `EffectiveAttributesFor` declares, `ResolveAttributeOrder` puts the saved bindings
  first; `InOrder` and `Only`, sorting and filtering, are written without recursion,
  by counting what comes before, so that they can be reasoned about. A replacement goes through `LockType`, `LockStructural`, `ReplaceItems`
  (comparison, permutation check, items, head, re-read) and `CommitOrder` or
  `CommitUnanswered`; the catalog writer's `ChangeBinding`, `CheckForeignKey` and
  `CommitChange` compete for the same locks, and `DeadlockVictim` is PostgreSQL
  breaking the circle they can make. `CodeOf` and `StatusOf` are the error tables of
  the bridge and the API.
* `ApiServer` - the process around it: `Open`, `Stop`, `drainServer` with its
  timeout, `ClosePool`, and `Crash`. Handlers work while the process lives.
* `CatalogKinds` - all eleven catalog kinds. A row refers to others by id; `Record`
  is a row with the codes joined in, `Identity` what a mutation matches it by,
  `Validate` and `ApplyCatalogMutation` the domain's, `UniqueKeys`, `ForeignKeys` (with
  the composite ones, `KeysAgree`) and `HeldColumns` the tables' constraints, `Coherent` what `runV2CoherentTx` asks before
  it commits. `CreateV2`, `UpdateRevision`, `setActiveRevision` and
  `HardDeleteRevision` are one step each: `CatalogAuthority` has what comes between.
* `ResourceMaster` - extends `CatalogKinds` with resources and the requests of
  clients. `Create`, `Update`, `Deactivate` and `Reactivate` are the client's read and
  the service's validation, `Load` the second read of a reactivation with
  `reactivationCandidate`, the `Persist` actions the repository's transactions.
  `NewResource`, `effective` and `IdentityKey` are the domain's rules; `AppliedTo`,
  `ModeOf` and `Readable` the SQL of `loadEffectiveAttributes`, written from the SQL.
* `MCPurchaseResolution`, `MCPurchaseImport`, `MCSupplierMaster`,
  `MCCatalogAuthority`, `MCResourceMaster`, `MCApiServer` - instances for TLC.
* `PurchaseResolutionProofs`, `PurchaseLineProofs`, `PurchaseImportProofs`,
  `SupplierMasterProofs`, `CatalogAuthorityProofs`, `ResourceMasterProofs`,
  `ApiServerProofs`, `AttributeOrderProofs` - the theorems.

Definitions whose comment begins with "Mutant" are deliberately wrong variants:
each property of a passing run is shown to fail when the correct definition is
replaced by one of them.

### Abstractions

Identifiers are model values or small numbers (resources are numbers because
their order is the lock order). A decision's actor, origin and time are checked
by the seam before a transaction begins and are left out; whether a reason is
stated is kept, because the domain checks it late. A product is named by its
unique (supplier, SKU) pair. A document is an element with UUID, issuer, header
and a sequence of SKUs; amounts matter only through equality and through parsing
or not. The tables start empty with the defaults of migrations 000011, 000013 and
000014: links and overrides stored before those migrations have no audit entry,
and the audit properties do not speak about such rows. PostgreSQL is modelled at
READ COMMITTED, which the code uses by default: a statement sees what was
committed when it starts, a row lock is held to the end of the transaction, and a
waiter sees the row as the holder left it. Foreign-key share locks fall on rows
the same transaction has locked already, or on rows nobody locks for update.

In `CatalogAuthority` an entry is its path of canonical codes with its activity:
names, slugs, order and aliases, unit policies and the other eight kinds are left
out, and the identity of a resource is reduced to its scope. There is one writer
process (`openspec/specs/resource-master-core/spec.md:266`), and its mutex serves
one write at a time, so no other transaction writes catalog rows during a write.
`Service.snapshot` and the authority's catalog are assigned together and are one
variable. A request the checks refuse changes nothing and is no step; one that the
transaction refuses is. The lock an `UPDATE` or `DELETE` takes on its row, the
share lock of a foreign-key check and the order in which they wait are
PostgreSQL's: a change of a key column (code or parent) or a deletion excludes
a concurrent reference, a change of activity does not. `unconfirmed` is the
model's own: it records that a commit went unanswered since the last load.

In `CatalogKinds` and `ResourceMaster` every value is an option of a
characteristic: numbers, quantities and texts would be further values that only
equality looks at. A catalog write is one step, because the service's mutex
serves one at a time; a resource's request is not, so catalog writes fall between
its validation and its transaction. A refused request changes nothing and is no
step, or ends in `GiveUp`. The case of a characteristic's code is kept as a flag
(`upper`), because comparisons in Go fold it and the SQL of
`resolveAttributeTarget` does not. Consequences the model shares with the code: a
value of a characteristic stored in upper case cannot be written; when a type's
and the family's applicability of one characteristic are both active, the domain
takes the type's and the repository finds two targets and refuses; an update never
rewrites the stored identity; two characteristics may have codes that differ in case
alone, and then the domain, which looks them up by folded codes, and the SQL of
`loadEffectiveAttributes`, which goes by ids, apply different attributes to a resource
(section 4, `ReadSafety`).

In `AttributeOrder` the order revision, a hash, is the state it names. Who holds a
lock follows from where a request is. `won` is the model's own: the revisions with
which a replacement was accepted. In `SupplierMaster` the fields of a record are
its tax identifier or branch; the others are texts that one UPDATE writes.

## 3. Runs

| Run | Instance | Checks |
|---|---|---|
| `mapping` | 2 sessions, 1 product, 1 line, 2 resources, the five decisions, revisions 0..2 | `TypeOK`, `AuditReplaysMapping`, `KnowledgeNamesResources`, `SnapshotsAreCurrent`, `TargetActiveWhenLearned`, and that the core implements `MappingLedger` |
| `line` | the same with resolve, override, unlink and report of an identity conflict, with and without a reason, revisions 0..1 | `AuditReplaysOverride`, `WorkbenchAgrees`, `ResolutionTellsTruth`, `AssociationIsWriteOnce` |
| `shared_product` | 2 products, 2 lines of one supplier, resolve and correct | `NoDeadlock`, `ProductsHaveLines` |
| `progress` | 1 line, 1 product, 2 resources, correct, resolve and override, fair | `EveryRequestAnswered` |
| `import` | 2 imports of an invoice, an altered copy and another document with the SKUs in the opposite order, fair | `TypeOK`, `PurchasesAreWhole`, `SameUuidNeverDeadlocks`, `OneSupplierPerIssuer`, `ImportTellsTruth`, `EveryImportAnswered` |
| `import_persists_nothing` | an invoice and a document with a bad amount | expected to violate `RefusedImportPersistsNothing` (section 6) |
| `catalog` | 1 class, 2 families, 2 types, 2 codes, 1 creator, 3 writes | `TypeOK`, `CommittedCatalogIsSound`, `PublishedIsCommitted`, `ResourcesKeepTheirEntries`, `PublicationIsACommit`, `RevisionsNameContent` |
| `catalog_latch` | the same, 2 writes | expected to violate `NoWriteBeforeReload` (section 6) |
| `catalog_code` | the same, 1 write | expected to violate `ReferencedCodeIsImmutable` (section 6) |
| `api` | 2 clients of the order, 2 characteristics, 3 binding ids, 1 stored replacement, 2 catalog changes, fair | `TypeOK`, `SpentRevisionsStaySpent`, `RepliesTellTruth`, `AcceptedOrderIsRead`, `SurvivorsKeepTheirOrder`, `ShutdownEnds` |
| `suppliers` | 2 callers, 1 import of an invoice, a broken or an unstamped document; 2 suppliers, a branch, a contact, 3 operations | `PurchasesAreWhole`, `MasterIsConsistent`, `PagesListEverything`, `LastWriteWins` |
| `resources` | 2 clients, 2 resources, 21 catalog rows of the eleven kinds, 3 catalog writes or requests | `NothingDangles`, `OneRecordPerChange`, `NoLostUpdate`, `AcceptedIsReadable`, `ReactivationRestoresIdentity` |

Bounds. Revisions themselves are unbounded in the model; only the revision a
client expects is bounded (`MaxRevision`), and since no write succeeds on an
unexpected revision the state space is finite. Revision 3 suffices for confirm,
report, resolve, in any order, with a stale client at every point. Two sessions
meet every pairwise race on a row; two resources are needed for opposite lock
orders, two products and two lines for lines that share a product. `Offered`
restricts which operations clients use in a run and `Reasons` whether they
state a reason: between them the runs offer all. In imports two sessions and two documents with
their SKUs reversed produce a deadlock, and the altered copy of the invoice
makes a conflicting duplicate. `SupplierIds` has one more row than issuers, so a
second registration would be possible if the model allowed it. In `catalog`
three writes (`MaxWrites`) are what the worst stale snapshot takes: deactivate a
type, deactivate its family with the answer lost, reactivate the type on the
snapshot that still shows the family active. Two families let a type move, and
two ids per table suffice for an insertion beside the first row. Clients send
revisions a row has or had. Resources are not deleted, so one creator meets
every write.

In `api` one stored replacement (`MaxHead`) and two catalog changes (`MaxChanges`)
let a client replay its revision after a lost answer, a binding be deleted and
created again under a new id, and a type-level binding deadlock with a
replacement; `NewKeys`, `Edited` and `Presented` say what the catalog writer may
touch. MaxHead bounds the replacements and not the replays. `CHECK_DEADLOCK` is off
there only because a bounded number of changes and replacements can be used up.
In `suppliers` three operations (`MaxEdits`) are an edit that spans a deactivation
with one more beside; `FirstSuppliers` is a supplier without a tax identifier, and
`DefaultLimit` equals the number of suppliers so that a query without a limit meets
the edge. In `resources` `MaxOperations` counts catalog writes and requests: three
are two requests with a catalog write between them, or a request with two writes
around it. `Ids` and `Versions` give every row what a client may write: a rename, a
move, a change of rules, a code that another row has or had. `FirstResources` holds
a stored resource, active or not, and `Intents` combines two types with option
pairs that the relation and the rules accept and refuse. `CHECK_DEADLOCK` is off
because the operations are bounded.

The runs of `PurchaseResolution` without fairness use the view `WithoutReplies`:
no guard and no assignment reads `reply`, the properties speak about it only as
`reply'` of a step, and TLC evaluates an action property on every step it
generates, so leaving it out of the fingerprint hides no violation. Sessions
are interchangeable (`SessionSymmetry`); liveness runs use neither.

Fairness. `FairSpec` gives strong fairness to `Serve(s)`, what the server and the
database do for a session with a request. It is strong because a session that
waits for a row is enabled only while the row is free, and PostgreSQL queues the
waiters of a lock, so a session cannot be overtaken for ever. Clients are not
obliged to send anything, and rollbacks, imports and resource changes are not
obliged to happen. PostgreSQL's deadlock detection is part of `Serve` in
`PurchaseImport`, where the code can deadlock, and absent from
`PurchaseResolution`, where `NoDeadlock` shows that it cannot. In `ApiServer` weak
fairness is asked of `drainServer` (its context has a timeout), of the end of a
request whose context `Close` cancelled (pgx returns from a statement whose context
is done), and of `ClosePool` (it returns once the connections are back). Nothing is
asked of handlers, clients or the deadlock detector.

What `suppliers` does not show. Supplier Master has no revision, and its edits lose
each other's work: `suppliercore/doc.go:59-65` says that two concurrent updates
resolve last-write-wins and the losing writer's fields disappear without any error,
and `openspec/specs/supplier-master-core/spec.md:174` accepts it. The run contains
this lost update: two callers read a supplier, both send an edit, both are answered
`ok`, and the record has only the details of the later one. `LastWriteWins` states
that outcome: a stored request is applied to the record as it is then, whatever was
stored since its read, so a later edit replaces an earlier one and nobody is told,
while an edit does not undo a deactivation or reactivation stored since its read, nor
the reverse. It is not a claim that callers keep their work. Because code and
documents agree, it is no finding.

Limits of two other instances. `progress` has one product and does not contend for
resources in opposite orders: that no such contention blocks anybody is
`NoDeadlock` in `shared_product` and the theorem `DeadlockFreedom`. `ReadSafety` and
`resources` speak about catalogs without two spellings of a code and without a
catalog write between check and commit (section 4).

## 4. Theorems

`PurchaseResolutionProofs` proves, for any sessions, products, lines and
resources satisfying `IdentifierAssumption`:

* `TypeCorrectness`, `SnapshotSafety`: `Spec => []TypeOK`, `[]SnapshotsAreCurrent`;
* `AuditSafety`: `Spec => []AuditReplaysMapping`;
* `KnowledgeSafety`: `Spec => []KnowledgeNamesResources`;
* `LearnedTargetsAreActive`: `Spec => TargetActiveWhenLearned`;
* `LedgerRefinement`: `Spec => ImplementsLedger`;
* `WorkbenchSafety`: `Spec => []WorkbenchAgrees`.

The assumption says that products and lines have suppliers, resource identifiers
are positive, and the nil values are not members of the sets they are added to.

The argument. None of these is inductive by itself: whether the audit entry a
commit appends starts from the current mapping depends on the snapshot the
session took earlier. The inductive invariant is

    SessionInv == TypeOK /\ RequestsWellFormed /\ LocksAreHeld /\ SnapshotsAreCurrent

A session holds exactly the locks its `pc` and request say (`LocksAreHeld`), so
no other session can change a row that it has read; hence what it has read is
what the row holds (`SnapshotsAreCurrent`). The steps of the sessions are reduced
to four shapes (a request enters, a lock is taken, a transaction ends without
writing, a commit), with one lemma each, and `CommitTouchesOwnRows` says that a
commit changes only rows its session has locked. From `SessionInv`, `CommitDecides`
shows that a commit is a stutter or one authorized decision of the ledger; the
audit, the active-target, the existence and the refinement theorems follow from
it. `WorkbenchSafety` is a case analysis on the knowledge that needs
`KnowledgeNamesResources`: the SQL treats a resource row that the join does not
find as active, so the two derivations agree because a mapping names existing
resources only.

`PurchaseLineProofs` proves, from the same assumption and `SessionInv`:

* `OverrideAuditSafety`: `Spec => []AuditReplaysOverride`;
* `LinkSafety`: `Spec => []ProductsHaveLines`;
* `LinksAreFinal`: `Spec => AssociationIsWriteOnce`;
* `ResolutionIsTruthful`: `Spec => ResolutionTellsTruth`;
* `DeadlockFreedom`: `Spec => []NoDeadlock`.

The argument. As for mappings, `CommitOverrules` and `CommitLinks` show that a
commit decides at most one override and links at most one line, which its
transaction has locked; the audit and the links follow. That a reported resolution
is true needs in addition that a session under way has no answer yet
(`Unanswered`). Deadlock freedom rests on two more invariants: the resources a
session has locked are below those it still wants (`LocksAscend`), and in each
state some number bounds all locked resources (`LocksAreBounded`, for infinitely
many resources). Of the sessions past their lines and products take the one that
waits for the largest resource: whoever holds that resource waits for a larger one,
or for nothing. The largest exists by a minimum over a well-founded order
(`LargestOf`). If nobody is that far, the holder of a product or a line proceeds.

`PurchaseImportProofs` proves, for any documents, SKUs, branches, suppliers and
sessions satisfying `DocumentAssumption` and `NilAssumption` (documents have their
attributes, and the nil value is none of the things it stands beside):

* `TypeCorrectness`: `Spec => []TypeOK`;
* `WholeDocuments`: `Spec => []PurchasesAreWhole`;
* `ImportsAreTruthful`: `Spec => ImportTellsTruth`;
* `OneSupplier`: `Spec => []OneSupplierPerIssuer`;
* `SameUuidSafety`: `Spec => []SameUuidNeverDeadlocks`.

The argument. `ImportInv` says what a session has at each stage (`StagesAreSound`:
its document, its supplier, the products of the lines it has stored), that the
claim of a UUID is held by the one session that inserted it while the purchase is
not there (`ClaimsAreSound`), and that product locks are those of the lines stored
(`ProductLocksAreSound`). A commit then stores as many lines as the document has,
each with its product. Suppliers only appear, so a purchase's supplier stays
(`SuppliersGrow`). `IssuersAreOwned` says that a tax identifier has one owner and
the supplier of a session or of a purchase owns its issuer. `Blockers`, whom a
session waits for directly or through others, is written as the least set that is
closed under waiting, so that a circle can be reasoned about without recursion: the
sessions that wait for the claim of a UUID hold no products, so nobody waits for
them and no circle goes through them.

`SupplierMasterProofs` proves, adding `RowAssumption` (suppliers, branches and
contacts have ids of their own tables):

* `WholeBesideEdits`: `MasterSpec => []PurchasesAreWhole`;
* `ConsistentMaster`: `MasterSpec => []MasterIsConsistent`;
* `LastWriterSafety`: `MasterSpec => LastWriteWins`;
* `PagesAreComplete`: `MasterSpec => []PagesListEverything`, adding `PageAssumption`
  (finitely many ids, and a default limit that is not zero).

The argument. `MasterInv == ImportInv /\ MasterTypes`: an import's invariant survives
the edits because they neither remove suppliers nor move branches. Uniqueness of tax
identifiers is checked by the statement that writes one, not by the read before it;
a contact's branch stays with its supplier because no statement moves a branch.
For `LastWriterSafety`, a request that is stored writes the columns its UPDATE names,
in the record as it is then (`EditsApply`), no other step changes a record
(`OtherStepsKeepRecords`), and the one conflict reported comes from the unique index
(`WritesAnswer`); none of this uses what was read.
A page is the part of the list between two multiples of its size, and announces a
next one exactly if something is left (`PageContent`: the row beyond the page
decides, also when the list ends with the page). What a reader collects from page
`n` on is the rest of the list: this is shown for the largest `n` for which it fails
(`WalkListsAll`, with `LargestOf` in place of an induction).

`CatalogAuthorityProofs` proves, for any ids, codes, creators and number of writes
satisfying `CatalogAssumption` (disjoint id sets, and first rows that form a
sound catalog):

* `CatalogTypes`: `Spec => []TypeOK`;
* `CommittedSoundness`: `Spec => []CommittedCatalogIsSound`;
* `PublishedSafety`: `Spec => []PublishedIsCommitted`;
* `PublicationSafety`: `Spec => PublicationIsACommit`;
* `RevisionSafety`: `Spec => RevisionsNameContent`;
* `ReferenceSafety`: `Spec => []ResourcesKeepTheirEntries`.

The argument. A commit and a publication use what the transaction left in
`pending`, so the invariant `CatalogInv == RowsInv /\ WriterInv` says what
`pending` is at each point: a sound catalog, each of whose rows is the stored one
or its successor, while the statement is applied; the stored rows after the
commit. `WrittenSucceeds` shows that a statement writes a first or next revision:
that an inserted row is new needs stored ids to be `spent`, that an updated
one exists needs the entry of a checked request to stay there until it is applied.
Soundness comes from the reload inside the transaction and not from the check
on the snapshot: no fact about `published` is used. For the references of
resources, `RefInv` says that parents exist, and that the chains of stored resources
and of creations that hold their locks are chains of rows (`Referring`), in the
stored rows and, while a statement is applied, in the pending ones: a change of a key
column or a deletion excludes a creation that has locked the row, and a creation that
comes later does not find it. These invariants are not among the runs'; they were
tried with TLC.

`ResourceMasterProofs` proves, for any catalog rows, callers, resources and intents
satisfying `ResourceAssumption` (the nil value is no resource, row or intent, an
intent has the fields of a request, and the first resources are rows and have their
place in the catalog) and `CatalogAssumption` (ids are numbers, as `BIGSERIAL` makes
them, each of one of the eleven kinds; the first catalog satisfies the schema's types
and constraints, composite keys included, and the loader's validation; what clients
write has the columns of its kind, modes and rules as the tables' checks ask):

* `UpdateSafety`: `Spec => NoLostUpdate`;
* `ReactivationSafety`: `Spec => ReactivationRestoresIdentity`;
* `AnchorSafety`: `Spec => []NothingDangles`;
* `OneRecordSafety`: `Spec => OneRecordPerChange`;
* `ReadSafety`: `Spec => AcceptedIsReadable`.

The argument. A request and the row are compared by revision only, so
`ResourceInv` has, beside types, `SeenIsPast`: a row is what the request read or has
a greater revision. Every step leaves a row alone or gives it its next revision
(`RowsSucceed`), so a row with the revision that was read is the row that was read.
`CandidateHolds` says that what a reactivation found out about the identity holds
while neither the row nor the number of catalog writes has changed; the types are
needed because a new row must be told from a missing one. For references,
`AnchorInv` adds to `NothingDangles` that rows fit their kinds and that codes of
characteristics are unique. A catalog write has one shape (`Rewrites`): it meets the
keys of the tables, keeps the columns that others repeat, and leaves a valid
catalog. From the distinct codes of classes and families `ValidIsActive` derives
activity by id from activity by code. `PersistedIsAnchored` shows that a value's
applicability and option are of the same characteristic, and of the one it is
stored for, because its code finds no other. The probes for dependents are not
used: the foreign keys alone keep every reference.

For `OneRecordSafety`, a write is committed only if the catalog reloaded after it is
the one that the mutation makes of the catalog before it (`WriteIsCoherent`).
`SliceKeepsOthers` and `CandidateKeepsOthers` say that a mutation leaves all records
of the kind but one as they are, at the place it matched or at the end. `CodeFinds` to
`OptionKeyFinds` say that in rows with unique keys a record is found by its codes, so
a record that shows the same codes before and after the write belongs to the same row
(`CodeStays` to `OptionKeyStays`, kind by kind). A row of another kind shows codes
joined in from the written one; if they changed, the reloaded catalog would differ
from the candidate in a kind that the mutation leaves alone, and the write would not
have been committed (`PlainRecordStays`, `JoinedRecordStays`, `BindingRecordStays`,
`RulesStay`). The copy of a characteristic in its applicabilities is what the
comparison leaves out, and what the property excepts.

For `ReadSafety`, `CheckedHolds` says that while the catalog is as it was when a
request was checked, the check still holds: `NewResource` of the intent, or, for a
reactivation, that the row reads as the intent. What a commit stores for an intent is
read back as that intent (`ReadsBack`: each code leads to one row, the codes of the
stored rows are those asked for). The two evaluators of rules agree (`ModesAgree`):
an applicability that the SQL applies by ids is the one the domain finds by codes
(`AppliedIsFound`), a rule's characteristic has a value for both or for neither
(`NamedHasValue`), and so a required attribute has a value and a forbidden one none.

The first statement of `AcceptedIsReadable` had no condition on the catalog, and the
proof stopped at `AppliedIsFound`. TLC then showed on a larger instance that it was
false: a characteristic stored as `color` is applied to a type; another, created
before it and not yet referred to, is renamed `COLOR` and applied as required. The
domain takes both for one attribute, by the folded code, and asks for one value; the
SQL asks for both, and a resource that was accepted cannot be read. The unique key of
`attribute_definitions` compares codes as they are spelled, and only an applicability
of the later of two spellings is refused.
The property now carries `NamedInOneSpelling`, which is true of a catalog whose
applicabilities and rules name no code in two spellings; the instance of the run
`resources` satisfies it throughout.

`ApiServerProofs` proves, for any clients, bindings and catalog changes satisfying
`OrderAssumption`:

* `OneWinner`: `Spec => []SpentRevisionsStaySpent`;
* `AnswersAreTrue`: `Spec => RepliesTellTruth`.

The argument. Every step has one of three shapes: it goes on, it ends a request
and stores nothing, it ends one and stores its order with the next head
(`NextShape`). `HeadInv` says that no client has read a head greater than the stored
one and that every revision that won names a smaller one; the current revision
names the stored head, so it has not won. No lock is needed for this: it holds
because an accepted write always bumps the head. Crashes and restarts are steps
like others.

`AttributeOrderProofs` proves of the same specification (`OrderAssumption` also says
that finitely many bindings exist at first and that the nil value is no row):

* `ServerTypes`: `Spec => []TypeOK`;
* `AcceptedOrderShown`: `Spec => AcceptedOrderIsRead`;
* `CatalogKeepsOrder`: `Spec => SurvivorsKeepTheirOrder`.

The argument. First, what sorting and filtering yield, without induction: in a
finite set that is strictly and totally ordered the number of members before one
is an injection into the numbers below the set's size, hence onto them, so
`InOrder` lists every member once (`InOrderLists`); `Only` is `InOrder` on places, so
one member precedes another in the result exactly if it did before
(`OnlyKeepsOrder`), and nothing changes if nothing is left out (`OnlyKeepsAll`). The
places of the baseline are compared lexicographically and end in the id, so they
order the bindings (`PlacesOrder`, `BaselineLists`). `ResolvesItems` puts these
together: a read lists every binding, the saved ones as they were saved, and is
the saved list itself when that names every binding. Then `OrderInv`: at most one
request holds the type, none holds the tables while a catalog change is open, and
one about to commit has a plan that lists exactly the bindings there are, for the
keys its client wants, the revision its client saw and the head there is
(`ReadyToCommit`). Positions are under no lock, and the proof shows that they need
none: they only order bindings without an item, and an accepted order leaves none.
That the plan names every binding is taken from the re-read in the transaction
(`PlanLists`). `CatalogKeepsOrder` uses no lock:
a step that stores no replacement leaves the items or drops the one of a deleted
binding (`StoredOrder`).

## 5. Model-checked only, and not modelled

Liveness under fairness (`EveryRequestAnswered`, `EveryImportAnswered`,
`ShutdownEnds`) is outside what TLAPS proves here, so these three are checked by TLC
only, each in an instance of one or two sessions. Every other property of a passing
run is a theorem. The properties of the runs that are expected to fail (section 6)
are refuted by TLC and stated by no theorem.

Not modelled: XML parsing, decimal arithmetic, routing and decoding of HTTP, most of
the bridges' type translation, text filters and sort orders of lists, the composed
display name of a resource, and the schema history. They are stateless or pure input
and output. The legacy mutations of `catalogo.Service` and the methods of
`recursos.Service` without a revision are not reachable through a seam (the bridge
uses `Create` and the `Revision` methods) and are left out. The answer of a lifecycle
call says whether it changed anything by comparing revisions read after the commit;
nothing stored depends on it and `ResourceMaster` leaves it out.

## 6. Findings

The comment on `ImportCFDI` says the whole write is atomic and persists everything
or nothing. The supplier of an unknown issuer is registered in a transaction of
its own before the branch is checked and the draft validated, so an import that is
then refused leaves the supplier behind. The run `import_persists_nothing` exhibits it. `PurchasesAreWhole` shows
what does hold: purchase, lines and products are all stored or none.

The catalog's design says that a commit of unknown outcome latches the writer
until an operator reloads. The repository returns a failed commit as a plain error
and nothing but tests ever wraps `ErrCatalogWriteIndeterminate`, so the latch is
never set (`catalog_latch`). `CommittedCatalogIsSound` and `PublicationIsACommit`
show what holds nevertheless: the transaction's own reload keeps a write that
was checked on a stale snapshot from storing an invalid catalog, and the next
publication shows all that was committed.

The code of a catalog entry is documented as immutable once a resource refers to
it. Both guards ask for references in a statement of their own before the
`UPDATE`; a resource stored in between does not stop it (`catalog_code`).
`ResourcesKeepTheirEntries` shows that the foreign keys do stop a deletion or a
move in the same race.

## 7. Plan

In order of importance; all done.

1. `SupplierProductMapping`, `PurchaseResolution`: commands, locks, commits.
2. `MappingLedger`, the refinement and its proof, the inductive invariant.
3. `PurchaseImport`.
4. `CatalogAuthority`: snapshot, coherent writes, lost commits, publication,
   restart, resources created meanwhile; its inductive invariant and theorems.
5. `CatalogKinds` and `ResourceMaster`: all kinds, validation, identity, rules, the
   requests of resources between catalog writes; the invariant of lost updates.
6. `AttributeOrder` and `ApiServer`: the order while the catalog drifts, and the
   process that stops; the invariant of spent revisions.
7. `SupplierMaster`: reads and writes without a revision beside imports.
8. Proofs: the lines and deadlock freedom of `PurchaseResolution`, the safety of
   `PurchaseImport` and `SupplierMaster`, references in `CatalogAuthority` and
   `ResourceMaster`.
9. Proofs about the order: what sorting and filtering yield, `AcceptedOrderIsRead`
   from the locks, `SurvivorsKeepTheirOrder`.
10. Proofs about what clients read: complete pages of suppliers, `OneRecordPerChange`
    from what a mutation does to the records of a catalog, `AcceptedIsReadable` from
    the agreement of rules by codes and rules by ids.

Beyond the plan: the answers of lifecycle calls, a resource that becomes inactive
between the unlocked part of a product's read and its use, and the HTTP layer's
decoding are the next candidates for a model.
