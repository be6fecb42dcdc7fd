-------------------------- MODULE CatalogAuthority --------------------------
(***************************************************************************)
(* The catalog of resource classes, families and types: its rows in        *)
(* PostgreSQL, the snapshot the process publishes to every consumer        *)
(* (CatalogAuthority), the revision-aware writer that changes both, and    *)
(* the creation of resources that refer to catalog rows meanwhile.         *)
(*                                                                         *)
(* One process is the writer, and its catalogo.Service serves one write at *)
(* a time under a mutex: check the request against the published snapshot, *)
(* run one transaction (READ COMMITTED) that applies the statement,        *)
(* reloads and validates the catalog and compares it with the expected     *)
(* one, and publish the reloaded catalog once the commit is acknowledged.  *)
(* Resources are created concurrently by the same process.                 *)
(*                                                                         *)
(* An entry of a catalog is its path of canonical codes (class, family,    *)
(* type) with its activity; its kind is the length of the path. Names,     *)
(* order and aliases, and the other eight kinds, are left out.             *)
(* catalogo.Service.snapshot and the authority's catalog are assigned      *)
(* together and are one variable here. A refused request changes nothing   *)
(* and is no step.                                                         *)
(***************************************************************************)
EXTENDS Naturals, Sequences, SequencesExt

CONSTANTS
  Classes, Families, Types,  \* the ids of the three tables' sequences
  Codes,                     \* canonical codes
  Creators,                  \* concurrent requests that create a resource
  FirstRows,                 \* the rows the migrations leave
  MaxWrites,                 \* bound: catalog writes that pass the checks
  None                       \* a nil reference, a row that does not exist

Ids == Classes \cup Families \cup Types
Row == [code : Codes, parent : Ids \cup {None}, active : BOOLEAN,
        revision : Nat \ {0}]
Level(id) == IF id \in Classes THEN 1 ELSE IF id \in Families THEN 2 ELSE 3
Paths == {<<a>> : a \in Codes} \cup (Codes \X Codes) \cup (Codes \X Codes \X Codes)

Present(rs) == {id \in DOMAIN rs : rs[id] # None}

\* The ids from the class down to id.
Chain(rs, id) ==
  CASE Level(id) = 1 -> <<id>>
    [] Level(id) = 2 -> <<rs[id].parent, id>>
    [] OTHER -> <<rs[rs[id].parent].parent, rs[id].parent, id>>

PathOf(rs, id) == [i \in DOMAIN Chain(rs, id) |-> rs[Chain(rs, id)[i]].code]
Entry(path, active) == [path |-> path, active |-> active]
LoadCatalog(rs) == {Entry(PathOf(rs, id), rs[id].active) : id \in Present(rs)}

(***************************************************************************)
(* What ResourceCatalog.Validate asks of classes, families and types: no   *)
(* dangling parent, and nothing active below something inactive.           *)
(***************************************************************************)
Sound(catalog) ==
  \A e \in catalog : Len(e.path) > 1 =>
    \E p \in catalog : p.path = Front(e.path) /\ (e.active => p.active)

\* ApplyCatalogMutation: the entries out are replaced by the entries in.
Mutated(catalog, out, in) == (catalog \ out) \cup in

\* A second class or family of the same code is a defect; a second type is
\* left to the unique index.
Validates(catalog, out, in) ==
  /\ \A e \in in : Len(e.path) < 3 => \A x \in catalog \ out : x.path # e.path
  /\ Sound(Mutated(catalog, out, in))

\* mutateSlice finds the entry to change by its codes.
Matching(catalog, path) == {e \in catalog : e.path = path}

ASSUME CatalogAssumption ==
  /\ Classes \cap Families = {} /\ Classes \cap Types = {}
  /\ Families \cap Types = {} /\ None \notin Ids \cup Codes
  /\ FirstRows \in [Ids -> Row \cup {None}]
  /\ \A id \in Present(FirstRows) :
       CASE Level(id) = 1 -> FirstRows[id].parent = None
         [] Level(id) = 2 -> FirstRows[id].parent \in Classes \cap Present(FirstRows)
         [] OTHER -> FirstRows[id].parent \in Families \cap Present(FirstRows)
  /\ \A i, j \in Present(FirstRows) :
       PathOf(FirstRows, i) = PathOf(FirstRows, j) => i = j
  /\ \E id \in Present(FirstRows) : id \in Classes
  /\ Sound(LoadCatalog(FirstRows))
  /\ MaxWrites \in Nat

VARIABLES
  rows,               \* resource_classes, resource_families, resource_types
  spent,              \* ids the sequences have given out
  resources,          \* recursos: the referenced ids, and the codes of the key
  published,          \* CatalogAuthority.catalog and Service.snapshot
  writerUnavailable,  \* Service.writerUnavailable
  unconfirmed,        \* a commit went unacknowledged since the last load
  wpc,                \* where the write that holds Service.mu is
  cmd,                \* its request
  referenced,         \* what its transaction's probe of recursos found
  pending,            \* the rows as its transaction sees them
  writes,             \* writes so far
  cpc, key, held      \* creations: where, the codes, the ids referred to

storeVars  == <<rows, spent, resources>>
writeVars  == <<wpc, cmd, referenced, pending, writes>>
createVars == <<cpc, key, held>>
vars == <<storeVars, published, writerUnavailable, unconfirmed, writeVars, createVars>>

BlankCommand == [op |-> "none", id |-> None, path |-> <<>>, active |-> FALSE, expected |-> 0]
Commands == {BlankCommand} \cup
  [op : {"insert", "update", "setActive", "delete"}, id : Ids \cup {None},
   path : Paths, active : BOOLEAN, expected : Nat]

Init ==
  /\ rows = FirstRows /\ spent = Present(FirstRows) /\ resources = {}
  /\ published = LoadCatalog(FirstRows)
  /\ writerUnavailable = FALSE /\ unconfirmed = FALSE
  /\ wpc = "idle" /\ cmd = BlankCommand /\ referenced = FALSE
  /\ pending = FirstRows /\ writes = 0
  /\ cpc = [c \in Creators |-> "idle"]
  /\ key = [c \in Creators |-> <<>>] /\ held = [c \in Creators |-> <<>>]

-----------------------------------------------------------------------------
(***************************************************************************)
(* The checks of catalogo.Service, under its mutex and before the          *)
(* repository is called.                                                   *)
(***************************************************************************)

\* ReferencedByResources, as a query sees it: committed resources only.
ReferencedIds == UNION {Range(r.chain) : r \in resources}
Children(rs, id) == {k \in Present(rs) : rs[k].parent = id}

prepareV2Write == ~writerUnavailable

Accept(command) ==
  /\ wpc = "idle" /\ writes < MaxWrites /\ prepareV2Write
  /\ wpc' = "checked" /\ cmd' = command /\ writes' = writes + 1
  /\ UNCHANGED <<storeVars, published, writerUnavailable, unconfirmed,
                 referenced, pending, createVars>>

insertLocked(path, active) ==
  /\ Validates(published, {}, {Entry(path, active)})
  /\ Accept([op |-> "insert", id |-> None, path |-> path, active |-> active,
             expected |-> 0])

\* The entry to replace is looked up under the requested parent and the
\* stored code: only code fields are frozen.
buildV2UpdateCandidate(id, path, active) ==
  LET frozen == Matching(published, Append(Front(path), rows[id].code)) IN
  /\ Last(path) # rows[id].code => id \notin ReferencedIds
  /\ frozen # {}
  /\ Validates(published, frozen, {Entry(path, active)})

UpdateRevision(id, path, active, expected) ==
  /\ Len(path) = Level(id)
  /\ buildV2UpdateCandidate(id, path, active)
  /\ Accept([op |-> "update", id |-> id, path |-> path, active |-> active,
             expected |-> expected])

\* An entry already in the requested state is answered without a write,
\* whatever the expected revision.
setActiveRevision(id, active, expected) ==
  LET current == Matching(published, PathOf(rows, id)) IN
  /\ rows[id].active # active
  /\ current # {}
  /\ Validates(published, current, {Entry(PathOf(rows, id), active)})
  /\ Accept([op |-> "setActive", id |-> id, path |-> PathOf(rows, id),
             active |-> active, expected |-> expected])

buildV2DeleteCandidate(id) ==
  LET current == Matching(published, PathOf(rows, id)) IN
  /\ ~rows[id].active
  /\ Children(rows, id) = {} /\ id \notin ReferencedIds
  /\ current # {}
  /\ Validates(published, current, {})

HardDeleteRevision(id, expected) ==
  /\ buildV2DeleteCandidate(id)
  /\ Accept([op |-> "delete", id |-> id, path |-> PathOf(rows, id),
             active |-> FALSE, expected |-> expected])

\* Clients send a revision the entry has or had.
Revisions(id) == 1 .. rows[id].revision
Request ==
  \/ \E path \in Paths, active \in BOOLEAN : insertLocked(path, active)
  \/ \E id \in Present(rows), path \in Paths, active \in BOOLEAN :
       \E r \in Revisions(id) : UpdateRevision(id, path, active, r)
  \/ \E id \in Present(rows), active \in BOOLEAN :
       \E r \in Revisions(id) : setActiveRevision(id, active, r)
  \/ \E id \in Present(rows) : \E r \in Revisions(id) : HardDeleteRevision(id, r)

-----------------------------------------------------------------------------
(***************************************************************************)
(* The transaction (runV2CoherentTx). No other transaction writes catalog  *)
(* rows, so what it loads before the statement is rows; only resources can *)
(* appear while it runs.                                                   *)
(***************************************************************************)

\* The update's own probe of recursos, in a statement before its UPDATE.
BeginWrite ==
  /\ wpc = "checked" /\ wpc' = "probed"
  /\ referenced' = (cmd.op = "update" /\ cmd.id \in ReferencedIds)
  /\ UNCHANGED <<storeVars, published, writerUnavailable, unconfirmed, cmd,
                 pending, writes, createVars>>

\* resolveClassID, resolveFamilyID: the row whose codes are the parent's.
ParentIds(path) == {id \in Present(rows) : PathOf(rows, id) = Front(path)}
ResolvedParent(path) == IF Len(path) = 1 THEN None ELSE CHOOSE id \in ParentIds(path) : TRUE

\* Mutant: an inserted row has no revision yet.
WrittenUnrevised(id) ==
  CASE cmd.op = "insert" ->
         [code |-> Last(cmd.path), parent |-> ResolvedParent(cmd.path),
          active |-> cmd.active, revision |-> 0]
    [] cmd.op = "update" ->
         [code |-> Last(cmd.path), parent |-> ResolvedParent(cmd.path),
          active |-> cmd.active, revision |-> rows[id].revision + 1]
    [] cmd.op = "setActive" ->
         [rows[id] EXCEPT !.active = cmd.active, !.revision = @ + 1]
    [] OTHER -> None

\* Mutant: activation leaves the revision alone.
WrittenSameRevision(id) ==
  CASE cmd.op = "setActive" -> [rows[id] EXCEPT !.active = cmd.active]
    [] cmd.op = "delete" -> None
    [] OTHER -> [code |-> Last(cmd.path), parent |-> ResolvedParent(cmd.path),
                 active |-> cmd.active,
                 revision |-> IF cmd.op = "insert" THEN 1 ELSE rows[id].revision + 1]

\* The row after the statement; the code of a referenced row is not in the
\* SET clause.
Written(id) ==
  CASE cmd.op = "insert" ->
         [code |-> Last(cmd.path), parent |-> ResolvedParent(cmd.path),
          active |-> cmd.active, revision |-> 1]
    [] cmd.op = "update" ->
         [code |-> IF referenced THEN rows[id].code ELSE Last(cmd.path),
          parent |-> ResolvedParent(cmd.path), active |-> cmd.active,
          revision |-> rows[id].revision + 1]
    [] cmd.op = "setActive" ->
         [rows[id] EXCEPT !.active = cmd.active, !.revision = @ + 1]
    [] OTHER -> None

\* casUpdateRevision, casDeleteRevision.
RevisionMatches == cmd.op # "insert" => rows[cmd.id].revision = cmd.expected

\* Mutant: nothing in the database holds the rows a resource refers to.
OnlyUniqueCodes(id, row) ==
  row # None => \A k \in Present(rows) \ {id} :
    ~(Level(k) = Level(id) /\ rows[k].parent = row.parent /\ rows[k].code = row.code)

\* Foreign keys hold the id with its parent, unique indexes the code under
\* its parent.
ConstraintsHold(id, row) ==
  /\ row = None \/ (rows[id] # None /\ row.parent # rows[id].parent) =>
       Children(rows, id) = {} /\ id \notin ReferencedIds
  /\ row # None => \A k \in Present(rows) \ {id} :
       ~(Level(k) = Level(id) /\ rows[k].parent = row.parent /\ rows[k].code = row.code)

\* The statement locks its row against a reference to it when the row or
\* one of its key columns goes.
ChangesKey(id, row) ==
  /\ rows[id] # None
  /\ row = None \/ row.code # rows[id].code \/ row.parent # rows[id].parent
KeyShared(id) == \E c \in Creators : cpc[c] = "inserted" /\ id \in Range(held[c])

\* Mutant: the check against the snapshot is trusted, the reloaded catalog is
\* compared and not validated.
ComparedOnly(rs) ==
  LET before == LoadCatalog(rows)
      out == IF cmd.op = "insert" THEN {} ELSE Matching(before, PathOf(rows, cmd.id))
      in  == IF cmd.op = "delete" THEN {} ELSE {Entry(cmd.path, cmd.active)}
  IN  LoadCatalog(rs) = Mutated(before, out, in)

\* The reloaded catalog is valid and is the expected one.
Coherent(rs) ==
  LET before == LoadCatalog(rows)
      out == IF cmd.op = "insert" THEN {} ELSE Matching(before, PathOf(rows, cmd.id))
      in  == IF cmd.op = "delete" THEN {} ELSE {Entry(cmd.path, cmd.active)}
  IN  Sound(LoadCatalog(rs)) /\ LoadCatalog(rs) = Mutated(before, out, in)

TargetIds ==
  IF cmd.op = "insert" THEN {id \in Ids \ spent : Level(id) = Len(cmd.path)} ELSE {cmd.id}

ParentFound ==
  cmd.op \in {"insert", "update"} /\ Len(cmd.path) > 1 => ParentIds(cmd.path) # {}

StatementAccepted(id) ==
  /\ ParentFound /\ RevisionMatches
  /\ ConstraintsHold(id, Written(id))
  /\ Coherent([rows EXCEPT ![id] = Written(id)])

Apply(id) ==
  /\ wpc = "probed" /\ id \in TargetIds
  /\ spent' = IF ParentFound THEN spent \cup {id} ELSE spent
  /\ \/ /\ ~StatementAccepted(id)
        /\ wpc' = "idle" /\ cmd' = BlankCommand /\ UNCHANGED pending
     \/ /\ StatementAccepted(id)
        /\ ChangesKey(id, Written(id)) => ~KeyShared(id)
        /\ wpc' = "applied" /\ pending' = [rows EXCEPT ![id] = Written(id)]
        /\ UNCHANGED cmd
  /\ referenced' = FALSE
  /\ UNCHANGED <<rows, resources, published, writerUnavailable, unconfirmed,
                 writes, createVars>>

Commit ==
  /\ wpc = "applied" /\ wpc' = "committed"
  /\ rows' = pending
  /\ UNCHANGED <<spent, resources, published, writerUnavailable, unconfirmed,
                 cmd, referenced, pending, writes, createVars>>

\* A cancelled context or a lost connection before the commit is sent: the
\* deferred rollback ends the transaction.
AbandonWrite ==
  /\ wpc \in {"checked", "probed", "applied"}
  /\ wpc' = "idle" /\ cmd' = BlankCommand /\ referenced' = FALSE /\ pending' = rows
  /\ UNCHANGED <<storeVars, published, writerUnavailable, unconfirmed, writes, createVars>>

\* What the repository returns for a failed commit carries no sentinel of an
\* indeterminate outcome.
CommitFailure == "commit catalog v2 transaction"

classifyV2WriteError(failure) ==
  writerUnavailable' = (writerUnavailable \/ failure = "indeterminate")

\* The commit is sent and its answer lost: it took place or it did not.
CommitUnanswered ==
  /\ wpc = "applied" /\ wpc' = "idle" /\ cmd' = BlankCommand
  /\ \E outcome \in {rows, pending} : rows' = outcome /\ pending' = outcome
  /\ unconfirmed' = TRUE
  /\ classifyV2WriteError(CommitFailure)
  /\ UNCHANGED <<spent, resources, published, referenced, writes, createVars>>

\* Mutant: the writer forgets to publish what it committed.
ForgetToPublish ==
  /\ wpc = "committed" /\ wpc' = "idle" /\ cmd' = BlankCommand
  /\ UNCHANGED <<storeVars, published, unconfirmed, writerUnavailable, referenced,
                 pending, writes, createVars>>

\* Mutant: the snapshot with the change applied is published, as the legacy
\* writer does, and not the reloaded catalog.
publishCandidate ==
  /\ wpc = "committed" /\ wpc' = "idle" /\ cmd' = BlankCommand
  /\ published' =
       IF cmd.op = "update" THEN LoadCatalog(pending)
       ELSE Mutated(published, Matching(published, cmd.path),
                    IF cmd.op = "delete" THEN {} ELSE {Entry(cmd.path, cmd.active)})
  /\ unconfirmed' = FALSE
  /\ UNCHANGED <<storeVars, writerUnavailable, referenced, pending, writes, createVars>>

publishCoherent ==
  /\ wpc = "committed" /\ wpc' = "idle" /\ cmd' = BlankCommand
  /\ published' = LoadCatalog(pending)
  /\ unconfirmed' = FALSE
  /\ UNCHANGED <<storeVars, writerUnavailable, referenced, pending, writes, createVars>>

-----------------------------------------------------------------------------
(***************************************************************************)
(* Creation of a resource: validate against the current snapshot, insert   *)
(* by codes, check the foreign keys at the end of the statement (waiting   *)
(* for a transaction that changes a key), commit.                          *)
(***************************************************************************)

NewResource(c, path) ==
  /\ cpc[c] = "idle" /\ Len(path) = 3
  /\ \A n \in 1 .. 3 : Entry(SubSeq(path, 1, n), TRUE) \in published
  /\ cpc' = [cpc EXCEPT ![c] = "validated"] /\ key' = [key EXCEPT ![c] = path]
  /\ UNCHANGED <<storeVars, published, writerUnavailable, unconfirmed, writeVars, held>>

\* INSERT ... SELECT finds the committed active rows of these codes.
Selected(path) ==
  {Chain(rows, t) : t \in {t \in Present(rows) \cap Types :
     PathOf(rows, t) = path /\ \A i \in Range(Chain(rows, t)) : rows[i].active}}

InsertResource(c) ==
  \E chain \in Selected(key[c]) :
    /\ cpc[c] = "validated"
    /\ \A r \in resources : ~(r.chain[1] = chain[1] /\ r.key = key[c])
    /\ \A d \in Creators \ {c} : cpc[d] \in {"selected", "inserted"} =>
         ~(held[d][1] = chain[1] /\ key[d] = key[c])
    /\ cpc' = [cpc EXCEPT ![c] = "selected"] /\ held' = [held EXCEPT ![c] = chain]
    /\ UNCHANGED <<storeVars, published, writerUnavailable, unconfirmed, writeVars, key>>

\* FOR KEY SHARE of the three rows.
LockReferences(c) ==
  /\ cpc[c] = "selected"
  /\ \A i \in Range(held[c]) : wpc = "applied" => ~ChangesKey(i, pending[i])
  /\ Last(held[c]) \in Present(rows) /\ Chain(rows, Last(held[c])) = held[c]
  /\ cpc' = [cpc EXCEPT ![c] = "inserted"]
  /\ UNCHANGED <<storeVars, published, writerUnavailable, unconfirmed, writeVars, key, held>>

EndCreation(c) ==
  /\ cpc' = [cpc EXCEPT ![c] = "idle"]
  /\ key' = [key EXCEPT ![c] = <<>>] /\ held' = [held EXCEPT ![c] = <<>>]
  /\ UNCHANGED <<rows, spent, published, writerUnavailable, unconfirmed, writeVars>>

CommitResource(c) ==
  /\ cpc[c] = "inserted"
  /\ resources' = resources \cup {[chain |-> held[c], key |-> key[c]]}
  /\ EndCreation(c)

\* A refusal, an error or a cancelled context: the transaction is rolled back.
AbandonResource(c) ==
  /\ cpc[c] # "idle" /\ UNCHANGED resources /\ EndCreation(c)

-----------------------------------------------------------------------------
\* The process stops at any point and boots again: open transactions are
\* gone and the catalog is loaded from its rows, which must hold a class.
Restart ==
  /\ Present(rows) \cap Classes # {}
  /\ published' = LoadCatalog(rows) /\ unconfirmed' = FALSE
  /\ writerUnavailable' = FALSE
  /\ wpc' = "idle" /\ cmd' = BlankCommand /\ referenced' = FALSE /\ pending' = rows
  /\ cpc' = [c \in Creators |-> "idle"]
  /\ key' = [c \in Creators |-> <<>>] /\ held' = [c \in Creators |-> <<>>]
  /\ UNCHANGED <<storeVars, writes>>

ResetCatalogWriterAvailability ==
  /\ wpc = "idle" /\ writerUnavailable' = FALSE
  /\ UNCHANGED <<storeVars, published, unconfirmed, writeVars, createVars>>

Create(c) ==
  \/ \E path \in Paths : NewResource(c, path)
  \/ InsertResource(c) \/ LockReferences(c) \/ CommitResource(c) \/ AbandonResource(c)

Next ==
  \/ Request \/ BeginWrite \/ (\E id \in Ids : Apply(id))
  \/ Commit \/ AbandonWrite \/ CommitUnanswered \/ publishCoherent
  \/ (\E c \in Creators : Create(c))
  \/ Restart \/ ResetCatalogWriterAvailability

Spec == Init /\ [][Next]_vars

-----------------------------------------------------------------------------
TypeOK ==
  /\ rows \in [Ids -> Row \cup {None}] /\ pending \in [Ids -> Row \cup {None}]
  /\ spent \subseteq Ids
  /\ resources \subseteq [chain : Classes \X Families \X Types, key : Codes \X Codes \X Codes]
  /\ published \subseteq [path : Paths, active : BOOLEAN]
  /\ writerUnavailable \in BOOLEAN /\ unconfirmed \in BOOLEAN /\ referenced \in BOOLEAN
  /\ wpc \in {"idle", "checked", "probed", "applied", "committed"}
  /\ cmd \in Commands /\ writes \in 0 .. MaxWrites
  /\ cpc \in [Creators -> {"idle", "validated", "selected", "inserted"}]
  /\ key \in [Creators -> {<<>>} \cup (Codes \X Codes \X Codes)]
  /\ held \in [Creators -> {<<>>} \cup (Classes \X Families \X Types)]

\* The catalog in the database passes its own validation after every commit,
\* also when the writer checked the request against a snapshot that an
\* unacknowledged commit had left behind (runV2CoherentTx, Validate).
CommittedCatalogIsSound == Sound(LoadCatalog(rows))

\* The published snapshot is the committed catalog, except between a commit
\* and its publication and after a commit that went unacknowledged
\* (publishCoherent; "the published snapshot is equivalent to an independent
\* coherent reload of persistence").
PublishedIsCommitted ==
  wpc = "committed" \/ unconfirmed \/ published = LoadCatalog(rows)

\* Whatever the snapshot missed before, a publication is the whole committed
\* catalog, and nothing is published that was not committed.
PublicationIsACommit == [][published' # published => published' = LoadCatalog(rows)]_vars

\* A stored resource keeps its class, family and type: none of them is
\* deleted or moved, although the writer looked for references before the
\* resource was stored (casDeleteRevision; "a dependency introduced during a
\* delete race MUST still prevent physical deletion").
ResourcesKeepTheirEntries ==
  \A r \in resources :
    Last(r.chain) \in Present(rows) /\ Chain(rows, Last(r.chain)) = r.chain

\* A revision names one content of a row for ever: whatever changes the row
\* gives it the next revision, so a request made on older content never
\* matches (casUpdateRevision, simpleSetActiveV2).
RevisionsNameContent ==
  [][\A id \in Ids : rows'[id] # rows[id] =>
       \/ rows[id] = None /\ rows'[id].revision = 1
       \/ rows'[id] = None
       \/ rows'[id].revision = rows[id].revision + 1]_vars

\* "A commit whose outcome is technically indeterminate latches the writer
\* unavailable and publishes nothing; an operator must perform an explicit
\* coherent reload/restart before writes resume": with a commit unconfirmed
\* no write is served (classifyV2WriteError, prepareV2Write).
NoWriteBeforeReload == unconfirmed => wpc = "idle"

\* "catalog code is immutable once referenced by existing resources": the
\* code of a row that a stored resource refers to does not change.
ReferencedCodeIsImmutable ==
  [][\A id \in ReferencedIds : id \in Present(rows) /\ id \in Present(rows') =>
       rows'[id].code = rows[id].code]_vars
=============================================================================
