----------------------------- MODULE CatalogKinds -----------------------------
(***************************************************************************)
(* The eleven kinds of the resource catalog: the rows of their tables, the *)
(* records the loader reads from them, the checks of the domain, and the   *)
(* four writes. A write is one step: the service holds its mutex and the   *)
(* repository its transaction over it (CatalogAuthority models what comes  *)
(* in between: revisions, commit failures and publication). One it refuses *)
(* changes nothing and is no step.                                         *)
(*                                                                         *)
(* A row refers to others by id. Kept of its columns are those by which    *)
(* the others are resolved, matched or validated; names, labels, positions *)
(* and value types are left out, every value being an option. A client     *)
(* names the rows it refers to by the codes they have.                     *)
(***************************************************************************)
EXTENDS Naturals, FiniteSets, FiniteSetsExt, Sequences, Functions

CONSTANTS
  Ids,            \* bound: the rows that may exist, numbered in the order of their ids
  Kind,           \* the kind of each
  Versions,       \* bound: the rows a client may write at each id
  FirstRows,      \* the catalog at the start
  Resources,      \* bound: the resources that may exist
  MaxOperations,  \* bound: catalog writes and resource requests
  None

VARIABLES
  rows,       \* the catalog tables: a row or None at each id
  resources,  \* table recursos with its values: a resource or None
  operations, \* catalog writes and resource requests begun
  writes      \* catalog writes among them

Kinds ==
  {"CLASE", "FAMILIA", "TIPO", "CARACTERISTICA", "CONJUNTO_OPCIONES", "OPCION",
   "RELACION_OPCIONES", "UNIDAD", "POLITICA_UNIDAD", "APLICABILIDAD", "PRESENTACION"}

RefFields == {"class", "family", "type", "definition", "set", "from", "to", "unit"}

IdsOf(kind) == {i \in Ids : Kind[i] = kind}

Of(kind, db) == {i \in Ids : Kind[i] = kind /\ db[i] # None}

\* The columns of each kind's table.
Columns(kind) ==
  CASE kind = "FAMILIA" -> {"class", "code", "active"}
    [] kind = "TIPO" -> {"family", "code", "active"}
    [] kind = "CARACTERISTICA" -> {"code", "upper", "active"}
    [] kind = "OPCION" -> {"set", "definition", "code", "active"}
    [] kind = "RELACION_OPCIONES" -> {"from", "to", "active"}
    [] kind = "POLITICA_UNIDAD" -> {"family", "unit", "allowed", "active"}
    [] kind = "APLICABILIDAD" -> {"family", "type", "definition", "set", "mode",
                                  "participates", "rules", "active"}
    [] kind = "PRESENTACION" -> {"type", "definition", "active"}
    [] OTHER -> {"code", "active"}

\* The table a column refers to.
Referred(f) ==
  CASE f = "class" -> "CLASE" [] f = "family" -> "FAMILIA" [] f = "type" -> "TIPO"
    [] f = "definition" -> "CARACTERISTICA" [] f = "set" -> "CONJUNTO_OPCIONES"
    [] f \in {"from", "to"} -> "OPCION" [] f = "unit" -> "UNIDAD"

Modes == {"REQUIRED", "OPTIONAL", "CONDITIONAL", "FORBIDDEN"}

\* The rules of an applicability, in their order: what applies when a
\* characteristic has a value.
RulesFit(rules) ==
  /\ DOMAIN rules \subseteq Nat
  /\ \A n \in DOMAIN rules :
       /\ rules[n] = [f \in {"when", "equals", "mode", "participates", "notApplicable", "active"} |->
                       rules[n][f]]
       /\ rules[n].when \in IdsOf("CARACTERISTICA") /\ rules[n].mode \in Modes

\* A row of the kind: only an applicability may leave its type open.
FitsKind(kind, row) ==
  /\ row = [f \in Columns(kind) |-> row[f]]
  /\ "code" \in Columns(kind) => row.code # None
  /\ "rules" \in Columns(kind) => row.mode \in Modes /\ RulesFit(row.rules)
  /\ \A f \in {"active", "upper"} \cap Columns(kind) : row[f] \in BOOLEAN
  /\ \A f \in RefFields \cap Columns(kind) :
       row[f] \in IdsOf(Referred(f)) \/ (kind = "APLICABILIDAD" /\ f = "type" /\ row[f] = None)

References(row) ==
  ({row[f] : f \in RefFields \cap DOMAIN row}
     \cup (IF "rules" \in DOMAIN row THEN {q.when : q \in Range(row.rules)} ELSE {})) \ {None}

-----------------------------------------------------------------------------
(***************************************************************************)
(* Records: a row with the codes of the rows it refers to, as get and the  *)
(* loader read it through their joins. The code of a characteristic has a  *)
(* spelling: comparisons fold its case, but it is stored as given and each *)
(* record that names it shows it so.                                       *)
(***************************************************************************)
Code(db, i) == IF i = None THEN None ELSE db[i].code

Spelled(db, d) == [code |-> db[d].code, upper |-> db[d].upper]

Scope(db, family, type) ==
  [class |-> Code(db, db[family].class), family |-> Code(db, family), type |-> Code(db, type)]

ClassRecord(db, i) == [code |-> db[i].code, active |-> db[i].active]

FamilyRecord(db, i) ==
  [class |-> Code(db, db[i].class), code |-> db[i].code, active |-> db[i].active]

TypeRecord(db, i) ==
  [scope |-> Scope(db, db[i].family, None), code |-> db[i].code, active |-> db[i].active]

DefinitionRecord(db, i) ==
  [code |-> db[i].code, upper |-> db[i].upper, active |-> db[i].active]

OptionSetRecord(db, i) == [code |-> db[i].code, active |-> db[i].active]

OptionRecord(db, i) ==
  [set |-> Code(db, db[i].set), definition |-> Spelled(db, db[i].definition),
   code |-> db[i].code, active |-> db[i].active]

\* A relation names its option set, two characteristics and an option of each.
OptionRelationRecord(db, i) ==
  LET from == db[db[i].from]  to == db[db[i].to] IN
  [set |-> Code(db, from.set),
   fromDefinition |-> Spelled(db, from.definition), from |-> from.code,
   toDefinition |-> Spelled(db, to.definition), to |-> to.code, active |-> db[i].active]

UnitRecord(db, i) == [code |-> db[i].code, active |-> db[i].active]

UnitPolicyRecord(db, i) ==
  [scope |-> Scope(db, db[i].family, None), unit |-> Code(db, db[i].unit),
   allowed |-> db[i].allowed, active |-> db[i].active]

\* The loader embeds the whole definition in an applicability and reads its
\* rules in their order.
AttributeBindingRecord(db, i) ==
  [scope |-> Scope(db, db[i].family, db[i].type),
   definition |-> DefinitionRecord(db, db[i].definition),
   set |-> Code(db, db[i].set), mode |-> db[i].mode, participates |-> db[i].participates,
   rules |-> [n \in DOMAIN db[i].rules |->
                [db[i].rules[n] EXCEPT !.when = Spelled(db, @)]],
   active |-> db[i].active]

PresentationFieldRecord(db, i) ==
  [scope |-> Scope(db, db[db[i].type].family, db[i].type),
   definition |-> Spelled(db, db[i].definition), active |-> db[i].active]

Record(db, i) ==
  CASE Kind[i] = "CLASE" -> ClassRecord(db, i)
    [] Kind[i] = "FAMILIA" -> FamilyRecord(db, i)
    [] Kind[i] = "TIPO" -> TypeRecord(db, i)
    [] Kind[i] = "CARACTERISTICA" -> DefinitionRecord(db, i)
    [] Kind[i] = "CONJUNTO_OPCIONES" -> OptionSetRecord(db, i)
    [] Kind[i] = "OPCION" -> OptionRecord(db, i)
    [] Kind[i] = "RELACION_OPCIONES" -> OptionRelationRecord(db, i)
    [] Kind[i] = "UNIDAD" -> UnitRecord(db, i)
    [] Kind[i] = "POLITICA_UNIDAD" -> UnitPolicyRecord(db, i)
    [] Kind[i] = "APLICABILIDAD" -> AttributeBindingRecord(db, i)
    [] Kind[i] = "PRESENTACION" -> PresentationFieldRecord(db, i)

Loaded(db) == [i \in {j \in Ids : db[j] # None} |-> Record(db, i)]

Entries(catalog, kind) == {i \in DOMAIN catalog : Kind[i] = kind}

Records(catalog, kind) == {catalog[i] : i \in Entries(catalog, kind)}

\* What a mutation is matched by. A relation is matched without its
\* characteristics; the case of a characteristic's code is folded.
Identity(kind, record) ==
  CASE kind = "FAMILIA" -> <<record.class, record.code>>
    [] kind = "TIPO" -> <<record.scope, record.code>>
    [] kind = "OPCION" -> <<record.set, record.definition.code, record.code>>
    [] kind = "RELACION_OPCIONES" -> <<record.set, record.from, record.to>>
    [] kind = "POLITICA_UNIDAD" -> <<record.scope, record.unit>>
    [] kind \in {"APLICABILIDAD", "PRESENTACION"} -> <<record.scope, record.definition.code>>
    [] OTHER -> record.code

Matching(catalog, kind, identity) ==
  {i \in Entries(catalog, kind) : Identity(kind, catalog[i]) = identity}

-----------------------------------------------------------------------------
(***************************************************************************)
(* ResourceCatalog.Validate: the structural checks of the domain.          *)
(***************************************************************************)
hasFamilyIn(catalog, scope) ==
  \E f \in Records(catalog, "FAMILIA") : f.class = scope.class /\ f.code = scope.family

hasTypeIn(catalog, scope) ==
  \E t \in Records(catalog, "TIPO") :
    t.scope = [scope EXCEPT !.type = None] /\ t.code = scope.type

hasOptionSet(catalog, set) == \E o \in Records(catalog, "OPCION") : o.set = set

DistinctIn(catalog, kind) ==
  \A i, j \in Entries(catalog, kind) :
    i # j => Identity(kind, catalog[i]) # Identity(kind, catalog[j])

validateFamilies(catalog) ==
  /\ DistinctIn(catalog, "FAMILIA")
  /\ \A f \in Records(catalog, "FAMILIA") :
       \E c \in Records(catalog, "CLASE") : c.code = f.class

validateTypes(catalog) == \A t \in Records(catalog, "TIPO") : hasFamilyIn(catalog, t.scope)

validateAttributes(catalog) ==
  \A a \in Records(catalog, "APLICABILIDAD") :
    /\ hasFamilyIn(catalog, a.scope)
    /\ a.scope.type # None => hasTypeIn(catalog, a.scope)
    /\ hasOptionSet(catalog, a.set)

validateAttributeRules(catalog) ==
  \A a \in Records(catalog, "APLICABILIDAD") : a.mode = "CONDITIONAL" <=> a.rules # <<>>

validateUnitPolicies(catalog) ==
  \A p \in Records(catalog, "POLITICA_UNIDAD") :
    \E u \in Records(catalog, "UNIDAD") : u.code = p.unit

\* No active family under an inactive class, no active type under an
\* inactive family.
validateActiveHierarchy(catalog) ==
  /\ \A f \in Records(catalog, "FAMILIA") : f.active =>
       \E c \in Records(catalog, "CLASE") : c.code = f.class /\ c.active
  /\ \A t \in Records(catalog, "TIPO") : t.active =>
       \E f \in Records(catalog, "FAMILIA") :
         f.class = t.scope.class /\ f.code = t.scope.family /\ f.active

Validate(catalog) ==
  /\ DistinctIn(catalog, "CLASE") /\ DistinctIn(catalog, "UNIDAD")
  /\ validateFamilies(catalog) /\ validateTypes(catalog)
  /\ validateAttributes(catalog) /\ validateAttributeRules(catalog)
  /\ validateUnitPolicies(catalog) /\ validateActiveHierarchy(catalog)

-----------------------------------------------------------------------------
(***************************************************************************)
(* ApplyCatalogMutation: the candidate a mutation makes of a catalog. It   *)
(* names what it changes by identity and takes the first that matches.     *)
(***************************************************************************)
definitionFor(catalog, code) == catalog[Min(Matching(catalog, "CARACTERISTICA", code))]

definitionHasReferences(catalog, code) ==
  \/ \E kind \in {"APLICABILIDAD", "OPCION", "PRESENTACION"} :
       \E r \in Records(catalog, kind) : r.definition.code = code
  \/ \E r \in Records(catalog, "RELACION_OPCIONES") :
       code \in {r.fromDefinition.code, r.toDefinition.code}

validateApplicabilityRecord(catalog, record) ==
  /\ hasFamilyIn(catalog, record.scope)
  /\ record.scope.type # None => hasTypeIn(catalog, record.scope)
  /\ \A code \in {record.definition.code} \cup {q.when.code : q \in Range(record.rules)} :
       Matching(catalog, "CARACTERISTICA", code) # {}
  /\ record.mode = "CONDITIONAL" <=> record.rules # <<>>

Applicable(catalog, m) ==
  /\ m.op # "insert" => Matching(catalog, m.kind, m.identity) # {}
  /\ m.kind = "APLICABILIDAD" /\ m.op \in {"insert", "update"} =>
       validateApplicabilityRecord(catalog, m.record)
  /\ m.kind = "CARACTERISTICA" /\ m.op = "update" /\ m.record.code # m.identity =>
       ~definitionHasReferences(catalog, m.identity)

\* rebuildEmbeddedDefinitions and synchronizeEmbeddedDefinitionActive.
Embed(catalog, code, definition) ==
  [i \in DOMAIN catalog |->
     IF Kind[i] = "APLICABILIDAD" /\ catalog[i].definition.code = code
     THEN [catalog[i] EXCEPT !.definition = definition] ELSE catalog[i]]

\* attributeBindingFromRecord takes the definition from the catalog.
FromRecord(catalog, m) ==
  IF m.kind = "APLICABILIDAD"
  THEN [m.record EXCEPT !.definition = definitionFor(catalog, @.code)] ELSE m.record

mutateSlice(catalog, m) ==
  LET first == Min(Matching(catalog, m.kind, m.identity)) IN
  CASE m.op = "insert" -> [i \in DOMAIN catalog \cup {m.id} |->
                             IF i = m.id THEN FromRecord(catalog, m) ELSE catalog[i]]
    [] m.op = "update" -> [catalog EXCEPT ![first] = FromRecord(catalog, m)]
    [] m.op = "activate" -> [catalog EXCEPT ![first].active = TRUE]
    [] m.op = "deactivate" -> [catalog EXCEPT ![first].active = FALSE]
    [] m.op = "delete" -> Restrict(catalog, DOMAIN catalog \ {first})

ApplyCatalogMutation(catalog, m) ==
  LET next == mutateSlice(catalog, m) IN
  IF m.kind = "CARACTERISTICA" /\ m.op \in {"update", "activate", "deactivate"}
  THEN Embed(next, m.identity, next[Min(Matching(catalog, m.kind, m.identity))])
  ELSE next

Accepted(catalog, m) ==
  Applicable(catalog, m) /\ Validate(ApplyCatalogMutation(catalog, m))

-----------------------------------------------------------------------------
(***************************************************************************)
(* The constraints of the tables.                                          *)
(***************************************************************************)
\* The rows a stored resource refers to.
ResourceReferences(r, db) ==
  {r.class, r.family, r.type, r.unit} \cup DOMAIN r.values
    \cup UNION {{v.binding, v.option, db[v.option].set} : v \in Range(r.values)}

Stored == {r \in Resources : resources[r] # None}

KeyColumns(kind) ==
  CASE kind = "FAMILIA" -> {"class", "code"}
    [] kind = "TIPO" -> {"family", "code"}
    [] kind = "CARACTERISTICA" -> {"code", "upper"}
    [] kind = "OPCION" -> {"set", "definition", "code"}
    [] kind = "RELACION_OPCIONES" -> {"from", "to"}
    [] kind = "POLITICA_UNIDAD" -> {"family", "unit"}
    [] kind = "APLICABILIDAD" -> {"family", "type", "definition"}
    [] kind = "PRESENTACION" -> {"type", "definition"}
    [] OTHER -> {"code"}

UniqueKeys(db, i) ==
  db[i] # None =>
    \A j \in Of(Kind[i], db) \ {i} : \E f \in KeyColumns(Kind[i]) : db[i][f] # db[j][f]

\* Composite keys: the type of an applicability is one of its family, the
\* options of a relation are of one set.
KeysAgree(db, i) ==
  /\ Kind[i] = "APLICABILIDAD" /\ db[i].type # None => db[db[i].type].family = db[i].family
  /\ Kind[i] = "RELACION_OPCIONES" => db[db[i].from].set = db[db[i].to].set

ReferencesExist(db) ==
  \A i \in Ids : db[i] # None =>
    (\A j \in References(db[i]) : db[j] # None) /\ KeysAgree(db, i)

\* Mutant: the key from a resource's values to their applicability is missing.
ForeignKeysWithoutValues(db) ==
  /\ ReferencesExist(db)
  /\ \A r \in Stored : \A i \in ResourceReferences(resources[r], rows) :
       Kind[i] # "APLICABILIDAD" => db[i] # None

ForeignKeys(db) ==
  /\ ReferencesExist(db)
  /\ \A r \in Stored : \A i \in ResourceReferences(resources[r], rows) : db[i] # None

\* The columns that other tables repeat in a composite or a natural key.
HeldColumns(kind) ==
  CASE kind = "FAMILIA" -> {"class"}
    [] kind = "TIPO" -> {"family"}
    [] kind \in {"CONJUNTO_OPCIONES", "OPCION"} -> {"code"}
    [] kind = "APLICABILIDAD" -> {"family", "definition"}
    [] OTHER -> {}

Held(i) ==
  \/ \E j \in Ids : /\ rows[j] # None /\ i \in References(rows[j])
                    /\ Kind[j] \notin {"POLITICA_UNIDAD", "PRESENTACION"}
  \/ \E r \in Stored : i \in ResourceReferences(resources[r], rows)

KeepsHeldColumns(i, row) ==
  Held(i) => \A f \in HeldColumns(Kind[i]) : row[f] = rows[i][f]

\* The reference probe each kind with a code has: an applicability has none.
ReferencedByResources(i) ==
  /\ Kind[i] # "APLICABILIDAD"
  /\ \E r \in Stored : i \in ResourceReferences(resources[r], rows)

\* The tables a kind's delete asks for dependents: not every table with a key
\* to it is among them. (A set is also asked for its relations, each of which
\* has options of the set.)
DependentKinds(kind) ==
  CASE kind = "CLASE" -> {"FAMILIA"}
    [] kind = "FAMILIA" -> {"TIPO", "APLICABILIDAD", "POLITICA_UNIDAD"}
    [] kind = "TIPO" -> {"APLICABILIDAD", "PRESENTACION"}
    [] kind = "CARACTERISTICA" -> {"APLICABILIDAD", "OPCION"}
    [] kind = "CONJUNTO_OPCIONES" -> {"OPCION"}
    [] kind = "OPCION" -> {"RELACION_OPCIONES"}
    [] kind = "UNIDAD" -> {"POLITICA_UNIDAD"}
    [] OTHER -> {}

\* A dependent refers to the row by a column; the characteristic of a rule is
\* not one.
Dependents(i) ==
  {j \in Ids : /\ rows[j] # None /\ Kind[j] \in DependentKinds(Kind[i])
               /\ \E f \in RefFields \cap DOMAIN rows[j] : rows[j][f] = i}

-----------------------------------------------------------------------------
(***************************************************************************)
(* The writes. The service validates a candidate made of its snapshot; the *)
(* repository applies the statement, makes the candidate of what it read   *)
(* before, and commits what it reads after only if that validates and says *)
(* the same.                                                               *)
(***************************************************************************)
Content(catalog) == {<<Kind[i], catalog[i]>> : i \in DOMAIN catalog}

\* Mutant: only the number of records is compared.
SameSize(a, b) == Cardinality(DOMAIN a) = Cardinality(DOMAIN b)

EquivalentResourceCatalogs(a, b) ==
  Cardinality(DOMAIN a) = Cardinality(DOMAIN b) /\ Content(a) = Content(b)

\* The statement meets the constraints, and what is read after it is valid
\* and what the mutation makes of the catalog read before.
Coherent(i, row, m) ==
  LET before == Loaded(rows)
      db == [rows EXCEPT ![i] = row]
  IN  /\ UniqueKeys(db, i) /\ ForeignKeys(db)
      /\ Applicable(before, m)
      /\ Validate(Loaded(db))
      /\ EquivalentResourceCatalogs(Loaded(db), ApplyCatalogMutation(before, m))

runV2CoherentTx(i, row) ==
  /\ rows' = [rows EXCEPT ![i] = row]
  /\ operations' = operations + 1 /\ writes' = writes + 1
  /\ UNCHANGED resources

Mutation(op, i, identity, record) ==
  [op |-> op, id |-> i, kind |-> Kind[i], identity |-> identity, record |-> record]

\* CanonicalizeCatalogRecordCodes: the code of a characteristic is written in
\* upper case.
CanonicalizeCatalogRecordCodes(row) ==
  [f \in DOMAIN row |-> IF f = "upper" THEN TRUE ELSE row[f]]

\* The references of a record, resolved by the codes it gives.
Resolved(row) == \A j \in References(row) : rows[j] # None

MayCreate(i, row) ==
  LET record == Record([rows EXCEPT ![i] = row], i)
      m == Mutation("insert", i, Identity(Kind[i], record), record)
  IN  /\ rows[i] = None /\ \A j \in Of(Kind[i], rows) : j < i
      /\ Resolved(row) /\ Accepted(Loaded(rows), m) /\ Coherent(i, row, m)

\* The columns a kind's UPDATE sets.
WrittenColumns(kind, row) ==
  CASE kind = "OPCION" -> {"code", "active"}
    [] kind = "POLITICA_UNIDAD" -> {"allowed", "active"}
    [] kind = "PRESENTACION" -> {"active"}
    [] OTHER -> DOMAIN row

Written(i, row) ==
  [f \in DOMAIN row |-> IF f \in WrittenColumns(Kind[i], row) THEN row[f] ELSE rows[i][f]]

SpellsCodeAnew(row, current) ==
  "code" \in DOMAIN row /\ \E f \in {"code", "upper"} \cap DOMAIN row : row[f] # current[f]

\* The service looks for the record to replace under the new references and
\* the old code, the repository under the identity that is stored.
MayUpdate(i, row) ==
  LET record == Record([rows EXCEPT ![i] = row], i)
      current == Record(rows, i)
      sought == IF "code" \in DOMAIN row THEN [record EXCEPT !.code = rows[i].code] ELSE record
  IN  /\ rows[i] # None /\ row # rows[i] /\ Resolved(row)
      /\ ~(SpellsCodeAnew(row, rows[i]) /\ ReferencedByResources(i))
      /\ Accepted(Loaded(rows), Mutation("update", i, Identity(Kind[i], sought), record))
      /\ KeepsHeldColumns(i, Written(i, row))
      /\ Coherent(i, Written(i, row), Mutation("update", i, Identity(Kind[i], current), record))

Toggled(i) == [rows[i] EXCEPT !.active = ~@]

MayToggle(i) ==
  LET current == Record(rows, i)
      m == Mutation(IF rows[i].active THEN "deactivate" ELSE "activate", i,
                    Identity(Kind[i], current), current)
  IN  /\ rows[i] # None
      /\ Accepted(Loaded(rows), m) /\ Coherent(i, Toggled(i), m)

MayDelete(i) ==
  LET current == Record(rows, i)
      m == Mutation("delete", i, Identity(Kind[i], current), current)
  IN  /\ rows[i] # None /\ ~rows[i].active
      /\ Dependents(i) = {} /\ ~ReferencedByResources(i)
      /\ Accepted(Loaded(rows), m) /\ Coherent(i, None, m)

CanonicalVersions(i) == {CanonicalizeCatalogRecordCodes(v) : v \in Versions[i]}

CreateV2(i) ==
  \E row \in {v \in CanonicalVersions(i) : MayCreate(i, v)} : runV2CoherentTx(i, row)

UpdateRevision(i) ==
  \E row \in {v \in CanonicalVersions(i) : MayUpdate(i, v)} :
    runV2CoherentTx(i, Written(i, row))

\* Asking for the activity a record has is answered without a write.
setActiveRevision == \E i \in {j \in Ids : MayToggle(j)} : runV2CoherentTx(i, Toggled(i))

HardDeleteRevision == \E i \in {j \in Ids : MayDelete(j)} : runV2CoherentTx(i, None)

CatalogWrite ==
  /\ operations < MaxOperations
  /\ \/ \E i \in Ids : CreateV2(i) \/ UpdateRevision(i)
     \/ setActiveRevision \/ HardDeleteRevision

-----------------------------------------------------------------------------
HierarchyIsActive(db) ==
  \A i \in Of("TIPO", db) : db[i].active =>
    db[db[i].family].active /\ db[db[db[i].family].class].active

\* The rows a resource refers to are there and belong together.
Anchored(db, s) ==
  /\ \A i \in {s.class, s.family, s.type, s.unit} : db[i] # None
  /\ db[s.type].family = s.family /\ db[s.family].class = s.class
  /\ \A d \in DOMAIN s.values :
       LET v == s.values[d] IN
       /\ db[d] # None
       /\ db[v.option] # None /\ db[v.option].definition = d
       /\ db[v.binding] # None /\ db[v.binding].definition = d
       /\ db[v.binding].family = s.family

\* What the schema, its constraints and the loader's validation say of the
\* stored catalog, and the first of them of what clients write.
ASSUME CatalogAssumption ==
  /\ None \notin Ids /\ Ids \subseteq Nat /\ \A i \in Ids : Kind[i] \in Kinds
  /\ FirstRows = [i \in Ids |-> FirstRows[i]]
  /\ \A i \in Ids : FirstRows[i] # None => FitsKind(Kind[i], FirstRows[i])
  /\ \A i \in Ids : \A row \in Versions[i] : FitsKind(Kind[i], row)
  /\ \A i \in Ids : UniqueKeys(FirstRows, i)
  /\ ReferencesExist(FirstRows) /\ Validate(Loaded(FirstRows))

\* Every reference of the catalog and of a resource leads to a row, the type
\* of an applicability lies in its family and the options of a relation in one
\* set, a resource's type lies in its family and its class, its values are options
\* of characteristics that its family applies, and no active type hangs below
\* an inactive family or class: whatever is deleted, moved or deactivated
\* between the steps of a resource's request (the delete probes, the foreign
\* keys behind them and validateActiveHierarchy).
NothingDangles ==
  /\ ReferencesExist(rows) /\ HierarchyIsActive(rows)
  /\ \A r \in Stored : Anchored(rows, resources[r])

\* A write changes the one record it names: what a client reads of any other
\* stays as it was, except the copy of a characteristic in the applicabilities
\* of that characteristic (runV2CoherentTx commits only what the candidate
\* says, although codes are joined in from other rows and a record is found
\* by codes that another may share).
OneRecordPerChange ==
  [][\A i, j \in Ids :
       /\ i # j /\ rows'[i] # rows[i] /\ rows[j] # None
       => LET old == Record(rows, j)  new == Record(rows', j) IN
          \/ new = old
          \/ /\ Kind[j] = "APLICABILIDAD" /\ rows[j].definition = i
             /\ [new EXCEPT !.definition = old.definition] = old]_<<rows, resources>>
=============================================================================
