---------------------------- MODULE ResourceMaster ----------------------------
(***************************************************************************)
(* Resource Master beside the administration of the catalog: creation,     *)
(* update and lifecycle of resources. The service validates a request      *)
(* against the published catalog, the repository writes it in a            *)
(* transaction of its own, and catalog writes and other requests come in   *)
(* between. Writes compare the revision the client read.                   *)
(*                                                                         *)
(* A request that is refused or cancelled writes nothing; which error it   *)
(* is answered with is left out, and so is the reload after a commit.      *)
(***************************************************************************)
EXTENDS CatalogKinds

CONSTANTS
  Callers,         \* concurrent requests
  Intents,         \* bound: what clients may ask a resource to be, in codes
  FirstResources   \* the resources at the start, one to choose

VARIABLE call      \* the request of each caller between its steps

resourceVars == <<rows, resources, operations, writes, call>>

ScopeOf(intent) == [class |-> intent.class, family |-> intent.family, type |-> intent.type]

\* A row of recursos: the values by characteristic, each with the
\* applicability it was given for, and an identity made of an intent.
Valuations ==
  UNION {[ids -> [binding : IdsOf("APLICABILIDAD"), option : IdsOf("OPCION")]] :
           ids \in SUBSET IdsOf("CARACTERISTICA")}

Identities ==
  UNION {{[scope |-> ScopeOf(intent), values |-> Restrict(intent.values, codes)] :
            codes \in SUBSET DOMAIN intent.values} : intent \in Intents}

ResourceRow ==
  [class : IdsOf("CLASE"), family : IdsOf("FAMILIA"), type : IdsOf("TIPO"),
   unit : IdsOf("UNIDAD"), values : Valuations, identity : Identities,
   active : BOOLEAN, revision : Nat]

IsIntent(intent) ==
  /\ intent = [class |-> intent.class, family |-> intent.family, type |-> intent.type,
               unit |-> intent.unit, values |-> intent.values]
  /\ intent.values = [code \in DOMAIN intent.values |-> intent.values[code]]

ASSUME ResourceAssumption ==
  /\ None \notin Resources /\ None \notin ResourceRow /\ None \notin Intents
  /\ \A intent \in Intents : IsIntent(intent)
  /\ FirstResources \subseteq [Resources -> ResourceRow \cup {None}]
  /\ \A first \in FirstResources, r \in Resources :
       first[r] # None => Anchored(FirstRows, first[r])

Init ==
  /\ rows = FirstRows /\ resources \in FirstResources
  /\ operations = 0 /\ writes = 0 /\ call = [p \in Callers |-> None]

-----------------------------------------------------------------------------
(***************************************************************************)
(* NewResource: the domain's validation of an intent.                      *)
(***************************************************************************)
\* The applicabilities of a scope, by characteristic. Those of the type are
\* loaded after those of the family and take their place.
resourceAttributes(catalog, scope) ==
  LET of(type) == {a \in Records(catalog, "APLICABILIDAD") : a.scope = [scope EXCEPT !.type = type]}
      codes(type) == {a.definition.code : a \in of(type)}
  IN  [code \in codes(None) \cup codes(scope.type) |->
         CHOOSE a \in of(IF code \in codes(scope.type) THEN scope.type ELSE None) :
           a.definition.code = code]

OptionOf(catalog, attribute, option) ==
  {o \in Records(catalog, "OPCION") :
     o.definition.code = attribute.definition.code /\ o.set = attribute.set /\ o.code = option}

PolicyOf(catalog, intent) ==
  {q \in Records(catalog, "POLITICA_UNIDAD") :
     q.scope = [ScopeOf(intent) EXCEPT !.type = None] /\ q.unit = intent.unit /\ q.allowed}

\* Relations between two applicabilities of the scope, in the set of both.
RelationsIn(catalog, attributes) ==
  {q \in Records(catalog, "RELACION_OPCIONES") :
     /\ {q.fromDefinition.code, q.toDefinition.code} \subseteq DOMAIN attributes
     /\ q.set = attributes[q.fromDefinition.code].set
     /\ q.set = attributes[q.toDefinition.code].set}

validateActiveChain(catalog, intent, attributes) ==
  Entries(catalog, "CONJUNTO_OPCIONES") # {} =>
    /\ \A c \in Records(catalog, "CLASE") : c.code = intent.class => c.active
    /\ \A f \in Records(catalog, "FAMILIA") :
         f.class = intent.class /\ f.code = intent.family => f.active
    /\ \A t \in Records(catalog, "TIPO") :
         t.scope = [ScopeOf(intent) EXCEPT !.type = None] /\ t.code = intent.type => t.active
    /\ \E u \in Records(catalog, "UNIDAD") : u.code = intent.unit /\ u.active
    /\ \E q \in PolicyOf(catalog, intent) : q.active
    /\ \A code \in DOMAIN attributes :
         LET a == attributes[code] IN
         /\ a.active /\ definitionFor(catalog, code).active
         /\ \E s \in Records(catalog, "CONJUNTO_OPCIONES") : s.code = a.set /\ s.active
         /\ \A q \in Range(a.rules) : q.active
         /\ code \in DOMAIN intent.values =>
              \A o \in OptionOf(catalog, a, intent.values[code]) : o.active
    /\ \A q \in RelationsIn(catalog, attributes) : q.active

\* Two characteristics with relations take a pair that one of them lists.
validateRelations(catalog, attributes, values) ==
  \A q \in RelationsIn(catalog, attributes) :
    LET from == q.fromDefinition.code  to == q.toDefinition.code IN
    {from, to} \subseteq DOMAIN values =>
      \E s \in RelationsIn(catalog, attributes) :
        /\ s.fromDefinition.code = from /\ s.toDefinition.code = to
        /\ s.from = values[from] /\ s.to = values[to]

\* Mutant: a conditional characteristic without a matching rule is optional.
EffectiveOptional(a, values) ==
  LET hits == {n \in DOMAIN a.rules : /\ a.rules[n].when.code \in DOMAIN values
                                      /\ values[a.rules[n].when.code] = a.rules[n].equals}
  IN  IF hits # {} THEN a.rules[Min(hits)]
      ELSE [mode |-> IF a.mode = "CONDITIONAL" THEN "OPTIONAL" ELSE a.mode,
            participates |-> a.participates, notApplicable |-> FALSE]

\* The first rule whose condition holds decides, else the applicability, a
\* conditional one being required.
effective(a, values) ==
  LET hits == {n \in DOMAIN a.rules : /\ a.rules[n].when.code \in DOMAIN values
                                      /\ values[a.rules[n].when.code] = a.rules[n].equals}
  IN  IF hits # {} THEN a.rules[Min(hits)]
      ELSE [mode |-> IF a.mode = "CONDITIONAL" THEN "REQUIRED" ELSE a.mode,
            participates |-> a.participates, notApplicable |-> FALSE]

validateModes(attributes, values) ==
  \A code \in DOMAIN attributes :
    LET e == effective(attributes[code], values) IN
    IF code \in DOMAIN values
    THEN e.mode \notin {"FORBIDDEN", "CONDITIONAL"} /\ ~e.notApplicable
    ELSE e.mode \notin {"REQUIRED", "CONDITIONAL"}

NewResource(catalog, intent) ==
  LET attributes == resourceAttributes(catalog, ScopeOf(intent)) IN
  /\ hasFamilyIn(catalog, ScopeOf(intent)) /\ hasTypeIn(catalog, ScopeOf(intent))
  /\ PolicyOf(catalog, intent) # {}
  /\ \E u \in Records(catalog, "UNIDAD") : u.code = intent.unit
  /\ \A code \in DOMAIN intent.values :
       /\ code \in DOMAIN attributes
       /\ OptionOf(catalog, attributes[code], intent.values[code]) # {}
  /\ validateActiveChain(catalog, intent, attributes)
  /\ validateRelations(catalog, attributes, intent.values)
  /\ validateModes(attributes, intent.values)

\* The identity: the scope and the values that take part in it.
IdentityKey(catalog, intent) ==
  LET attributes == resourceAttributes(catalog, ScopeOf(intent)) IN
  [scope |-> ScopeOf(intent),
   values |-> Restrict(intent.values,
     {code \in DOMAIN intent.values : effective(attributes[code], intent.values).participates})]

-----------------------------------------------------------------------------
(***************************************************************************)
(* The repository's statements, over the rows of that moment.              *)
(***************************************************************************)
\* Class, family, type and unit are active, with a policy that allows the unit.
ScopeActive(s) ==
  /\ \A i \in {s.class, s.family, s.type, s.unit} : rows[i].active
  /\ \E q \in Of("POLITICA_UNIDAD", rows) :
       /\ rows[q].family = s.family /\ rows[q].unit = s.unit
       /\ rows[q].allowed /\ rows[q].active

\* The scope by its codes: at most one.
ActiveScopes(intent) ==
  {s \in [class : Of("CLASE", rows), family : Of("FAMILIA", rows), type : Of("TIPO", rows),
          unit : Of("UNIDAD", rows)] :
     /\ rows[s.class].code = intent.class /\ rows[s.family].code = intent.family
     /\ rows[s.type].code = intent.type /\ rows[s.unit].code = intent.unit
     /\ rows[s.family].class = s.class /\ rows[s.type].family = s.family
     /\ ScopeActive(s)}

\* The code of a value is in lower case and compared as it is.
resolveAttributeTarget(s, code) ==
  {b \in Of("APLICABILIDAD", rows) :
     LET d == rows[b].definition IN
     /\ rows[b].family = s.family /\ rows[b].type \in {None, s.type} /\ rows[b].active
     /\ rows[d].code = code /\ ~rows[d].upper /\ rows[d].active}

\* The rows of a value: its one target and the option its key refers to.
persistAttributeValue(s, code, option) ==
  {v \in [binding : resolveAttributeTarget(s, code), option : Of("OPCION", rows)] :
     /\ Cardinality(resolveAttributeTarget(s, code)) = 1
     /\ rows[v.option].set = rows[v.binding].set
     /\ rows[v.option].definition = rows[v.binding].definition
     /\ rows[v.option].code = option}

PersistedValues(s, values) ==
  LET ids == {i \in Of("CARACTERISTICA", rows) :
                rows[i].code \in DOMAIN values /\ ~rows[i].upper}
  IN  [i \in ids |-> CHOOSE v \in persistAttributeValue(s, rows[i].code, values[rows[i].code]) : TRUE]

\* Either all values are written or the transaction is rolled back.
Writable(s, values) ==
  \A code \in DOMAIN values : persistAttributeValue(s, code, values[code]) # {}

Duplicate(class, identity, r) ==
  \E o \in Stored \ {r} : resources[o].class = class /\ resources[o].identity = identity

-----------------------------------------------------------------------------
(***************************************************************************)
(* Reading a resource back: loadEffectiveAttributes looks at no activity   *)
(* but that of rules.                                                      *)
(***************************************************************************)
InScope(db, s, b) == db[b].family = s.family /\ db[b].type \in {None, s.type}

\* An applicability of the type hides the family's.
AppliedTo(db, s) ==
  {b \in Of("APLICABILIDAD", db) :
     /\ InScope(db, s, b)
     /\ db[b].type = None =>
          ~\E o \in Of("APLICABILIDAD", db) :
             InScope(db, s, o) /\ db[o].type = s.type /\ db[o].definition = db[b].definition}

EffectiveValues(db, s) == {d \in DOMAIN s.values : InScope(db, s, s.values[d].binding)}

ModeOf(db, s, b) ==
  LET rules == db[b].rules
      hits == {n \in DOMAIN rules :
                 /\ rules[n].active /\ rules[n].when \in EffectiveValues(db, s)
                 /\ db[s.values[rules[n].when].option].code = rules[n].equals}
  IN  IF hits # {} THEN rules[Min(hits)].mode
      ELSE IF db[b].mode = "CONDITIONAL" THEN "REQUIRED" ELSE db[b].mode

Readable(db, s) ==
  \A b \in AppliedTo(db, s) :
    LET d == db[b].definition IN
    IF d \in EffectiveValues(db, s)
    THEN /\ db[s.values[d].option].set = db[s.values[d].binding].set
         /\ ModeOf(db, s, b) # "FORBIDDEN"
    ELSE ModeOf(db, s, b) \in {"OPTIONAL", "FORBIDDEN"}

\* What a reader sees, in codes.
ReadIntent(db, s) ==
  LET shown == EffectiveValues(db, s) \cap {db[b].definition : b \in AppliedTo(db, s)} IN
  [class |-> Code(db, s.class), family |-> Code(db, s.family), type |-> Code(db, s.type),
   unit |-> Code(db, s.unit),
   values |-> [code \in {db[d].code : d \in shown} |->
                 LET d == CHOOSE e \in shown : db[e].code = code IN
                 db[s.values[d].option].code]]

-----------------------------------------------------------------------------
(***************************************************************************)
(* Requests.                                                               *)
(***************************************************************************)
Begin(p, request) ==
  /\ operations' = operations + 1
  /\ call' = [call EXCEPT ![p] = request]
  /\ UNCHANGED <<rows, resources, writes>>

Request(op, r, intent, identity) ==
  [op |-> op, resource |-> r, seen |-> IF r = None THEN None ELSE resources[r],
   intent |-> intent, identity |-> identity, at |-> writes]

Valid == LET catalog == Loaded(rows) IN {intent \in Intents : NewResource(catalog, intent)}

\* The resources a client can read.
Shown == {r \in Stored : Readable(rows, resources[r])}

Create(p) ==
  \E intent \in Valid :
    Begin(p, Request("create", None, intent, IdentityKey(Loaded(rows), intent)))

\* The client's read of the resource and the service's validation of what it
\* sends: the validation looks at the catalog only, so resource writes between
\* the two are as good as later ones.
Update(p) ==
  \E r \in Shown, intent \in Valid :
    Begin(p, Request("update", r, intent, IdentityKey(Loaded(rows), intent)))

Deactivate(p) == \E r \in Shown : Begin(p, Request("deactivate", r, None, None))

Reactivate(p) == \E r \in Shown : Begin(p, Request("reactivate", r, None, None))

\* Mutant: the identity of the candidate is not compared.
AnyCandidates(s) ==
  {intent \in {ReadIntent(rows, s)} : ~s.active /\ NewResource(Loaded(rows), intent)}

\* What a reactivation is built from: the values read, valid in the catalog of
\* now and of the identity that is stored.
reactivationCandidate(s) ==
  {intent \in {ReadIntent(rows, s)} :
     /\ ~s.active /\ NewResource(Loaded(rows), intent)
     /\ IdentityKey(Loaded(rows), intent) = s.identity}

\* ReactivateRevision loads the resource first; one that is active by now is
\* answered without a write.
Load(p) ==
  /\ call[p] # None /\ call[p].op = "reactivate" /\ call[p].intent = None
  /\ call[p].resource \in Shown
  /\ \E intent \in reactivationCandidate(resources[call[p].resource]) :
       call' = [call EXCEPT ![p].intent = intent, ![p].at = writes,
                            ![p].identity = resources[call[p].resource].identity]
  /\ UNCHANGED <<rows, resources, operations, writes>>

Finish(p) == call' = [call EXCEPT ![p] = None] /\ UNCHANGED <<rows, operations, writes>>

PersistCreate(p) ==
  /\ call[p] # None /\ call[p].op = "create"
  /\ \E s \in ActiveScopes(call[p].intent), r \in Resources :
       /\ resources[r] = None /\ \A o \in Resources : o < r => resources[o] # None
       /\ ~Duplicate(s.class, call[p].identity, r)
       /\ Writable(s, call[p].intent.values)
       /\ resources' = [resources EXCEPT ![r] =
            [class |-> s.class, family |-> s.family, type |-> s.type, unit |-> s.unit,
             values |-> PersistedValues(s, call[p].intent.values),
             identity |-> call[p].identity, active |-> TRUE, revision |-> 1]]
  /\ Finish(p)

\* Mutant: the revision is not compared.
AnyRevision(p) == TRUE

SameRevision(p) == resources[call[p].resource].revision = call[p].seen.revision

\* The identity is not among the columns; the values still refer to the old
\* family when the row changes.
PersistUpdate(p) ==
  LET r == call[p].resource  old == resources[r] IN
  /\ call[p] # None /\ call[p].op = "update" /\ SameRevision(p)
  /\ \E s \in ActiveScopes(call[p].intent) :
       /\ ~Duplicate(s.class, old.identity, r)
       /\ s.family # old.family => DOMAIN old.values = {}
       /\ Writable(s, call[p].intent.values)
       /\ resources' = [resources EXCEPT ![r] =
            [class |-> s.class, family |-> s.family, type |-> s.type, unit |-> s.unit,
             values |-> PersistedValues(s, call[p].intent.values),
             identity |-> old.identity, active |-> old.active, revision |-> old.revision + 1]]
  /\ Finish(p)

setLifecycleRevision(p, active) ==
  LET r == call[p].resource IN
  /\ SameRevision(p)
  /\ resources' = IF resources[r].active = active THEN resources
                  ELSE [resources EXCEPT ![r].active = active, ![r].revision = @ + 1]
  /\ Finish(p)

PersistDeactivate(p) ==
  /\ call[p] # None /\ call[p].op = "deactivate"
  /\ setLifecycleRevision(p, FALSE)

PersistReactivate(p) ==
  LET s == resources[call[p].resource] IN
  /\ call[p] # None /\ call[p].op = "reactivate" /\ call[p].intent # None
  /\ s.identity = call[p].identity /\ (~s.active => ScopeActive(s))
  /\ setLifecycleRevision(p, TRUE)

\* A check refuses the request, or its context is cancelled before the commit.
GiveUp(p) == call[p] # None /\ UNCHANGED resources /\ Finish(p)

Next ==
  \/ CatalogWrite /\ UNCHANGED call
  \/ \E p \in Callers :
       \/ /\ call[p] = None /\ operations < MaxOperations
          /\ Create(p) \/ Update(p) \/ Deactivate(p) \/ Reactivate(p)
       \/ Load(p) \/ PersistCreate(p) \/ PersistUpdate(p)
       \/ PersistDeactivate(p) \/ PersistReactivate(p) \/ GiveUp(p)

Spec == Init /\ [][Next]_resourceVars

-----------------------------------------------------------------------------
Commits(p) == call[p] # None /\ call'[p] = None /\ resources' # resources

\* A change replaces exactly the resource its client had read: no write of
\* another client is overwritten unseen (the revision compared under the row
\* lock by UpdateRevision and setLifecycleRevision).
NoLostUpdate ==
  [][\A p \in Callers : Commits(p) /\ call[p].op # "create" =>
       resources[call[p].resource] = call[p].seen]_resourceVars

\* The characteristics of the applicabilities and of their rules.
NamedByApplicabilities ==
  UNION {References(rows[b]) \cap IdsOf("CARACTERISTICA") : b \in Of("APLICABILIDAD", rows)}

\* No two of them have codes that differ in case alone. The code does not
\* rule it out: the table's key compares codes as they are, and only an
\* applicability of the later of two spellings is refused.
NamedInOneSpelling ==
  \A d, e \in NamedByApplicabilities : rows[d].code = rows[e].code => d = e

\* What the service accepts the repository can read: unless the catalog was
\* written in between, a resource just created, updated or reactivated is read
\* back with the values asked for (the rules of NewResource, which go by
\* codes, against those of loadEffectiveAttributes, which go by ids; with
\* two spellings of one code they disagree).
AcceptedIsReadable ==
  [][\A p \in Callers :
       Commits(p) /\ call[p].op # "deactivate" /\ call[p].at = writes /\ NamedInOneSpelling =>
       \A r \in Resources : resources'[r] # resources[r] =>
         Readable(rows, resources'[r]) /\ ReadIntent(rows, resources'[r]) = call[p].intent]_resourceVars

\* A resource comes back active only under the identity its values have in
\* the catalog it was validated against, although an update leaves the stored
\* identity as it was and a catalog write may change which values take part
\* (reactivationCandidate, and the identity compared under the row lock).
ReactivationRestoresIdentity ==
  [][\A p \in Callers : Commits(p) /\ call[p].op = "reactivate" /\ call[p].at = writes =>
       LET s == resources[call[p].resource] IN
       s.identity = IdentityKey(Loaded(rows), ReadIntent(rows, s))]_resourceVars
=============================================================================
