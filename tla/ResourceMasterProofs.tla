------------------------- MODULE ResourceMasterProofs -------------------------
(***************************************************************************)
(* Theorems about ResourceMaster: no update of a resource is lost, a       *)
(* resource is reactivated only under the identity of its values, no       *)
(* reference of the catalog or of a resource dangles, a catalog write      *)
(* changes the one record it names, and what is accepted is read back as   *)
(* it was asked for, for any catalog, resources, callers and intents.      *)
(*                                                                         *)
(* None of them is inductive by itself. What a request read is compared    *)
(* with the row by revision only, so the invariant says that a row that    *)
(* differs from what was read has a greater revision, and what a           *)
(* reactivation found out about the identity, or the service about an      *)
(* intent, holds while neither the row nor the catalog has changed. For    *)
(* references it says that rows fit their kinds and that the keys of the   *)
(* tables are unique, which is also what tells two records apart by the    *)
(* codes they show and makes what is checked by codes and what is stored   *)
(* by ids the same.                                                        *)
(***************************************************************************)
EXTENDS ResourceMaster, TLAPS, WellFoundedInduction

RequestFields == {"op", "resource", "seen", "intent", "identity", "at"}

ResourcesTyped == writes \in Nat /\ resources \in [Resources -> ResourceRow \cup {None}]

CallsTyped ==
  /\ call = [p \in Callers |-> call[p]]
  /\ \A p \in Callers : call[p] # None =>
       /\ call[p] = [f \in RequestFields |-> call[p][f]]
       /\ call[p].at \in Nat /\ call[p].at <= writes
       /\ call[p].op \in {"create", "update"} =>
            call[p].intent \in Intents /\ call[p].identity \in Identities

\* A resource row is the one a request read, or a later one.
SameOrLater(now, seen) == now = seen \/ seen.revision < now.revision

SeenIsPast ==
  \A p \in Callers : call[p] # None /\ call[p].op # "create" =>
    /\ call[p].resource \in Resources
    /\ resources[call[p].resource] \in ResourceRow /\ call[p].seen \in ResourceRow
    /\ SameOrLater(resources[call[p].resource], call[p].seen)

IdentityOf(db, s) == IdentityKey(Loaded(db), ReadIntent(db, s))

CandidateHolds ==
  \A p \in Callers :
    /\ call[p] # None /\ call[p].op = "reactivate" /\ call[p].intent # None
    /\ call[p].at = writes /\ resources[call[p].resource] = call[p].seen
    => call[p].seen.identity = IdentityOf(rows, call[p].seen)

ResourceInv == ResourcesTyped /\ CallsTyped /\ SeenIsPast /\ CandidateHolds

-----------------------------------------------------------------------------
(***************************************************************************)
(* The types of what the repository and the service make.                  *)
(***************************************************************************)
\* The ids a scope resolves to are ids of the kinds its columns refer to.
LEMMA ScopesTyped ==
  ASSUME NEW intent, NEW s \in ActiveScopes(intent)
  PROVE  /\ s.class \in IdsOf("CLASE") /\ s.family \in IdsOf("FAMILIA")
         /\ s.type \in IdsOf("TIPO") /\ s.unit \in IdsOf("UNIDAD")
BY DEF ActiveScopes, Of, IdsOf

\* Values that can be written are rows of resource_attribute_values.
LEMMA ValuesTyped ==
  ASSUME NEW s, NEW values, Writable(s, values)
  PROVE  PersistedValues(s, values) \in Valuations
<1> DEFINE ids == {i \in Of("CARACTERISTICA", rows) : rows[i].code \in DOMAIN values /\ ~rows[i].upper}
           choice(i) == CHOOSE v \in persistAttributeValue(s, rows[i].code, values[rows[i].code]) : TRUE
           Value == [binding : IdsOf("APLICABILIDAD"), option : IdsOf("OPCION")]
<1>1. \A i \in ids : choice(i) \in Value
  <2> SUFFICES ASSUME NEW i \in ids PROVE choice(i) \in Value
    OBVIOUS
  <2>1. choice(i) \in persistAttributeValue(s, rows[i].code, values[rows[i].code])
    BY DEF Writable
  <2>2. persistAttributeValue(s, rows[i].code, values[rows[i].code]) \subseteq Value
    BY DEF persistAttributeValue, resolveAttributeTarget, Of, IdsOf
  <2> QED BY <2>1, <2>2
<1>2. ids \in SUBSET IdsOf("CARACTERISTICA")
  BY DEF Of, IdsOf
<1>3. [i \in ids |-> choice(i)] \in [ids -> Value]
  BY <1>1
<1>4. PersistedValues(s, values) = [i \in ids |-> choice(i)]
  BY DEF PersistedValues
<1> QED BY <1>2, <1>3, <1>4 DEF Valuations

\* The identity of an intent is made of the intent.
LEMMA IdentityTyped ==
  ASSUME NEW catalog, NEW intent \in Intents
  PROVE  IdentityKey(catalog, intent) \in Identities
<1> DEFINE attributes == resourceAttributes(catalog, ScopeOf(intent))
           codes == {code \in DOMAIN intent.values : effective(attributes[code], intent.values).participates}
<1>1. codes \in SUBSET DOMAIN intent.values
  OBVIOUS
<1>2. IdentityKey(catalog, intent) = [scope |-> ScopeOf(intent), values |-> Restrict(intent.values, codes)]
  BY DEF IdentityKey
<1> HIDE DEF codes
<1>3. IdentityKey(catalog, intent) \in
        {[scope |-> ScopeOf(intent), values |-> Restrict(intent.values, c)] :
           c \in SUBSET DOMAIN intent.values}
  BY <1>1, <1>2
<1> QED BY <1>3 DEF Identities

-----------------------------------------------------------------------------
(***************************************************************************)
(* What a step does to the rows and to the requests.                       *)
(***************************************************************************)
\* Rows appear, stay or take their next revision.
RowsSucceed ==
  /\ resources' \in [Resources -> ResourceRow \cup {None}]
  /\ \A r \in Resources : resources[r] # None =>
       \/ resources'[r] = resources[r]
       \/ resources'[r] \in ResourceRow /\ resources'[r].revision = resources[r].revision + 1

\* A request of q ends; the catalog stays as it was.
Ends(q) == call' = [call EXCEPT ![q] = None] /\ UNCHANGED <<rows, writes>>

\* A creation fills a free row.
LEMMA CreateSucceeds ==
  ASSUME ResourceInv, NEW q \in Callers, PersistCreate(q)
  PROVE  RowsSucceed /\ Ends(q) /\ call[q] # None /\ call[q].op = "create"
<1>1. PICK s \in ActiveScopes(call[q].intent), r \in Resources :
        /\ resources[r] = None /\ Writable(s, call[q].intent.values)
        /\ resources' = [resources EXCEPT ![r] =
            [class |-> s.class, family |-> s.family, type |-> s.type, unit |-> s.unit,
             values |-> PersistedValues(s, call[q].intent.values),
             identity |-> call[q].identity, active |-> TRUE, revision |-> 1]]
  BY DEF PersistCreate
<1>2. PersistedValues(s, call[q].intent.values) \in Valuations
  BY <1>1, ValuesTyped
<1>3. call[q].identity \in Identities
  BY DEF PersistCreate, ResourceInv, CallsTyped
<1>4. [class |-> s.class, family |-> s.family, type |-> s.type, unit |-> s.unit,
       values |-> PersistedValues(s, call[q].intent.values),
       identity |-> call[q].identity, active |-> TRUE, revision |-> 1] \in ResourceRow
  BY <1>2, <1>3, ScopesTyped DEF ResourceRow
<1>5. RowsSucceed
  BY <1>1, <1>4 DEF RowsSucceed, ResourceInv, ResourcesTyped
<1> QED BY <1>5 DEF PersistCreate, Finish, Ends

\* An update gives the row its next revision and keeps its identity.
LEMMA UpdateSucceeds ==
  ASSUME ResourceInv, NEW q \in Callers, PersistUpdate(q)
  PROVE  RowsSucceed /\ Ends(q) /\ call[q] # None /\ call[q].op = "update" /\ SameRevision(q)
<1> DEFINE r == call[q].resource
           old == resources[r]
<1>1. PICK s \in ActiveScopes(call[q].intent) :
        /\ Writable(s, call[q].intent.values)
        /\ resources' = [resources EXCEPT ![r] =
            [class |-> s.class, family |-> s.family, type |-> s.type, unit |-> s.unit,
             values |-> PersistedValues(s, call[q].intent.values),
             identity |-> old.identity, active |-> old.active, revision |-> old.revision + 1]]
  BY DEF PersistUpdate
<1>2. PersistedValues(s, call[q].intent.values) \in Valuations
  BY <1>1, ValuesTyped
<1>3. r \in Resources /\ old \in ResourceRow
  BY DEF PersistUpdate, ResourceInv, SeenIsPast
<1>4. [class |-> s.class, family |-> s.family, type |-> s.type, unit |-> s.unit,
       values |-> PersistedValues(s, call[q].intent.values),
       identity |-> old.identity, active |-> old.active, revision |-> old.revision + 1] \in ResourceRow
  BY <1>2, <1>3, ScopesTyped DEF ResourceRow
<1>5. RowsSucceed
  BY <1>1, <1>3, <1>4 DEF RowsSucceed, ResourceInv, ResourcesTyped
<1> QED BY <1>5 DEF PersistUpdate, Finish, Ends

\* A row with another activity and the next revision is a row.
LEMMA ToggledTyped ==
  ASSUME NEW s \in ResourceRow, NEW active \in BOOLEAN
  PROVE  /\ [s EXCEPT !.active = active, !.revision = s.revision + 1] \in ResourceRow
         /\ [s EXCEPT !.active = active, !.revision = s.revision + 1].revision = s.revision + 1
<1>1. s.revision + 1 \in Nat
  BY DEF ResourceRow
<1> DEFINE next == s.revision + 1
<1> HIDE DEF next
<1>2. [s EXCEPT !.active = active, !.revision = next] \in ResourceRow
  BY <1>1 DEF ResourceRow, next
<1>3. [s EXCEPT !.active = active, !.revision = next].revision = next
  BY DEF ResourceRow
<1> QED BY <1>2, <1>3 DEF next

\* A change of activity gives the row its next revision; a repeated one
\* leaves it alone.
LEMMA LifecycleSucceeds ==
  ASSUME ResourceInv, NEW q \in Callers, NEW active \in BOOLEAN,
         call[q] # None, call[q].op # "create", setLifecycleRevision(q, active)
  PROVE  RowsSucceed /\ Ends(q) /\ SameRevision(q)
<1> DEFINE r == call[q].resource
           new == [resources[r] EXCEPT !.active = active, !.revision = resources[r].revision + 1]
<1>1. r \in Resources /\ resources[r] \in ResourceRow
  BY DEF ResourceInv, SeenIsPast
<1>2. new \in ResourceRow /\ new.revision = resources[r].revision + 1
  BY <1>1, ToggledTyped
<1>3. resources' = resources \/ resources' = [resources EXCEPT ![r] = new]
  BY <1>1 DEF setLifecycleRevision, ResourceInv, ResourcesTyped, ResourceRow
<1> HIDE DEF new
<1>4. RowsSucceed
  BY <1>1, <1>2, <1>3 DEF RowsSucceed, ResourceInv, ResourcesTyped
<1> QED BY <1>4 DEF setLifecycleRevision, Finish, Ends

\* The catalog's writes leave the resources alone and are counted.
LEMMA CatalogWriteShape ==
  ASSUME CatalogWrite
  PROVE  UNCHANGED resources /\ writes' = writes + 1
BY DEF CatalogWrite, CreateV2, UpdateRevision, setActiveRevision, HardDeleteRevision, runV2CoherentTx

\* A row that was as old as what a request read, or older, does not come back.
LEMMA LaterStays ==
  ASSUME RowsSucceed, NEW r \in Resources, resources[r] \in ResourceRow,
         NEW seen \in ResourceRow, SameOrLater(resources[r], seen)
  PROVE  /\ resources'[r] \in ResourceRow /\ SameOrLater(resources'[r], seen)
         /\ resources'[r] = seen => resources[r] = seen
<1>1. resources[r] # None
  BY ResourceAssumption
<1>2. resources[r].revision \in Nat /\ seen.revision \in Nat
  BY DEF ResourceRow
<1> QED BY <1>1, <1>2 DEF RowsSucceed, SameOrLater

-----------------------------------------------------------------------------
(***************************************************************************)
(* The invariant, by the shapes of steps.                                  *)
(***************************************************************************)
\* A request ends, having written a row or not.
LEMMA EndKeepsInv ==
  ASSUME ResourceInv, RowsSucceed, NEW q \in Callers, Ends(q)
  PROVE  ResourceInv'
<1> USE DEF Ends
<1>1. \A p \in Callers : call'[p] = None \/ call'[p] = call[p]
  BY DEF ResourceInv, CallsTyped
<1>2. ResourcesTyped'
  BY DEF ResourceInv, ResourcesTyped, RowsSucceed
<1>3. CallsTyped'
  BY <1>1 DEF ResourceInv, CallsTyped
<1>4. SeenIsPast' /\ CandidateHolds'
  <2> SUFFICES ASSUME NEW p \in Callers, call'[p] # None, call'[p].op # "create"
               PROVE  /\ call'[p].resource \in Resources
                      /\ resources'[call'[p].resource] \in ResourceRow /\ call'[p].seen \in ResourceRow
                      /\ SameOrLater(resources'[call'[p].resource], call'[p].seen)
                      /\ call'[p].op = "reactivate" /\ call'[p].intent # None
                         /\ call'[p].at = writes' /\ resources'[call'[p].resource] = call'[p].seen
                         => call'[p].seen.identity = IdentityOf(rows', call'[p].seen)
    BY DEF SeenIsPast, CandidateHolds, SameOrLater, IdentityOf
  <2>1. call'[p] = call[p]
    BY <1>1
  <2>2. /\ call[p].resource \in Resources
        /\ resources[call[p].resource] \in ResourceRow /\ call[p].seen \in ResourceRow
        /\ SameOrLater(resources[call[p].resource], call[p].seen)
    BY <2>1 DEF ResourceInv, SeenIsPast
  <2>3. /\ resources'[call[p].resource] \in ResourceRow
        /\ SameOrLater(resources'[call[p].resource], call[p].seen)
        /\ resources'[call[p].resource] = call[p].seen => resources[call[p].resource] = call[p].seen
    BY <2>2, LaterStays
  <2>4. rows' = rows /\ writes' = writes
    OBVIOUS
  <2> QED BY <2>1, <2>2, <2>3, <2>4 DEF ResourceInv, CandidateHolds
<1> QED BY <1>2, <1>3, <1>4 DEF ResourceInv

\* A request enters.
LEMMA BeginKeepsInv ==
  ASSUME ResourceInv, NEW q \in Callers, NEW op, NEW r, NEW intent, NEW identity,
         Begin(q, Request(op, r, intent, identity)),
         op \in {"create", "update"} => intent \in Intents /\ identity \in Identities,
         op # "create" => r \in Stored, op = "reactivate" => intent = None
  PROVE  ResourceInv'
<1> DEFINE request == Request(op, r, intent, identity)
<1>1. call' = [call EXCEPT ![q] = request] /\ UNCHANGED <<rows, resources, writes>>
  BY DEF Begin
<1>2. /\ request = [f \in RequestFields |-> request[f]]
      /\ request.op = op /\ request.resource = r /\ request.intent = intent
      /\ request.identity = identity /\ request.at = writes
      /\ r # None => request.seen = resources[r]
  BY DEF Request, RequestFields
<1>3. op # "create" => r \in Resources /\ r # None /\ resources[r] \in ResourceRow
  BY ResourceAssumption DEF Stored, ResourceInv, ResourcesTyped
<1> HIDE DEF request
<1>4. \A p \in Callers : call'[p] = IF p = q THEN request ELSE call[p]
  BY <1>1 DEF ResourceInv, CallsTyped
<1>5. ResourcesTyped'
  BY <1>1 DEF ResourceInv, ResourcesTyped
<1>6. CallsTyped'
  <2>1. call' = [p \in Callers |-> call'[p]]
    BY <1>1 DEF ResourceInv, CallsTyped
  <2>2. \A p \in Callers : call'[p] # None =>
          /\ call'[p] = [f \in RequestFields |-> call'[p][f]]
          /\ call'[p].at \in Nat /\ call'[p].at <= writes'
          /\ call'[p].op \in {"create", "update"} =>
               call'[p].intent \in Intents /\ call'[p].identity \in Identities
    BY <1>1, <1>2, <1>4 DEF ResourceInv, ResourcesTyped, CallsTyped
  <2> QED BY <2>1, <2>2 DEF CallsTyped
<1>7. SeenIsPast'
  BY <1>1, <1>2, <1>3, <1>4 DEF ResourceInv, SeenIsPast, SameOrLater
<1>8. CandidateHolds'
  <2> SUFFICES ASSUME NEW p \in Callers, call'[p] # None, call'[p].op = "reactivate",
                      call'[p].intent # None, call'[p].at = writes',
                      resources'[call'[p].resource] = call'[p].seen
               PROVE  call'[p].seen.identity = IdentityOf(rows', call'[p].seen)
    BY DEF CandidateHolds, IdentityOf
  <2>1. p # q
    BY <1>2, <1>4
  <2>2. call'[p] = call[p] /\ rows' = rows /\ writes' = writes /\ resources' = resources
    BY <1>1, <1>4, <2>1
  <2> QED BY <2>2 DEF ResourceInv, CandidateHolds
<1> QED BY <1>5, <1>6, <1>7, <1>8 DEF ResourceInv

\* A reactivation loads the resource and checks its candidate.
LEMMA LoadKeepsInv ==
  ASSUME ResourceInv, NEW q \in Callers, Load(q)
  PROVE  ResourceInv'
<1>1. PICK intent \in reactivationCandidate(resources[call[q].resource]) :
        call' = [call EXCEPT ![q].intent = intent, ![q].at = writes,
                             ![q].identity = resources[call[q].resource].identity]
  BY DEF Load
<1>2. /\ UNCHANGED <<rows, resources, writes>> /\ call[q] # None /\ call[q].op = "reactivate"
  BY DEF Load
<1>3. call[q] = [f \in RequestFields |-> call[q][f]]
  BY <1>2 DEF ResourceInv, CallsTyped
<1>4. /\ call' = [p \in Callers |-> call'[p]]
      /\ \A p \in Callers \ {q} : call'[p] = call[p]
  BY <1>1 DEF ResourceInv, CallsTyped
<1>5. /\ call'[q] = [f \in RequestFields |-> call'[q][f]] /\ call'[q].at = writes
      /\ call'[q].op = "reactivate" /\ call'[q].seen = call[q].seen
      /\ call'[q].resource = call[q].resource
  <2>1. call'[q] = [call[q] EXCEPT !.intent = intent, !.at = writes,
                                   !.identity = resources[call[q].resource].identity]
    BY <1>1 DEF ResourceInv, CallsTyped
  <2> QED BY <1>2, <1>3, <2>1 DEF RequestFields
<1>6. resources[call[q].resource].identity = IdentityOf(rows, resources[call[q].resource])
  BY DEF reactivationCandidate, IdentityOf
<1>7. ResourcesTyped'
  BY <1>2 DEF ResourceInv, ResourcesTyped
<1>8. CallsTyped'
  BY <1>2, <1>4, <1>5 DEF ResourceInv, ResourcesTyped, CallsTyped
<1>9. SeenIsPast'
  BY <1>2, <1>4, <1>5 DEF ResourceInv, SeenIsPast, SameOrLater
<1>10. CandidateHolds'
  <2> SUFFICES ASSUME NEW p \in Callers, call'[p] # None, call'[p].op = "reactivate",
                      call'[p].intent # None, call'[p].at = writes',
                      resources'[call'[p].resource] = call'[p].seen
               PROVE  call'[p].seen.identity = IdentityOf(rows', call'[p].seen)
    BY DEF CandidateHolds, IdentityOf
  <2>1. CASE p = q
    BY <1>2, <1>5, <1>6, <2>1
  <2>2. CASE p # q
    <3>1. call'[p] = call[p] /\ rows' = rows /\ writes' = writes /\ resources' = resources
      BY <1>2, <1>4, <2>2
    <3> QED BY <3>1 DEF ResourceInv, CandidateHolds
  <2> QED BY <2>1, <2>2
<1> QED BY <1>7, <1>8, <1>9, <1>10 DEF ResourceInv

\* A catalog write makes every candidate one of an earlier catalog.
LEMMA CatalogWriteKeepsInv ==
  ASSUME ResourceInv, CatalogWrite, UNCHANGED call
  PROVE  ResourceInv'
<1>1. UNCHANGED resources /\ writes' = writes + 1
  BY CatalogWriteShape
<1>2. ResourcesTyped'
  BY <1>1 DEF ResourceInv, ResourcesTyped
<1>3. CallsTyped'
  BY <1>1 DEF ResourceInv, ResourcesTyped, CallsTyped
<1>4. SeenIsPast'
  BY <1>1 DEF ResourceInv, SeenIsPast, SameOrLater
<1>5. \A p \in Callers : call'[p] # None => call'[p].at # writes'
  BY <1>1 DEF ResourceInv, ResourcesTyped, CallsTyped
<1>6. CandidateHolds'
  BY <1>5 DEF CandidateHolds
<1> QED BY <1>2, <1>3, <1>4, <1>6 DEF ResourceInv

\* The steps that write resources or end a request.
Persists(q) ==
  PersistCreate(q) \/ PersistUpdate(q) \/ PersistDeactivate(q) \/ PersistReactivate(q) \/ GiveUp(q)

\* They write rows as RowsSucceed says, and only with the revision read.
LEMMA PersistShape ==
  ASSUME ResourceInv, NEW q \in Callers, Persists(q)
  PROVE  RowsSucceed /\ Ends(q) /\ call[q] # None
         /\ (resources' # resources /\ call[q].op # "create" => SameRevision(q))
         /\ (resources' # resources /\ call[q].op = "reactivate" => call[q].intent # None)
<1>1. CASE PersistCreate(q)
  BY <1>1, CreateSucceeds
<1>2. CASE PersistUpdate(q)
  BY <1>2, UpdateSucceeds
<1>3. CASE PersistDeactivate(q)
  <2>1. call[q] # None /\ call[q].op = "deactivate" /\ setLifecycleRevision(q, FALSE)
    BY <1>3 DEF PersistDeactivate
  <2> QED BY <2>1, LifecycleSucceeds
<1>4. CASE PersistReactivate(q)
  <2>1. /\ call[q] # None /\ call[q].op = "reactivate" /\ call[q].intent # None
        /\ setLifecycleRevision(q, TRUE)
    BY <1>4 DEF PersistReactivate
  <2> QED BY <2>1, LifecycleSucceeds
<1>5. CASE GiveUp(q)
  BY <1>5 DEF GiveUp, Finish, Ends, RowsSucceed, ResourceInv, ResourcesTyped
<1> QED BY <1>1, <1>2, <1>3, <1>4, <1>5 DEF Persists

\* Requests enter with what a client can read and the service accepts.
LEMMA RequestsKeepInv ==
  ASSUME ResourceInv, NEW q \in Callers, Create(q) \/ Update(q) \/ Deactivate(q) \/ Reactivate(q)
  PROVE  ResourceInv'
<1>1. CASE Create(q)
  <2>1. PICK intent \in Valid :
          Begin(q, Request("create", None, intent, IdentityKey(Loaded(rows), intent)))
    BY <1>1 DEF Create
  <2>2. intent \in Intents
    BY DEF Valid
  <2> QED BY <2>1, <2>2, IdentityTyped, BeginKeepsInv
<1>2. CASE Update(q)
  <2>1. PICK r \in Shown, intent \in Valid :
          Begin(q, Request("update", r, intent, IdentityKey(Loaded(rows), intent)))
    BY <1>2 DEF Update
  <2>2. intent \in Intents /\ r \in Stored
    BY DEF Valid, Shown
  <2> QED BY <2>1, <2>2, IdentityTyped, BeginKeepsInv
<1>3. CASE Deactivate(q)
  <2>1. PICK r \in Shown : Begin(q, Request("deactivate", r, None, None))
    BY <1>3 DEF Deactivate
  <2>2. r \in Stored
    BY DEF Shown
  <2> QED BY <2>1, <2>2, BeginKeepsInv
<1>4. CASE Reactivate(q)
  <2>1. PICK r \in Shown : Begin(q, Request("reactivate", r, None, None))
    BY <1>4 DEF Reactivate
  <2>2. r \in Stored
    BY DEF Shown
  <2> QED BY <2>1, <2>2, BeginKeepsInv
<1> QED BY <1>1, <1>2, <1>3, <1>4

\* The invariant is inductive.
LEMMA NextKeepsInv ==
  ASSUME ResourceInv, [Next]_resourceVars
  PROVE  ResourceInv'
<1>1. CASE CatalogWrite /\ UNCHANGED call
  BY <1>1, CatalogWriteKeepsInv
<1>2. ASSUME NEW q \in Callers, Create(q) \/ Update(q) \/ Deactivate(q) \/ Reactivate(q)
      PROVE  ResourceInv'
  BY <1>2, RequestsKeepInv
<1>3. ASSUME NEW q \in Callers, Load(q)
      PROVE  ResourceInv'
  BY <1>3, LoadKeepsInv
<1>4. ASSUME NEW q \in Callers, Persists(q)
      PROVE  ResourceInv'
  BY <1>4, PersistShape, EndKeepsInv
<1>5. CASE UNCHANGED resourceVars
  BY <1>5 DEF resourceVars, ResourceInv, ResourcesTyped, CallsTyped, SeenIsPast, SameOrLater,
       CandidateHolds, IdentityOf
<1> QED BY <1>1, <1>2, <1>3, <1>4, <1>5 DEF Next, Persists

\* The first resources are rows, and there are no requests.
LEMMA InitInv == Init => ResourceInv
BY ResourceAssumption DEF Init, ResourceInv, ResourcesTyped, CallsTyped, SeenIsPast, CandidateHolds

\* The invariant holds in every reachable state.
LEMMA InvHolds == Spec => []ResourceInv
<1>1. ResourceInv /\ [Next]_resourceVars => ResourceInv'
  BY NextKeepsInv
<1> QED BY <1>1, InitInv, PTL DEF Spec

-----------------------------------------------------------------------------
\* The step that commits a request is one of its own.
LEMMA CommitIsOwn ==
  ASSUME ResourceInv, Next, NEW p \in Callers, Commits(p)
  PROVE  Persists(p)
<1>1. CASE CatalogWrite /\ UNCHANGED call
  BY <1>1, CatalogWriteShape DEF Commits
<1>2. ASSUME NEW q \in Callers, Create(q) \/ Update(q) \/ Deactivate(q) \/ Reactivate(q) \/ Load(q)
      PROVE  Persists(p)
  BY <1>2 DEF Create, Update, Deactivate, Reactivate, Begin, Load, Commits
<1>3. ASSUME NEW q \in Callers, Persists(q)
      PROVE  Persists(p)
  <2>1. call' = [call EXCEPT ![q] = None]
    BY <1>3, PersistShape DEF Ends
  <2>2. p = q
    BY <2>1 DEF Commits, ResourceInv, CallsTyped
  <2> QED BY <1>3, <2>2
<1> QED BY <1>1, <1>2, <1>3 DEF Next, Persists

\* A row with the revision that was read is the row that was read.
LEMMA CommitReplacesSeen ==
  ASSUME ResourceInv, Next, NEW p \in Callers, Commits(p), call[p].op # "create"
  PROVE  resources[call[p].resource] = call[p].seen
<1>1. call[p] # None /\ SameRevision(p)
  BY CommitIsOwn, PersistShape DEF Commits
<1>2. /\ resources[call[p].resource] \in ResourceRow /\ call[p].seen \in ResourceRow
      /\ SameOrLater(resources[call[p].resource], call[p].seen)
  BY <1>1 DEF ResourceInv, SeenIsPast
<1>3. resources[call[p].resource].revision \in Nat
  BY <1>2 DEF ResourceRow
<1> QED BY <1>1, <1>2, <1>3 DEF SameRevision, SameOrLater

\* No update is lost: a change committed by UpdateRevision,
\* DeactivateRevision or ReactivateRevision replaces the very row its client
\* had read, for any number of callers, resources and catalog writes.
THEOREM UpdateSafety == Spec => NoLostUpdate
<1>1. ASSUME ResourceInv, Next
      PROVE  \A p \in Callers : Commits(p) /\ call[p].op # "create" =>
               resources[call[p].resource] = call[p].seen
  BY <1>1, CommitReplacesSeen
<1>2. ASSUME UNCHANGED resourceVars, NEW p \in Callers
      PROVE  ~Commits(p)
  BY <1>2 DEF resourceVars, Commits
<1>3. ResourceInv /\ [Next]_resourceVars =>
        [\A p \in Callers : Commits(p) /\ call[p].op # "create" =>
           resources[call[p].resource] = call[p].seen]_resourceVars
  BY <1>1, <1>2
<1> QED BY <1>3, InvHolds, PTL DEF Spec, NoLostUpdate

\* A resource is reactivated under the identity of its values: what
\* reactivationCandidate compared before the transaction still holds at the
\* commit, for any number of callers, unless the catalog was written since.
THEOREM ReactivationSafety == Spec => ReactivationRestoresIdentity
<1> DEFINE Restored(p) ==
      LET s == resources[call[p].resource] IN
      s.identity = IdentityKey(Loaded(rows), ReadIntent(rows, s))
<1>1. ASSUME ResourceInv, Next, NEW p \in Callers, Commits(p),
             call[p].op = "reactivate", call[p].at = writes
      PROVE  Restored(p)
  <2>1. resources[call[p].resource] = call[p].seen
    BY <1>1, CommitReplacesSeen
  <2>2. call[p] # None /\ call[p].intent # None
    BY <1>1, CommitIsOwn, PersistShape DEF Commits
  <2> QED BY <1>1, <2>1, <2>2 DEF ResourceInv, CandidateHolds, IdentityOf
<1>2. ResourceInv /\ [Next]_resourceVars =>
        [\A p \in Callers : Commits(p) /\ call[p].op = "reactivate" /\ call[p].at = writes =>
           Restored(p)]_resourceVars
  BY <1>1
<1> QED BY <1>2, InvHolds, PTL DEF Spec, ReactivationRestoresIdentity

-----------------------------------------------------------------------------
(***************************************************************************)
(* References. Beside NothingDangles the rows must fit their kinds, and    *)
(* their keys must be unique: a value is written for the characteristic    *)
(* that its code finds.                                                    *)
(***************************************************************************)
RowsFit(db) ==
  /\ db = [i \in Ids |-> db[i]]
  /\ \A i \in Ids : db[i] # None => FitsKind(Kind[i], db[i])

CodesAreUnique(db) ==
  \A i, j \in Of("CARACTERISTICA", db) :
    db[i].code = db[j].code /\ db[i].upper = db[j].upper => i = j

KeysAreUnique(db) == \A i \in Ids : UniqueKeys(db, i)

AnchorInv == RowsFit(rows) /\ KeysAreUnique(rows) /\ NothingDangles

\* Among them the codes of characteristics.
LEMMA UniqueCodes ==
  ASSUME NEW db, KeysAreUnique(db)
  PROVE  CodesAreUnique(db)
BY DEF KeysAreUnique, UniqueKeys, KeyColumns, CodesAreUnique, Of

\* What the kinds say about the columns that the hierarchy and the values of
\* a resource go through.
LEMMA ReferencesTyped ==
  ASSUME NEW db, RowsFit(db), NEW i \in Ids, db[i] # None
  PROVE  /\ Kind[i] = "CARACTERISTICA" => db[i].upper \in BOOLEAN
         /\ Kind[i] = "TIPO" => db[i].family \in IdsOf("FAMILIA")
         /\ Kind[i] = "FAMILIA" => db[i].class \in IdsOf("CLASE")
         /\ Kind[i] = "APLICABILIDAD" => db[i].definition \in IdsOf("CARACTERISTICA")
<1>1. FitsKind(Kind[i], db[i])
  BY DEF RowsFit
<1>2. /\ Kind[i] = "TIPO" => "family" \in RefFields \cap Columns(Kind[i])
      /\ Kind[i] = "FAMILIA" => "class" \in RefFields \cap Columns(Kind[i])
      /\ Kind[i] = "APLICABILIDAD" => "definition" \in RefFields \cap Columns(Kind[i])
  BY DEF RefFields, Columns
<1>3. Kind[i] = "CARACTERISTICA" => "upper" \in {"active", "upper"} \cap Columns(Kind[i])
  BY DEF Columns
<1>4. /\ Referred("family") = "FAMILIA" /\ Referred("class") = "CLASE"
      /\ Referred("definition") = "CARACTERISTICA"
  BY DEF Referred
<1> QED BY <1>1, <1>2, <1>3, <1>4 DEF FitsKind

\* A column that refers to a row leads to one that is there.
LEMMA ReferencesLead ==
  ASSUME NEW db, RowsFit(db), ReferencesExist(db), NEW i \in Ids, db[i] # None
  PROVE  /\ Kind[i] = "TIPO" => db[i].family \in Of("FAMILIA", db)
         /\ Kind[i] = "FAMILIA" => db[i].class \in Of("CLASE", db)
         /\ Kind[i] = "APLICABILIDAD" => db[i].definition \in Of("CARACTERISTICA", db)
<1>1. FitsKind(Kind[i], db[i])
  BY DEF RowsFit
<1>2. DOMAIN db[i] = Columns(Kind[i])
  BY <1>1 DEF FitsKind
<1>3. \A f \in RefFields \cap Columns(Kind[i]) : db[i][f] # None => db[db[i][f]] # None
  BY <1>2 DEF ReferencesExist, References
<1>4. /\ Kind[i] = "TIPO" => "family" \in RefFields \cap Columns(Kind[i])
      /\ Kind[i] = "FAMILIA" => "class" \in RefFields \cap Columns(Kind[i])
      /\ Kind[i] = "APLICABILIDAD" => "definition" \in RefFields \cap Columns(Kind[i])
  BY DEF RefFields, Columns
<1>5. None \notin Ids
  BY CatalogAssumption
<1> QED BY <1>3, <1>4, <1>5, ReferencesTyped DEF Of, IdsOf

\* validateActiveHierarchy speaks of codes, and the codes of classes and
\* families are distinct: so no active type hangs below inactive rows.
LEMMA ValidIsActive ==
  ASSUME NEW db, RowsFit(db), ReferencesExist(db), Validate(Loaded(db))
  PROVE  HierarchyIsActive(db)
<1> DEFINE catalog == Loaded(db)
<1>1. None \notin Ids
  BY CatalogAssumption
<1>2. \A kind : Entries(catalog, kind) = Of(kind, db)
  BY DEF Entries, Of, Loaded
<1>3. /\ \A i \in Of("CLASE", db) : catalog[i] = ClassRecord(db, i)
      /\ \A i \in Of("FAMILIA", db) : catalog[i] = FamilyRecord(db, i)
      /\ \A i \in Of("TIPO", db) : catalog[i] = TypeRecord(db, i)
  BY DEF Of, Loaded, Record
<1>4. \A i \in Of("CLASE", db) :
        catalog[i].code = db[i].code /\ catalog[i].active = db[i].active
  <2> SUFFICES ASSUME NEW i \in Of("CLASE", db)
               PROVE  catalog[i].code = db[i].code /\ catalog[i].active = db[i].active
    OBVIOUS
  <2>1. catalog[i] = [code |-> db[i].code, active |-> db[i].active]
    BY <1>3 DEF ClassRecord
  <2> HIDE DEF catalog
  <2> QED BY <2>1
<1>5. \A i \in Of("FAMILIA", db) :
        /\ catalog[i].class = Code(db, db[i].class)
        /\ catalog[i].code = db[i].code /\ catalog[i].active = db[i].active
  <2> SUFFICES ASSUME NEW i \in Of("FAMILIA", db)
               PROVE  /\ catalog[i].class = Code(db, db[i].class)
                      /\ catalog[i].code = db[i].code /\ catalog[i].active = db[i].active
    OBVIOUS
  <2>1. catalog[i] = [class |-> Code(db, db[i].class), code |-> db[i].code, active |-> db[i].active]
    BY <1>3 DEF FamilyRecord
  <2> HIDE DEF catalog
  <2> QED BY <2>1
<1>6. \A i \in Of("TIPO", db) :
        /\ catalog[i].scope = Scope(db, db[i].family, None)
        /\ catalog[i].active = db[i].active
  <2> SUFFICES ASSUME NEW i \in Of("TIPO", db)
               PROVE  /\ catalog[i].scope = Scope(db, db[i].family, None)
                      /\ catalog[i].active = db[i].active
    OBVIOUS
  <2>1. catalog[i] = [scope |-> Scope(db, db[i].family, None), code |-> db[i].code,
                      active |-> db[i].active]
    BY <1>3 DEF TypeRecord
  <2> HIDE DEF catalog
  <2> QED BY <2>1
<1>7. DistinctIn(catalog, "CLASE") /\ DistinctIn(catalog, "FAMILIA") /\ validateActiveHierarchy(catalog)
  BY DEF Validate, validateFamilies
<1> HIDE DEF catalog
<1>8. \A f \in Of("FAMILIA", db) : catalog[f].active =>
        \E c \in Of("CLASE", db) : catalog[c].code = catalog[f].class /\ catalog[c].active
  BY <1>2, <1>7 DEF validateActiveHierarchy, Records
<1>9. \A t \in Of("TIPO", db) : catalog[t].active =>
        \E f \in Of("FAMILIA", db) :
          /\ catalog[f].class = catalog[t].scope.class
          /\ catalog[f].code = catalog[t].scope.family /\ catalog[f].active
  BY <1>2, <1>7 DEF validateActiveHierarchy, Records
<1>10. \A i, j \in Of("CLASE", db) : catalog[i].code = catalog[j].code => i = j
  BY <1>2, <1>7 DEF DistinctIn, Identity
<1>11. \A i, j \in Of("FAMILIA", db) :
        catalog[i].class = catalog[j].class /\ catalog[i].code = catalog[j].code => i = j
  BY <1>2, <1>7 DEF DistinctIn, Identity
<1>12. ASSUME NEW f \in Of("FAMILIA", db), db[f].active
      PROVE  db[db[f].class].active
  <2>1. db[f].class \in Of("CLASE", db) /\ db[f].class # None
    BY <1>1, ReferencesLead DEF Of
  <2>2. catalog[f].active /\ catalog[f].class = db[db[f].class].code
    BY <1>5, <1>12, <2>1 DEF Code
  <2>3. PICK c \in Of("CLASE", db) : catalog[c].code = catalog[f].class /\ catalog[c].active
    BY <1>8, <2>2
  <2>4. catalog[db[f].class].code = db[db[f].class].code
    BY <1>4, <2>1
  <2>5. c = db[f].class
    BY <1>10, <2>1, <2>2, <2>3, <2>4
  <2> QED BY <1>4, <2>3, <2>5
<1>13. ASSUME NEW t \in Of("TIPO", db), db[t].active
       PROVE  db[db[t].family].active /\ db[db[db[t].family].class].active
  <2> DEFINE f == db[t].family
  <2>1. f \in Of("FAMILIA", db) /\ f # None
    BY <1>1, ReferencesLead DEF Of
  <2>2. /\ catalog[t].active /\ catalog[t].scope.family = db[f].code
        /\ catalog[t].scope.class = Code(db, db[f].class)
    <3>1. catalog[t].active /\ catalog[t].scope = Scope(db, f, None)
      BY <1>6, <1>13
    <3>2. Code(db, f) = db[f].code
      BY <2>1 DEF Code
    <3> HIDE DEF f
    <3>3. Scope(db, f, None).family = Code(db, f) /\ Scope(db, f, None).class = Code(db, db[f].class)
      BY DEF Scope
    <3> QED BY <3>1, <3>2, <3>3
  <2>3. /\ catalog[f].class = Code(db, db[f].class) /\ catalog[f].code = db[f].code
        /\ catalog[f].active = db[f].active
    BY <1>5, <2>1
  <2>4. PICK g \in Of("FAMILIA", db) :
          /\ catalog[g].class = catalog[t].scope.class
          /\ catalog[g].code = catalog[t].scope.family /\ catalog[g].active
    BY <1>9, <2>2
  <2>5. g = f
    BY <1>11, <2>1, <2>2, <2>3, <2>4
  <2>6. db[f].active
    BY <2>3, <2>4, <2>5
  <2> QED BY <1>12, <2>1, <2>6
<1> QED BY <1>13 DEF HierarchyIsActive

\* A catalog write puts row at i: it meets the constraints of the tables, and
\* what other tables repeat of a row, or its UPDATE leaves out, stays.
Rewrites(i, row) ==
  /\ rows' = [rows EXCEPT ![i] = row] /\ UNCHANGED resources
  /\ row # None => FitsKind(Kind[i], row)
  /\ UniqueKeys(rows', i) /\ ForeignKeys(rows') /\ Validate(Loaded(rows'))
  /\ rows[i] # None /\ row # None =>
       /\ KeepsHeldColumns(i, row)
       /\ Kind[i] = "OPCION" => row.definition = rows[i].definition

\* The one table with rules has a mode.
LEMMA RulesWithMode ==
  ASSUME NEW kind, "rules" \in Columns(kind)
  PROVE  "mode" \in Columns(kind)
BY DEF Columns

\* CanonicalizeCatalogRecordCodes keeps a row of its kind.
LEMMA CanonicalFits ==
  ASSUME NEW i \in Ids, NEW row \in CanonicalVersions(i)
  PROVE  FitsKind(Kind[i], row)
<1>1. PICK v \in Versions[i] : row = CanonicalizeCatalogRecordCodes(v)
  BY DEF CanonicalVersions
<1>2. FitsKind(Kind[i], v)
  BY CatalogAssumption
<1>3. DOMAIN v = Columns(Kind[i]) /\ "active" \in Columns(Kind[i])
  BY <1>2 DEF FitsKind, Columns
<1>4. row = [f \in Columns(Kind[i]) |-> IF f = "upper" THEN TRUE ELSE v[f]]
  BY <1>1, <1>3 DEF CanonicalizeCatalogRecordCodes
<1>5. "upper" \notin RefFields
  BY DEF RefFields
<1>6. /\ \A f \in {"active", "upper"} \cap Columns(Kind[i]) : row[f] \in BOOLEAN
      /\ \A f \in RefFields \cap Columns(Kind[i]) : row[f] = v[f]
  BY <1>2, <1>4, <1>5 DEF FitsKind
<1>7. row = [f \in Columns(Kind[i]) |-> row[f]]
  BY <1>4
<1>8. \A f \in {"code", "mode", "rules"} \cap Columns(Kind[i]) : row[f] = v[f]
  BY <1>4
<1>9. /\ "code" \in Columns(Kind[i]) => row.code = v.code
      /\ "rules" \in Columns(Kind[i]) => row.mode = v.mode /\ row.rules = v.rules
  BY <1>8, RulesWithMode
<1> QED BY <1>2, <1>6, <1>7, <1>9 DEF FitsKind

\* A kind's UPDATE leaves a row of its kind.
LEMMA WrittenFits ==
  ASSUME NEW i \in Ids, NEW row, FitsKind(Kind[i], row), FitsKind(Kind[i], rows[i])
  PROVE  /\ FitsKind(Kind[i], Written(i, row))
         /\ Kind[i] = "OPCION" => Written(i, row).definition = rows[i].definition
<1>1. DOMAIN row = Columns(Kind[i]) /\ "active" \in Columns(Kind[i])
  BY DEF FitsKind, Columns
<1>2. \A f \in Columns(Kind[i]) :
        Written(i, row)[f] = IF f \in WrittenColumns(Kind[i], row) THEN row[f] ELSE rows[i][f]
  BY <1>1 DEF Written
<1>3. Written(i, row) = [f \in Columns(Kind[i]) |-> Written(i, row)[f]]
  BY <1>1 DEF Written
<1>4. \A f \in {"active", "upper"} \cap Columns(Kind[i]) : Written(i, row)[f] \in BOOLEAN
  BY <1>2 DEF FitsKind
<1>5. ASSUME Kind[i] = "OPCION" PROVE Written(i, row).definition = rows[i].definition
  <2>1. "definition" \in Columns(Kind[i]) /\ "definition" \notin WrittenColumns(Kind[i], row)
    BY <1>5 DEF Columns, WrittenColumns
  <2> QED BY <1>2, <2>1
<1>6. \A f \in RefFields \cap Columns(Kind[i]) :
        \/ Written(i, row)[f] \in IdsOf(Referred(f))
        \/ Kind[i] = "APLICABILIDAD" /\ f = "type" /\ Written(i, row)[f] = None
  BY <1>2 DEF FitsKind
<1>7. \A f \in {"code", "mode", "rules"} \cap Columns(Kind[i]) :
        Written(i, row)[f] = row[f] \/ Written(i, row)[f] = rows[i][f]
  BY <1>2
<1>8. /\ "code" \in Columns(Kind[i]) => Written(i, row).code # None
      /\ "rules" \in Columns(Kind[i]) => /\ Written(i, row).mode \in Modes
                                         /\ RulesFit(Written(i, row).rules)
  <2> DEFINE w == Written(i, row)
  <2>1. /\ "code" \in Columns(Kind[i]) => w.code = row.code \/ w.code = rows[i].code
        /\ "rules" \in Columns(Kind[i]) => /\ w.mode = row.mode \/ w.mode = rows[i].mode
                                           /\ w.rules = row.rules \/ w.rules = rows[i].rules
    BY <1>7, RulesWithMode
  <2> HIDE DEF w
  <2>2. /\ "code" \in Columns(Kind[i]) => w.code # None
        /\ "rules" \in Columns(Kind[i]) => w.mode \in Modes /\ RulesFit(w.rules)
    BY <2>1 DEF FitsKind
  <2> QED BY <2>2 DEF w
<1> QED BY <1>3, <1>4, <1>5, <1>6, <1>8 DEF FitsKind

\* A change of activity leaves every other column.
LEMMA ToggledFits ==
  ASSUME NEW i \in Ids, FitsKind(Kind[i], rows[i])
  PROVE  /\ FitsKind(Kind[i], Toggled(i))
         /\ \A f \in Columns(Kind[i]) \ {"active"} : Toggled(i)[f] = rows[i][f]
<1>1. DOMAIN rows[i] = Columns(Kind[i]) /\ "active" \in Columns(Kind[i])
  BY DEF FitsKind, Columns
<1>2. /\ Toggled(i) = [f \in Columns(Kind[i]) |-> Toggled(i)[f]]
      /\ \A f \in Columns(Kind[i]) \ {"active"} : Toggled(i)[f] = rows[i][f]
      /\ Toggled(i).active = ~rows[i].active
  BY <1>1 DEF Toggled
<1>3. "active" \notin RefFields
  BY DEF RefFields
<1> QED BY <1>2, <1>3, RulesWithMode DEF FitsKind

\* The columns that other tables repeat are columns of the kind, and no
\* activity.
LEMMA HeldAreColumns ==
  ASSUME NEW kind, NEW f \in HeldColumns(kind)
  PROVE  f \in Columns(kind) \ {"active"}
BY DEF HeldColumns, Columns

\* CreateV2, UpdateRevision, setActiveRevision and HardDeleteRevision.
LEMMA WriteShape ==
  ASSUME RowsFit(rows), CatalogWrite
  PROVE  \E i \in Ids : \E row : Rewrites(i, row)
<1>1. ASSUME NEW i \in Ids, NEW row, NEW m, Coherent(i, row, m), runV2CoherentTx(i, row)
      PROVE  /\ rows' = [rows EXCEPT ![i] = row] /\ UNCHANGED resources
             /\ UniqueKeys(rows', i) /\ ForeignKeys(rows') /\ Validate(Loaded(rows'))
  BY <1>1 DEF Coherent, runV2CoherentTx
<1>2. ASSUME NEW i \in Ids, CreateV2(i)
      PROVE  \E row : Rewrites(i, row)
  <2>1. PICK row \in CanonicalVersions(i) : MayCreate(i, row) /\ runV2CoherentTx(i, row)
    BY <1>2 DEF CreateV2
  <2>2. rows[i] = None /\ \E m : Coherent(i, row, m)
    BY <2>1 DEF MayCreate
  <2> QED BY <1>1, <2>1, <2>2, CanonicalFits DEF Rewrites
<1>3. ASSUME NEW i \in Ids, UpdateRevision(i)
      PROVE  \E row : Rewrites(i, row)
  <2>1. PICK v \in CanonicalVersions(i) : MayUpdate(i, v) /\ runV2CoherentTx(i, Written(i, v))
    BY <1>3 DEF UpdateRevision
  <2>2. /\ rows[i] # None /\ KeepsHeldColumns(i, Written(i, v))
        /\ \E m : Coherent(i, Written(i, v), m)
    BY <2>1 DEF MayUpdate
  <2>3. FitsKind(Kind[i], rows[i]) /\ FitsKind(Kind[i], v)
    BY <2>1, <2>2, CanonicalFits DEF RowsFit
  <2>4. Rewrites(i, Written(i, v))
    BY <1>1, <2>1, <2>2, <2>3, WrittenFits DEF Rewrites
  <2> QED BY <2>4
<1>4. ASSUME setActiveRevision
      PROVE  \E i \in Ids : \E row : Rewrites(i, row)
  <2>1. PICK i \in Ids : MayToggle(i) /\ runV2CoherentTx(i, Toggled(i))
    BY <1>4 DEF setActiveRevision
  <2>2. rows[i] # None /\ \E m : Coherent(i, Toggled(i), m)
    BY <2>1 DEF MayToggle
  <2>3. FitsKind(Kind[i], rows[i])
    BY <2>2 DEF RowsFit
  <2>4. KeepsHeldColumns(i, Toggled(i))
    BY <2>3, ToggledFits, HeldAreColumns DEF KeepsHeldColumns
  <2>5. Kind[i] = "OPCION" => Toggled(i).definition = rows[i].definition
    BY <2>3, ToggledFits DEF Columns
  <2>6. Rewrites(i, Toggled(i))
    BY <1>1, <2>1, <2>2, <2>3, <2>4, <2>5, ToggledFits DEF Rewrites
  <2> QED BY <2>6
<1>5. ASSUME HardDeleteRevision
      PROVE  \E i \in Ids : \E row : Rewrites(i, row)
  <2>1. PICK i \in Ids : MayDelete(i) /\ runV2CoherentTx(i, None)
    BY <1>5 DEF HardDeleteRevision
  <2>2. \E m : Coherent(i, None, m)
    BY <2>1 DEF MayDelete
  <2>3. Rewrites(i, None)
    BY <1>1, <2>1, <2>2 DEF Rewrites
  <2> QED BY <2>3
<1> QED BY <1>2, <1>3, <1>4, <1>5 DEF CatalogWrite

\* Keys are still unique after a write: the key of the row written is
\* compared with all others.
LEMMA UniqueAfterWrite ==
  ASSUME KeysAreUnique(rows), RowsFit(rows), NEW i \in Ids, NEW row, Rewrites(i, row)
  PROVE  KeysAreUnique(rows')
<1>1. \A j \in Ids : rows'[j] = IF j = i THEN row ELSE rows[j]
  BY DEF Rewrites, RowsFit
<1>2. UniqueKeys(rows', i)
  BY DEF Rewrites
<1>3. SUFFICES ASSUME NEW j \in Ids, rows'[j] # None, NEW k \in Of(Kind[j], rows') \ {j}
               PROVE  \E f \in KeyColumns(Kind[j]) : rows'[j][f] # rows'[k][f]
  BY DEF KeysAreUnique, UniqueKeys
<1>4. k \in Ids /\ Kind[k] = Kind[j] /\ rows'[k] # None /\ k # j
  BY <1>3 DEF Of
<1>5. CASE j = i
  BY <1>2, <1>3, <1>5 DEF UniqueKeys
<1>6. CASE k = i
  <2>1. j \in Of(Kind[i], rows') \ {i}
    BY <1>3, <1>4, <1>6 DEF Of
  <2>2. \E f \in KeyColumns(Kind[i]) : rows'[i][f] # rows'[j][f]
    BY <1>2, <1>4, <1>6, <2>1 DEF UniqueKeys
  <2> QED BY <1>4, <1>6, <2>2
<1>7. CASE j # i /\ k # i
  <2>1. rows'[j] = rows[j] /\ rows'[k] = rows[k]
    BY <1>1, <1>4, <1>7
  <2>2. UniqueKeys(rows, j) /\ k \in Of(Kind[j], rows) \ {j}
    BY <1>3, <1>4, <2>1 DEF KeysAreUnique, Of
  <2> QED BY <1>3, <2>1, <2>2 DEF UniqueKeys
<1> QED BY <1>5, <1>6, <1>7

\* A stored resource keeps its place: what it refers to is not deleted, and
\* the columns it depends on are not changed.
LEMMA WriteKeepsAnchor ==
  ASSUME RowsFit(rows), NEW i \in Ids, NEW row, Rewrites(i, row),
         NEW r \in Stored, resources[r] \in ResourceRow, Anchored(rows, resources[r])
  PROVE  Anchored(rows', resources[r])
<1> DEFINE s == resources[r]
           refs == ResourceReferences(s, rows)
<1>1. \A j \in Ids : rows'[j] = IF j = i THEN row ELSE rows[j]
  BY DEF Rewrites, RowsFit
<1>2. \A j \in refs : rows'[j] # None
  BY DEF Rewrites, ForeignKeys
<1>3. /\ {s.class, s.family, s.type, s.unit} \subseteq refs
      /\ \A d \in DOMAIN s.values :
           d \in refs /\ s.values[d].binding \in refs /\ s.values[d].option \in refs
  BY DEF ResourceReferences, Range
<1>4. /\ s.family \in IdsOf("FAMILIA") /\ s.type \in IdsOf("TIPO")
      /\ \A d \in DOMAIN s.values : /\ s.values[d].binding \in IdsOf("APLICABILIDAD")
                                    /\ s.values[d].option \in IdsOf("OPCION")
  <2>1. s.family \in IdsOf("FAMILIA") /\ s.type \in IdsOf("TIPO") /\ s.values \in Valuations
    BY DEF ResourceRow
  <2> QED BY <2>1 DEF Valuations
<1> HIDE DEF refs
<1>5. ASSUME NEW j \in Ids, j \in refs, rows[j] # None, NEW f \in HeldColumns(Kind[j])
      PROVE  rows'[j][f] = rows[j][f]
  <2>1. CASE j # i
    BY <1>1, <2>1
  <2>2. CASE j = i
    <3>1. Held(i)
      BY <1>5, <2>2 DEF Held, refs
    <3>2. row # None /\ rows'[j] = row
      BY <1>1, <1>2, <1>5, <2>2
    <3> QED BY <1>5, <2>2, <3>1, <3>2 DEF Rewrites, KeepsHeldColumns
  <2> QED BY <2>1, <2>2
<1>6. rows'[s.type].family = rows[s.type].family
  <2>1. "family" \in HeldColumns(Kind[s.type]) /\ s.type \in Ids
    BY <1>4 DEF IdsOf, HeldColumns
  <2> QED BY <1>3, <1>5, <2>1 DEF Anchored
<1>7. rows'[s.family].class = rows[s.family].class
  <2>1. "class" \in HeldColumns(Kind[s.family]) /\ s.family \in Ids
    BY <1>4 DEF IdsOf, HeldColumns
  <2> QED BY <1>3, <1>5, <2>1 DEF Anchored
<1>8. ASSUME NEW d \in DOMAIN s.values
      PROVE  /\ rows'[s.values[d].option].definition = rows[s.values[d].option].definition
             /\ rows'[s.values[d].binding].definition = rows[s.values[d].binding].definition
             /\ rows'[s.values[d].binding].family = rows[s.values[d].binding].family
  <2> DEFINE o == s.values[d].option
             b == s.values[d].binding
  <2>1. /\ o \in Ids /\ Kind[o] = "OPCION" /\ o \in refs /\ rows[o] # None
        /\ b \in Ids /\ Kind[b] = "APLICABILIDAD" /\ b \in refs /\ rows[b] # None
    BY <1>3, <1>4 DEF Anchored, IdsOf
  <2> HIDE DEF o, b
  <2>2. {"definition", "family"} \subseteq HeldColumns(Kind[b])
    BY <2>1 DEF HeldColumns
  <2>3. rows'[b].definition = rows[b].definition /\ rows'[b].family = rows[b].family
    BY <1>5, <2>1, <2>2
  <2>4. rows'[o].definition = rows[o].definition
    <3>1. CASE o = i
      <4>1. rows'[o] = row /\ row # None
        BY <1>1, <1>2, <2>1, <3>1
      <4> QED BY <2>1, <3>1, <4>1 DEF Rewrites
    <3>2. CASE o # i
      BY <1>1, <2>1, <3>2
    <3> QED BY <3>1, <3>2
  <2> QED BY <2>3, <2>4 DEF o, b
<1> HIDE DEF s
<1> QED BY <1>2, <1>3, <1>6, <1>7, <1>8 DEF Anchored, s

\* What the repository writes refers to rows of that moment, which belong
\* together: the characteristic of a value is the one its applicability and
\* its option have, because its code finds no other.
LEMMA PersistedIsAnchored ==
  ASSUME RowsFit(rows), CodesAreUnique(rows), ReferencesExist(rows), NEW intent,
         NEW s \in ActiveScopes(intent), Writable(s, intent.values),
         NEW new, new.class = s.class, new.family = s.family, new.type = s.type,
         new.unit = s.unit, new.values = PersistedValues(s, intent.values)
  PROVE  Anchored(rows, new)
<1> DEFINE values == intent.values
           ids == {d \in Of("CARACTERISTICA", rows) : rows[d].code \in DOMAIN values /\ ~rows[d].upper}
           written(d) == persistAttributeValue(s, rows[d].code, values[rows[d].code])
<1>1. /\ \A j \in {s.class, s.family, s.type, s.unit} : rows[j] # None
      /\ rows[s.type].family = s.family /\ rows[s.family].class = s.class
  BY DEF ActiveScopes, Of
<1>2. DOMAIN new.values = ids /\ \A d \in ids : new.values[d] = CHOOSE v \in written(d) : TRUE
  BY DEF PersistedValues
<1>3. ASSUME NEW d \in ids
      PROVE  LET v == new.values[d] IN
             /\ rows[d] # None
             /\ rows[v.option] # None /\ rows[v.option].definition = d
             /\ rows[v.binding] # None /\ rows[v.binding].definition = d
             /\ rows[v.binding].family = s.family
  <2> DEFINE v == new.values[d]
             e == rows[v.binding].definition
  <2>1. v \in written(d)
    <3>1. written(d) # {}
      BY DEF Writable
    <3> HIDE DEF written
    <3> QED BY <1>2, <3>1
  <2> HIDE DEF v
  <2>2. /\ v.binding \in resolveAttributeTarget(s, rows[d].code) /\ v.option \in Of("OPCION", rows)
        /\ rows[v.option].definition = rows[v.binding].definition
    BY <2>1 DEF persistAttributeValue
  <2>3. /\ v.binding \in Ids /\ Kind[v.binding] = "APLICABILIDAD" /\ rows[v.binding] # None
        /\ rows[v.binding].family = s.family /\ rows[e].code = rows[d].code /\ ~rows[e].upper
    BY <2>2 DEF resolveAttributeTarget, Of
  <2>4. e \in Of("CARACTERISTICA", rows)
    BY <2>3, ReferencesLead
  <2>5. e = d
    <3>1. d \in Of("CARACTERISTICA", rows) /\ ~rows[d].upper
      OBVIOUS
    <3>2. rows[d].upper \in BOOLEAN /\ rows[e].upper \in BOOLEAN
      BY <2>4, <3>1, ReferencesTyped DEF Of
    <3>3. rows[d].upper = rows[e].upper
      BY <2>3, <3>1, <3>2
    <3> HIDE DEF e
    <3> QED BY <2>3, <2>4, <3>1, <3>3 DEF CodesAreUnique
  <2>6. rows[d] # None /\ rows[v.option] # None
    BY <2>2 DEF Of
  <2> QED BY <2>2, <2>3, <2>5, <2>6 DEF v
<1> HIDE DEF ids
<1> QED BY <1>1, <1>2, <1>3 DEF Anchored

\* The place of a resource does not depend on its activity or revision.
LEMMA LifecycleKeepsAnchor ==
  ASSUME NEW db, NEW old \in ResourceRow, Anchored(db, old), NEW new,
         new.class = old.class, new.family = old.family, new.type = old.type,
         new.unit = old.unit, new.values = old.values
  PROVE  Anchored(db, new)
BY DEF Anchored

\* A step of a request leaves the catalog alone, and what it stores has its
\* place in it.
LEMMA PersistKeepsAnchors ==
  ASSUME ResourceInv, AnchorInv, NEW q \in Callers, Persists(q)
  PROVE  \A r \in Resources : resources'[r] # None => Anchored(rows, resources'[r])
<1>1. /\ RowsFit(rows) /\ CodesAreUnique(rows) /\ ReferencesExist(rows)
      /\ \A r \in Resources : resources[r] # None => Anchored(rows, resources[r])
  BY UniqueCodes DEF AnchorInv, NothingDangles, Stored
<1>2. resources \in [Resources -> ResourceRow \cup {None}]
  BY DEF ResourceInv, ResourcesTyped
<1>3. ASSUME NEW r \in Resources, NEW new, Anchored(rows, new),
             resources' = [resources EXCEPT ![r] = new]
      PROVE  \A o \in Resources : resources'[o] # None => Anchored(rows, resources'[o])
  BY <1>1, <1>2, <1>3
<1>4. CASE PersistCreate(q)
  <2> DEFINE New(s) == [class |-> s.class, family |-> s.family, type |-> s.type, unit |-> s.unit,
                        values |-> PersistedValues(s, call[q].intent.values),
                        identity |-> call[q].identity, active |-> TRUE, revision |-> 1]
  <2>1. PICK s \in ActiveScopes(call[q].intent), r \in Resources :
          Writable(s, call[q].intent.values) /\ resources' = [resources EXCEPT ![r] = New(s)]
    BY <1>4 DEF PersistCreate
  <2>2. Anchored(rows, New(s))
    BY <1>1, <2>1, PersistedIsAnchored
  <2> HIDE DEF New
  <2> QED BY <1>3, <2>1, <2>2
<1>5. CASE PersistUpdate(q)
  <2> DEFINE r == call[q].resource
             old == resources[r]
             New(s) == [class |-> s.class, family |-> s.family, type |-> s.type, unit |-> s.unit,
                        values |-> PersistedValues(s, call[q].intent.values),
                        identity |-> old.identity, active |-> old.active,
                        revision |-> old.revision + 1]
  <2>1. PICK s \in ActiveScopes(call[q].intent) :
          Writable(s, call[q].intent.values) /\ resources' = [resources EXCEPT ![r] = New(s)]
    BY <1>5 DEF PersistUpdate
  <2>2. r \in Resources
    BY <1>5 DEF PersistUpdate, ResourceInv, SeenIsPast
  <2>3. Anchored(rows, New(s))
    BY <1>1, <2>1, PersistedIsAnchored
  <2> HIDE DEF New, r
  <2> QED BY <1>3, <2>1, <2>2, <2>3
<1>6. ASSUME NEW active \in BOOLEAN, call[q] # None, call[q].op # "create",
             setLifecycleRevision(q, active)
      PROVE  \A r \in Resources : resources'[r] # None => Anchored(rows, resources'[r])
  <2> DEFINE r == call[q].resource
             new == [resources[r] EXCEPT !.active = active, !.revision = resources[r].revision + 1]
  <2>1. r \in Resources /\ resources[r] \in ResourceRow
    BY <1>6 DEF ResourceInv, SeenIsPast
  <2>2. resources' = resources \/ resources' = [resources EXCEPT ![r] = new]
    BY <1>2, <1>6, <2>1 DEF setLifecycleRevision, ResourceRow
  <2>3. /\ new.class = resources[r].class /\ new.family = resources[r].family
        /\ new.type = resources[r].type /\ new.unit = resources[r].unit
        /\ new.values = resources[r].values
    BY <2>1 DEF ResourceRow
  <2> HIDE DEF new
  <2>4. resources[r] # None
    BY <2>1, ResourceAssumption
  <2>5. Anchored(rows, new)
    BY <1>1, <2>1, <2>3, <2>4, LifecycleKeepsAnchor
  <2> QED BY <1>1, <1>3, <2>1, <2>2, <2>5
<1>7. CASE PersistDeactivate(q)
  BY <1>6, <1>7 DEF PersistDeactivate
<1>8. CASE PersistReactivate(q)
  BY <1>6, <1>8 DEF PersistReactivate
<1>9. CASE GiveUp(q)
  BY <1>1, <1>9 DEF GiveUp
<1> QED BY <1>4, <1>5, <1>7, <1>8, <1>9 DEF Persists

\* The first catalog and the first resources are what the schema allows.
LEMMA InitAnchorInv == Init => AnchorInv
<1> SUFFICES ASSUME Init PROVE AnchorInv
  OBVIOUS
<1>1. RowsFit(FirstRows) /\ ReferencesExist(FirstRows) /\ Validate(Loaded(FirstRows))
  BY CatalogAssumption DEF RowsFit
<1>2. KeysAreUnique(FirstRows)
  BY CatalogAssumption DEF KeysAreUnique
<1>3. HierarchyIsActive(FirstRows)
  BY <1>1, ValidIsActive
<1>4. \A r \in Stored : Anchored(FirstRows, resources[r])
  BY ResourceAssumption DEF Init, Stored
<1>5. rows = FirstRows
  BY DEF Init
<1> QED BY <1>1, <1>2, <1>3, <1>4, <1>5 DEF AnchorInv, NothingDangles

\* A catalog write keeps all references and the place of every resource.
LEMMA WriteKeepsAnchorInv ==
  ASSUME ResourceInv, AnchorInv, CatalogWrite
  PROVE  AnchorInv'
<1>1. RowsFit(rows) /\ KeysAreUnique(rows) /\ NothingDangles
  BY DEF AnchorInv
<1>2. PICK i \in Ids : \E row : Rewrites(i, row)
  BY <1>1, WriteShape
<1>3. PICK row : Rewrites(i, row)
  BY <1>2
<1>4. RowsFit(rows')
  <2>1. rows' = [rows EXCEPT ![i] = row] /\ (row # None => FitsKind(Kind[i], row))
    BY <1>3 DEF Rewrites
  <2>2. \A j \in Ids : rows'[j] = IF j = i THEN row ELSE rows[j]
    BY <1>1, <2>1 DEF RowsFit
  <2>3. rows' = [j \in Ids |-> rows'[j]]
    BY <1>1, <2>1 DEF RowsFit
  <2> QED BY <1>1, <2>1, <2>2, <2>3 DEF RowsFit
<1>5. KeysAreUnique(rows')
  BY <1>1, <1>3, UniqueAfterWrite
<1>6. ReferencesExist(rows') /\ Validate(Loaded(rows')) /\ UNCHANGED resources
  BY <1>3 DEF Rewrites, ForeignKeys, ReferencesExist
<1>7. HierarchyIsActive(rows')
  BY <1>4, <1>6, ValidIsActive
<1>8. \A r \in Stored : Anchored(rows', resources[r])
  <2> SUFFICES ASSUME NEW r \in Stored PROVE Anchored(rows', resources[r])
    OBVIOUS
  <2>1. resources[r] \in ResourceRow
    BY DEF Stored, ResourceInv, ResourcesTyped
  <2> QED BY <1>1, <1>3, <2>1, WriteKeepsAnchor DEF NothingDangles
<1>9. \A r \in Stored' : Anchored(rows', resources'[r])
  BY <1>6, <1>8 DEF Stored
<1>10. NothingDangles'
  BY <1>6, <1>7, <1>9 DEF NothingDangles
<1> QED BY <1>4, <1>5, <1>10 DEF AnchorInv

\* The invariant of references is inductive.
LEMMA NextAnchorInv ==
  ASSUME ResourceInv, AnchorInv, [Next]_resourceVars
  PROVE  AnchorInv'
<1>1. CASE CatalogWrite
  BY <1>1, WriteKeepsAnchorInv
<1>2. ASSUME UNCHANGED rows, \A r \in Resources : resources'[r] # None => Anchored(rows, resources'[r])
      PROVE  AnchorInv'
  BY <1>2 DEF AnchorInv, NothingDangles, Stored
<1>3. ASSUME UNCHANGED <<rows, resources>>
      PROVE  AnchorInv'
  BY <1>3 DEF AnchorInv, NothingDangles, Stored
<1>4. ASSUME NEW q \in Callers, Create(q) \/ Update(q) \/ Deactivate(q) \/ Reactivate(q) \/ Load(q)
      PROVE  AnchorInv'
  <2>1. UNCHANGED <<rows, resources>>
    BY <1>4 DEF Create, Update, Deactivate, Reactivate, Begin, Load
  <2> QED BY <1>3, <2>1
<1>5. ASSUME NEW q \in Callers, Persists(q)
      PROVE  AnchorInv'
  <2>1. UNCHANGED rows
    BY <1>5, PersistShape DEF Ends
  <2> QED BY <1>2, <1>5, <2>1, PersistKeepsAnchors
<1>6. CASE UNCHANGED resourceVars
  BY <1>3, <1>6 DEF resourceVars
<1> QED BY <1>1, <1>4, <1>5, <1>6 DEF Next, Persists

LEMMA AnchorInvHolds == Spec => []AnchorInv
<1>1. ResourceInv /\ AnchorInv /\ [Next]_resourceVars => AnchorInv'
  BY NextAnchorInv
<1> QED BY <1>1, InitAnchorInv, InvHolds, PTL DEF Spec

\* Nothing dangles: whatever is deleted, moved, renamed or deactivated between
\* the validation and the transaction of any number of requests, every
\* reference of the eleven kinds and of a resource leads to a row, a resource's
\* type, family, class and values belong together, and no active type hangs
\* below an inactive family or class.
THEOREM AnchorSafety == Spec => []NothingDangles
<1>1. AnchorInv => NothingDangles
  BY DEF AnchorInv
<1> QED BY <1>1, AnchorInvHolds, PTL

-----------------------------------------------------------------------------
(***************************************************************************)
(* One record per change. A write commits only when the records read after *)
(* it are those of the candidate, but they are compared as a set: a record *)
(* could show other codes and still be found there as that of another row. *)
(* The keys of the tables exclude it. The codes by which a record shows    *)
(* the rows it refers to identify these rows, so of two records that show  *)
(* the same codes, one before the write and one after it, either both lead *)
(* to the row that was written or neither does.                            *)
(***************************************************************************)
\* What the constraints of the schema say of the tables.
Sound(db) == RowsFit(db) /\ ReferencesExist(db) /\ KeysAreUnique(db)

\* Two states of the tables that differ in one row.
OneRowApart(i, a, b) ==
  /\ i \in Ids /\ Sound(a) /\ Sound(b)
  /\ \A j \in Ids : j # i => a[j] = b[j]

\* The codes by which a record shows a family, a type and an option.
FamilyKey(db, p) == <<Code(db, db[p].class), db[p].code>>
TypeKey(db, p) == <<FamilyKey(db, db[p].family), db[p].code>>
OptionKey(db, p) == <<Code(db, db[p].set), Spelled(db, db[p].definition), db[p].code>>

\* A column that refers to a row leads to one of its table; only the type of
\* an applicability may be open.
LEMMA ColumnLeads ==
  ASSUME NEW db, Sound(db), NEW i \in Ids, db[i] # None, NEW f \in RefFields \cap Columns(Kind[i])
  PROVE  \/ db[i][f] \in Of(Referred(f), db)
         \/ Kind[i] = "APLICABILIDAD" /\ f = "type" /\ db[i][f] = None
<1>1. FitsKind(Kind[i], db[i])
  BY DEF Sound, RowsFit
<1>2. DOMAIN db[i] = Columns(Kind[i])
  BY <1>1 DEF FitsKind
<1>3. db[i][f] # None => db[db[i][f]] # None
  BY <1>2 DEF Sound, ReferencesExist, References
<1>4. None \notin Ids
  BY CatalogAssumption
<1> QED BY <1>1, <1>3, <1>4 DEF FitsKind, Of, IdsOf

\* The record of an applicability with another copy of its characteristic.
WithDefinition(record, d) == [record EXCEPT !.definition = d]

\* Where the columns of each kind lead, and the composite keys.
LEMMA ColumnsLead ==
  ASSUME NEW db, Sound(db), NEW i \in Ids, db[i] # None
  PROVE  /\ Kind[i] = "FAMILIA" => db[i].class \in Of("CLASE", db)
         /\ Kind[i] = "TIPO" => db[i].family \in Of("FAMILIA", db)
         /\ Kind[i] = "OPCION" => /\ db[i].set \in Of("CONJUNTO_OPCIONES", db)
                                  /\ db[i].definition \in Of("CARACTERISTICA", db)
         /\ Kind[i] = "RELACION_OPCIONES" =>
              /\ db[i].from \in Of("OPCION", db) /\ db[i].to \in Of("OPCION", db)
              /\ db[db[i].from].set = db[db[i].to].set
         /\ Kind[i] = "POLITICA_UNIDAD" =>
              db[i].family \in Of("FAMILIA", db) /\ db[i].unit \in Of("UNIDAD", db)
         /\ Kind[i] = "PRESENTACION" =>
              db[i].type \in Of("TIPO", db) /\ db[i].definition \in Of("CARACTERISTICA", db)
<1>1. /\ Kind[i] = "FAMILIA" => {"class"} \subseteq RefFields \cap Columns(Kind[i])
      /\ Kind[i] = "TIPO" => {"family"} \subseteq RefFields \cap Columns(Kind[i])
      /\ Kind[i] = "OPCION" => {"set", "definition"} \subseteq RefFields \cap Columns(Kind[i])
      /\ Kind[i] = "RELACION_OPCIONES" => {"from", "to"} \subseteq RefFields \cap Columns(Kind[i])
      /\ Kind[i] = "POLITICA_UNIDAD" => {"family", "unit"} \subseteq RefFields \cap Columns(Kind[i])
      /\ Kind[i] = "PRESENTACION" => {"type", "definition"} \subseteq RefFields \cap Columns(Kind[i])
  BY DEF RefFields, Columns
<1>2. /\ Referred("class") = "CLASE" /\ Referred("family") = "FAMILIA" /\ Referred("type") = "TIPO"
      /\ Referred("definition") = "CARACTERISTICA" /\ Referred("set") = "CONJUNTO_OPCIONES"
      /\ Referred("from") = "OPCION" /\ Referred("to") = "OPCION" /\ Referred("unit") = "UNIDAD"
  BY DEF Referred
<1>3. \A f \in RefFields \cap Columns(Kind[i]) :
        Kind[i] # "APLICABILIDAD" => db[i][f] \in Of(Referred(f), db)
  BY ColumnLeads
<1>4. Kind[i] = "RELACION_OPCIONES" => db[db[i].from].set = db[db[i].to].set
  BY DEF Sound, ReferencesExist, KeysAgree
<1>5. Kind[i] \in {"FAMILIA", "TIPO", "OPCION", "RELACION_OPCIONES", "POLITICA_UNIDAD", "PRESENTACION"}
        => Kind[i] # "APLICABILIDAD"
  OBVIOUS
<1> QED BY <1>1, <1>2, <1>3, <1>4, <1>5

\* The same for an applicability, with the characteristics of its rules.
LEMMA BindingLeads ==
  ASSUME NEW db, Sound(db), NEW i \in Ids, db[i] # None, Kind[i] = "APLICABILIDAD"
  PROVE  /\ db[i].family \in Of("FAMILIA", db) /\ db[i].set \in Of("CONJUNTO_OPCIONES", db)
         /\ db[i].definition \in Of("CARACTERISTICA", db)
         /\ db[i].type # None => /\ db[i].type \in Of("TIPO", db)
                                 /\ db[db[i].type].family = db[i].family
         /\ \A n \in DOMAIN db[i].rules :
              "when" \in DOMAIN db[i].rules[n] /\ db[i].rules[n].when \in Of("CARACTERISTICA", db)
<1>1. {"family", "type", "definition", "set"} \subseteq RefFields \cap Columns(Kind[i])
      /\ "rules" \in Columns(Kind[i])
  BY DEF RefFields, Columns
<1>2. /\ Referred("family") = "FAMILIA" /\ Referred("type") = "TIPO"
      /\ Referred("definition") = "CARACTERISTICA" /\ Referred("set") = "CONJUNTO_OPCIONES"
  BY DEF Referred
<1>3. \A f \in RefFields \cap Columns(Kind[i]) :
        db[i][f] \in Of(Referred(f), db) \/ (f = "type" /\ db[i][f] = None)
  BY ColumnLeads
<1>4. db[i].type # None => db[db[i].type].family = db[i].family
  BY DEF Sound, ReferencesExist, KeysAgree
<1>5. FitsKind(Kind[i], db[i])
  BY DEF Sound, RowsFit
<1>6. ASSUME NEW n \in DOMAIN db[i].rules
      PROVE  "when" \in DOMAIN db[i].rules[n] /\ db[i].rules[n].when \in Of("CARACTERISTICA", db)
  <2>1. "when" \in DOMAIN db[i].rules[n] /\ db[i].rules[n].when \in IdsOf("CARACTERISTICA")
    BY <1>1, <1>5 DEF FitsKind, RulesFit
  <2>2. DOMAIN db[i] = Columns(Kind[i])
    BY <1>5 DEF FitsKind
  <2>3. db[i].rules[n] \in Range(db[i].rules)
    BY DEF Range
  <2>4. db[i].rules[n].when # None
    BY <2>1, CatalogAssumption DEF IdsOf
  <2>5. db[i].rules[n].when \in References(db[i])
    BY <1>1, <2>2, <2>3, <2>4 DEF References
  <2>6. db[db[i].rules[n].when] # None
    BY <2>5 DEF Sound, ReferencesExist
  <2> QED BY <2>1, <2>6 DEF Of, IdsOf
<1>7. /\ db[i].family \in Of("FAMILIA", db) /\ db[i].set \in Of("CONJUNTO_OPCIONES", db)
      /\ db[i].definition \in Of("CARACTERISTICA", db)
      /\ db[i].type # None => db[i].type \in Of("TIPO", db)
  BY <1>1, <1>2, <1>3
<1> QED BY <1>4, <1>6, <1>7

-----------------------------------------------------------------------------
\* The codes a record shows identify the row.
LEMMA CodeFinds ==
  ASSUME NEW db, Sound(db), NEW kind \in {"CLASE", "CONJUNTO_OPCIONES", "UNIDAD"},
         NEW p \in Of(kind, db), NEW q \in Of(kind, db), db[p].code = db[q].code
  PROVE  p = q
<1>1. KeyColumns(kind) = {"code"}
  BY DEF KeyColumns
<1>2. UniqueKeys(db, p) /\ Kind[p] = kind /\ db[p] # None
  BY DEF Sound, KeysAreUnique, Of
<1> QED BY <1>1, <1>2 DEF UniqueKeys

\* The spelling of a characteristic.
LEMMA SpellingFinds ==
  ASSUME NEW db, Sound(db), NEW p \in Of("CARACTERISTICA", db), NEW q \in Of("CARACTERISTICA", db),
         Spelled(db, p) = Spelled(db, q)
  PROVE  p = q
<1>1. db[p].code = db[q].code /\ db[p].upper = db[q].upper
  BY DEF Spelled
<1>2. CodesAreUnique(db)
  BY UniqueCodes DEF Sound
<1> QED BY <1>1, <1>2 DEF CodesAreUnique

\* A key of two columns.
LEMMA FamilyKeyFinds ==
  ASSUME NEW db, Sound(db), NEW p \in Of("FAMILIA", db), NEW q \in Of("FAMILIA", db),
         FamilyKey(db, p) = FamilyKey(db, q)
  PROVE  p = q
<1>1. KeyColumns("FAMILIA") = {"class", "code"}
  BY DEF KeyColumns
<1>2. /\ UniqueKeys(db, p) /\ Kind[p] = "FAMILIA" /\ db[p] # None /\ p \in Ids
      /\ Kind[q] = "FAMILIA" /\ db[q] # None /\ q \in Ids
  BY DEF Sound, KeysAreUnique, Of
<1>3. db[p].class \in Of("CLASE", db) /\ db[q].class \in Of("CLASE", db)
  BY <1>2, ColumnsLead
<1>4. db[p].class # None /\ db[q].class # None
  BY <1>3, CatalogAssumption DEF Of
<1>5. db[db[p].class].code = db[db[q].class].code /\ db[p].code = db[q].code
  BY <1>4 DEF FamilyKey, Code
<1>6. db[p].class = db[q].class
  BY <1>3, <1>5, CodeFinds
<1> QED BY <1>1, <1>2, <1>5, <1>6 DEF UniqueKeys

\* The key of a type goes through that of its family.
LEMMA TypeKeyFinds ==
  ASSUME NEW db, Sound(db), NEW p \in Of("TIPO", db), NEW q \in Of("TIPO", db),
         TypeKey(db, p) = TypeKey(db, q)
  PROVE  p = q
<1>1. KeyColumns("TIPO") = {"family", "code"}
  BY DEF KeyColumns
<1>2. /\ UniqueKeys(db, p) /\ Kind[p] = "TIPO" /\ db[p] # None /\ p \in Ids
      /\ Kind[q] = "TIPO" /\ db[q] # None /\ q \in Ids
  BY DEF Sound, KeysAreUnique, Of
<1>3. db[p].family \in Of("FAMILIA", db) /\ db[q].family \in Of("FAMILIA", db)
  BY <1>2, ColumnsLead
<1>4. FamilyKey(db, db[p].family) = FamilyKey(db, db[q].family) /\ db[p].code = db[q].code
  BY DEF TypeKey
<1>5. db[p].family = db[q].family
  BY <1>3, <1>4, FamilyKeyFinds
<1> QED BY <1>1, <1>2, <1>4, <1>5 DEF UniqueKeys

\* The key of an option goes through its set and its characteristic.
LEMMA OptionKeyFinds ==
  ASSUME NEW db, Sound(db), NEW p \in Of("OPCION", db), NEW q \in Of("OPCION", db),
         OptionKey(db, p) = OptionKey(db, q)
  PROVE  p = q
<1>1. KeyColumns("OPCION") = {"set", "definition", "code"}
  BY DEF KeyColumns
<1>2. /\ UniqueKeys(db, p) /\ Kind[p] = "OPCION" /\ db[p] # None /\ p \in Ids
      /\ Kind[q] = "OPCION" /\ db[q] # None /\ q \in Ids
  BY DEF Sound, KeysAreUnique, Of
<1>3. /\ db[p].set \in Of("CONJUNTO_OPCIONES", db) /\ db[q].set \in Of("CONJUNTO_OPCIONES", db)
      /\ db[p].definition \in Of("CARACTERISTICA", db) /\ db[q].definition \in Of("CARACTERISTICA", db)
  BY <1>2, ColumnsLead
<1>4. db[p].set # None /\ db[q].set # None
  BY <1>3, CatalogAssumption DEF Of
<1>5. /\ db[db[p].set].code = db[db[q].set].code /\ db[p].code = db[q].code
      /\ Spelled(db, db[p].definition) = Spelled(db, db[q].definition)
  BY <1>4 DEF OptionKey, Code
<1>6. db[p].set = db[q].set /\ db[p].definition = db[q].definition
  BY <1>3, <1>5, CodeFinds, SpellingFinds
<1> QED BY <1>1, <1>2, <1>5, <1>6 DEF UniqueKeys

-----------------------------------------------------------------------------
\* If a row after the write shows the codes that some row showed before it, it
\* is the same row with the same codes.
LEMMA CodeStays ==
  ASSUME NEW i, NEW a, NEW b, OneRowApart(i, a, b),
         NEW kind \in {"CLASE", "CONJUNTO_OPCIONES", "UNIDAD"},
         NEW p \in Of(kind, b), NEW q \in Of(kind, a), b[p].code = a[q].code
  PROVE  a[p].code = b[p].code
<1>1. CASE p # i
  BY <1>1 DEF OneRowApart, Of
<1>2. CASE p = i /\ q = i
  BY <1>2
<1>3. CASE p = i /\ q # i
  <2>1. q \in Of(kind, b) /\ b[q] = a[q]
    BY <1>3 DEF OneRowApart, Of
  <2> QED BY <1>3, <2>1, CodeFinds DEF OneRowApart
<1> QED BY <1>1, <1>2, <1>3

\* The same for the spelling of a characteristic.
LEMMA SpellingStays ==
  ASSUME NEW i, NEW a, NEW b, OneRowApart(i, a, b),
         NEW p \in Of("CARACTERISTICA", b), NEW q \in Of("CARACTERISTICA", a),
         Spelled(b, p) = Spelled(a, q)
  PROVE  Spelled(a, p) = Spelled(b, p)
<1>1. CASE p # i
  BY <1>1 DEF OneRowApart, Of, Spelled
<1>2. CASE p = i /\ q = i
  BY <1>2
<1>3. CASE p = i /\ q # i
  <2>1. q \in Of("CARACTERISTICA", b) /\ b[q] = a[q]
    BY <1>3 DEF OneRowApart, Of
  <2>2. Spelled(b, p) = Spelled(b, q)
    BY <2>1 DEF Spelled
  <2> QED BY <1>3, <2>1, <2>2, SpellingFinds DEF OneRowApart
<1> QED BY <1>1, <1>2, <1>3

\* A family shows the code of its class, which a write of a family leaves.
LEMMA FamilyKeyKept ==
  ASSUME NEW i, NEW a, NEW b, OneRowApart(i, a, b), NEW p \in Of("FAMILIA", b), p # i,
         Kind[i] # "CLASE"
  PROVE  p \in Of("FAMILIA", a) /\ FamilyKey(a, p) = FamilyKey(b, p)
<1>1. p \in Ids /\ a[p] = b[p] /\ Kind[p] = "FAMILIA" /\ b[p] # None
  BY DEF OneRowApart, Of
<1>2. b[p].class \in Of("CLASE", b)
  BY <1>1, ColumnsLead DEF OneRowApart
<1>3. a[b[p].class] = b[b[p].class]
  BY <1>2 DEF OneRowApart, Of
<1> QED BY <1>1, <1>3 DEF FamilyKey, Code, Of

\* The codes of a family.
LEMMA FamilyKeyStays ==
  ASSUME NEW i, NEW a, NEW b, OneRowApart(i, a, b),
         NEW p \in Of("FAMILIA", b), NEW q \in Of("FAMILIA", a), FamilyKey(b, p) = FamilyKey(a, q)
  PROVE  FamilyKey(a, p) = FamilyKey(b, p)
<1>1. /\ p \in Ids /\ Kind[p] = "FAMILIA" /\ b[p] # None
      /\ q \in Ids /\ Kind[q] = "FAMILIA" /\ a[q] # None
  BY DEF Of
<1>2. CASE p = i /\ q = i
  BY <1>2
<1>3. CASE p = i /\ q # i
  <2>1. q \in Of("FAMILIA", b)
    BY <1>1, <1>3 DEF OneRowApart, Of
  <2>2. FamilyKey(a, q) = FamilyKey(b, q)
    BY <1>1, <1>3, <2>1, FamilyKeyKept
  <2> QED BY <1>3, <2>1, <2>2, FamilyKeyFinds DEF OneRowApart
<1>4. CASE p # i
  <2>1. a[p] = b[p]
    BY <1>1, <1>4 DEF OneRowApart
  <2>2. b[p].class \in Of("CLASE", b) /\ a[q].class \in Of("CLASE", a)
    BY <1>1, ColumnsLead DEF OneRowApart
  <2>3. b[p].class # None /\ a[q].class # None
    BY <2>2, CatalogAssumption DEF Of
  <2>4. b[b[p].class].code = a[a[q].class].code
    BY <2>3 DEF FamilyKey, Code
  <2>5. a[b[p].class].code = b[b[p].class].code
    BY <2>2, <2>4, CodeStays
  <2> QED BY <2>1, <2>3, <2>5 DEF FamilyKey, Code
<1> QED BY <1>2, <1>3, <1>4

\* The codes of a type.
LEMMA TypeKeyStays ==
  ASSUME NEW i, NEW a, NEW b, OneRowApart(i, a, b),
         NEW p \in Of("TIPO", b), NEW q \in Of("TIPO", a), TypeKey(b, p) = TypeKey(a, q)
  PROVE  TypeKey(a, p) = TypeKey(b, p)
<1>1. /\ p \in Ids /\ Kind[p] = "TIPO" /\ b[p] # None
      /\ q \in Ids /\ Kind[q] = "TIPO" /\ a[q] # None
  BY DEF Of
<1>2. CASE p = i /\ q = i
  BY <1>2
<1>3. CASE p = i /\ q # i
  <2>1. q \in Of("TIPO", b) /\ a[q] = b[q]
    BY <1>1, <1>3 DEF OneRowApart, Of
  <2>2. b[q].family \in Of("FAMILIA", b)
    BY <1>1, <2>1, ColumnsLead DEF OneRowApart
  <2>3. Kind[i] # "CLASE" /\ b[q].family # i
    BY <1>1, <1>3, <2>2 DEF Of
  <2>4. FamilyKey(a, b[q].family) = FamilyKey(b, b[q].family)
    BY <2>2, <2>3, FamilyKeyKept
  <2>5. TypeKey(b, p) = TypeKey(b, q)
    BY <2>1, <2>4 DEF TypeKey
  <2> QED BY <1>3, <2>1, <2>5, TypeKeyFinds DEF OneRowApart
<1>4. CASE p # i
  <2>1. a[p] = b[p]
    BY <1>1, <1>4 DEF OneRowApart
  <2>2. b[p].family \in Of("FAMILIA", b) /\ a[q].family \in Of("FAMILIA", a)
    BY <1>1, ColumnsLead DEF OneRowApart
  <2>3. FamilyKey(b, b[p].family) = FamilyKey(a, a[q].family)
    BY DEF TypeKey
  <2>4. FamilyKey(a, b[p].family) = FamilyKey(b, b[p].family)
    BY <2>2, <2>3, FamilyKeyStays
  <2> QED BY <2>1, <2>4 DEF TypeKey
<1> QED BY <1>2, <1>3, <1>4

\* The codes of an option.
LEMMA OptionKeyStays ==
  ASSUME NEW i, NEW a, NEW b, OneRowApart(i, a, b),
         NEW p \in Of("OPCION", b), NEW q \in Of("OPCION", a), OptionKey(b, p) = OptionKey(a, q)
  PROVE  OptionKey(a, p) = OptionKey(b, p)
<1>1. /\ p \in Ids /\ Kind[p] = "OPCION" /\ b[p] # None
      /\ q \in Ids /\ Kind[q] = "OPCION" /\ a[q] # None
  BY DEF Of
<1>2. CASE p = i /\ q = i
  BY <1>2
<1>3. CASE p = i /\ q # i
  <2>1. q \in Of("OPCION", b) /\ a[q] = b[q]
    BY <1>1, <1>3 DEF OneRowApart, Of
  <2>2. b[q].set \in Of("CONJUNTO_OPCIONES", b) /\ b[q].definition \in Of("CARACTERISTICA", b)
    BY <1>1, <2>1, ColumnsLead DEF OneRowApart
  <2>3. a[b[q].set] = b[b[q].set] /\ a[b[q].definition] = b[b[q].definition]
    BY <1>1, <1>3, <2>2 DEF Of, OneRowApart
  <2>4. OptionKey(b, p) = OptionKey(b, q)
    BY <2>1, <2>3 DEF OptionKey, Code, Spelled
  <2> QED BY <1>3, <2>1, <2>4, OptionKeyFinds DEF OneRowApart
<1>4. CASE p # i
  <2>1. a[p] = b[p]
    BY <1>1, <1>4 DEF OneRowApart
  <2>2. /\ b[p].set \in Of("CONJUNTO_OPCIONES", b) /\ a[q].set \in Of("CONJUNTO_OPCIONES", a)
        /\ b[p].definition \in Of("CARACTERISTICA", b) /\ a[q].definition \in Of("CARACTERISTICA", a)
    BY <1>1, ColumnsLead DEF OneRowApart
  <2>3. b[p].set # None /\ a[q].set # None
    BY <2>2, CatalogAssumption DEF Of
  <2>4. /\ b[b[p].set].code = a[a[q].set].code
        /\ Spelled(b, b[p].definition) = Spelled(a, a[q].definition)
    BY <2>3 DEF OptionKey, Code
  <2>5. a[b[p].set].code = b[b[p].set].code
    BY <2>2, <2>4, CodeStays
  <2>6. Spelled(a, b[p].definition) = Spelled(b, b[p].definition)
    BY <2>2, <2>4, SpellingStays
  <2> QED BY <2>1, <2>3, <2>5, <2>6 DEF OptionKey, Code
<1> QED BY <1>2, <1>3, <1>4

-----------------------------------------------------------------------------
\* Records of a kind without joins are their rows.
LEMMA PlainRecordStays ==
  ASSUME NEW i, NEW a, NEW b, OneRowApart(i, a, b), NEW j \in Ids, j # i,
         Kind[j] \in {"CLASE", "CARACTERISTICA", "CONJUNTO_OPCIONES", "UNIDAD"}
  PROVE  Record(a, j) = Record(b, j)
<1>1. a[j] = b[j]
  BY DEF OneRowApart
<1>2. /\ ClassRecord(a, j) = ClassRecord(b, j) /\ DefinitionRecord(a, j) = DefinitionRecord(b, j)
      /\ OptionSetRecord(a, j) = OptionSetRecord(b, j) /\ UnitRecord(a, j) = UnitRecord(b, j)
  BY <1>1 DEF ClassRecord, DefinitionRecord, OptionSetRecord, UnitRecord
<1> QED BY <1>2 DEF Record

\* The scope of a record within a family or a type shows the codes of the
\* family.
LEMMA ScopeStays ==
  ASSUME NEW i, NEW a, NEW b, OneRowApart(i, a, b),
         NEW f \in Of("FAMILIA", b), NEW g \in Of("FAMILIA", a), NEW t, NEW u,
         Scope(b, f, t) = Scope(a, g, u), Code(a, t) = Code(b, t)
  PROVE  Scope(a, f, t) = Scope(b, f, t)
<1>1. f # None /\ g # None
  BY CatalogAssumption DEF Of
<1>2. FamilyKey(b, f) = FamilyKey(a, g)
  BY <1>1 DEF Scope, FamilyKey, Code
<1>3. FamilyKey(a, f) = FamilyKey(b, f)
  BY <1>2, FamilyKeyStays
<1>4. Code(a, a[f].class) = Code(b, b[f].class) /\ Code(a, f) = Code(b, f)
  BY <1>1, <1>3 DEF FamilyKey, Code
<1> QED BY <1>4 DEF Scope

\* A record with joins that shows the codes of some record before the write
\* shows its own.
LEMMA JoinedRecordStays ==
  ASSUME NEW i, NEW a, NEW b, OneRowApart(i, a, b), NEW j \in Ids, NEW k \in Ids,
         j # i, b[j] # None, a[k] # None, Kind[k] = Kind[j], Record(b, j) = Record(a, k),
         Kind[j] \in {"FAMILIA", "TIPO", "OPCION", "RELACION_OPCIONES", "POLITICA_UNIDAD",
                      "PRESENTACION"}
  PROVE  Record(a, j) = Record(b, j)
<1>1. a[j] = b[j] /\ Sound(a) /\ Sound(b)
  BY DEF OneRowApart
<1>2. None \notin Ids
  BY CatalogAssumption
<1>3. CASE Kind[j] = "FAMILIA"
  <2>1. Record(b, j) = FamilyRecord(b, j) /\ Record(a, k) = FamilyRecord(a, k)
        /\ Record(a, j) = FamilyRecord(a, j)
    BY <1>3 DEF Record
  <2>2. FamilyRecord(b, j) = FamilyRecord(a, k)
    BY <2>1
  <2>3. j \in Of("FAMILIA", b) /\ k \in Of("FAMILIA", a)
    BY <1>3 DEF Of
  <2>4. FamilyKey(b, j) = FamilyKey(a, k)
    BY <2>2 DEF FamilyRecord, FamilyKey
  <2>5. FamilyKey(a, j) = FamilyKey(b, j)
    BY <2>3, <2>4, FamilyKeyStays
  <2> QED BY <1>1, <2>1, <2>5 DEF FamilyRecord, FamilyKey
<1>4. CASE Kind[j] = "TIPO"
  <2>1. Record(b, j) = TypeRecord(b, j) /\ Record(a, k) = TypeRecord(a, k)
        /\ Record(a, j) = TypeRecord(a, j)
    BY <1>4 DEF Record
  <2>2. TypeRecord(b, j) = TypeRecord(a, k)
    BY <2>1
  <2>3. b[j].family \in Of("FAMILIA", b) /\ a[k].family \in Of("FAMILIA", a)
    BY <1>1, <1>4, ColumnsLead
  <2>4. Scope(b, b[j].family, None) = Scope(a, a[k].family, None) /\ Code(a, None) = Code(b, None)
    BY <2>2 DEF TypeRecord, Code
  <2>5. Scope(a, b[j].family, None) = Scope(b, b[j].family, None)
    BY <2>3, <2>4, ScopeStays
  <2> QED BY <1>1, <2>1, <2>5 DEF TypeRecord
<1>5. CASE Kind[j] = "OPCION"
  <2>1. Record(b, j) = OptionRecord(b, j) /\ Record(a, k) = OptionRecord(a, k)
        /\ Record(a, j) = OptionRecord(a, j)
    BY <1>5 DEF Record
  <2>2. OptionRecord(b, j) = OptionRecord(a, k)
    BY <2>1
  <2>3. j \in Of("OPCION", b) /\ k \in Of("OPCION", a)
    BY <1>5 DEF Of
  <2>4. OptionKey(b, j) = OptionKey(a, k)
    BY <2>2 DEF OptionRecord, OptionKey
  <2>5. OptionKey(a, j) = OptionKey(b, j)
    BY <2>3, <2>4, OptionKeyStays
  <2> QED BY <1>1, <2>1, <2>5 DEF OptionRecord, OptionKey
<1>6. CASE Kind[j] = "RELACION_OPCIONES"
  <2>1. Record(b, j) = OptionRelationRecord(b, j) /\ Record(a, k) = OptionRelationRecord(a, k)
        /\ Record(a, j) = OptionRelationRecord(a, j)
    BY <1>6 DEF Record
  <2>2. OptionRelationRecord(b, j) = OptionRelationRecord(a, k)
    BY <2>1
  <2>3. /\ b[j].from \in Of("OPCION", b) /\ b[j].to \in Of("OPCION", b)
        /\ a[k].from \in Of("OPCION", a) /\ a[k].to \in Of("OPCION", a)
        /\ b[b[j].from].set = b[b[j].to].set /\ a[a[k].from].set = a[a[k].to].set
    BY <1>1, <1>6, ColumnsLead
  <2>4. OptionKey(b, b[j].from) = OptionKey(a, a[k].from)
    BY <2>2 DEF OptionRelationRecord, OptionKey
  <2>5. OptionKey(b, b[j].to) = OptionKey(a, a[k].to)
    BY <2>3, <2>2 DEF OptionRelationRecord, OptionKey
  <2>6. /\ OptionKey(a, b[j].from) = OptionKey(b, b[j].from)
        /\ OptionKey(a, b[j].to) = OptionKey(b, b[j].to)
    BY <2>3, <2>4, <2>5, OptionKeyStays
  <2> QED BY <1>1, <2>1, <2>6 DEF OptionRelationRecord, OptionKey
<1>7. CASE Kind[j] = "POLITICA_UNIDAD"
  <2>1. Record(b, j) = UnitPolicyRecord(b, j) /\ Record(a, k) = UnitPolicyRecord(a, k)
        /\ Record(a, j) = UnitPolicyRecord(a, j)
    BY <1>7 DEF Record
  <2>2. UnitPolicyRecord(b, j) = UnitPolicyRecord(a, k)
    BY <2>1
  <2>3. /\ b[j].family \in Of("FAMILIA", b) /\ a[k].family \in Of("FAMILIA", a)
        /\ b[j].unit \in Of("UNIDAD", b) /\ a[k].unit \in Of("UNIDAD", a)
    BY <1>1, <1>7, ColumnsLead
  <2>4. /\ Scope(b, b[j].family, None) = Scope(a, a[k].family, None) /\ Code(a, None) = Code(b, None)
        /\ Code(b, b[j].unit) = Code(a, a[k].unit)
    BY <2>2 DEF UnitPolicyRecord, Code
  <2>5. Scope(a, b[j].family, None) = Scope(b, b[j].family, None)
    BY <2>3, <2>4, ScopeStays
  <2>6. b[j].unit # None /\ a[k].unit # None
    BY <1>2, <2>3 DEF Of
  <2>7. a[b[j].unit].code = b[b[j].unit].code
    BY <2>3, <2>4, <2>6, CodeStays DEF Code
  <2> QED BY <1>1, <2>1, <2>5, <2>7 DEF UnitPolicyRecord, Code
<1>8. CASE Kind[j] = "PRESENTACION"
  <2>1. Record(b, j) = PresentationFieldRecord(b, j) /\ Record(a, k) = PresentationFieldRecord(a, k)
        /\ Record(a, j) = PresentationFieldRecord(a, j)
    BY <1>8 DEF Record
  <2>2. PresentationFieldRecord(b, j) = PresentationFieldRecord(a, k)
    BY <2>1
  <2>3. /\ b[j].type \in Of("TIPO", b) /\ a[k].type \in Of("TIPO", a)
        /\ b[j].definition \in Of("CARACTERISTICA", b) /\ a[k].definition \in Of("CARACTERISTICA", a)
    BY <1>1, <1>8, ColumnsLead
  <2>4. /\ Scope(b, b[b[j].type].family, b[j].type) = Scope(a, a[a[k].type].family, a[k].type)
        /\ Spelled(b, b[j].definition) = Spelled(a, a[k].definition)
    BY <2>2 DEF PresentationFieldRecord
  <2>5. b[b[j].type].family \in Of("FAMILIA", b) /\ a[a[k].type].family \in Of("FAMILIA", a)
    BY <1>1, <2>3, ColumnsLead DEF Of
  <2>6. /\ b[j].type # None /\ a[k].type # None
        /\ b[b[j].type].family # None /\ a[a[k].type].family # None
    BY <1>2, <2>3, <2>5 DEF Of
  <2>7. TypeKey(b, b[j].type) = TypeKey(a, a[k].type)
    BY <2>4, <2>6 DEF Scope, TypeKey, FamilyKey, Code
  <2>8. TypeKey(a, b[j].type) = TypeKey(b, b[j].type)
    BY <2>3, <2>7, TypeKeyStays
  <2>9. Spelled(a, b[j].definition) = Spelled(b, b[j].definition)
    BY <2>3, <2>4, SpellingStays
  <2>10. Scope(a, a[b[j].type].family, b[j].type) = Scope(b, b[b[j].type].family, b[j].type)
    <3>1. FamilyKey(a, a[b[j].type].family) = FamilyKey(b, b[b[j].type].family)
          /\ a[b[j].type].code = b[b[j].type].code
      BY <2>8 DEF TypeKey
    <3>2. a[j].type \in Of("TIPO", a) /\ a[a[j].type].family \in Of("FAMILIA", a)
      BY <1>1, <1>8, ColumnsLead DEF Of
    <3>3. a[b[j].type].family # None
      BY <1>1, <1>2, <3>2 DEF Of
    <3> QED BY <2>6, <3>1, <3>3 DEF Scope, FamilyKey, Code
  <2> QED BY <1>1, <2>1, <2>9, <2>10 DEF PresentationFieldRecord
<1> QED BY <1>3, <1>4, <1>5, <1>6, <1>7, <1>8

\* The code of the type of an applicability, within its family.
LEMMA BindingTypeStays ==
  ASSUME NEW i, NEW a, NEW b, OneRowApart(i, a, b), NEW j \in Ids, NEW k \in Ids,
         b[j] # None, a[k] # None, Kind[j] = "APLICABILIDAD", Kind[k] = "APLICABILIDAD",
         Scope(b, b[j].family, b[j].type) = Scope(a, a[k].family, a[k].type)
  PROVE  Code(a, b[j].type) = Code(b, b[j].type)
<1> DEFINE t == b[j].type
           u == a[k].type
<1>1. CASE t = None
  BY <1>1 DEF Code
<1>2. CASE t # None
  <2>1. /\ Sound(a) /\ Sound(b) /\ t \in Of("TIPO", b) /\ b[t].family = b[j].family
        /\ b[j].family \in Of("FAMILIA", b) /\ a[k].family \in Of("FAMILIA", a)
        /\ u # None => u \in Of("TIPO", a) /\ a[u].family = a[k].family
    BY <1>2, BindingLeads DEF OneRowApart
  <2>2. b[j].family # None /\ a[k].family # None
    BY <2>1, CatalogAssumption DEF Of
  <2>3. t \in Ids /\ Kind[t] = "TIPO" /\ b[t] # None
    BY <2>1 DEF Of
  <2>4. b[t].code # None
    <3>1. "code" \in Columns(Kind[t])
      BY <2>3 DEF Columns
    <3> QED BY <2>1, <2>3, <3>1 DEF Sound, RowsFit, FitsKind
  <2>5. Code(b, t) = Code(a, u) /\ FamilyKey(b, b[j].family) = FamilyKey(a, a[k].family)
    BY <2>2 DEF Scope, FamilyKey, Code
  <2>6. u # None
    BY <1>2, <2>4, <2>5 DEF Code
  <2>7. TypeKey(b, t) = TypeKey(a, u)
    <3>1. b[t].code = a[u].code
      BY <1>2, <2>5, <2>6 DEF Code
    <3> QED BY <2>1, <2>5, <2>6, <3>1 DEF TypeKey
  <2>8. TypeKey(a, t) = TypeKey(b, t)
    BY <2>1, <2>6, <2>7, TypeKeyStays
  <2> QED BY <1>2, <2>8 DEF TypeKey, Code
<1> QED BY <1>1, <1>2

\* The rules of an applicability show the characteristics they depend on.
Rules(db, i) ==
  [n \in DOMAIN db[i].rules |-> [db[i].rules[n] EXCEPT !.when = Spelled(db, @)]]

\* They stay as long as some record before the write had the same.
LEMMA RulesStay ==
  ASSUME NEW i, NEW a, NEW b, OneRowApart(i, a, b), NEW j \in Ids, NEW k \in Ids,
         j # i, b[j] # None, a[k] # None, Kind[j] = "APLICABILIDAD", Kind[k] = "APLICABILIDAD",
         Rules(b, j) = Rules(a, k)
  PROVE  Rules(a, j) = Rules(b, j)
<1>1. a[j] = b[j] /\ Sound(a) /\ Sound(b)
  BY DEF OneRowApart
<1>2. /\ \A n \in DOMAIN b[j].rules : /\ "when" \in DOMAIN b[j].rules[n]
                                      /\ b[j].rules[n].when \in Of("CARACTERISTICA", b)
      /\ \A n \in DOMAIN a[k].rules : /\ "when" \in DOMAIN a[k].rules[n]
                                      /\ a[k].rules[n].when \in Of("CARACTERISTICA", a)
  BY <1>1, BindingLeads
<1>3. DOMAIN b[j].rules = DOMAIN a[k].rules
  <2>1. DOMAIN Rules(b, j) = DOMAIN b[j].rules /\ DOMAIN Rules(a, k) = DOMAIN a[k].rules
    BY DEF Rules
  <2> QED BY <2>1
<1>4. ASSUME NEW n \in DOMAIN b[j].rules
      PROVE  Spelled(a, b[j].rules[n].when) = Spelled(b, b[j].rules[n].when)
  <2>1. Rules(b, j)[n].when = Spelled(b, b[j].rules[n].when)
    BY <1>2 DEF Rules
  <2>2. Rules(a, k)[n].when = Spelled(a, a[k].rules[n].when)
    BY <1>2, <1>3 DEF Rules
  <2>3. Spelled(b, b[j].rules[n].when) = Spelled(a, a[k].rules[n].when)
    BY <2>1, <2>2
  <2> QED BY <1>2, <1>3, <2>3, SpellingStays
<1> QED BY <1>1, <1>4 DEF Rules

\* The record of an applicability: but for the copy of its characteristic it
\* shows what it showed, if some record before the write showed the same.
LEMMA BindingRecordStays ==
  ASSUME NEW i, NEW a, NEW b, OneRowApart(i, a, b), NEW j \in Ids, NEW k \in Ids,
         j # i, b[j] # None, a[k] # None, Kind[j] = "APLICABILIDAD", Kind[k] = "APLICABILIDAD",
         NEW d, Record(b, j) = WithDefinition(Record(a, k), d)
  PROVE  /\ [Record(b, j) EXCEPT !.definition = Record(a, j).definition] = Record(a, j)
         /\ b[j].definition # i => Record(a, j) = Record(b, j)
<1>1. a[j] = b[j] /\ Sound(a) /\ Sound(b)
  BY DEF OneRowApart
<1>2. /\ Record(b, j) = AttributeBindingRecord(b, j) /\ Record(a, k) = AttributeBindingRecord(a, k)
      /\ Record(a, j) = AttributeBindingRecord(a, j)
  BY DEF Record
<1>3. AttributeBindingRecord(b, j) = [AttributeBindingRecord(a, k) EXCEPT !.definition = d]
  BY <1>2 DEF WithDefinition
<1>4. ASSUME NEW db, NEW x
      PROVE  AttributeBindingRecord(db, x) =
               [scope |-> Scope(db, db[x].family, db[x].type),
                definition |-> DefinitionRecord(db, db[x].definition),
                set |-> Code(db, db[x].set), mode |-> db[x].mode,
                participates |-> db[x].participates, rules |-> Rules(db, x),
                active |-> db[x].active]
  BY DEF AttributeBindingRecord, Rules
<1>5. /\ Scope(b, b[j].family, b[j].type) = Scope(a, a[k].family, a[k].type)
      /\ Code(b, b[j].set) = Code(a, a[k].set)
      /\ Rules(b, j) = Rules(a, k)
  BY <1>3, <1>4
<1>6. /\ b[j].family \in Of("FAMILIA", b) /\ b[j].set \in Of("CONJUNTO_OPCIONES", b)
      /\ b[j].definition \in Of("CARACTERISTICA", b)
      /\ a[k].family \in Of("FAMILIA", a) /\ a[k].set \in Of("CONJUNTO_OPCIONES", a)
  BY <1>1, BindingLeads
<1>7. Scope(a, a[j].family, a[j].type) = Scope(b, b[j].family, b[j].type)
  BY <1>1, <1>5, <1>6, BindingTypeStays, ScopeStays
<1>8. Code(a, a[j].set) = Code(b, b[j].set)
  <2>1. b[j].set # None /\ a[k].set # None
    BY <1>6, CatalogAssumption DEF Of
  <2>2. b[b[j].set].code = a[a[k].set].code
    BY <1>5, <2>1 DEF Code
  <2>3. a[b[j].set].code = b[b[j].set].code
    BY <1>6, <2>2, CodeStays
  <2> QED BY <1>1, <2>1, <2>3 DEF Code
<1>9. Rules(a, j) = Rules(b, j)
  BY <1>5, RulesStay
<1>10. [AttributeBindingRecord(b, j) EXCEPT !.definition = AttributeBindingRecord(a, j).definition]
         = AttributeBindingRecord(a, j)
  <2> DEFINE s == Scope(b, b[j].family, b[j].type)
             c == Code(b, b[j].set)
             r == Rules(b, j)
             x == DefinitionRecord(a, a[j].definition)
             y == DefinitionRecord(b, b[j].definition)
             with(z) == [scope |-> s, definition |-> z, set |-> c, mode |-> b[j].mode,
                         participates |-> b[j].participates, rules |-> r, active |-> b[j].active]
  <2>1. AttributeBindingRecord(b, j) = with(y)
    BY <1>4
  <2>2. AttributeBindingRecord(a, j) = with(x)
    BY <1>1, <1>4, <1>7, <1>8, <1>9
  <2> HIDE DEF s, c, r, x, y
  <2>3. [with(y) EXCEPT !.definition = x] = with(x) /\ with(x).definition = x
    OBVIOUS
  <2> HIDE DEF with
  <2> QED BY <2>1, <2>2, <2>3
<1>11. ASSUME b[j].definition # i
       PROVE  AttributeBindingRecord(a, j) = AttributeBindingRecord(b, j)
  <2>1. a[b[j].definition] = b[b[j].definition]
    BY <1>6, <1>11 DEF OneRowApart, Of
  <2>2. DefinitionRecord(a, a[j].definition) = DefinitionRecord(b, b[j].definition)
    BY <1>1, <2>1 DEF DefinitionRecord
  <2> QED BY <1>1, <1>4, <1>7, <1>8, <1>9, <2>2
<1> QED BY <1>2, <1>10, <1>11

\* A record does not depend on other rows of its own kind.
LEMMA OwnKindStays ==
  ASSUME NEW i, NEW a, NEW b, OneRowApart(i, a, b), NEW j \in Ids,
         j # i, b[j] # None, Kind[j] = Kind[i]
  PROVE  Record(a, j) = Record(b, j)
<1>1. a[j] = b[j] /\ Sound(a) /\ Sound(b)
  BY DEF OneRowApart
<1>2. \A kind : kind # Kind[j] => \A p \in Of(kind, b) : a[p] = b[p] /\ p \in Of(kind, a)
  BY DEF OneRowApart, Of
<1>3. Kind[j] \in Kinds
  BY CatalogAssumption
<1>4. ASSUME Kind[j] # "FAMILIA", Kind[j] # "CLASE", NEW f \in Of("FAMILIA", b)
      PROVE  FamilyKey(a, f) = FamilyKey(b, f)
  BY <1>4, FamilyKeyKept DEF Of
<1>5. ASSUME Kind[j] \in {"TIPO", "POLITICA_UNIDAD", "APLICABILIDAD", "PRESENTACION"},
             NEW f \in Of("FAMILIA", b), NEW t, Code(a, t) = Code(b, t)
      PROVE  Scope(a, f, t) = Scope(b, f, t)
  <2>1. f # None /\ FamilyKey(a, f) = FamilyKey(b, f)
    BY <1>4, <1>5, CatalogAssumption DEF Of
  <2>2. Code(a, a[f].class) = Code(b, b[f].class) /\ Code(a, f) = Code(b, f)
    BY <2>1 DEF FamilyKey, Code
  <2> QED BY <1>5, <2>2 DEF Scope
<1>6. CASE Kind[j] \in {"CLASE", "CARACTERISTICA", "CONJUNTO_OPCIONES", "UNIDAD"}
  BY <1>6, PlainRecordStays
<1>7. CASE Kind[j] = "FAMILIA"
  <2>1. Record(b, j) = FamilyRecord(b, j) /\ Record(a, j) = FamilyRecord(a, j)
    BY <1>7 DEF Record
  <2>2. b[j].class \in Of("CLASE", b)
    BY <1>1, <1>7, ColumnsLead
  <2>3. a[b[j].class] = b[b[j].class]
    BY <1>2, <1>7, <2>2
  <2> QED BY <1>1, <2>1, <2>3 DEF FamilyRecord, Code
<1>8. CASE Kind[j] = "TIPO"
  <2>1. Record(b, j) = TypeRecord(b, j) /\ Record(a, j) = TypeRecord(a, j)
    BY <1>8 DEF Record
  <2>2. b[j].family \in Of("FAMILIA", b) /\ Code(a, None) = Code(b, None)
    BY <1>1, <1>8, ColumnsLead DEF Code
  <2>3. Scope(a, b[j].family, None) = Scope(b, b[j].family, None)
    BY <1>5, <1>8, <2>2
  <2> QED BY <1>1, <2>1, <2>3 DEF TypeRecord
<1>9. ASSUME NEW o \in Of("OPCION", b), a[o] = b[o], Kind[j] \in {"OPCION", "RELACION_OPCIONES"}
      PROVE  /\ Code(a, a[o].set) = Code(b, b[o].set)
             /\ Spelled(a, a[o].definition) = Spelled(b, b[o].definition)
  <2>1. b[o].set \in Of("CONJUNTO_OPCIONES", b) /\ b[o].definition \in Of("CARACTERISTICA", b)
    BY <1>1, ColumnsLead DEF Of
  <2>2. a[b[o].set] = b[b[o].set] /\ a[b[o].definition] = b[b[o].definition]
    BY <1>2, <1>9, <2>1
  <2> QED BY <1>9, <2>2 DEF Code, Spelled
<1>10. CASE Kind[j] = "OPCION"
  <2>1. Record(b, j) = OptionRecord(b, j) /\ Record(a, j) = OptionRecord(a, j)
    BY <1>10 DEF Record
  <2>2. j \in Of("OPCION", b)
    BY <1>10 DEF Of
  <2> QED BY <1>1, <1>9, <1>10, <2>1, <2>2 DEF OptionRecord
<1>11. CASE Kind[j] = "RELACION_OPCIONES"
  <2>1. Record(b, j) = OptionRelationRecord(b, j) /\ Record(a, j) = OptionRelationRecord(a, j)
    BY <1>11 DEF Record
  <2>2. b[j].from \in Of("OPCION", b) /\ b[j].to \in Of("OPCION", b)
    BY <1>1, <1>11, ColumnsLead
  <2>3. a[b[j].from] = b[b[j].from] /\ a[b[j].to] = b[b[j].to]
    BY <1>2, <1>11, <2>2
  <2>4. /\ Code(a, a[b[j].from].set) = Code(b, b[b[j].from].set)
        /\ Spelled(a, a[b[j].from].definition) = Spelled(b, b[b[j].from].definition)
        /\ Spelled(a, a[b[j].to].definition) = Spelled(b, b[b[j].to].definition)
    BY <1>9, <1>11, <2>2, <2>3
  <2> QED BY <1>1, <2>1, <2>3, <2>4 DEF OptionRelationRecord
<1>12. CASE Kind[j] = "POLITICA_UNIDAD"
  <2>1. Record(b, j) = UnitPolicyRecord(b, j) /\ Record(a, j) = UnitPolicyRecord(a, j)
    BY <1>12 DEF Record
  <2>2. /\ b[j].family \in Of("FAMILIA", b) /\ b[j].unit \in Of("UNIDAD", b)
        /\ Code(a, None) = Code(b, None)
    BY <1>1, <1>12, ColumnsLead DEF Code
  <2>3. Scope(a, b[j].family, None) = Scope(b, b[j].family, None) /\ a[b[j].unit] = b[b[j].unit]
    BY <1>2, <1>5, <1>12, <2>2
  <2> QED BY <1>1, <2>1, <2>3 DEF UnitPolicyRecord, Code
<1>13. CASE Kind[j] = "PRESENTACION"
  <2>1. Record(b, j) = PresentationFieldRecord(b, j) /\ Record(a, j) = PresentationFieldRecord(a, j)
    BY <1>13 DEF Record
  <2>2. b[j].type \in Of("TIPO", b) /\ b[j].definition \in Of("CARACTERISTICA", b)
    BY <1>1, <1>13, ColumnsLead
  <2>3. a[b[j].type] = b[b[j].type] /\ a[b[j].definition] = b[b[j].definition]
    BY <1>2, <1>13, <2>2
  <2>4. b[b[j].type].family \in Of("FAMILIA", b) /\ Code(a, b[j].type) = Code(b, b[j].type)
    BY <1>1, <2>2, <2>3, ColumnsLead DEF Of, Code
  <2>5. Scope(a, b[b[j].type].family, b[j].type) = Scope(b, b[b[j].type].family, b[j].type)
    BY <1>5, <1>13, <2>4
  <2> QED BY <1>1, <2>1, <2>3, <2>5 DEF PresentationFieldRecord, Spelled
<1>14. CASE Kind[j] = "APLICABILIDAD"
  <2>1. Record(b, j) = AttributeBindingRecord(b, j) /\ Record(a, j) = AttributeBindingRecord(a, j)
    BY <1>14 DEF Record
  <2>2. /\ b[j].family \in Of("FAMILIA", b) /\ b[j].set \in Of("CONJUNTO_OPCIONES", b)
        /\ b[j].definition \in Of("CARACTERISTICA", b)
        /\ b[j].type # None => b[j].type \in Of("TIPO", b)
        /\ \A n \in DOMAIN b[j].rules : b[j].rules[n].when \in Of("CARACTERISTICA", b)
    BY <1>1, <1>14, BindingLeads
  <2>3. /\ a[b[j].set] = b[b[j].set] /\ a[b[j].definition] = b[b[j].definition]
        /\ b[j].type # None => a[b[j].type] = b[b[j].type]
        /\ \A n \in DOMAIN b[j].rules : a[b[j].rules[n].when] = b[b[j].rules[n].when]
    BY <1>2, <1>14, <2>2
  <2>4. Scope(a, b[j].family, b[j].type) = Scope(b, b[j].family, b[j].type)
    <3>1. Code(a, b[j].type) = Code(b, b[j].type)
      BY <2>3 DEF Code
    <3> QED BY <1>5, <1>14, <2>2, <3>1
  <2>5. /\ Code(a, a[j].set) = Code(b, b[j].set)
        /\ DefinitionRecord(a, a[j].definition) = DefinitionRecord(b, b[j].definition)
    BY <1>1, <2>3 DEF Code, DefinitionRecord
  <2>6. [n \in DOMAIN a[j].rules |-> [a[j].rules[n] EXCEPT !.when = Spelled(a, @)]] =
          [n \in DOMAIN b[j].rules |-> [b[j].rules[n] EXCEPT !.when = Spelled(b, @)]]
    <3>1. \A n \in DOMAIN b[j].rules : Spelled(a, b[j].rules[n].when) = Spelled(b, b[j].rules[n].when)
      BY <2>3 DEF Spelled
    <3> QED BY <1>1, <3>1
  <2> QED BY <1>1, <2>1, <2>4, <2>5, <2>6 DEF AttributeBindingRecord
<1> QED BY <1>3, <1>6, <1>7, <1>8, <1>10, <1>11, <1>12, <1>13, <1>14 DEF Kinds

-----------------------------------------------------------------------------
\* The first of some numbered rows is one of them.
LEMMA MinBelongs ==
  ASSUME NEW S, S \subseteq Nat, S # {}
  PROVE  Min(S) \in S
<1> DEFINE R == OpToRel(<, Nat)
<1>1. IsWellFoundedOn(R, Nat)
  BY NatLessThanWellFounded
<1>2. \A x, y \in Nat : <<x, y>> \in R <=> x < y
  BY DEF OpToRel
<1> HIDE DEF R
<1>3. PICK x \in S : \A y \in S : <<y, x>> \notin R
  BY <1>1, WFMin
<1>4. ASSUME NEW y \in S
      PROVE  x <= y
  <2>1. x \in Nat /\ y \in Nat
    BY <1>3
  <2>2. ~(y < x)
    BY <1>2, <1>3, <2>1
  <2> QED BY <2>1, <2>2
<1> QED BY <1>3, <1>4 DEF Min

Operations == {"insert", "update", "activate", "deactivate", "delete"}

IsCatalog(catalog) ==
  catalog = [x \in DOMAIN catalog |-> catalog[x]] /\ DOMAIN catalog \subseteq Ids

\* The candidate of a mutation has, of another kind than its own, the entries
\* of the catalog it is made of: mutateSlice takes one of its own kind.
LEMMA SliceKeepsOthers ==
  ASSUME NEW catalog, IsCatalog(catalog),
         NEW m, m.op \in Operations, m.kind = Kind[m.id], Applicable(catalog, m),
         NEW k \in DOMAIN mutateSlice(catalog, m), Kind[k] # m.kind
  PROVE  k \in DOMAIN catalog /\ mutateSlice(catalog, m)[k] = catalog[k]
<1>0. catalog = [x \in DOMAIN catalog |-> catalog[x]] /\ DOMAIN catalog \subseteq Ids
  BY DEF IsCatalog
<1> DEFINE first == Min(Matching(catalog, m.kind, m.identity))
<1>1. ASSUME m.op # "insert"
      PROVE  first \in DOMAIN catalog /\ Kind[first] = m.kind
  <2>1. Matching(catalog, m.kind, m.identity) # {}
    BY <1>1 DEF Applicable
  <2>2. Matching(catalog, m.kind, m.identity) \subseteq Entries(catalog, m.kind)
    BY DEF Matching
  <2>3. Entries(catalog, m.kind) \subseteq Nat
    BY <1>0, CatalogAssumption DEF Entries
  <2>4. first \in Entries(catalog, m.kind)
    BY <2>1, <2>2, <2>3, MinBelongs
  <2> QED BY <2>4 DEF Entries
<1> HIDE DEF first
<1>2. CASE m.op = "insert"
  <2>1. mutateSlice(catalog, m) = [x \in DOMAIN catalog \cup {m.id} |->
                                     IF x = m.id THEN FromRecord(catalog, m) ELSE catalog[x]]
    BY <1>2 DEF mutateSlice
  <2> QED BY <1>0, <2>1
<1>3. CASE m.op = "update"
  <2>1. mutateSlice(catalog, m) = [catalog EXCEPT ![first] = FromRecord(catalog, m)]
    BY <1>3 DEF mutateSlice, first
  <2> QED BY <1>0, <1>1, <1>3, <2>1
<1>4. CASE m.op = "activate"
  <2>1. mutateSlice(catalog, m) = [catalog EXCEPT ![first].active = TRUE]
    BY <1>4 DEF mutateSlice, first
  <2> QED BY <1>0, <1>1, <1>4, <2>1
<1>5. CASE m.op = "deactivate"
  <2>1. mutateSlice(catalog, m) = [catalog EXCEPT ![first].active = FALSE]
    BY <1>5 DEF mutateSlice, first
  <2> QED BY <1>0, <1>1, <1>5, <2>1
<1>6. CASE m.op = "delete"
  <2>1. mutateSlice(catalog, m) = [x \in DOMAIN catalog \ {first} |-> catalog[x]]
    BY <1>6 DEF mutateSlice, first, Restrict
  <2> QED BY <1>0, <2>1
<1> QED BY <1>2, <1>3, <1>4, <1>5, <1>6 DEF Operations

\* An entry that is kept, but for the copy of the characteristic in an
\* applicability.
CarriedOver(k, old, new) ==
  new = old \/ (Kind[k] = "APLICABILIDAD" /\ \E d : new = WithDefinition(old, d))

\* The candidate has the entries of another kind as they were.
LEMMA CandidateKeepsOthers ==
  ASSUME NEW catalog, IsCatalog(catalog),
         NEW m, m.op \in Operations, m.kind = Kind[m.id], Applicable(catalog, m),
         NEW k \in DOMAIN ApplyCatalogMutation(catalog, m), Kind[k] # m.kind
  PROVE  k \in DOMAIN catalog /\ CarriedOver(k, catalog[k], ApplyCatalogMutation(catalog, m)[k])
<1> DEFINE next == mutateSlice(catalog, m)
           d == next[Min(Matching(catalog, m.kind, m.identity))]
<1>1. ApplyCatalogMutation(catalog, m) = next \/ ApplyCatalogMutation(catalog, m) = Embed(next, m.identity, d)
  BY DEF ApplyCatalogMutation
<1>2. CASE ApplyCatalogMutation(catalog, m) = next
  BY <1>2, SliceKeepsOthers DEF CarriedOver
<1>3. CASE ApplyCatalogMutation(catalog, m) = Embed(next, m.identity, d)
  <2> HIDE DEF d
  <2>1. k \in DOMAIN next
    BY <1>3 DEF Embed
  <2>2. k \in DOMAIN catalog /\ next[k] = catalog[k]
    BY <2>1, SliceKeepsOthers
  <2> HIDE DEF next
  <2>3. \/ ApplyCatalogMutation(catalog, m)[k] = next[k]
        \/ /\ Kind[k] = "APLICABILIDAD"
           /\ ApplyCatalogMutation(catalog, m)[k] = WithDefinition(next[k], d)
    BY <1>3, <2>1 DEF Embed, WithDefinition
  <2> QED BY <2>2, <2>3 DEF CarriedOver
<1> QED BY <1>1, <1>2, <1>3

\* The mutation a catalog write applies to the row at i.
CoherentWrite(i, row, m) ==
  /\ rows' = [rows EXCEPT ![i] = row] /\ Coherent(i, row, m)
  /\ m.op \in Operations /\ m.kind = Kind[i] /\ m.id = i

\* What each of the four writes passes to Mutation.
LEMMA MutationFields ==
  ASSUME NEW op \in Operations, NEW i, NEW identity, NEW record
  PROVE  LET m == Mutation(op, i, identity, record) IN
         m.op \in Operations /\ m.kind = Kind[i] /\ m.id = i
BY DEF Mutation

\* Every catalog write commits one row and what the candidate of one mutation
\* says.
LEMMA WriteIsCoherent ==
  ASSUME CatalogWrite
  PROVE  \E i \in Ids : \E row, m : CoherentWrite(i, row, m)
<1>1. ASSUME NEW i \in Ids, CreateV2(i)
      PROVE  \E row, m : CoherentWrite(i, row, m)
  <2>1. PICK row \in CanonicalVersions(i) : MayCreate(i, row) /\ runV2CoherentTx(i, row)
    BY <1>1 DEF CreateV2
  <2> DEFINE record == Record([rows EXCEPT ![i] = row], i)
             m == Mutation("insert", i, Identity(Kind[i], record), record)
  <2>2. Coherent(i, row, m)
    BY <2>1 DEF MayCreate
  <2>3. m.op \in Operations /\ m.kind = Kind[i] /\ m.id = i
    BY MutationFields DEF Operations
  <2>4. rows' = [rows EXCEPT ![i] = row]
    BY <2>1 DEF runV2CoherentTx
  <2> HIDE DEF m
  <2>5. CoherentWrite(i, row, m)
    BY <2>2, <2>3, <2>4 DEF CoherentWrite
  <2> QED BY <2>5
<1>2. ASSUME NEW i \in Ids, UpdateRevision(i)
      PROVE  \E row, m : CoherentWrite(i, row, m)
  <2>1. PICK v \in CanonicalVersions(i) : MayUpdate(i, v) /\ runV2CoherentTx(i, Written(i, v))
    BY <1>2 DEF UpdateRevision
  <2> DEFINE m == Mutation("update", i, Identity(Kind[i], Record(rows, i)),
                           Record([rows EXCEPT ![i] = v], i))
  <2>2. Coherent(i, Written(i, v), m)
    BY <2>1 DEF MayUpdate
  <2>3. m.op \in Operations /\ m.kind = Kind[i] /\ m.id = i
    BY MutationFields DEF Operations
  <2>4. rows' = [rows EXCEPT ![i] = Written(i, v)]
    BY <2>1 DEF runV2CoherentTx
  <2> HIDE DEF m
  <2>5. CoherentWrite(i, Written(i, v), m)
    BY <2>2, <2>3, <2>4 DEF CoherentWrite
  <2> QED BY <2>5
<1>3. ASSUME setActiveRevision
      PROVE  \E i \in Ids : \E row, m : CoherentWrite(i, row, m)
  <2>1. PICK i \in Ids : MayToggle(i) /\ runV2CoherentTx(i, Toggled(i))
    BY <1>3 DEF setActiveRevision
  <2> DEFINE op == IF rows[i].active THEN "deactivate" ELSE "activate"
             m == Mutation(op, i, Identity(Kind[i], Record(rows, i)), Record(rows, i))
  <2>2. Coherent(i, Toggled(i), m)
    BY <2>1 DEF MayToggle
  <2>3. op \in Operations
    BY DEF Operations
  <2> HIDE DEF op
  <2>4. m.op \in Operations /\ m.kind = Kind[i] /\ m.id = i
    BY <2>3, MutationFields
  <2>5. rows' = [rows EXCEPT ![i] = Toggled(i)]
    BY <2>1 DEF runV2CoherentTx
  <2> HIDE DEF m
  <2>6. CoherentWrite(i, Toggled(i), m)
    BY <2>2, <2>4, <2>5 DEF CoherentWrite
  <2> QED BY <2>6
<1>4. ASSUME HardDeleteRevision
      PROVE  \E i \in Ids : \E row, m : CoherentWrite(i, row, m)
  <2>1. PICK i \in Ids : MayDelete(i) /\ runV2CoherentTx(i, None)
    BY <1>4 DEF HardDeleteRevision
  <2> DEFINE m == Mutation("delete", i, Identity(Kind[i], Record(rows, i)), Record(rows, i))
  <2>2. Coherent(i, None, m)
    BY <2>1 DEF MayDelete
  <2>3. m.op \in Operations /\ m.kind = Kind[i] /\ m.id = i
    BY MutationFields DEF Operations
  <2>4. rows' = [rows EXCEPT ![i] = None]
    BY <2>1 DEF runV2CoherentTx
  <2> HIDE DEF m
  <2>5. CoherentWrite(i, None, m)
    BY <2>2, <2>3, <2>4 DEF CoherentWrite
  <2> QED BY <2>5
<1> QED BY <1>1, <1>2, <1>3, <1>4 DEF CatalogWrite

\* A write of one row changes what is read of no other, but the copy of the
\* characteristic it changes.
LEMMA OthersStay ==
  ASSUME ResourceInv, AnchorInv, AnchorInv', NEW i \in Ids, NEW row, NEW m, CoherentWrite(i, row, m),
         NEW j \in Ids, j # i, rows[j] # None
  PROVE  \/ Record(rows', j) = Record(rows, j)
         \/ /\ Kind[j] = "APLICABILIDAD" /\ rows[j].definition = i
            /\ [Record(rows', j) EXCEPT !.definition = Record(rows, j).definition] = Record(rows, j)
<1> DEFINE candidate == ApplyCatalogMutation(Loaded(rows), m)
<1>1. rows' = [rows EXCEPT ![i] = row] /\ rows = [x \in Ids |-> rows[x]]
  BY DEF CoherentWrite, AnchorInv, RowsFit
<1>2. OneRowApart(i, rows, rows')
  <2>1. Sound(rows)
    BY DEF Sound, AnchorInv, NothingDangles
  <2>2. Sound(rows')
    BY DEF Sound, AnchorInv, NothingDangles
  <2>3. \A x \in Ids : x # i => rows[x] = rows'[x]
    BY <1>1
  <2> QED BY <2>1, <2>2, <2>3 DEF OneRowApart
<1>3. rows'[j] = rows[j] /\ rows'[j] # None
  BY <1>2 DEF OneRowApart
<1>4. CASE Kind[j] = Kind[i]
  BY <1>2, <1>3, <1>4, OwnKindStays
<1>5. CASE Kind[j] \in {"CLASE", "CARACTERISTICA", "CONJUNTO_OPCIONES", "UNIDAD"}
  BY <1>2, <1>3, <1>5, PlainRecordStays
<1>6. ASSUME Kind[j] # Kind[i]
      PROVE  \E k \in Ids : /\ Kind[k] = Kind[j] /\ rows[k] # None
                           /\ \/ Record(rows', j) = Record(rows, k)
                              \/ /\ Kind[k] = "APLICABILIDAD"
                                 /\ \E d : Record(rows', j) = WithDefinition(Record(rows, k), d)
  <2>1. Content(Loaded(rows')) = Content(candidate) /\ Applicable(Loaded(rows), m)
    BY <1>1 DEF CoherentWrite, Coherent, EquivalentResourceCatalogs
  <2>2. m.op \in Operations /\ m.kind = Kind[m.id] /\ m.kind = Kind[i]
    BY DEF CoherentWrite
  <2>3. /\ IsCatalog(Loaded(rows)) /\ DOMAIN Loaded(rows) \subseteq Ids
        /\ \A x \in DOMAIN Loaded(rows) : rows[x] # None /\ Loaded(rows)[x] = Record(rows, x)
    BY DEF Loaded, IsCatalog
  <2>4. j \in DOMAIN Loaded(rows') /\ Loaded(rows')[j] = Record(rows', j)
    BY <1>3 DEF Loaded
  <2>5. <<Kind[j], Record(rows', j)>> \in Content(candidate)
    BY <2>1, <2>4 DEF Content
  <2> HIDE DEF candidate
  <2>6. PICK k \in DOMAIN candidate : Kind[k] = Kind[j] /\ candidate[k] = Record(rows', j)
    BY <2>5 DEF Content
  <2>7. Kind[k] # m.kind
    BY <1>6, <2>2, <2>6
  <2>8. k \in DOMAIN Loaded(rows) /\ CarriedOver(k, Loaded(rows)[k], candidate[k])
    <3>1. k \in DOMAIN ApplyCatalogMutation(Loaded(rows), m)
      BY <2>6 DEF candidate
    <3>2. /\ k \in DOMAIN Loaded(rows)
          /\ CarriedOver(k, Loaded(rows)[k], ApplyCatalogMutation(Loaded(rows), m)[k])
      BY <2>1, <2>2, <2>3, <2>7, <3>1, CandidateKeepsOthers
    <3> QED BY <3>2 DEF candidate
  <2>9. k \in Ids /\ rows[k] # None /\ Loaded(rows)[k] = Record(rows, k)
    BY <2>3, <2>8
  <2> QED BY <2>6, <2>8, <2>9 DEF CarriedOver
<1>7. CASE /\ Kind[j] # Kind[i]
           /\ Kind[j] \in {"FAMILIA", "TIPO", "OPCION", "RELACION_OPCIONES", "POLITICA_UNIDAD",
                           "PRESENTACION"}
  <2>1. PICK k \in Ids : Kind[k] = Kind[j] /\ rows[k] # None /\ Record(rows', j) = Record(rows, k)
    BY <1>6, <1>7
  <2> QED BY <1>2, <1>3, <1>7, <2>1, JoinedRecordStays
<1>8. CASE Kind[j] # Kind[i] /\ Kind[j] = "APLICABILIDAD"
  <2>1. PICK k \in Ids : /\ Kind[k] = "APLICABILIDAD" /\ rows[k] # None
                         /\ \/ Record(rows', j) = Record(rows, k)
                            \/ \E d : Record(rows', j) = WithDefinition(Record(rows, k), d)
    BY <1>6, <1>8
  <2>2. Record(rows, k) = WithDefinition(Record(rows, k), Record(rows, k).definition)
    <3>1. Record(rows, k) = AttributeBindingRecord(rows, k)
      BY <2>1 DEF Record
    <3>2. AttributeBindingRecord(rows, k) =
            [AttributeBindingRecord(rows, k) EXCEPT !.definition = AttributeBindingRecord(rows, k).definition]
      BY DEF AttributeBindingRecord
    <3> QED BY <3>1, <3>2 DEF WithDefinition
  <2>3. PICK d : Record(rows', j) = WithDefinition(Record(rows, k), d)
    BY <2>1, <2>2
  <2>4. /\ [Record(rows', j) EXCEPT !.definition = Record(rows, j).definition] = Record(rows, j)
        /\ rows'[j].definition # i => Record(rows, j) = Record(rows', j)
    BY <1>2, <1>3, <1>8, <2>1, <2>3, BindingRecordStays
  <2> QED BY <1>3, <1>8, <2>4
<1>9. Kind[j] \in Kinds
  BY CatalogAssumption
<1> QED BY <1>4, <1>5, <1>7, <1>8, <1>9 DEF Kinds

\* A step changes what is read of one record.
LEMMA StepChangesOneRecord ==
  ASSUME ResourceInv, AnchorInv, AnchorInv', [Next]_resourceVars
  PROVE  \A i, j \in Ids :
           i # j /\ rows'[i] # rows[i] /\ rows[j] # None =>
             \/ Record(rows', j) = Record(rows, j)
             \/ /\ Kind[j] = "APLICABILIDAD" /\ rows[j].definition = i
                /\ [Record(rows', j) EXCEPT !.definition = Record(rows, j).definition] = Record(rows, j)
<1> SUFFICES ASSUME NEW i \in Ids, NEW j \in Ids, i # j, rows'[i] # rows[i], rows[j] # None
             PROVE  \/ Record(rows', j) = Record(rows, j)
                    \/ /\ Kind[j] = "APLICABILIDAD" /\ rows[j].definition = i
                       /\ [Record(rows', j) EXCEPT !.definition = Record(rows, j).definition]
                             = Record(rows, j)
  OBVIOUS
<1>1. CatalogWrite
  <2>1. rows' # rows
    OBVIOUS
  <2>2. ASSUME NEW q \in Callers, Create(q) \/ Update(q) \/ Deactivate(q) \/ Reactivate(q) \/ Load(q)
        PROVE  FALSE
    BY <2>1, <2>2 DEF Create, Update, Deactivate, Reactivate, Begin, Load
  <2>3. ASSUME NEW q \in Callers, Persists(q)
        PROVE  FALSE
    BY <2>1, <2>3, PersistShape DEF Ends
  <2> QED BY <2>1, <2>2, <2>3 DEF Next, Persists, resourceVars
<1>2. PICK x \in Ids : \E row, m : CoherentWrite(x, row, m)
  BY <1>1, WriteIsCoherent
<1>3. PICK row, m : CoherentWrite(x, row, m)
  BY <1>2
<1>4. x = i
  BY <1>3 DEF CoherentWrite, AnchorInv, RowsFit
<1> QED BY <1>3, <1>4, OthersStay

\* One record per change: whatever row of the eleven kinds a write inserts,
\* changes, activates or deletes, a client reads every other record as before
\* it, except an applicability of the characteristic written, which differs in
\* its copy of it (runV2CoherentTx).
THEOREM OneRecordSafety == Spec => OneRecordPerChange
<1>1. ASSUME ResourceInv, AnchorInv, AnchorInv', [Next]_resourceVars
      PROVE  [\A i, j \in Ids :
                 /\ i # j /\ rows'[i] # rows[i] /\ rows[j] # None
                 => LET old == Record(rows, j)  new == Record(rows', j) IN
                    \/ new = old
                    \/ /\ Kind[j] = "APLICABILIDAD" /\ rows[j].definition = i
                       /\ [new EXCEPT !.definition = old.definition] = old]_<<rows, resources>>
  BY <1>1, StepChangesOneRecord
<1> QED BY <1>1, InvHolds, AnchorInvHolds, PTL DEF Spec, OneRecordPerChange

-----------------------------------------------------------------------------
(***************************************************************************)
(* What is accepted can be read. The service checks an intent by codes,    *)
(* the repository writes its values by ids and reads them back with        *)
(* another evaluation of the rules. They agree because the keys of the     *)
(* tables make codes and ids the same, if no code has two spellings.       *)
(***************************************************************************)
\* What a creation or an update of an intent stores.
Stores(intent, scope, s) ==
  /\ scope \in ActiveScopes(intent) /\ Writable(scope, intent.values)
  /\ s.class = scope.class /\ s.family = scope.family /\ s.type = scope.type /\ s.unit = scope.unit
  /\ s.values = PersistedValues(scope, intent.values)

\* The rows of the scope have the codes of the intent.
LEMMA StoredScope ==
  ASSUME NEW intent, NEW scope, NEW s, Stores(intent, scope, s)
  PROVE  /\ s.family \in Of("FAMILIA", rows) /\ s.type \in Of("TIPO", rows)
         /\ s.type # None /\ rows[s.type].family = s.family
         /\ Code(rows, rows[s.family].class) = intent.class
         /\ Code(rows, s.class) = intent.class /\ Code(rows, s.family) = intent.family
         /\ Code(rows, s.type) = intent.type /\ Code(rows, s.unit) = intent.unit
<1>1. None \notin Ids
  BY CatalogAssumption
<1>2. /\ scope.class \in Of("CLASE", rows) /\ scope.family \in Of("FAMILIA", rows)
      /\ scope.type \in Of("TIPO", rows) /\ scope.unit \in Of("UNIDAD", rows)
      /\ rows[scope.class].code = intent.class /\ rows[scope.family].code = intent.family
      /\ rows[scope.type].code = intent.type /\ rows[scope.unit].code = intent.unit
      /\ rows[scope.family].class = scope.class /\ rows[scope.type].family = scope.family
  BY DEF Stores, ActiveScopes
<1>3. s.class = scope.class /\ s.family = scope.family /\ s.type = scope.type /\ s.unit = scope.unit
  BY DEF Stores
<1>4. /\ Code(rows, s.class) = intent.class /\ Code(rows, s.family) = intent.family
      /\ Code(rows, s.type) = intent.type /\ Code(rows, s.unit) = intent.unit
      /\ Code(rows, rows[s.family].class) = intent.class /\ s.type # None
  BY <1>1, <1>2, <1>3 DEF Code, Of
<1> QED BY <1>2, <1>3, <1>4

\* The values of a stored resource: for each characteristic an applicability
\* of it in the scope, and the option that was asked for.
LEMMA StoredValues ==
  ASSUME Sound(rows), NEW intent, NEW scope, NEW s, Stores(intent, scope, s), NEW d \in DOMAIN s.values
  PROVE  /\ d \in Of("CARACTERISTICA", rows) /\ ~rows[d].upper
         /\ rows[d].code \in DOMAIN intent.values
         /\ s.values[d].binding \in Of("APLICABILIDAD", rows)
         /\ InScope(rows, s, s.values[d].binding)
         /\ rows[s.values[d].binding].definition = d
         /\ rows[s.values[d].option].set = rows[s.values[d].binding].set
         /\ rows[s.values[d].option].code = intent.values[rows[d].code]
<1> DEFINE values == intent.values
           ids == {i \in Of("CARACTERISTICA", rows) : rows[i].code \in DOMAIN values /\ ~rows[i].upper}
           written(i) == persistAttributeValue(scope, rows[i].code, values[rows[i].code])
           v == s.values[d]
<1>1. DOMAIN s.values = ids /\ \A i \in ids : s.values[i] = CHOOSE x \in written(i) : TRUE
  BY DEF Stores, PersistedValues
<1>2. d \in Of("CARACTERISTICA", rows) /\ rows[d].code \in DOMAIN values /\ ~rows[d].upper
  BY <1>1
<1>3. v \in written(d)
  <2>1. written(d) # {}
    BY <1>2 DEF Stores, Writable
  <2> HIDE DEF written, ids
  <2> QED BY <1>1, <2>1
<1>4. Anchored(rows, s)
  <2>1. CodesAreUnique(rows)
    BY UniqueCodes DEF Sound
  <2> QED BY <2>1, PersistedIsAnchored DEF Sound, Stores
<1>5. rows[v.binding].definition = d
  BY <1>4 DEF Anchored
<1> HIDE DEF v
<1>6. /\ v.binding \in resolveAttributeTarget(scope, rows[d].code)
      /\ rows[v.option].set = rows[v.binding].set /\ rows[v.option].code = values[rows[d].code]
  BY <1>3 DEF persistAttributeValue
<1>7. /\ v.binding \in Of("APLICABILIDAD", rows)
      /\ rows[v.binding].family = scope.family /\ rows[v.binding].type \in {None, scope.type}
  BY <1>6 DEF resolveAttributeTarget
<1>8. InScope(rows, s, v.binding)
  BY <1>7 DEF InScope, Stores
<1> QED BY <1>2, <1>5, <1>6, <1>7, <1>8 DEF v

\* Each value that was asked for is stored.
LEMMA ValueStored ==
  ASSUME Sound(rows), NEW intent, NEW scope, NEW s, Stores(intent, scope, s),
         NEW code \in DOMAIN intent.values
  PROVE  \E d \in DOMAIN s.values : rows[d].code = code
<1>1. PICK v : v \in persistAttributeValue(scope, code, intent.values[code])
  BY DEF Stores, Writable
<1>2. v.binding \in resolveAttributeTarget(scope, code)
  BY <1>1 DEF persistAttributeValue
<1> DEFINE d == rows[v.binding].definition
<1>3. v.binding \in Of("APLICABILIDAD", rows) /\ rows[d].code = code /\ ~rows[d].upper
  BY <1>2 DEF resolveAttributeTarget
<1>4. d \in Of("CARACTERISTICA", rows)
  BY <1>3, BindingLeads DEF Of
<1> HIDE DEF d
<1>5. d \in DOMAIN s.values
  BY <1>3, <1>4 DEF Stores, PersistedValues
<1> QED BY <1>3, <1>5

\* A reader takes every stored value.
LEMMA AllShown ==
  ASSUME Sound(rows), NEW intent, NEW scope, NEW s, Stores(intent, scope, s)
  PROVE  /\ EffectiveValues(rows, s) = DOMAIN s.values
         /\ \A d \in DOMAIN s.values : \E b \in AppliedTo(rows, s) : rows[b].definition = d
<1>1. EffectiveValues(rows, s) = DOMAIN s.values
  BY StoredValues DEF EffectiveValues
<1>2. ASSUME NEW d \in DOMAIN s.values
      PROVE  \E b \in AppliedTo(rows, s) : rows[b].definition = d
  <2> DEFINE b == s.values[d].binding
  <2>1. b \in Of("APLICABILIDAD", rows) /\ InScope(rows, s, b) /\ rows[b].definition = d
    BY <1>2, StoredValues
  <2>2. s.type # None
    BY StoredScope
  <2> HIDE DEF b
  <2>3. CASE b \in AppliedTo(rows, s)
    BY <2>1, <2>3
  <2>4. CASE b \notin AppliedTo(rows, s)
    <3>1. PICK o \in Of("APLICABILIDAD", rows) :
            InScope(rows, s, o) /\ rows[o].type = s.type /\ rows[o].definition = d
      BY <2>1, <2>4 DEF AppliedTo
    <3>2. o \in AppliedTo(rows, s)
      BY <2>2, <3>1 DEF AppliedTo
    <3> QED BY <3>1, <3>2
  <2> QED BY <2>3, <2>4
<1> QED BY <1>1, <1>2

\* What is read back is what was asked for.
LEMMA ReadsBack ==
  ASSUME Sound(rows), NEW intent, IsIntent(intent), NEW scope, NEW s, Stores(intent, scope, s)
  PROVE  ReadIntent(rows, s) = intent
<1> DEFINE shown == EffectiveValues(rows, s) \cap {rows[b].definition : b \in AppliedTo(rows, s)}
           codes == {rows[d].code : d \in shown}
           at(code) == LET d == CHOOSE e \in shown : rows[e].code = code IN
                       rows[s.values[d].option].code
           read == [code \in codes |-> at(code)]
<1>1. shown = DOMAIN s.values
  BY AllShown
<1>2. codes = DOMAIN intent.values
  BY <1>1, StoredValues, ValueStored
<1>3. ASSUME NEW code \in DOMAIN intent.values
      PROVE  at(code) = intent.values[code]
  <2> DEFINE d == CHOOSE e \in shown : rows[e].code = code
  <2>1. \E e \in shown : rows[e].code = code
    BY <1>1, <1>3, ValueStored
  <2> HIDE DEF shown
  <2>2. d \in shown /\ rows[d].code = code
    BY <2>1
  <2>3. at(code) = rows[s.values[d].option].code
    OBVIOUS
  <2> HIDE DEF d, at
  <2>4. rows[s.values[d].option].code = intent.values[rows[d].code]
    BY <1>1, <2>2, StoredValues
  <2> QED BY <2>2, <2>3, <2>4
<1>4. read = intent.values
  <2> HIDE DEF codes, at
  <2>1. read = [code \in DOMAIN intent.values |-> at(code)]
    BY <1>2
  <2>2. intent.values = [code \in DOMAIN intent.values |-> intent.values[code]]
    BY DEF IsIntent
  <2> HIDE DEF read
  <2> QED BY <1>3, <2>1, <2>2
<1>5. ReadIntent(rows, s) = [class |-> Code(rows, s.class), family |-> Code(rows, s.family),
                             type |-> Code(rows, s.type), unit |-> Code(rows, s.unit), values |-> read]
  BY DEF ReadIntent
<1> HIDE DEF read
<1>6. intent = [class |-> intent.class, family |-> intent.family, type |-> intent.type,
                unit |-> intent.unit, values |-> intent.values]
  BY DEF IsIntent
<1> QED BY <1>4, <1>5, <1>6, StoredScope

\* A scope identifies its family and its type.
LEMMA ScopeFinds ==
  ASSUME NEW db, Sound(db), NEW f \in Of("FAMILIA", db), NEW g \in Of("FAMILIA", db),
         NEW t \in Of("TIPO", db) \cup {None}, NEW u \in Of("TIPO", db) \cup {None},
         t # None => db[t].family = f, u # None => db[u].family = g,
         Scope(db, f, t) = Scope(db, g, u)
  PROVE  f = g /\ t = u
<1>1. None \notin Ids
  BY CatalogAssumption
<1>2. /\ Code(db, db[f].class) = Code(db, db[g].class) /\ Code(db, f) = Code(db, g)
      /\ Code(db, t) = Code(db, u)
  BY DEF Scope
<1>3. FamilyKey(db, f) = FamilyKey(db, g)
  BY <1>1, <1>2 DEF FamilyKey, Code, Of
<1>4. f = g
  BY <1>3, FamilyKeyFinds
<1>5. ASSUME NEW x \in Of("TIPO", db)
      PROVE  x # None /\ db[x].code # None /\ Code(db, x) = db[x].code
  <2>1. FitsKind("TIPO", db[x]) /\ "code" \in Columns("TIPO")
    BY DEF Sound, RowsFit, Of, Columns
  <2> QED BY <1>1, <2>1 DEF FitsKind, Of, Code
<1>6. t = u
  <2>1. CASE t = None \/ u = None
    BY <1>2, <1>5, <2>1 DEF Code
  <2>2. CASE t # None /\ u # None
    <3>1. TypeKey(db, t) = TypeKey(db, u)
      BY <1>2, <1>3, <1>4, <1>5, <2>2 DEF TypeKey
    <3> QED BY <2>2, <3>1, TypeKeyFinds
  <2> QED BY <2>1, <2>2
<1> QED BY <1>4, <1>6

\* An applicability is the one of its family, type and characteristic.
LEMMA BindingFinds ==
  ASSUME NEW db, Sound(db), NEW x \in Of("APLICABILIDAD", db), NEW y \in Of("APLICABILIDAD", db),
         db[x].family = db[y].family, db[x].type = db[y].type, db[x].definition = db[y].definition
  PROVE  x = y
<1>1. KeyColumns("APLICABILIDAD") = {"family", "type", "definition"}
  BY DEF KeyColumns
<1>2. UniqueKeys(db, x) /\ x \in Ids /\ db[x] # None /\ Kind[x] = "APLICABILIDAD"
  BY DEF Sound, KeysAreUnique, Of
<1>3. x # y => \E f \in {"family", "type", "definition"} : db[x][f] # db[y][f]
  BY <1>1, <1>2 DEF UniqueKeys
<1> QED BY <1>3

\* The characteristics an applicability names.
LEMMA BindingNames ==
  ASSUME Sound(rows), NEW b \in Of("APLICABILIDAD", rows)
  PROVE  /\ rows[b].definition \in NamedByApplicabilities
         /\ \A n \in DOMAIN rows[b].rules : rows[b].rules[n].when \in NamedByApplicabilities
<1>1. b \in Ids /\ rows[b] # None /\ Kind[b] = "APLICABILIDAD" /\ None \notin Ids
  BY CatalogAssumption DEF Of
<1>2. /\ rows[b].definition \in Of("CARACTERISTICA", rows)
      /\ \A n \in DOMAIN rows[b].rules : rows[b].rules[n].when \in Of("CARACTERISTICA", rows)
  BY <1>1, BindingLeads
<1>3. DOMAIN rows[b] = Columns("APLICABILIDAD")
  BY <1>1 DEF Sound, RowsFit, FitsKind
<1>4. "definition" \in RefFields \cap DOMAIN rows[b] /\ "rules" \in DOMAIN rows[b]
  BY <1>3 DEF RefFields, Columns
<1>5. \A n \in DOMAIN rows[b].rules : rows[b].rules[n] \in Range(rows[b].rules)
  BY DEF Range
<1>6. /\ rows[b].definition \in References(rows[b])
      /\ \A n \in DOMAIN rows[b].rules : rows[b].rules[n].when \in References(rows[b])
  <2>1. rows[b].definition # None /\ \A n \in DOMAIN rows[b].rules : rows[b].rules[n].when # None
    BY <1>1, <1>2 DEF Of
  <2> QED BY <1>4, <1>5, <2>1 DEF References
<1> QED BY <1>2, <1>6 DEF NamedByApplicabilities, Of, IdsOf

\* The applicabilities of the loaded catalog are the records of the rows.
LEMMA LoadedBindings ==
  /\ Records(Loaded(rows), "APLICABILIDAD") =
       {AttributeBindingRecord(rows, x) : x \in Of("APLICABILIDAD", rows)}
  /\ Entries(Loaded(rows), "CONJUNTO_OPCIONES") = Of("CONJUNTO_OPCIONES", rows)
<1>1. \A kind : Entries(Loaded(rows), kind) = Of(kind, rows)
  BY DEF Entries, Loaded, Of
<1>2. \A x \in Of("APLICABILIDAD", rows) : Loaded(rows)[x] = AttributeBindingRecord(rows, x)
  BY DEF Loaded, Of, Record
<1> QED BY <1>1, <1>2 DEF Records

\* The parts of the record of an applicability.
LEMMA BindingParts ==
  ASSUME NEW x
  PROVE  /\ AttributeBindingRecord(rows, x).scope = Scope(rows, rows[x].family, rows[x].type)
         /\ AttributeBindingRecord(rows, x).definition.code = rows[rows[x].definition].code
         /\ AttributeBindingRecord(rows, x).mode = rows[x].mode
         /\ AttributeBindingRecord(rows, x).rules = Rules(rows, x)
BY DEF AttributeBindingRecord, DefinitionRecord, Rules

\* What the service looks up by a code is the applicability the repository
\* applies.
LEMMA AppliedIsFound ==
  ASSUME Sound(rows), NamedInOneSpelling, NEW intent, NEW scope, NEW s, Stores(intent, scope, s),
         NEW b \in AppliedTo(rows, s)
  PROVE  LET attributes == resourceAttributes(Loaded(rows), ScopeOf(intent))
             code == rows[rows[b].definition].code
         IN  code \in DOMAIN attributes /\ attributes[code] = AttributeBindingRecord(rows, b)
<1> DEFINE sc == ScopeOf(intent)
           code == rows[rows[b].definition].code
           of(type) == {a \in Records(Loaded(rows), "APLICABILIDAD") : a.scope = [sc EXCEPT !.type = type]}
           codes(type) == {a.definition.code : a \in of(type)}
           hit(a) == a.definition.code = code
           R(x) == AttributeBindingRecord(rows, x)
<1>1. /\ b \in Of("APLICABILIDAD", rows) /\ rows[b].family = s.family
      /\ rows[b].type \in {None, s.type}
      /\ rows[b].type = None => ~\E o \in Of("APLICABILIDAD", rows) :
           InScope(rows, s, o) /\ rows[o].type = s.type /\ rows[o].definition = rows[b].definition
  BY DEF AppliedTo, InScope
<1>2. /\ s.family \in Of("FAMILIA", rows) /\ s.type \in Of("TIPO", rows)
      /\ s.type # None /\ rows[s.type].family = s.family
  BY StoredScope
<1>3. /\ [sc EXCEPT !.type = sc.type] = Scope(rows, s.family, s.type)
      /\ [sc EXCEPT !.type = None] = Scope(rows, s.family, None)
  <2>1. /\ Code(rows, rows[s.family].class) = intent.class /\ Code(rows, s.family) = intent.family
        /\ Code(rows, s.type) = intent.type /\ Code(rows, None) = None
    BY StoredScope DEF Code
  <2> QED BY <2>1 DEF Scope, ScopeOf
<1>4. ASSUME NEW t \in {None, s.type}, NEW a
      PROVE  a \in of(Code(rows, t)) <=>
               \E x \in Of("APLICABILIDAD", rows) :
                 a = R(x) /\ rows[x].family = s.family /\ rows[x].type = t
  <2>1. [sc EXCEPT !.type = Code(rows, t)] = Scope(rows, s.family, t)
    <3>1. sc.type = Code(rows, s.type) /\ Code(rows, None) = None
      BY StoredScope DEF ScopeOf, Code
    <3> QED BY <1>3, <1>4, <3>1
  <2>2. a \in of(Code(rows, t)) <=>
          \E x \in Of("APLICABILIDAD", rows) : a = R(x) /\ R(x).scope = Scope(rows, s.family, t)
    BY <2>1, LoadedBindings
  <2>3. ASSUME NEW x \in Of("APLICABILIDAD", rows)
        PROVE  R(x).scope = Scope(rows, s.family, t) <=> rows[x].family = s.family /\ rows[x].type = t
    <3>1. R(x).scope = Scope(rows, rows[x].family, rows[x].type)
      BY BindingParts
    <3>2. /\ rows[x].family \in Of("FAMILIA", rows) /\ rows[x].type \in Of("TIPO", rows) \cup {None}
          /\ rows[x].type # None => rows[rows[x].type].family = rows[x].family
      BY BindingLeads DEF Of
    <3> QED BY <1>2, <1>4, <3>1, <3>2, ScopeFinds
  <2> HIDE DEF of, R
  <2> QED BY <2>2, <2>3
<1>5. ASSUME NEW x \in Of("APLICABILIDAD", rows)
      PROVE  R(x).definition.code = code <=> rows[x].definition = rows[b].definition
  <2>1. R(x).definition.code = rows[rows[x].definition].code
    BY BindingParts
  <2>2. rows[x].definition \in NamedByApplicabilities /\ rows[b].definition \in NamedByApplicabilities
    BY <1>1, BindingNames
  <2> QED BY <2>1, <2>2 DEF NamedInOneSpelling
<1>6. sc.type = Code(rows, s.type) /\ None = Code(rows, None)
  BY StoredScope DEF ScopeOf, Code
<1>7. resourceAttributes(Loaded(rows), sc) =
        [c \in codes(None) \cup codes(sc.type) |->
           CHOOSE a \in of(IF c \in codes(sc.type) THEN sc.type ELSE None) : a.definition.code = c]
  BY DEF resourceAttributes
<1>8. ASSUME NEW t \in {None, s.type}, rows[b].type = t
      PROVE  /\ code \in codes(Code(rows, t))
             /\ (CHOOSE a \in of(Code(rows, t)) : a.definition.code = code) = R(b)
  <2>1. R(b) \in of(Code(rows, t))
    BY <1>1, <1>4, <1>8
  <2>2. R(b).definition.code = code
    BY <1>1, <1>5
  <2>3. ASSUME NEW a \in of(Code(rows, t)), a.definition.code = code
        PROVE  a = R(b)
    <3>1. PICK x \in Of("APLICABILIDAD", rows) :
            a = R(x) /\ rows[x].family = s.family /\ rows[x].type = t
      BY <1>4, <2>3
    <3>2. rows[x].definition = rows[b].definition
      BY <1>5, <2>3, <3>1
    <3>3. x = b
      BY <1>1, <1>8, <3>1, <3>2, BindingFinds
    <3> QED BY <3>1, <3>3
  <2> HIDE DEF of, R
  <2> QED BY <2>1, <2>2, <2>3
<1>9. CASE rows[b].type = s.type
  <2>1. code \in codes(sc.type) /\ (CHOOSE a \in of(sc.type) : a.definition.code = code) = R(b)
    BY <1>6, <1>8, <1>9
  <2> HIDE DEF codes, of, R, sc, code
  <2> QED BY <1>7, <2>1 DEF R, sc, code
<1>10. CASE rows[b].type = None
  <2>1. code \in codes(None) /\ (CHOOSE a \in of(None) : a.definition.code = code) = R(b)
    BY <1>6, <1>8, <1>10
  <2>2. code \notin codes(sc.type)
    <3> SUFFICES ASSUME code \in codes(sc.type) PROVE FALSE
      OBVIOUS
    <3>1. PICK a \in of(sc.type) : a.definition.code = code
      OBVIOUS
    <3>2. PICK x \in Of("APLICABILIDAD", rows) :
            a = R(x) /\ rows[x].family = s.family /\ rows[x].type = s.type
      BY <1>4, <1>6, <3>1
    <3>3. rows[x].definition = rows[b].definition
      BY <1>5, <3>1, <3>2
    <3> QED BY <1>1, <1>10, <3>2, <3>3 DEF InScope
  <2> HIDE DEF codes, of, R, sc, code
  <2> QED BY <1>7, <2>1, <2>2 DEF R, sc, code
<1> QED BY <1>1, <1>9, <1>10

\* A rule of a record is that of the row, with its characteristic's code.
LEMMA RuleParts ==
  ASSUME Sound(rows), NEW b \in Of("APLICABILIDAD", rows), NEW n \in DOMAIN rows[b].rules
  PROVE  /\ Rules(rows, b)[n].when.code = rows[rows[b].rules[n].when].code
         /\ Rules(rows, b)[n].equals = rows[b].rules[n].equals
         /\ Rules(rows, b)[n].mode = rows[b].rules[n].mode
         /\ Rules(rows, b)[n].active = rows[b].rules[n].active
         /\ rows[b].rules[n].mode \in Modes /\ n \in Nat
<1>1. FitsKind("APLICABILIDAD", rows[b]) /\ "rules" \in Columns("APLICABILIDAD")
  BY DEF Sound, RowsFit, Of, Columns
<1>2. RulesFit(rows[b].rules)
  BY <1>1 DEF FitsKind
<1> DEFINE q == rows[b].rules[n]
<1>3. /\ DOMAIN q = {"when", "equals", "mode", "participates", "notApplicable", "active"}
      /\ q.mode \in Modes /\ n \in Nat
  BY <1>2 DEF RulesFit
<1>4. Rules(rows, b)[n] = [q EXCEPT !.when = Spelled(rows, q.when)]
  BY DEF Rules
<1> HIDE DEF q
<1>5. [q EXCEPT !.when = Spelled(rows, q.when)].when = Spelled(rows, q.when)
  BY <1>3
<1>6. Spelled(rows, q.when).code = rows[q.when].code
  BY DEF Spelled
<1>7. \A f \in {"equals", "mode", "active"} : [q EXCEPT !.when = Spelled(rows, q.when)][f] = q[f]
  BY <1>3
<1> QED BY <1>3, <1>4, <1>5, <1>6, <1>7 DEF q

\* A characteristic that an applicability names has a stored value just when
\* the intent has one for its code.
LEMMA NamedHasValue ==
  ASSUME Sound(rows), NamedInOneSpelling, NEW intent, NEW scope, NEW s, Stores(intent, scope, s),
         NEW e \in NamedByApplicabilities
  PROVE  e \in DOMAIN s.values <=> rows[e].code \in DOMAIN intent.values
<1>1. ASSUME rows[e].code \in DOMAIN intent.values
      PROVE  e \in DOMAIN s.values
  <2>1. PICK d \in DOMAIN s.values : rows[d].code = rows[e].code
    BY <1>1, ValueStored
  <2>2. s.values[d].binding \in Of("APLICABILIDAD", rows) /\ rows[s.values[d].binding].definition = d
    BY <2>1, StoredValues
  <2>3. d \in NamedByApplicabilities
    BY <2>2, BindingNames
  <2> QED BY <2>1, <2>3 DEF NamedInOneSpelling
<1> QED BY <1>1, StoredValues

\* The two evaluations of an applicability's rules give the same mode.
LEMMA ModesAgree ==
  ASSUME Sound(rows), NamedInOneSpelling, NEW intent, NEW scope, NEW s, Stores(intent, scope, s),
         NEW b \in AppliedTo(rows, s),
         \A q \in Range(AttributeBindingRecord(rows, b).rules) : q.active
  PROVE  /\ effective(AttributeBindingRecord(rows, b), intent.values).mode = ModeOf(rows, s, b)
         /\ ModeOf(rows, s, b) \in Modes
<1> DEFINE a == AttributeBindingRecord(rows, b)
           rules == rows[b].rules
           values == intent.values
           asked == {n \in DOMAIN a.rules : /\ a.rules[n].when.code \in DOMAIN values
                                            /\ values[a.rules[n].when.code] = a.rules[n].equals}
           stored == {n \in DOMAIN rules : /\ rules[n].active /\ rules[n].when \in EffectiveValues(rows, s)
                                           /\ rows[s.values[rules[n].when].option].code = rules[n].equals}
           plain == IF rows[b].mode = "CONDITIONAL" THEN "REQUIRED" ELSE rows[b].mode
<1>1. b \in Of("APLICABILIDAD", rows)
  BY DEF AppliedTo
<1>2. a.rules = Rules(rows, b) /\ DOMAIN Rules(rows, b) = DOMAIN rules /\ a.mode = rows[b].mode
  BY BindingParts DEF Rules
<1>3. \A n \in DOMAIN rules : a.rules[n] \in Range(a.rules)
  BY <1>2 DEF Range
<1>4. \A n \in DOMAIN rules : a.rules[n].active
  BY <1>3
<1> HIDE DEF a
<1>5. \A n \in DOMAIN rules :
        /\ a.rules[n].when.code = rows[rules[n].when].code /\ a.rules[n].equals = rules[n].equals
        /\ a.rules[n].mode = rules[n].mode /\ rules[n].active
        /\ rules[n].mode \in Modes /\ n \in Nat
  BY <1>1, <1>2, <1>4, RuleParts
<1>6. EffectiveValues(rows, s) = DOMAIN s.values
  BY AllShown
<1>7. ASSUME NEW n \in DOMAIN rules
      PROVE  n \in asked <=> n \in stored
  <2> DEFINE e == rules[n].when
  <2>1. e \in DOMAIN s.values <=> rows[e].code \in DOMAIN values
    BY <1>1, <1>7, BindingNames, NamedHasValue
  <2>2. e \in DOMAIN s.values => rows[s.values[e].option].code = values[rows[e].code]
    BY StoredValues
  <2> QED BY <1>2, <1>5, <1>6, <1>7, <2>1, <2>2
<1>8. asked = stored /\ stored \subseteq DOMAIN rules /\ stored \subseteq Nat
  BY <1>2, <1>5, <1>7
<1>9. effective(a, values).mode = IF asked # {} THEN a.rules[Min(asked)].mode ELSE plain
  <2>1. effective(a, values) = IF asked # {} THEN a.rules[Min(asked)]
                               ELSE [mode |-> IF a.mode = "CONDITIONAL" THEN "REQUIRED" ELSE a.mode,
                                     participates |-> a.participates, notApplicable |-> FALSE]
    BY DEF effective
  <2> HIDE DEF asked
  <2> QED BY <1>2, <2>1
<1>10. ModeOf(rows, s, b) = IF stored # {} THEN rules[Min(stored)].mode ELSE plain
  BY DEF ModeOf
<1>11. plain \in Modes
  <2>1. FitsKind("APLICABILIDAD", rows[b]) /\ "rules" \in Columns("APLICABILIDAD")
    BY <1>1 DEF Sound, RowsFit, Of, Columns
  <2> QED BY <2>1 DEF FitsKind, Modes
<1> HIDE DEF asked, stored, plain, rules, values
<1>12. stored # {} => Min(stored) \in DOMAIN rules
  BY <1>8, MinBelongs
<1>13. effective(a, values).mode = ModeOf(rows, s, b) /\ ModeOf(rows, s, b) \in Modes
  BY <1>5, <1>8, <1>9, <1>10, <1>11, <1>12
<1> QED BY <1>13 DEF a, values

\* What the service accepts and the repository stores is readable.
LEMMA AcceptedReads ==
  ASSUME Sound(rows), NamedInOneSpelling, NEW intent, NEW scope, NEW s, Stores(intent, scope, s),
         NewResource(Loaded(rows), intent)
  PROVE  Readable(rows, s)
<1> DEFINE attributes == resourceAttributes(Loaded(rows), ScopeOf(intent))
<1>1. /\ validateActiveChain(Loaded(rows), intent, attributes)
      /\ validateModes(attributes, intent.values)
  BY DEF NewResource
<1> HIDE DEF attributes
<1>2. ASSUME NEW b \in AppliedTo(rows, s)
      PROVE  LET d == rows[b].definition IN
             IF d \in EffectiveValues(rows, s)
             THEN /\ rows[s.values[d].option].set = rows[s.values[d].binding].set
                  /\ ModeOf(rows, s, b) # "FORBIDDEN"
             ELSE ModeOf(rows, s, b) \in {"OPTIONAL", "FORBIDDEN"}
  <2> DEFINE d == rows[b].definition
             code == rows[d].code
  <2>1. b \in Of("APLICABILIDAD", rows)
    BY <1>2 DEF AppliedTo
  <2>2. code \in DOMAIN attributes /\ attributes[code] = AttributeBindingRecord(rows, b)
    BY <1>2, AppliedIsFound DEF attributes
  <2>3. Entries(Loaded(rows), "CONJUNTO_OPCIONES") # {}
    BY <2>1, BindingLeads, LoadedBindings DEF Of
  <2>4. \A q \in Range(attributes[code].rules) : q.active
    BY <1>1, <2>2, <2>3 DEF validateActiveChain
  <2>5. /\ effective(attributes[code], intent.values).mode = ModeOf(rows, s, b)
        /\ ModeOf(rows, s, b) \in Modes
    BY <1>2, <2>2, <2>4, ModesAgree
  <2>6. IF code \in DOMAIN intent.values
        THEN ModeOf(rows, s, b) \notin {"FORBIDDEN", "CONDITIONAL"}
        ELSE ModeOf(rows, s, b) \notin {"REQUIRED", "CONDITIONAL"}
    BY <1>1, <2>2, <2>5 DEF validateModes
  <2>7. d \in EffectiveValues(rows, s) <=> code \in DOMAIN intent.values
    BY <2>1, AllShown, BindingNames, NamedHasValue
  <2>8. d \in EffectiveValues(rows, s) => rows[s.values[d].option].set = rows[s.values[d].binding].set
    BY AllShown, StoredValues
  <2> HIDE DEF d, code
  <2>9. IF d \in EffectiveValues(rows, s)
        THEN /\ rows[s.values[d].option].set = rows[s.values[d].binding].set
             /\ ModeOf(rows, s, b) # "FORBIDDEN"
        ELSE ModeOf(rows, s, b) \in {"OPTIONAL", "FORBIDDEN"}
    BY <2>5, <2>6, <2>7, <2>8 DEF Modes
  <2> QED BY <2>9 DEF d
<1> QED BY <1>2 DEF Readable

-----------------------------------------------------------------------------
(***************************************************************************)
(* While the catalog has not been written, what the service found out      *)
(* about a request before its transaction still holds.                     *)
(***************************************************************************)
ReadsAs(db, s, intent) == Readable(db, s) /\ ReadIntent(db, s) = intent

Checked(request, s, db) ==
  /\ request.op \in {"create", "update"} => NewResource(Loaded(db), request.intent)
  /\ request.op = "reactivate" /\ request.intent # None /\ s = request.seen =>
       ReadsAs(db, request.seen, request.intent)

CheckedHolds ==
  \A p \in Callers : call[p] # None /\ call[p].at = writes =>
    Checked(call[p], resources[call[p].resource], rows)

\* The end of another request does not bring back a row that was replaced.
LEMMA EndKeepsChecked ==
  ASSUME ResourceInv, CheckedHolds, RowsSucceed, NEW q \in Callers, Ends(q)
  PROVE  CheckedHolds'
<1> SUFFICES ASSUME NEW p \in Callers, call'[p] # None, call'[p].at = writes'
             PROVE  Checked(call'[p], resources'[call'[p].resource], rows')
  BY DEF CheckedHolds
<1>1. call'[p] = call[p] /\ rows' = rows /\ writes' = writes
  BY DEF Ends, ResourceInv, CallsTyped
<1>2. Checked(call[p], resources[call[p].resource], rows)
  BY <1>1 DEF CheckedHolds
<1>3. ASSUME call[p].op = "reactivate", resources'[call[p].resource] = call[p].seen
      PROVE  resources[call[p].resource] = call[p].seen
  <2>1. /\ call[p].resource \in Resources
        /\ resources[call[p].resource] \in ResourceRow /\ call[p].seen \in ResourceRow
        /\ SameOrLater(resources[call[p].resource], call[p].seen)
    BY <1>1, <1>3 DEF ResourceInv, SeenIsPast
  <2> QED BY <1>3, <2>1, LaterStays
<1>4. Checked(call[p], resources'[call[p].resource], rows)
  BY <1>2, <1>3 DEF Checked
<1> QED BY <1>1, <1>4

\* A request enters with an intent the service has accepted, or none.
LEMMA BeginKeepsChecked ==
  ASSUME ResourceInv, CheckedHolds, NEW q \in Callers, NEW op, NEW r, NEW intent, NEW identity,
         Begin(q, Request(op, r, intent, identity)),
         op \in {"create", "update"} => intent \in Valid, op = "reactivate" => intent = None
  PROVE  CheckedHolds'
<1> DEFINE request == Request(op, r, intent, identity)
<1>1. call' = [call EXCEPT ![q] = request] /\ UNCHANGED <<rows, resources, writes>>
  BY DEF Begin
<1>2. request.op = op /\ request.intent = intent
  BY DEF Request
<1> HIDE DEF request
<1>3. \A p \in Callers : call'[p] = IF p = q THEN request ELSE call[p]
  BY <1>1 DEF ResourceInv, CallsTyped
<1>4. op \in {"create", "update"} => NewResource(Loaded(rows), intent)
  BY DEF Valid
<1>5. \A t : Checked(request, t, rows)
  BY <1>2, <1>4 DEF Checked
<1> SUFFICES ASSUME NEW p \in Callers, call'[p] # None, call'[p].at = writes'
             PROVE  Checked(call'[p], resources'[call'[p].resource], rows')
  BY DEF CheckedHolds
<1>6. rows' = rows /\ resources' = resources /\ writes' = writes
  BY <1>1
<1>7. CASE p = q
  BY <1>3, <1>5, <1>6, <1>7
<1>8. CASE p # q
  BY <1>3, <1>6, <1>8 DEF CheckedHolds
<1> QED BY <1>7, <1>8

\* A reactivation keeps what it read of the resource.
LEMMA LoadKeepsChecked ==
  ASSUME ResourceInv, CheckedHolds, NEW q \in Callers, Load(q)
  PROVE  CheckedHolds'
<1> DEFINE s == resources[call[q].resource]
<1>1. PICK intent \in reactivationCandidate(s) :
        call' = [call EXCEPT ![q].intent = intent, ![q].at = writes, ![q].identity = s.identity]
  BY DEF Load
<1>2. /\ rows' = rows /\ resources' = resources /\ writes' = writes
      /\ call[q] # None /\ call[q].op = "reactivate" /\ call[q].resource \in Shown
  BY DEF Load
<1>3. call[q] = [f \in RequestFields |-> call[q][f]]
  BY <1>2 DEF ResourceInv, CallsTyped
<1>4. \A p \in Callers \ {q} : call'[p] = call[p]
  BY <1>1 DEF ResourceInv, CallsTyped
<1>5. /\ call'[q].op = "reactivate" /\ call'[q].seen = call[q].seen
      /\ call'[q].resource = call[q].resource /\ call'[q].intent = intent
  <2>1. call'[q] = [call[q] EXCEPT !.intent = intent, !.at = writes, !.identity = s.identity]
    BY <1>1 DEF ResourceInv, CallsTyped
  <2> QED BY <1>2, <1>3, <2>1 DEF RequestFields
<1>6. ReadsAs(rows, s, intent)
  BY <1>2 DEF Shown, reactivationCandidate, ReadsAs
<1>7. Checked(call'[q], s, rows)
  BY <1>5, <1>6 DEF Checked
<1> SUFFICES ASSUME NEW p \in Callers, call'[p] # None, call'[p].at = writes'
             PROVE  Checked(call'[p], resources'[call'[p].resource], rows')
  BY DEF CheckedHolds
<1>8. CASE p = q
  BY <1>2, <1>5, <1>7, <1>8
<1>9. CASE p # q
  BY <1>2, <1>4, <1>9 DEF CheckedHolds
<1> QED BY <1>8, <1>9

\* The checks are inductive.
LEMMA NextKeepsChecked ==
  ASSUME ResourceInv, CheckedHolds, [Next]_resourceVars
  PROVE  CheckedHolds'
<1>1. CASE CatalogWrite /\ UNCHANGED call
  <2>1. writes' = writes + 1
    BY <1>1, CatalogWriteShape
  <2>2. \A p \in Callers : call'[p] # None => call'[p].at # writes'
    BY <1>1, <2>1 DEF ResourceInv, ResourcesTyped, CallsTyped
  <2> QED BY <2>2 DEF CheckedHolds
<1>2. ASSUME NEW q \in Callers, Create(q)
      PROVE  CheckedHolds'
  <2>1. PICK intent \in Valid :
          Begin(q, Request("create", None, intent, IdentityKey(Loaded(rows), intent)))
    BY <1>2 DEF Create
  <2> QED BY <2>1, BeginKeepsChecked
<1>3. ASSUME NEW q \in Callers, Update(q)
      PROVE  CheckedHolds'
  <2>1. PICK r \in Shown, intent \in Valid :
          Begin(q, Request("update", r, intent, IdentityKey(Loaded(rows), intent)))
    BY <1>3 DEF Update
  <2> QED BY <2>1, BeginKeepsChecked
<1>4. ASSUME NEW q \in Callers, Deactivate(q) \/ Reactivate(q)
      PROVE  CheckedHolds'
  <2>1. PICK r \in Shown, op \in {"deactivate", "reactivate"} : Begin(q, Request(op, r, None, None))
    BY <1>4 DEF Deactivate, Reactivate
  <2> QED BY <2>1, BeginKeepsChecked
<1>5. ASSUME NEW q \in Callers, Load(q)
      PROVE  CheckedHolds'
  BY <1>5, LoadKeepsChecked
<1>6. ASSUME NEW q \in Callers, Persists(q)
      PROVE  CheckedHolds'
  BY <1>6, PersistShape, EndKeepsChecked
<1>7. CASE UNCHANGED resourceVars
  BY <1>7 DEF resourceVars, CheckedHolds
<1> QED BY <1>1, <1>2, <1>3, <1>4, <1>5, <1>6, <1>7 DEF Next, Persists

\* They hold in every reachable state.
LEMMA CheckedAlways == Spec => []CheckedHolds
<1>1. Init => CheckedHolds
  BY DEF Init, CheckedHolds
<1>2. ResourceInv /\ CheckedHolds /\ [Next]_resourceVars => CheckedHolds'
  BY NextKeepsChecked
<1> QED BY <1>1, <1>2, InvHolds, PTL DEF Spec

\* What is read of a resource does not depend on its activity or revision.
LEMMA LifecycleKeepsReading ==
  ASSUME NEW db, NEW old, NEW new, NEW intent, ReadsAs(db, old, intent),
         new.class = old.class, new.family = old.family, new.type = old.type,
         new.unit = old.unit, new.values = old.values
  PROVE  ReadsAs(db, new, intent)
<1>1. \A b : InScope(db, new, b) <=> InScope(db, old, b)
  BY DEF InScope
<1>2. AppliedTo(db, new) = AppliedTo(db, old)
  BY <1>1 DEF AppliedTo
<1>3. EffectiveValues(db, new) = EffectiveValues(db, old)
  BY <1>1 DEF EffectiveValues
<1>4. \A b : ModeOf(db, new, b) = ModeOf(db, old, b)
  BY <1>3 DEF ModeOf
<1>5. Readable(db, new)
  BY <1>2, <1>3, <1>4 DEF ReadsAs, Readable
<1>6. ReadIntent(db, new) = ReadIntent(db, old)
  BY <1>2, <1>3 DEF ReadIntent
<1> QED BY <1>5, <1>6 DEF ReadsAs

\* A resource that a request commits is read as it was asked for.
LEMMA CommitReads ==
  ASSUME ResourceInv, AnchorInv, CheckedHolds, Next, NEW p \in Callers, Commits(p),
         call[p].op # "deactivate", call[p].at = writes, NamedInOneSpelling,
         NEW r \in Resources, resources'[r] # resources[r]
  PROVE  ReadsAs(rows, resources'[r], call[p].intent)
<1>1. Sound(rows)
  BY DEF AnchorInv, NothingDangles, Sound
<1>2. call[p] # None /\ Persists(p) /\ resources' # resources
  BY CommitIsOwn DEF Commits
<1>3. resources \in [Resources -> ResourceRow \cup {None}]
  BY DEF ResourceInv, ResourcesTyped
<1>4. Checked(call[p], resources[call[p].resource], rows)
  BY <1>2 DEF CheckedHolds
<1>5. ASSUME NEW scope, NEW new, call[p].op \in {"create", "update"}, Stores(call[p].intent, scope, new)
      PROVE  ReadsAs(rows, new, call[p].intent)
  <2>1. IsIntent(call[p].intent)
    BY <1>2, <1>5, ResourceAssumption DEF ResourceInv, CallsTyped
  <2>2. NewResource(Loaded(rows), call[p].intent)
    BY <1>4, <1>5 DEF Checked
  <2> QED BY <1>1, <1>5, <2>1, <2>2, AcceptedReads, ReadsBack DEF ReadsAs
<1>6. ASSUME NEW o \in Resources, NEW new, resources' = [resources EXCEPT ![o] = new]
      PROVE  resources'[r] = new
  BY <1>3, <1>6
<1>7. CASE PersistCreate(p)
  <2> DEFINE New(s) == [class |-> s.class, family |-> s.family, type |-> s.type, unit |-> s.unit,
                        values |-> PersistedValues(s, call[p].intent.values),
                        identity |-> call[p].identity, active |-> TRUE, revision |-> 1]
  <2>1. PICK s \in ActiveScopes(call[p].intent), o \in Resources :
          Writable(s, call[p].intent.values) /\ resources' = [resources EXCEPT ![o] = New(s)]
    BY <1>7 DEF PersistCreate
  <2>2. Stores(call[p].intent, s, New(s)) /\ call[p].op = "create"
    BY <1>7, <2>1 DEF Stores, PersistCreate
  <2> HIDE DEF New
  <2> QED BY <1>5, <1>6, <2>1, <2>2
<1>8. CASE PersistUpdate(p)
  <2> DEFINE o == call[p].resource
             New(s) == [class |-> s.class, family |-> s.family, type |-> s.type, unit |-> s.unit,
                        values |-> PersistedValues(s, call[p].intent.values),
                        identity |-> resources[o].identity, active |-> resources[o].active,
                        revision |-> resources[o].revision + 1]
  <2>1. PICK s \in ActiveScopes(call[p].intent) :
          Writable(s, call[p].intent.values) /\ resources' = [resources EXCEPT ![o] = New(s)]
    BY <1>8 DEF PersistUpdate
  <2>2. Stores(call[p].intent, s, New(s)) /\ call[p].op = "update" /\ o \in Resources
    BY <1>8, <2>1 DEF Stores, PersistUpdate, ResourceInv, SeenIsPast
  <2> HIDE DEF New, o
  <2> QED BY <1>5, <1>6, <2>1, <2>2
<1>9. CASE PersistReactivate(p)
  <2> DEFINE o == call[p].resource
             new == [resources[o] EXCEPT !.active = TRUE, !.revision = resources[o].revision + 1]
  <2>1. call[p].op = "reactivate" /\ call[p].intent # None /\ setLifecycleRevision(p, TRUE)
    BY <1>9 DEF PersistReactivate
  <2>2. o \in Resources /\ resources[o] \in ResourceRow
    BY <1>2, <2>1 DEF ResourceInv, SeenIsPast
  <2>3. resources' = [resources EXCEPT ![o] = new]
    BY <1>2, <1>3, <2>1, <2>2 DEF setLifecycleRevision, ResourceRow
  <2>4. resources[o] = call[p].seen
    BY <2>1, CommitReplacesSeen
  <2>5. ReadsAs(rows, resources[o], call[p].intent)
    BY <1>4, <2>1, <2>4 DEF Checked
  <2>6. /\ new.class = resources[o].class /\ new.family = resources[o].family
        /\ new.type = resources[o].type /\ new.unit = resources[o].unit
        /\ new.values = resources[o].values
    BY <2>2 DEF ResourceRow
  <2> HIDE DEF new
  <2>7. ReadsAs(rows, new, call[p].intent)
    BY <2>5, <2>6, LifecycleKeepsReading
  <2> QED BY <1>6, <2>2, <2>3, <2>7
<1> QED BY <1>2, <1>7, <1>8, <1>9 DEF Persists, PersistDeactivate, GiveUp

\* What is accepted can be read: a resource created, updated or reactivated
\* under the catalog it was validated against is read back with the values
\* asked for, whatever the applicabilities, their rules and their order, as
\* long as these name each characteristic in one spelling.
THEOREM ReadSafety == Spec => AcceptedIsReadable
<1>1. ASSUME ResourceInv, AnchorInv, CheckedHolds, [Next]_resourceVars
      PROVE  [\A p \in Callers :
                Commits(p) /\ call[p].op # "deactivate" /\ call[p].at = writes /\ NamedInOneSpelling =>
                \A r \in Resources : resources'[r] # resources[r] =>
                  Readable(rows, resources'[r]) /\ ReadIntent(rows, resources'[r]) = call[p].intent]_resourceVars
  BY <1>1, CommitReads DEF ReadsAs
<1> QED BY <1>1, InvHolds, AnchorInvHolds, CheckedAlways, PTL DEF Spec, AcceptedIsReadable
=============================================================================
