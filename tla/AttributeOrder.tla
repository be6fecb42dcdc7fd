--------------------------- MODULE AttributeOrder ---------------------------
(***************************************************************************)
(* The visual order of the attributes of one resource type: the bindings   *)
(* (resource_attributes) of the type and of its family, the saved order    *)
(* (resource_type_attribute_orders and its items), clients that read it    *)
(* and replace it, and the catalog writer that changes bindings meanwhile. *)
(*                                                                         *)
(* A replacement is one READ COMMITTED transaction: lock the type's row    *)
(* FOR UPDATE, lock the structural tables IN SHARE MODE, read, compare the *)
(* client's order revision with the one read, store, commit. The catalog   *)
(* writer holds ROW EXCLUSIVE on resource_attributes from its statement to *)
(* its end, and the foreign key of a type-level binding asks for the       *)
(* type's row FOR KEY SHARE. Who holds what follows from where a request   *)
(* is, so there is no variable for locks.                                  *)
(*                                                                         *)
(* The order revision is a hash of the state it names and stands for it:   *)
(* it is that state here. Codes of classes, families and types are fixed.  *)
(***************************************************************************)
EXTENDS Naturals, FiniteSets, Sequences, SequencesExt

CONSTANTS
  Requests,          \* concurrent clients of the order
  Characteristics,   \* characteristic codes
  BindingIds,        \* ids of resource_attributes, in the order of its sequence
  FirstBindings,     \* the bindings the migrations leave
  NewKeys,           \* the keys the catalog writer adds,
  Edited,            \* the bindings it edits or deletes,
  Presented,         \* and the characteristics it gives a position
  MaxHead,           \* bound: replacements that are stored
  MaxChanges,        \* bound: catalog changes
  None

Keys == {"FAMILY", "TYPE"} \X Characteristics

Row == [key : Keys, active : BOOLEAN, revision : Nat \ {0}]

VARIABLES
  bindings,   \* resource_attributes of the type and its family
  used,       \* ids given out
  positions,  \* characteristics with a presentation position, in their order
  head,       \* revision of resource_type_attribute_orders, 0 for no row
  saved,      \* its items: binding ids by position
  changing,   \* "none", or how far the catalog writer's transaction is
  change,     \* what that transaction does
  changes,    \* catalog changes so far
  at,         \* where each request is
  seen,       \* the order its client read last
  wanted,     \* the keys it wants
  plan,       \* the binding ids its transaction stored
  answered,   \* the answer given in the last step, None if none was
  won         \* order revisions with which a replacement was accepted

catalogVars == <<bindings, used, positions, changing, change, changes>>
orderVars   == <<head, saved, won>>
requestVars == <<at, seen, wanted, plan>>
orderAllVars == <<catalogVars, orderVars, requestVars, answered>>

NoChange == [op |-> "none"]

Present == {id \in BindingIds : bindings[id] # None}

ASSUME OrderAssumption ==
  /\ BindingIds \subseteq Nat
  /\ FirstBindings \in [BindingIds -> Row \cup {None}]
  /\ IsFiniteSet({id \in BindingIds : FirstBindings[id] # None})
  /\ None \notin Row
  /\ NewKeys \subseteq Keys /\ Edited \subseteq BindingIds
  /\ Presented \subseteq Characteristics
  /\ None \notin Requests \X {"200", "400", "409", "422", "500", "503", "closed"}
  /\ MaxHead \in Nat /\ MaxChanges \in Nat

OrderInit ==
  /\ bindings = FirstBindings
  /\ used = {id \in BindingIds : FirstBindings[id] # None}
  /\ positions = <<>>
  /\ head = 0 /\ saved = <<>> /\ won = {}
  /\ changing = "none" /\ change = NoChange /\ changes = 0
  /\ at = [r \in Requests |-> "idle"] /\ seen = [r \in Requests |-> None]
  /\ wanted = [r \in Requests |-> <<>>] /\ plan = [r \in Requests |-> <<>>]
  /\ answered = None

-----------------------------------------------------------------------------
(***************************************************************************)
(* The order a read resolves. EffectiveAttributesFor gives the baseline:   *)
(* attributes with a presentation position first, by position, then the    *)
(* family's and the type's as they were declared.                          *)
(***************************************************************************)
Place(id) ==
  LET char == bindings[id].key[2] IN
  IF char \in Range(positions)
  THEN <<0, CHOOSE i \in DOMAIN positions : positions[i] = char,
         IF bindings[id].key[1] = "FAMILY" THEN 0 ELSE 1, id>>
  ELSE <<1, 0, IF bindings[id].key[1] = "FAMILY" THEN 0 ELSE 1, id>>

Before(p, q) ==
  \E n \in 1 .. 4 : p[n] < q[n] /\ \A m \in 1 .. n - 1 : p[m] = q[m]

\* The members of S as R orders them: each has the place that the number of
\* those before it gives.
InOrder(S, R) ==
  [n \in 1 .. Cardinality(S) |->
     CHOOSE x \in S : Cardinality({y \in S : <<y, x>> \in R}) = n - 1]

Ascending == {p \in Nat \X Nat : p[1] < p[2]}

\* The members of ids that are in T, in their order.
Only(ids, T) ==
  LET places == InOrder({i \in DOMAIN ids : ids[i] \in T}, Ascending)
  IN  [n \in DOMAIN places |-> ids[places[n]]]

Baseline ==
  InOrder(Present, {p \in Present \X Present : Before(Place(p[1]), Place(p[2]))})

\* Mutant: the baseline comes first and the saved order is ignored.
BaselineOnly(items) == Baseline

\* Saved bindings that still exist, in their saved order, then the others.
ResolveAttributeOrder(items) ==
  LET kept == Only(items, Present) IN
  kept \o Only(Baseline, Present \ Range(kept))

OrderedKeys(ids) == [i \in DOMAIN ids |-> bindings[ids[i]].key]

\* OrderRevision: the head with every member, its incarnation and revision.
OrderRevision ==
  LET ids == ResolveAttributeOrder(saved) IN
  [head |-> head,
   members |-> [i \in DOMAIN ids |-> [id |-> ids[i], key |-> bindings[ids[i]].key,
                                      revision |-> bindings[ids[i]].revision]]]

Snapshot == [revision |-> OrderRevision, keys |-> OrderedKeys(ResolveAttributeOrder(saved))]

\* A REPEATABLE READ transaction: every statement reads one snapshot.
ReadAttributeOrder(r) ==
  /\ at[r] = "idle"
  /\ seen' = [seen EXCEPT ![r] = Snapshot]
  /\ answered' = None /\ UNCHANGED <<catalogVars, orderVars, at, wanted, plan>>

-----------------------------------------------------------------------------
(***************************************************************************)
(* A replacement of the order.                                             *)
(***************************************************************************)
Going(r, stage) == at' = [at EXCEPT ![r] = stage]

\* The request ends; an open transaction is rolled back by the deferred call.
\* A client with an answer reads again before its next replacement, one left
\* in doubt may retry with what it has.
Answer(r, status) ==
  /\ at' = [at EXCEPT ![r] = "idle"] /\ answered' = <<r, status>>
  /\ seen' = IF status \in {"503", "closed"} THEN seen ELSE [seen EXCEPT ![r] = None]
  /\ wanted' = [wanted EXCEPT ![r] = <<>>] /\ plan' = [plan EXCEPT ![r] = <<>>]

\* core.Map: the category of an error, and the status the API gives it.
CodeOf ==
  [ErrInvalidArgument |-> "invalid_argument",
   ErrAttributeOrderRevisionConflict |-> "conflict",
   ErrResourceValidation |-> "validation",
   ErrAttributeOrderUnavailable |-> "unavailable",
   deadlock |-> "internal"]

StatusOf ==
  [invalid_argument |-> "400", conflict |-> "409", validation |-> "422",
   unavailable |-> "503", internal |-> "500"]

Refuse(r, err) ==
  /\ Answer(r, StatusOf[CodeOf[err]])
  /\ UNCHANGED <<catalogVars, orderVars>>

\* PUT with the revision the client read; an empty list ends in the handler.
\* MaxHead bounds the replacements, not the replays of a spent revision.
WriteAttributeOrder(r, keys) ==
  /\ at[r] = "idle" /\ seen[r] # None
  /\ head < MaxHead \/ seen[r].revision.head # head
  /\ IF keys = <<>> THEN Refuse(r, "ErrInvalidArgument")
     ELSE /\ Going(r, "begun") /\ wanted' = [wanted EXCEPT ![r] = keys]
          /\ answered' = None /\ UNCHANGED <<catalogVars, orderVars, seen, plan>>

HoldsType(r)   == at[r] \in {"typed", "tabled", "written"}
HoldsTables(r) == at[r] \in {"tabled", "written"}
Changing == changing \in {"rowed", "keyed"}

TypeIsFree == changing # "keyed" /\ \A q \in Requests : ~HoldsType(q)

\* SELECT ... FOR UPDATE OF t.
LockType(r) ==
  /\ at[r] = "begun" /\ TypeIsFree /\ Going(r, "typed")
  /\ answered' = None /\ UNCHANGED <<catalogVars, orderVars, seen, wanted, plan>>

\* Mutant: the structural tables are not locked.
ReadWithoutLocking(r) ==
  /\ at[r] = "typed" /\ Going(r, "tabled")
  /\ answered' = None /\ UNCHANGED <<catalogVars, orderVars, seen, wanted, plan>>

\* LOCK TABLE ... IN SHARE MODE.
LockStructural(r) ==
  /\ at[r] = "typed" /\ ~Changing /\ Going(r, "tabled")
  /\ answered' = None /\ UNCHANGED <<catalogVars, orderVars, seen, wanted, plan>>

\* ValidatePermutation.
IsPermutation(keys, of) ==
  Len(keys) = Len(of) /\ Range(keys) = Range(of)

\* Mutant: a stale revision passes if it names the same keys.
ComparesKeys(r) == seen[r].keys = Snapshot.keys

RevisionMatches(r) == seen[r].revision = OrderRevision

IdsOf(keys) ==
  [i \in DOMAIN keys |-> CHOOSE id \in Present : bindings[id].key = keys[i]]

\* planAttributeOrderWrite, then the items are replaced, the head is bumped
\* and the order is read again and compared, all inside the transaction.
ReplaceItems(r) ==
  /\ at[r] = "tabled"
  /\ \/ ~RevisionMatches(r) /\ Refuse(r, "ErrAttributeOrderRevisionConflict")
     \/ /\ RevisionMatches(r) /\ ~IsPermutation(wanted[r], Snapshot.keys)
        /\ Refuse(r, "ErrResourceValidation")
     \/ /\ RevisionMatches(r) /\ IsPermutation(wanted[r], Snapshot.keys)
        /\ OrderedKeys(ResolveAttributeOrder(IdsOf(wanted[r]))) = wanted[r]
        /\ plan' = [plan EXCEPT ![r] = IdsOf(wanted[r])] /\ Going(r, "written")
        /\ answered' = None /\ UNCHANGED <<catalogVars, orderVars, seen, wanted>>

\* Mutant: a replacement that changes nothing leaves the head alone.
BumpIfChanged(r) == IF plan[r] = ResolveAttributeOrder(saved) THEN head ELSE head + 1

BumpHead(r) == head + 1

TakeEffect(r) ==
  /\ saved' = plan[r] /\ head' = BumpHead(r)
  /\ won' = won \cup {seen[r].revision}
  /\ UNCHANGED catalogVars

\* The answer reaches the client, or its connection is gone by then.
CommitOrder(r) ==
  /\ at[r] = "written" /\ TakeEffect(r)
  /\ \E status \in {"200", "closed"} : Answer(r, status)

\* Mutant: a failed commit is taken for a refusal.
FailureIsConflict == "ErrAttributeOrderRevisionConflict"

classifyAttributeOrderCommitFailure == "ErrAttributeOrderUnavailable"

\* The commit call fails and the write took place or it did not.
CommitUnanswered(r) ==
  /\ at[r] = "written"
  /\ \/ TakeEffect(r) /\ Answer(r, StatusOf[CodeOf[classifyAttributeOrderCommitFailure]])
     \/ Refuse(r, classifyAttributeOrderCommitFailure)

\* The client goes away or a statement fails before the commit is sent.
AbandonOrder(r) ==
  /\ at[r] # "idle"
  /\ Answer(r, "closed") /\ UNCHANGED <<catalogVars, orderVars>>

-----------------------------------------------------------------------------
(***************************************************************************)
(* The catalog writer: one transaction at a time. Its statement takes its  *)
(* table, its foreign key check the type's row; deleted bindings take      *)
(* their order items along.                                                *)
(***************************************************************************)
Insertable(key) == \A id \in Present : bindings[id].key # key

Changes ==
  {[op |-> "insert", id |-> id, key |-> key] :
     id \in {i \in BindingIds \ used : \A j \in BindingIds \ used : i <= j},
     key \in {k \in NewKeys : Insertable(k)}}
  \cup {[op |-> "update", id |-> id] : id \in Present \cap Edited}
  \cup {[op |-> "delete", id |-> id] : id \in {i \in Present \cap Edited : ~bindings[i].active}}

\* The statement waits while a replacement holds the tables.
ChangeBinding(c) ==
  /\ changing = "none" /\ changes < MaxChanges
  /\ c \in Changes
  /\ \A r \in Requests : ~HoldsTables(r)
  /\ changing' = "rowed" /\ change' = c /\ changes' = changes + 1
  /\ used' = IF c.op = "insert" THEN used \cup {c.id} ELSE used
  /\ answered' = None /\ UNCHANGED <<bindings, positions, orderVars, requestVars>>

NeedsType == change.op = "insert" /\ change.key[1] = "TYPE"

CheckForeignKey ==
  /\ changing = "rowed" /\ NeedsType
  /\ \A r \in Requests : ~HoldsType(r)
  /\ changing' = "keyed"
  /\ answered' = None /\ UNCHANGED <<bindings, used, positions, change, changes, orderVars, requestVars>>

EndChange == changing' = "none" /\ change' = NoChange

\* The row an edit leaves.
Edit(row) == [key |-> row.key, active |-> ~row.active, revision |-> row.revision + 1]

\* What the change leaves of its row.
ChangedRow ==
  CASE change.op = "insert" -> [key |-> change.key, active |-> TRUE, revision |-> 1]
    [] change.op = "delete" -> None
    [] OTHER -> Edit(bindings[change.id])

CommitChange ==
  /\ changing = IF NeedsType THEN "keyed" ELSE "rowed"
  /\ bindings' = [bindings EXCEPT ![change.id] = ChangedRow]
  /\ saved' = IF change.op = "delete"
              THEN Only(saved, BindingIds \ {change.id}) ELSE saved
  /\ EndChange
  /\ answered' = None /\ UNCHANGED <<used, positions, changes, head, won, requestVars>>

AbandonChange ==
  /\ Changing /\ EndChange
  /\ answered' = None /\ UNCHANGED <<bindings, used, positions, changes, orderVars, requestVars>>

\* A presentation field is added or removed: none of the locked tables.
ChangePresentation ==
  /\ changing = "none" /\ changes < MaxChanges
  /\ changes' = changes + 1
  /\ \/ \E c \in Presented \ Range(positions) : positions' = Append(positions, c)
     \/ positions # <<>> /\ positions' = Tail(positions)
  /\ answered' = None /\ UNCHANGED <<bindings, used, changing, change, orderVars, requestVars>>

\* r waits for the tables, and the writer for the type's row that r holds:
\* PostgreSQL aborts one of the two.
Deadlocked(r) == at[r] = "typed" /\ changing = "rowed" /\ NeedsType

DeadlockVictim(r) ==
  /\ Deadlocked(r)
  /\ \/ Refuse(r, "deadlock")
     \/ AbandonChange

-----------------------------------------------------------------------------
\* What clients send: the keys they read as they are or in reverse, fewer of
\* them, or none.
Orders(r) ==
  IF seen[r] = None THEN {}
  ELSE {seen[r].keys, Reverse(seen[r].keys), SubSeq(seen[r].keys, 2, Len(seen[r].keys)), <<>>}

Request(r) == ReadAttributeOrder(r) \/ \E keys \in Orders(r) : WriteAttributeOrder(r, keys)

Serve(r) ==
  LockType(r) \/ LockStructural(r) \/ ReplaceItems(r) \/ CommitOrder(r) \/ CommitUnanswered(r)

CatalogStep == CheckForeignKey \/ CommitChange

-----------------------------------------------------------------------------
OrderTypeOK ==
  /\ bindings \in [BindingIds -> Row \cup {None}] /\ used \subseteq BindingIds
  /\ positions \in Seq(Characteristics) /\ head \in 0 .. MaxHead
  /\ saved \in Seq(BindingIds)
  /\ changing \in {"none", "rowed", "keyed"} /\ changes \in 0 .. MaxChanges
  /\ at \in [Requests -> {"idle", "begun", "typed", "tabled", "written"}]
  /\ answered \in {None} \cup (Requests \X ({"200", "closed"} \cup Range(StatusOf)))

\* An order revision has one winner: once a replacement was accepted with it,
\* nothing that clients or the catalog writer do makes it current again, so
\* a replay after an unanswered commit is refused ("always bump the head
\* revision for an accepted write - including a no-op reorder - so the same
\* token has exactly one winner").
SpentRevisionsStaySpent == OrderRevision \notin won

\* The replacement of r takes effect in a step.
Applies(r) == at[r] = "written" /\ at'[r] # "written" /\ head' # head

\* An accepted replacement is the order that reads show from its commit on,
\* and its client had seen every binding it orders: no binding appeared or
\* went between the client's read and the commit (the SHARE lock held from
\* the comparison to the commit).
AcceptedOrderIsRead ==
  [][\A r \in Requests : Applies(r) =>
       /\ OrderedKeys(ResolveAttributeOrder(saved))' = wanted[r]
       /\ {m.id : m \in Range(seen[r].revision.members)} = Present']_orderAllVars

\* Catalog changes never reorder what the user ordered: bindings that stay
\* keep their order among themselves, whatever is added, deleted or given a
\* position, and only a replacement changes it.
SurvivorsKeepTheirOrder ==
  [][head' = head =>
       LET old == Only(ResolveAttributeOrder(saved), Range(saved))
           new == ResolveAttributeOrder(saved)'
       IN  \A i, j \in DOMAIN old : i < j /\ {old[i], old[j]} \subseteq Present' =>
             \E m, n \in DOMAIN new : m < n /\ new[m] = old[i] /\ new[n] = old[j]
    ]_orderAllVars

\* A client told 200 has its order stored, one told that it was refused has
\* nothing stored; only 503 and a closed connection leave it in doubt
\* (classifyAttributeOrderCommitFailure).
RepliesTellTruth ==
  [][\A r \in Requests : answered' # answered \/ at' # at =>
       /\ answered' = <<r, "200">> => Applies(r)
       /\ answered' \in {<<r, status>> : status \in {"400", "409", "422", "500"}} => ~Applies(r)
    ]_orderAllVars
=============================================================================
