--------------------------- MODULE MappingLedger ---------------------------
(***************************************************************************)
(* What the purchases component promises about mapping knowledge, without  *)
(* transactions, locks or expected revisions: each SupplierProduct has a   *)
(* current knowledge and an append-only ledger, each decision is one       *)
(* atomic step along one of the five authorized transitions, and a target  *)
(* is learned only while it is an active resource.                         *)
(***************************************************************************)
EXTENDS SupplierProductMapping, Sequences

CONSTANTS Products, Resources

VARIABLES
  activity,   \* the state of each resource in Resource Master
  knowledge,  \* the current mapping of each product
  ledger      \* the decisions recorded about each product

ledgerVars == <<activity, knowledge, ledger>>

Mapping == [resource : Resources \cup {NoResource}, conflict : BOOLEAN]

Entry == [op : MappingOperations, previous : Mapping, next : Mapping,
          previousRevision : Nat, newRevision : Nat]

\* The edges of the knowledge state machine, each with the decision it needs.
Authorized(op, k, next) ==
  \/ op = "CONFIRM" /\ k = Unresolved /\ KnowledgeState(next) = "CONFIRMED"
  \/ /\ op = "CORRECT"
     /\ KnowledgeState(k) = "CONFIRMED"
     /\ KnowledgeState(next) = "CONFIRMED"
     /\ next # k
  \/ op = "EXCEPTIONAL_UNLINK" /\ KnowledgeState(k) = "CONFIRMED"
                               /\ next = Unresolved
  \/ /\ op = "REPORT_IDENTITY_CONFLICT"
     /\ KnowledgeState(k) = "CONFIRMED"
     /\ next = [k EXCEPT !.conflict = TRUE]
  \/ /\ op = "RESOLVE_IDENTITY_CONFLICT"
     /\ KnowledgeState(k) = "IDENTITY_CONFLICT"
     /\ KnowledgeState(next) = "CONFIRMED"

LedgerInit ==
  /\ activity \in [Resources -> {"absent", "active", "inactive"}]
  /\ knowledge = [p \in Products |-> Unresolved]
  /\ ledger = [p \in Products |-> <<>>]

Decide(p, op, next) ==
  /\ knowledge' = [knowledge EXCEPT ![p] = next]
  /\ Authorized(op, knowledge[p], next)
  /\ KnowledgeState(next) = "CONFIRMED" => activity[next.resource] = "active"
  /\ ledger' = [ledger EXCEPT ![p] = Append(@,
       [op |-> op, previous |-> knowledge[p], next |-> next,
        previousRevision |-> Len(ledger[p]),
        newRevision |-> Len(ledger[p]) + 1])]
  /\ UNCHANGED activity

\* Resource Master never removes a resource; it only toggles its activity.
ResourceMaster ==
  /\ activity' \in [Resources -> {"absent", "active", "inactive"}]
  /\ \A r \in Resources : activity[r] # "absent" => activity'[r] # "absent"
  /\ UNCHANGED <<knowledge, ledger>>

LedgerNext ==
  \/ \E p \in Products, op \in MappingOperations, next \in Mapping :
        Decide(p, op, next)
  \/ ResourceMaster

LedgerSpec == LedgerInit /\ [][LedgerNext]_ledgerVars
============================================================================
