------------------------- MODULE PurchaseLineProofs -------------------------
(***************************************************************************)
(* What PurchaseResolution guarantees about purchase lines, and that its   *)
(* transactions never deadlock, for any sessions, products, lines and      *)
(* resources. Everything rests on the session invariant proved in          *)
(* PurchaseResolutionProofs.                                               *)
(***************************************************************************)
EXTENDS PurchaseResolutionProofs, WellFoundedInduction

\* One override decision about line l, as the tables show it: a real change,
\* one revision and one audit entry.
Overrules(l, o) ==
  /\ o # override[l]
  /\ override' = [override EXCEPT ![l] = o]
  /\ resolutionRevision' = [resolutionRevision EXCEPT ![l] = @ + 1]
  /\ resolutionAudit' = [resolutionAudit EXCEPT ![l] = Append(@,
       [previous |-> override[l], next |-> o,
        previousRevision |-> resolutionRevision[l],
        newRevision |-> resolutionRevision[l] + 1])]

overrideTables == <<override, resolutionRevision, resolutionAudit>>

\* A commit either leaves the overrides alone or decides one of them, on the
\* line its transaction has locked (SetResolutionOverride).
LEMMA CommitOverrules ==
  ASSUME SessionInv, NEW s \in Sessions, Commits(s)
  PROVE  \/ UNCHANGED overrideTables
         \/ \E l \in Lines, o \in Overrides : Overrules(l, o)
<1> USE DEF SessionInv
<1>1. /\ pc[s] = "decide" /\ Persist(s) /\ WellFormed(cmd[s])
      /\ cmd[s] \in Request
  BY DEF Commits, Ready, RequestsWellFormed, WellFormed
<1>2. CASE ~(cmd[s].op = "SET_RESOLUTION_OVERRIDE" /\ Verdict(s) = "changed")
  BY <1>1, <1>2 DEF Persist, overrideTables
<1>3. CASE cmd[s].op = "SET_RESOLUTION_OVERRIDE" /\ Verdict(s) = "changed"
  <2> DEFINE l == cmd[s].line
             o == cmd[s].override
  <2>1. l \in Lines /\ o \in Overrides
    BY <1>1, <1>3 DEF WellFormed, Request, LineOperations
  <2>2. /\ seen[s].override = override[l]
        /\ seen[s].lineRevision = resolutionRevision[l]
    BY <1>1, <1>3 DEF SnapshotsAreCurrent, HoldsLine, LineOperations
  <2>3. DomainVerdict(s) = "changed"
    BY <1>3 DEF Verdict
  <2>4. seen[s].override # o
    BY <1>3, <2>3 DEF DomainVerdict, ChangeResolutionOverride
  <2>5. /\ override' = [override EXCEPT ![l] = o]
        /\ resolutionRevision' =
             [resolutionRevision EXCEPT ![l] = seen[s].lineRevision + 1]
        /\ resolutionAudit' = [resolutionAudit EXCEPT ![l] = Append(@,
             [previous |-> seen[s].override, next |-> o,
              previousRevision |-> seen[s].lineRevision,
              newRevision |-> seen[s].lineRevision + 1])]
    BY <1>1, <1>3 DEF Persist, WriteOverride
  <2> HIDE DEF l, o
  <2>6. Overrules(l, o)
    BY <2>2, <2>4, <2>5 DEF Overrules
  <2>7. QED
    BY <2>1, <2>6
<1>4. QED
  BY <1>2, <1>3

\* Every step is one override decision or leaves the overrides alone.
LEMMA StepOverrules ==
  ASSUME SessionInv, [Next]_vars
  PROVE  \/ UNCHANGED overrideTables
         \/ \E l \in Lines, o \in Overrides : Overrules(l, o)
<1> USE DEF overrideTables
<1>1. CASE UNCHANGED vars
  BY <1>1 DEF vars, lineVars
<1>2. CASE Neighbours
  BY <1>2 DEF Neighbours, ImportPlainLine, ImportSkuLine, CreateResource,
     DeactivateResource, ReactivateResource, SetResource, lineVars
<1>3. ASSUME NEW s \in Sessions,
             \/ Enters(s) \/ Ends(s)
             \/ LockLine(s) \/ LockProduct(s) \/ LockResource(s)
      PROVE  UNCHANGED overrideTables
  BY <1>3 DEF Enters, Begin, Ends, Refuse, LockLine, LockProduct, LockResource,
     lineVars
<1>4. QED
  BY <1>1, <1>2, <1>3, StepCases, CommitOverrules

\* The override trail of a line explains its current override, on top of the
\* session invariant.
LEMMA OverrideAuditStep ==
  SessionInv /\ AuditReplaysOverride /\ [Next]_vars => AuditReplaysOverride'
<1> SUFFICES ASSUME SessionInv, AuditReplaysOverride, [Next]_vars
             PROVE  AuditReplaysOverride'
  OBVIOUS
<1>1. CASE UNCHANGED overrideTables
  BY <1>1 DEF overrideTables, AuditReplaysOverride
<1>2. ASSUME NEW l \in Lines, NEW o \in Overrides, Overrules(l, o)
      PROVE  AuditReplaysOverride'
  <2> DEFINE entry == [previous |-> override[l], next |-> o,
                       previousRevision |-> resolutionRevision[l],
                       newRevision |-> resolutionRevision[l] + 1]
  <2>1. /\ override \in [Lines -> Overrides]
        /\ resolutionRevision \in [Lines -> Nat]
        /\ resolutionAudit \in [Lines -> Seq(ResolutionAuditEntry)]
    BY DEF SessionInv, TypeOK
  <2>2. entry \in ResolutionAuditEntry
    BY <2>1 DEF ResolutionAuditEntry
  <2>3. /\ entry.next = o /\ entry.previous = override[l]
        /\ entry.previousRevision = resolutionRevision[l]
        /\ entry.newRevision = resolutionRevision[l] + 1
    OBVIOUS
  <2>4. /\ o # override[l]
        /\ override' = [override EXCEPT ![l] = o]
        /\ resolutionRevision' = [resolutionRevision EXCEPT ![l] = @ + 1]
        /\ resolutionAudit' = [resolutionAudit EXCEPT ![l] = Append(@, entry)]
    BY <1>2 DEF Overrules
  <2> HIDE DEF entry
  <2> SUFFICES ASSUME NEW x \in Lines
               PROVE  AuditReplaysOverride!(x)'
    BY DEF AuditReplaysOverride
  <2>5. CASE x # l
    BY <2>1, <2>4, <2>5 DEF AuditReplaysOverride
  <2>6. CASE x = l
    <3> DEFINE a == resolutionAudit[l]
               b == resolutionAudit'[l]
    <3>1. /\ b = Append(a, entry) /\ Len(b) = Len(a) + 1 /\ Len(a) \in Nat
          /\ b[Len(b)] = entry
          /\ \A i \in 1 .. Len(a) : b[i] = a[i]
          /\ b # <<>>
      <4>1. a \in Seq(ResolutionAuditEntry) /\ b = Append(a, entry)
        BY <2>1, <2>4
      <4>2. QED
        BY <2>2, <4>1, AppendFacts
    <3>2. /\ resolutionRevision[l] = Len(a)
          /\ override[l] = IF a = <<>> THEN "NONE" ELSE a[Len(a)].next
          /\ \A i \in 1 .. Len(a) :
               /\ a[i].previousRevision = i - 1
               /\ a[i].newRevision = i
               /\ a[i].previous = IF i = 1 THEN "NONE" ELSE a[i - 1].next
               /\ a[i].previous # a[i].next
      BY DEF AuditReplaysOverride
    <3>3. a = <<>> <=> Len(a) = 0
      BY <2>1
    <3>4. resolutionRevision'[l] = Len(b) /\ override'[l] = b[Len(b)].next
      BY <2>1, <2>3, <2>4, <3>1, <3>2
    <3> HIDE DEF a, b
    <3>5. ASSUME NEW i \in 1 .. Len(b)
          PROVE  /\ b[i].previousRevision = i - 1
                 /\ b[i].newRevision = i
                 /\ b[i].previous = IF i = 1 THEN "NONE" ELSE b[i - 1].next
                 /\ b[i].previous # b[i].next
      <4>1. CASE i \in 1 .. Len(a)
        BY <3>1, <3>2, <4>1
      <4>2. CASE i = Len(b)
        BY <2>3, <2>4, <3>1, <3>2, <3>3, <4>2
      <4>3. QED
        BY <3>1, <4>1, <4>2
    <3>6. QED
      BY <2>6, <3>1, <3>4, <3>5 DEF a, b
  <2>7. QED
    BY <2>5, <2>6
<1>3. QED
  BY <1>1, <1>2, StepOverrules

\* In every reachable state the resolution audit of a line replays to its
\* override and revision, and no entry records a non-change.
THEOREM OverrideAuditSafety == Spec => []AuditReplaysOverride
<1>1. Init => AuditReplaysOverride
  BY DEF Init, AuditReplaysOverride
<1>2. QED
  BY <1>1, OverrideAuditStep, SessionSafety, PTL DEF Spec

----------------------------------------------------------------------------
\* Line l gets the product p, one of its own supplier's: by its import, or
\* while it is a line without product and without override.
Links(l, p) ==
  /\ ProductSupplier[p] = LineSupplier[l]
  /\ l \in purchaseLines => association[l] = None /\ override[l] = "NONE"
  /\ purchaseLines' = purchaseLines \cup {l}
  /\ supplierProducts' = supplierProducts \cup {p}
  /\ association' = [association EXCEPT ![l] = p]

linkTables == <<supplierProducts, association>>

\* A commit links its own line, if any: the line was found without product and
\* without override, and has been locked since (ResolvePurchaseLine).
LEMMA CommitLinks ==
  ASSUME SessionInv, NEW s \in Sessions, Commits(s)
  PROVE  \/ UNCHANGED <<linkTables, purchaseLines>>
         \/ \E l \in Lines, p \in Products : Links(l, p)
<1> USE DEF SessionInv
<1>1. pc[s] = "decide" /\ Persist(s) /\ WellFormed(cmd[s])
  BY DEF Commits, Ready, RequestsWellFormed
<1>2. CASE ~cmd[s].fresh
  BY <1>1, <1>2 DEF Persist, linkTables
<1>3. CASE cmd[s].fresh
  <2> DEFINE l == cmd[s].line
             p == cmd[s].product
  <2>1. /\ cmd[s].op = "RESOLVE_PURCHASE_LINE"
        /\ l \in Lines /\ p \in Products
        /\ ProductSupplier[p] = LineSupplier[l]
    BY <1>1, <1>3 DEF WellFormed, LineOperations
  <2>2. /\ l \in purchaseLines /\ association[l] = None
        /\ override[l] = "NONE"
    BY <1>1, <1>3, <2>1 DEF SnapshotsAreCurrent, HoldsLine, LineOperations
  <2>3. /\ supplierProducts' = supplierProducts \cup {p}
        /\ association' = [association EXCEPT ![l] = p]
        /\ purchaseLines' = purchaseLines
    BY <1>1, <1>3 DEF Persist, Associate
  <2> HIDE DEF l, p
  <2>4. Links(l, p)
    BY <2>1, <2>2, <2>3 DEF Links
  <2>5. QED
    BY <2>1, <2>4
<1>4. QED
  BY <1>2, <1>3

\* Every step links one line, or at most adds a line without product.
LEMMA StepLinks ==
  ASSUME SessionInv, [Next]_vars
  PROVE  \/ UNCHANGED linkTables /\ purchaseLines \subseteq purchaseLines'
         \/ \E l \in Lines, p \in Products : Links(l, p)
<1> USE DEF linkTables
<1>1. CASE UNCHANGED vars
  BY <1>1 DEF vars, productVars, lineVars
<1>2. CASE Neighbours
  BY <1>2 DEF Neighbours, ImportPlainLine, ImportSkuLine, CreateResource,
     DeactivateResource, ReactivateResource, SetResource, productVars,
     lineVars, Links
<1>3. ASSUME NEW s \in Sessions,
             \/ Enters(s) \/ Ends(s)
             \/ LockLine(s) \/ LockProduct(s) \/ LockResource(s)
      PROVE  UNCHANGED <<linkTables, purchaseLines>>
  BY <1>3 DEF Enters, Begin, Ends, Refuse, LockLine, LockProduct, LockResource,
     productVars, lineVars
<1>4. QED
  BY <1>1, <1>2, <1>3, StepCases, CommitLinks

\* Products and lines belong together, on top of the session invariant: no
\* step takes the line of a product away.
LEMMA LinkStep ==
  SessionInv /\ ProductsHaveLines /\ [Next]_vars => ProductsHaveLines'
<1> SUFFICES ASSUME SessionInv, ProductsHaveLines, [Next]_vars
             PROVE  ProductsHaveLines'
  OBVIOUS
<1>1. /\ association \in [Lines -> Products \cup {None}]
      /\ purchaseLines \subseteq Lines /\ supplierProducts \subseteq Products
      /\ None \notin Products
  BY IdentifierAssumption DEF SessionInv, TypeOK
<1>2. CASE UNCHANGED linkTables /\ purchaseLines \subseteq purchaseLines'
  BY <1>2 DEF linkTables, ProductsHaveLines
<1>3. ASSUME NEW l \in Lines, NEW p \in Products, Links(l, p)
      PROVE  ProductsHaveLines'
  <2>1. /\ purchaseLines' = purchaseLines \cup {l}
        /\ supplierProducts' = supplierProducts \cup {p}
        /\ association' = [association EXCEPT ![l] = p]
        /\ ProductSupplier[p] = LineSupplier[l]
        /\ l \in purchaseLines => association[l] = None
    BY <1>3 DEF Links
  <2>2. ASSUME NEW q \in supplierProducts'
        PROVE  \E x \in purchaseLines' : association'[x] = q
    <3>1. CASE q = p
      BY <1>1, <2>1, <3>1
    <3>2. CASE q # p
      <4>1. PICK x \in purchaseLines : association[x] = q
        BY <2>1, <2>2, <3>2 DEF ProductsHaveLines
      <4>2. x # l
        BY <1>1, <2>1, <2>2, <3>2, <4>1
      <4>3. QED
        BY <1>1, <2>1, <4>1, <4>2
    <3>3. QED
      BY <3>1, <3>2
  <2>3. ASSUME NEW x \in Lines, association'[x] # None
        PROVE  /\ x \in purchaseLines'
               /\ association'[x] \in supplierProducts'
               /\ ProductSupplier[association'[x]] = LineSupplier[x]
    <3>1. CASE x = l
      BY <1>1, <2>1, <3>1
    <3>2. CASE x # l
      BY <1>1, <2>1, <2>3, <3>2 DEF ProductsHaveLines
    <3>3. QED
      BY <3>1, <3>2
  <2>4. QED
    BY <2>2, <2>3 DEF ProductsHaveLines
<1>4. QED
  BY <1>2, <1>3, StepLinks

\* Every product row has a line that uses it, and every linked line a product
\* row of its own supplier.
THEOREM LinkSafety == Spec => []ProductsHaveLines
<1>1. Init => ProductsHaveLines
  BY DEF Init, ProductsHaveLines
<1>2. QED
  BY <1>1, LinkStep, SessionSafety, PTL DEF Spec

\* Whatever commands race for a line, its product is decided once, and never
\* while the line has an override.
THEOREM LinksAreFinal == Spec => AssociationIsWriteOnce
<1>1. SessionInv /\ [Next]_vars =>
        [\A l \in purchaseLines :
           association'[l] # association[l] =>
             association[l] = None /\ override[l] = "NONE"]_vars
  <2> SUFFICES ASSUME SessionInv, [Next]_vars, NEW l \in purchaseLines,
                      association'[l] # association[l]
               PROVE  association[l] = None /\ override[l] = "NONE"
    OBVIOUS
  <2>1. PICK x \in Lines, p \in Products : Links(x, p)
    BY StepLinks DEF linkTables
  <2>2. association \in [Lines -> Products \cup {None}] /\ l \in Lines
    BY DEF SessionInv, TypeOK
  <2>3. x = l
    BY <2>1, <2>2 DEF Links
  <2>4. QED
    BY <2>1, <2>3 DEF Links
<1>2. QED
  BY <1>1, SessionSafety, PTL DEF Spec, AssociationIsWriteOnce

----------------------------------------------------------------------------
\* A client whose request is under way has no answer yet.
Unanswered == \A s \in Sessions : pc[s] # "idle" => reply[s] = "none"

\* Only the end of a session's own transaction answers its client.
LEMMA UnansweredStep == SessionInv /\ Unanswered /\ [Next]_vars => Unanswered'
<1> SUFFICES ASSUME SessionInv, Unanswered, [Next]_vars, NEW t \in Sessions
             PROVE  pc'[t] # "idle" => reply'[t] = "none"
  BY DEF Unanswered
<1>0. /\ pc \in [Sessions -> {"idle", "line", "product", "decide"}]
      /\ reply \in [Sessions -> Replies]
  BY DEF SessionInv, TypeOK
<1>1. CASE UNCHANGED vars
  BY <1>1 DEF vars, sessionVars, Unanswered
<1>2. CASE Neighbours
  BY <1>2 DEF Neighbours, ImportPlainLine, ImportSkuLine, CreateResource,
     DeactivateResource, ReactivateResource, SetResource, sessionVars,
     Unanswered
<1>3. ASSUME NEW s \in Sessions, Enters(s)
      PROVE  (reply'[t] = reply[t] /\ pc'[t] = pc[t]) \/ reply'[t] = "none"
  BY <1>0, <1>3 DEF Enters, Begin
<1>4. ASSUME NEW s \in Sessions, NEW a, Finish(s, a)
      PROVE  (reply'[t] = reply[t] /\ pc'[t] = pc[t]) \/ pc'[t] = "idle"
  BY <1>0, <1>4 DEF Finish
<1>5. ASSUME NEW s \in Sessions,
             LockLine(s) \/ LockProduct(s) \/ LockResource(s)
      PROVE  reply' = reply /\ (pc'[t] # "idle" => pc[t] # "idle")
  BY <1>0, <1>5 DEF LockLine, LockProduct, LockResource
<1>6. QED
  BY <1>1, <1>2, <1>3, <1>4, <1>5, StepCases
     DEF Ends, Refuse, Commits, Unanswered

\* The only step that answers a request with a disposition is the commit of
\* its own resolution of a line.
LEMMA DispositionMeansResolved ==
  ASSUME SessionInv, Unanswered, Next, NEW s \in Sessions, pc[s] # "idle",
         reply'[s] \in Dispositions
  PROVE  Commit(s) /\ cmd[s].op = "RESOLVE_PURCHASE_LINE"
<1>0. /\ reply \in [Sessions -> Replies] /\ reply[s] = "none"
      /\ "none" \notin Dispositions
      /\ "ErrCommitAmbiguous" \notin Dispositions
  BY DEF SessionInv, TypeOK, Unanswered, Dispositions
<1>1. ~Neighbours
  BY <1>0 DEF Neighbours, ImportPlainLine, ImportSkuLine, CreateResource,
     DeactivateResource, ReactivateResource, SetResource, sessionVars
<1>2. ASSUME NEW t \in Sessions, NewRequest(t)
      PROVE  FALSE
  <2>1. Enters(t)
    BY <1>2, RequestEnters
  <2>2. QED
    BY <1>0, <2>1 DEF Enters, Begin
<1>3. ASSUME NEW t \in Sessions, Ends(t)
      PROVE  FALSE
  BY <1>0, <1>3 DEF Ends, Refuse, Finish
<1>4. ASSUME NEW t \in Sessions, Serve(t) \/ Rollback(t)
      PROVE  Commit(t)
  <2>1. ~(LockLine(t) \/ LockProduct(t) \/ LockResource(t))
    BY <1>0 DEF LockLine, LockProduct, LockResource
  <2>2. ~CommitUnacknowledged(t)
    BY <1>0 DEF CommitUnacknowledged, Finish
  <2>3. QED
    BY <1>3, <1>4, <2>1, <2>2, RefusalEnds DEF Serve
<1>5. PICK t \in Sessions : Commit(t)
  BY <1>1, <1>2, <1>4 DEF Next
<1>6. t = s /\ reply'[s] = Answer(s)
  BY <1>0, <1>5 DEF Commit, Finish
<1>7. Verdict(s) \in {"changed", "unchanged"}
  BY <1>5, <1>6 DEF Commit, Ready, Accepted
<1>8. QED
  BY <1>5, <1>6, <1>7 DEF Answer, Dispositions

\* A committed resolution confirms its target, which is active: either the
\* decision writes that mapping, or the locked product had it already.
LEMMA ResolutionConfirms ==
  ASSUME SessionInv, NEW s \in Sessions, Commit(s),
         cmd[s].op = "RESOLVE_PURCHASE_LINE"
  PROVE  /\ cmd[s].product \in Products /\ cmd[s].target \in Resources
         /\ mapping'[cmd[s].product] = Confirmed(cmd[s].target)
         /\ recursos'[cmd[s].target] = "active"
<1> USE DEF SessionInv
<1> DEFINE p == cmd[s].product
           r == cmd[s].target
<1>1. /\ pc[s] = "decide" /\ Persist(s) /\ WellFormed(cmd[s])
      /\ cmd[s] \in Request /\ Verdict(s) \in {"changed", "unchanged"}
  BY DEF Commit, Ready, Accepted, RequestsWellFormed, WellFormed
<1>2. p \in Products /\ r \in Resources
  BY <1>1 DEF WellFormed
<1>3. recursos'[r] = "active"
  <2>1. r \in seen[s].active
    BY <1>1 DEF Verdict, RequiresActiveTarget
  <2>2. QED
    BY <1>1, <2>1 DEF SnapshotsAreCurrent, Persist
<1>4. mapping'[p] = Confirmed(r)
  <2>1. CASE Verdict(s) = "changed"
    <3>1. mapping' = [mapping EXCEPT ![p] =
                        NextMapping(MappingOp(s), seen[s].mapping, cmd[s])]
      BY <1>1, <2>1 DEF Persist, WriteMapping
    <3>2. NextMapping(MappingOp(s), seen[s].mapping, cmd[s]) = Confirmed(r)
      BY DEF NextMapping, MappingOp
    <3>3. QED
      BY <1>2, <3>1, <3>2 DEF TypeOK
  <2>2. CASE Verdict(s) = "unchanged"
    <3>1. mapping' = mapping /\ seen[s].mapping = mapping[p]
      BY <1>1, <2>2 DEF Persist, SnapshotsAreCurrent, HoldsProduct
    <3>2. DomainVerdict(s) = "unchanged" /\ MappingOp(s) = "CONFIRM"
      BY <2>2 DEF Verdict, MappingOp
    <3>3. MappingRequest(s).target = r
      BY <1>1 DEF MappingRequest, Request
    <3> HIDE DEF r
    <3>4. ConfirmMapping(seen[s].mapping, seen[s].revision, MappingRequest(s))
            = "unchanged"
      BY <3>2 DEF DomainVerdict, MappingVerdict
    <3>5. seen[s].mapping = Confirmed(r)
      BY <3>3, <3>4 DEF ConfirmMapping, transition
    <3>6. QED
      BY <3>1, <3>5
  <2>3. QED
    BY <1>1, <2>1, <2>2
<1>5. QED
  BY <1>2, <1>3, <1>4

\* When a client is told that its line was resolved, the line is linked to the
\* product and the active resource it named, and it was the line of the
\* client's snapshot: stale commands are never reported as successes.
THEOREM ResolutionIsTruthful == Spec => ResolutionTellsTruth
<1> DEFINE Told(s, l) ==
             /\ pc[s] # "idle"
             /\ cmd[s].line = l
             /\ reply'[s] \in Dispositions
           True(s, l) ==
             /\ StatusOf(l)' = "VINCULADO"
             /\ association'[l] = cmd[s].product
             /\ mapping'[cmd[s].product].resource = cmd[s].target
             /\ resolutionRevision[l] = cmd[s].lineExpected
             /\ association[l] = IF cmd[s].fresh THEN None ELSE cmd[s].product
<1>1. SessionInv /\ Unanswered /\ [Next]_vars =>
        [\A s \in Sessions, l \in Lines : Told(s, l) => True(s, l)]_vars
  <2> SUFFICES ASSUME SessionInv, Unanswered, Next, NEW s \in Sessions,
                      NEW l \in Lines, Told(s, l)
               PROVE  True(s, l)
    OBVIOUS
  <2> USE DEF SessionInv
  <2>1. Commit(s) /\ cmd[s].op = "RESOLVE_PURCHASE_LINE"
    BY DispositionMeansResolved
  <2>2. /\ pc[s] = "decide" /\ Persist(s) /\ WellFormed(cmd[s])
    BY <2>1 DEF Commit, Ready, RequestsWellFormed
  <2>3. /\ override[l] = "NONE" /\ resolutionRevision[l] = cmd[s].lineExpected
        /\ association[l] = IF cmd[s].fresh THEN None ELSE cmd[s].product
    BY <2>1, <2>2 DEF SnapshotsAreCurrent, HoldsLine, LineOperations
  <2>4. association'[l] = cmd[s].product /\ override'[l] = "NONE"
    BY <2>1, <2>2, <2>3 DEF Persist, Associate, TypeOK
  <2>5. /\ cmd[s].product \in Products /\ cmd[s].target \in Resources
        /\ mapping'[cmd[s].product] = Confirmed(cmd[s].target)
        /\ recursos'[cmd[s].target] = "active"
    BY <2>1, ResolutionConfirms
  <2>6. MappingOf(l)' = Confirmed(cmd[s].target)
    BY <2>4, <2>5, IdentifierAssumption DEF MappingOf
  <2>7. ActiveOf(l)' = TRUE
    BY <2>5, <2>6 DEF ActiveOf, Confirmed
  <2>8. cmd[s].target # NoResource
    BY <2>5, IdentifierAssumption DEF NoResource
  <2>9. EffectiveLineStatus("NONE", Confirmed(cmd[s].target), TRUE)[1]
          = "VINCULADO"
    BY <2>8 DEF EffectiveLineStatus, State, KnowledgeState, Confirmed
  <2>10. StatusOf(l)' = "VINCULADO"
    BY <2>4, <2>6, <2>7, <2>9 DEF StatusOf
  <2>11. QED
    BY <2>3, <2>4, <2>5, <2>10 DEF Confirmed
<1>2. Init => Unanswered
  BY DEF Init, Unanswered
<1>3. QED
  BY <1>1, <1>2, UnansweredStep, SessionSafety, PTL
     DEF Spec, ResolutionTellsTruth

----------------------------------------------------------------------------
(***************************************************************************)
(* Freedom from deadlock. Among the transactions that decide, take one     *)
(* that waits for the largest resource: its holder locked that resource    *)
(* before any larger one it still wants, so it waits for a larger one or   *)
(* for nobody. There is a largest because in each state only finitely many *)
(* resources have ever been locked, which the bound n stands for.          *)
(***************************************************************************)

\* A transaction holds only resources below those it still wants.
LocksAscend ==
  \A s \in Sessions, r \in Resources :
    resourceLock[r] = s => \A q \in Wanted(s) : r < q

LocksAreBounded ==
  \E n \in Nat : \A r \in Resources : resourceLock[r] # Free => r <= n

\* A bounded set of numbers has a largest one.
LEMMA LargestOf ==
  ASSUME NEW S \in SUBSET Nat, S # {}, NEW n \in Nat, \A x \in S : x <= n
  PROVE  \E m \in S : \A x \in S : x <= m
<1> DEFINE T == {n - x : x \in S}
           R == OpToRel(<, Nat)
<1>1. T \subseteq Nat /\ T # {}
  <2>1. \A x \in S : n - x \in Nat
    OBVIOUS
  <2>2. PICK x \in S : TRUE
    OBVIOUS
  <2>3. n - x \in T
    BY <2>2
  <2>4. QED
    BY <2>1, <2>3
<1>2. IsWellFoundedOn(R, Nat)
  BY NatLessThanWellFounded
<1>3. \A x, y \in Nat : <<x, y>> \in R <=> x < y
  BY DEF OpToRel
<1> HIDE DEF T, R
<1>4. PICK y \in T : \A z \in T : <<z, y>> \notin R
  BY <1>1, <1>2, WFMin
<1>5. PICK m \in S : y = n - m
  BY DEF T
<1>6. ASSUME NEW x \in S
      PROVE  x <= m
  <2>1. n - x \in T
    BY DEF T
  <2>2. ~(n - x < n - m)
    BY <1>1, <1>3, <1>4, <1>5, <2>1
  <2>3. QED
    BY <2>2
<1>7. QED
  BY <1>5, <1>6

\* What a transaction locks are the resources its request names.
LEMMA WantedResources ==
  ASSUME SessionInv, NEW s \in Sessions, pc[s] # "idle"
  PROVE  ResourcesToLock(s) \subseteq Resources
<1>1. WellFormed(cmd[s]) /\ cmd[s] \in Request
  BY DEF SessionInv, RequestsWellFormed, WellFormed
<1>2. QED
  BY <1>1 DEF ResourcesToLock, WellFormed, Request, MappingOperations,
     LineOperations

\* A transaction that still holds a resource keeps its request, what it read of
\* its rows and the resources it holds, but for one it may just have locked.
LEMMA HoldersKeepTheirPlan ==
  ASSUME SessionInv, [Next]_vars, NEW t \in Sessions,
         \E r \in Resources : resourceLock'[r] = t
  PROVE  \/ /\ cmd'[t] = cmd[t] /\ seen'[t] = seen[t]
            /\ \A r \in Resources : resourceLock'[r] = t <=> resourceLock[r] = t
         \/ LockResource(t)
<1>0. /\ resourceLock \in [Resources -> Sessions \cup {Free}]
      /\ pc \in [Sessions -> {"idle", "line", "product", "decide"}]
      /\ seen \in [Sessions -> Snapshot]
      /\ cmd \in [Sessions -> Request \cup {None}]
      /\ \A r \in Resources : resourceLock[r] = t => pc[t] = "decide"
      /\ Free \notin Sessions
  BY IdentifierAssumption DEF SessionInv, TypeOK, LocksAreHeld
<1>1. CASE UNCHANGED vars
  BY <1>1 DEF vars, lockVars, sessionVars
<1>2. CASE Neighbours
  BY <1>2 DEF Neighbours, ImportPlainLine, ImportSkuLine, CreateResource,
     DeactivateResource, ReactivateResource, SetResource, sessionVars, lockVars
<1>3. ASSUME NEW s \in Sessions, Enters(s)
      PROVE  t # s /\ cmd'[t] = cmd[t] /\ seen' = seen /\ resourceLock' = resourceLock
  BY <1>0, <1>3 DEF Enters, Begin, lockVars
<1>4. ASSUME NEW s \in Sessions, NEW a, Finish(s, a)
      PROVE  /\ cmd'[t] = cmd[t] /\ seen'[t] = seen[t]
             /\ \A r \in Resources : resourceLock'[r] = t <=> resourceLock[r] = t
  <2>1. resourceLock' = [r \in Resources |->
                           IF resourceLock[r] = s THEN Free ELSE resourceLock[r]]
    BY <1>4 DEF Finish
  <2>2. t # s
    BY <1>0, <2>1
  <2>3. cmd'[t] = cmd[t] /\ seen'[t] = seen[t]
    BY <1>0, <1>4, <2>2 DEF Finish
  <2>4. QED
    BY <1>0, <2>1, <2>2, <2>3
<1>5. ASSUME NEW s \in Sessions, LockLine(s) \/ LockProduct(s)
      PROVE  cmd' = cmd /\ seen'[t] = seen[t] /\ resourceLock' = resourceLock
  <2>1. cmd' = cmd /\ resourceLock' = resourceLock /\ pc[s] # "decide"
    BY <1>5 DEF LockLine, LockProduct
  <2>2. t # s
    BY <1>0, <2>1
  <2>3. QED
    BY <1>0, <1>5, <2>1, <2>2 DEF LockLine, LockProduct
<1>6. ASSUME NEW s \in Sessions, LockResource(s), t # s
      PROVE  /\ cmd' = cmd /\ seen'[t] = seen[t]
             /\ \A r \in Resources : resourceLock'[r] = t <=> resourceLock[r] = t
  <2>1. PICK r \in Resources :
          /\ resourceLock[r] = Free
          /\ resourceLock' = [resourceLock EXCEPT ![r] = s]
          /\ cmd' = cmd
    BY <1>6 DEF LockResource
  <2>2. seen'[t] = seen[t]
    BY <1>0, <1>6 DEF LockResource
  <2>3. QED
    BY <1>0, <1>6, <2>1, <2>2
<1>7. QED
  BY <1>1, <1>2, <1>3, <1>4, <1>5, <1>6, StepCases DEF Ends, Refuse, Commits

\* Locking in ascending order keeps the locks of a transaction ascending.
LEMMA LocksAscendStep ==
  SessionInv /\ LocksAscend /\ [Next]_vars => LocksAscend'
<1> SUFFICES ASSUME SessionInv, LocksAscend, [Next]_vars, NEW t \in Sessions,
                    NEW r \in Resources, resourceLock'[r] = t
             PROVE  \A q \in Wanted(t)' : r < q
  BY DEF LocksAscend
<1>1. CASE /\ cmd'[t] = cmd[t] /\ seen'[t] = seen[t]
           /\ \A q \in Resources : resourceLock'[q] = t <=> resourceLock[q] = t
  <2>1. ResourcesToLock(t)' = ResourcesToLock(t)
    BY <1>1 DEF ResourcesToLock, DomainVerdict, MappingOp, MappingRequest
  <2>2. pc[t] # "idle" /\ resourceLock[r] = t
    BY <1>1 DEF SessionInv, LocksAreHeld
  <2>3. ResourcesToLock(t) \subseteq Resources
    BY <2>2, WantedResources
  <2>4. Wanted(t)' = Wanted(t)
    BY <1>1, <2>1, <2>3 DEF Wanted
  <2>5. QED
    BY <2>2, <2>4 DEF LocksAscend
<1>2. CASE LockResource(t)
  <2>1. PICK x \in Resources :
          /\ NextResource(t, x)
          /\ resourceLock' = [resourceLock EXCEPT ![x] = t]
          /\ seen' = IF recursos[x] = "active"
                     THEN [seen EXCEPT ![t] =
                             [seen[t] EXCEPT !.active = @ \cup {x}]]
                     ELSE seen
          /\ cmd' = cmd
    BY <1>2 DEF LockResource
  <2>2. /\ pc[t] = "decide" /\ x \in Wanted(t)
        /\ \A q \in Wanted(t) : x <= q
    BY <2>1 DEF NextResource
  <2>3. seen'[t].mapping = seen[t].mapping /\ seen'[t].revision = seen[t].revision
        /\ seen'[t].override = seen[t].override
        /\ seen'[t].lineRevision = seen[t].lineRevision
    BY <2>1 DEF SessionInv, TypeOK, Snapshot
  <2>4. ResourcesToLock(t)' = ResourcesToLock(t)
    BY <2>1, <2>3 DEF ResourcesToLock, DomainVerdict, MappingOp, MappingRequest
  <2>5. ResourcesToLock(t) \subseteq Resources /\ Resources \subseteq Nat
    BY <2>2, WantedResources, IdentifierAssumption
  <2>6. resourceLock \in [Resources -> Sessions \cup {Free}]
    BY DEF SessionInv, TypeOK
  <2>7. Wanted(t)' = Wanted(t) \ {x}
    BY <2>1, <2>4, <2>5, <2>6 DEF Wanted
  <2>8. CASE r = x
    <3>1. Wanted(t) \subseteq Nat /\ r \in Nat
      BY <2>5 DEF Wanted
    <3>2. QED
      BY <2>2, <2>7, <2>8, <3>1
  <2>9. CASE r # x
    BY <2>1, <2>6, <2>7, <2>9 DEF LocksAscend
  <2>10. QED
    BY <2>8, <2>9
<1>3. QED
  BY <1>1, <1>2, HoldersKeepTheirPlan

\* A step locks at most one more resource.
LEMMA LocksAreBoundedStep ==
  SessionInv /\ LocksAreBounded /\ [Next]_vars => LocksAreBounded'
<1> SUFFICES ASSUME SessionInv, [Next]_vars, NEW n \in Nat,
                    \A r \in Resources : resourceLock[r] # Free => r <= n
             PROVE  LocksAreBounded'
  BY DEF LocksAreBounded
<1>0. /\ resourceLock \in [Resources -> Sessions \cup {Free}]
      /\ Resources \subseteq Nat /\ Free \notin Sessions
  BY IdentifierAssumption DEF SessionInv, TypeOK
<1>1. CASE \A r \in Resources : resourceLock'[r] # Free => resourceLock[r] # Free
  BY <1>1 DEF LocksAreBounded
<1>2. CASE \E s \in Sessions : LockResource(s)
  <2>1. PICK s \in Sessions, x \in Resources :
          resourceLock' = [resourceLock EXCEPT ![x] = s]
    BY <1>2 DEF LockResource
  <2>2. n + x \in Nat
    BY <1>0
  <2>3. \A r \in Resources : resourceLock'[r] # Free => r <= n + x
    BY <1>0, <2>1
  <2>4. QED
    BY <2>2, <2>3 DEF LocksAreBounded
<1>3. ASSUME NEW s \in Sessions, NEW a, Finish(s, a)
      PROVE  \A r \in Resources : resourceLock'[r] # Free => resourceLock[r] # Free
  BY <1>0, <1>3 DEF Finish
<1>4. ASSUME NEW s \in Sessions, Enters(s) \/ LockLine(s) \/ LockProduct(s)
      PROVE  resourceLock' = resourceLock
  BY <1>4 DEF Enters, Begin, LockLine, LockProduct, lockVars
<1>5. ASSUME UNCHANGED vars \/ Neighbours
      PROVE  resourceLock' = resourceLock
  BY <1>5 DEF vars, Neighbours, ImportPlainLine, ImportSkuLine, CreateResource,
     DeactivateResource, ReactivateResource, SetResource, lockVars
<1>6. QED
  BY <1>1, <1>2, <1>3, <1>4, <1>5, StepCases DEF Ends, Refuse, Commits

\* Among transactions that decide, one waits for nobody.
LEMMA DecidersProceed ==
  ASSUME SessionInv, LocksAscend, LocksAreBounded,
         \E s \in Sessions : pc[s] = "decide"
  PROVE  \E s \in Sessions : pc[s] = "decide" /\ WaitsFor(s) = {}
<1> SUFFICES ASSUME \A s \in Sessions : pc[s] = "decide" => WaitsFor(s) # {}
             PROVE  FALSE
  OBVIOUS
<1> DEFINE Waits(s, r) == /\ NextResource(s, r)
                          /\ resourceLock[r] \in Sessions \ {s}
           W == {r \in Resources : \E s \in Sessions : Waits(s, r)}
<1>0. Resources \subseteq Nat /\ Free \notin Sessions
  BY IdentifierAssumption
<1>1. ASSUME NEW s \in Sessions, pc[s] = "decide"
      PROVE  \E r \in W : Waits(s, r)
  <2>1. PICK r \in Resources :
          NextResource(s, r) /\ resourceLock[r] \in Sessions \ {s}
    BY <1>1 DEF WaitsFor
  <2>2. QED
    BY <2>1
<1>2. W # {}
  BY <1>1
<1>3. PICK n \in Nat : \A r \in W : r <= n
  <2>1. PICK n \in Nat : \A r \in Resources : resourceLock[r] # Free => r <= n
    BY DEF LocksAreBounded
  <2>2. \A r \in W : r \in Resources /\ resourceLock[r] # Free
    BY <1>0
  <2>3. QED
    BY <2>1, <2>2
<1>4. PICK m \in W : \A r \in W : r <= m
  <2>1. W \in SUBSET Nat
    BY <1>0
  <2> HIDE DEF W
  <2>2. QED
    BY <1>2, <1>3, <2>1, LargestOf
<1>5. PICK s \in Sessions : Waits(s, m)
  BY <1>4
<1>6. PICK t \in Sessions : resourceLock[m] = t
  BY <1>5
<1>7. pc[t] = "decide"
  BY <1>4, <1>6 DEF SessionInv, LocksAreHeld
<1>8. PICK r \in W : Waits(t, r)
  BY <1>1, <1>7
<1>9. m < r
  BY <1>4, <1>6, <1>8 DEF LocksAscend, NextResource
<1>10. m \in Nat /\ r \in Nat /\ r <= m
  BY <1>0, <1>4, <1>8
<1>11. QED
  BY <1>9, <1>10

\* Transactions never wait for each other in a circle: the lock order (line,
\* product, resources by ascending id) always lets somebody go on.
THEOREM DeadlockFreedom == Spec => []NoDeadlock
<1>1. SessionInv /\ LocksAscend /\ LocksAreBounded => NoDeadlock
  <2> SUFFICES ASSUME SessionInv, LocksAscend, LocksAreBounded,
                      NEW s \in Sessions, pc[s] # "idle"
               PROVE  \E t \in Sessions : pc[t] # "idle" /\ WaitsFor(t) = {}
    BY DEF NoDeadlock
  <2>0. /\ pc \in [Sessions -> {"idle", "line", "product", "decide"}]
        /\ RequestsWellFormed /\ LocksAreHeld
    BY DEF SessionInv, TypeOK
  <2>1. CASE \E t \in Sessions : pc[t] = "decide"
    BY <2>1, DecidersProceed
  <2>2. CASE /\ \A t \in Sessions : pc[t] # "decide"
             /\ \E t \in Sessions : pc[t] = "product"
    <3>1. PICK t \in Sessions : pc[t] = "product"
      BY <2>2
    <3>2. cmd[t].product \in Products
      BY <2>0, <3>1 DEF RequestsWellFormed, WellFormed
    <3>3. \A u \in Sessions : productLock[cmd[t].product] # u
      BY <2>0, <2>2, <3>2 DEF LocksAreHeld, HoldsProduct
    <3>4. WaitsFor(t) = {}
      BY <3>1, <3>3 DEF WaitsFor, NextResource
    <3>5. QED
      BY <3>1, <3>4
  <2>3. CASE \A t \in Sessions : pc[t] \notin {"decide", "product"}
    <3>1. pc[s] = "line"
      BY <2>0, <2>3
    <3>2. cmd[s].line \in Lines
      BY <2>0, <3>1 DEF RequestsWellFormed, WellFormed
    <3>3. \A u \in Sessions : lineLock[cmd[s].line] # u
      BY <2>0, <2>3, <3>2 DEF LocksAreHeld, HoldsLine
    <3>4. WaitsFor(s) = {}
      BY <3>1, <3>3 DEF WaitsFor, NextResource
    <3>5. QED
      BY <3>4
  <2>4. QED
    BY <2>1, <2>2, <2>3
<1>2. Init => LocksAscend /\ LocksAreBounded
  BY IdentifierAssumption DEF Init, LocksAscend, LocksAreBounded
<1>3. QED
  BY <1>1, <1>2, LocksAscendStep, LocksAreBoundedStep, SessionSafety, PTL
     DEF Spec
============================================================================
