---------------------- MODULE PurchaseResolutionProofs ----------------------
(***************************************************************************)
(* Safety of PurchaseResolution for any sessions, products, lines and      *)
(* resources.                                                              *)
(***************************************************************************)
EXTENDS PurchaseResolution, TLAPS

\* A request enters a session well formed and at the stage it starts from.
Enters(s) ==
  \E q \in Request, first \in {"line", "product"} :
    /\ Begin(s, q, first)
    /\ WellFormed(q)
    /\ first = "line" => q.op \in LineOperations
    /\ first = "product" => q.op \in MappingOperations

\* Whatever a client asks for enters the system as one well-formed request
\* (the checks of purchasecore.Writer and of the application service).
LEMMA RequestEnters ==
  ASSUME NEW s \in Sessions, NewRequest(s)
  PROVE  Enters(s)
<1>0. Revisions \subseteq Nat /\ Reasons \subseteq BOOLEAN
  BY IdentifierAssumption DEF Revisions
<1>1. CASE RequestConfirm(s)
  <2> DEFINE q(p, r, e) ==
        [BlankRequest EXCEPT !.op = "CONFIRM", !.product = p, !.target = r,
                     !.expected = e]
  <2>1. PICK p \in Products, r \in Resources, e \in Revisions :
          Begin(s, q(p, r, e), "product")
    BY <1>1 DEF RequestConfirm
  <2>2. WellFormed(q(p, r, e)) /\ q(p, r, e).op \in MappingOperations
    BY <1>0, <2>1 DEF BlankRequest, Request, WellFormed, MappingOperations,
       LineOperations, Overrides
  <2> HIDE DEF q
  <2>3. QED
    BY <2>1, <2>2 DEF Enters, WellFormed
<1>2. CASE RequestCorrect(s)
  <2> DEFINE q(p, c, r, e, why) ==
        [BlankRequest EXCEPT !.op = "CORRECT", !.product = p, !.current = c,
                     !.target = r, !.expected = e, !.reason = why]
  <2>1. PICK p \in Products, c \in Resources, r \in Resources, e \in
             Revisions, why \in Reasons :
          Begin(s, q(p, c, r, e, why), "product")
    BY <1>2 DEF RequestCorrect
  <2>2. WellFormed(q(p, c, r, e, why)) /\ q(p, c, r, e, why).op \in MappingOperations
    BY <1>0, <2>1 DEF BlankRequest, Request, WellFormed, MappingOperations,
       LineOperations, Overrides
  <2> HIDE DEF q
  <2>3. QED
    BY <2>1, <2>2 DEF Enters, WellFormed
<1>3. CASE RequestUnlink(s)
  <2> DEFINE q(p, c, e, why) ==
        [BlankRequest EXCEPT !.op = "EXCEPTIONAL_UNLINK", !.product = p, !.current
                     = c, !.expected = e, !.reason = why]
  <2>1. PICK p \in Products, c \in Resources, e \in Revisions, why \in
             Reasons :
          Begin(s, q(p, c, e, why), "product")
    BY <1>3 DEF RequestUnlink
  <2>2. WellFormed(q(p, c, e, why)) /\ q(p, c, e, why).op \in MappingOperations
    BY <1>0, <2>1 DEF BlankRequest, Request, WellFormed, MappingOperations,
       LineOperations, Overrides
  <2> HIDE DEF q
  <2>3. QED
    BY <2>1, <2>2 DEF Enters, WellFormed
<1>4. CASE RequestReportConflict(s)
  <2> DEFINE q(p, c, e, why) ==
        [BlankRequest EXCEPT !.op = "REPORT_IDENTITY_CONFLICT", !.product = p,
                     !.current = c, !.expected = e, !.reason = why]
  <2>1. PICK p \in Products, c \in Resources, e \in Revisions, why \in
             Reasons :
          Begin(s, q(p, c, e, why), "product")
    BY <1>4 DEF RequestReportConflict
  <2>2. WellFormed(q(p, c, e, why)) /\ q(p, c, e, why).op \in MappingOperations
    BY <1>0, <2>1 DEF BlankRequest, Request, WellFormed, MappingOperations,
       LineOperations, Overrides
  <2> HIDE DEF q
  <2>3. QED
    BY <2>1, <2>2 DEF Enters, WellFormed
<1>5. CASE RequestResolveConflict(s)
  <2> DEFINE q(p, c, r, e, why) ==
        [BlankRequest EXCEPT !.op = "RESOLVE_IDENTITY_CONFLICT", !.product = p,
                     !.current = c, !.target = r, !.expected = e, !.reason
                     = why]
  <2>1. PICK p \in Products, c \in Resources, r \in Resources, e \in
             Revisions, why \in Reasons :
          Begin(s, q(p, c, r, e, why), "product")
    BY <1>5 DEF RequestResolveConflict
  <2>2. WellFormed(q(p, c, r, e, why)) /\ q(p, c, r, e, why).op \in MappingOperations
    BY <1>0, <2>1 DEF BlankRequest, Request, WellFormed, MappingOperations,
       LineOperations, Overrides
  <2> HIDE DEF q
  <2>3. QED
    BY <2>1, <2>2 DEF Enters, WellFormed
<1>6. CASE RequestResolveFresh(s)
  <2> DEFINE q(l, p, r, n) ==
        [BlankRequest EXCEPT !.op = "RESOLVE_PURCHASE_LINE", !.line = l, !.product
                     = p, !.fresh = TRUE, !.target = r, !.lineExpected = n]
  <2>1. PICK l \in Lines, p \in Products, r \in Resources, n \in
             Revisions :
          /\ ProductSupplier[p] = LineSupplier[l]
          /\ Begin(s, q(l, p, r, n), "line")
    BY <1>6 DEF RequestResolveFresh
  <2>2. WellFormed(q(l, p, r, n)) /\ q(l, p, r, n).op \in LineOperations
    BY <1>0, <2>1 DEF BlankRequest, Request, WellFormed, MappingOperations,
       LineOperations, Overrides
  <2> HIDE DEF q
  <2>3. QED
    BY <2>1, <2>2 DEF Enters, WellFormed
<1>7. CASE RequestResolveKnown(s)
  <2> DEFINE q(l, p, r, e, n) ==
        [BlankRequest EXCEPT !.op = "RESOLVE_PURCHASE_LINE", !.line = l, !.product
                     = p, !.target = r, !.expected = e, !.lineExpected = n]
  <2>1. PICK l \in Lines, p \in Products, r \in Resources, e \in
             Revisions, n \in Revisions :
          Begin(s, q(l, p, r, e, n), "line")
    BY <1>7 DEF RequestResolveKnown
  <2>2. WellFormed(q(l, p, r, e, n)) /\ q(l, p, r, e, n).op \in LineOperations
    BY <1>0, <2>1 DEF BlankRequest, Request, WellFormed, MappingOperations,
       LineOperations, Overrides
  <2> HIDE DEF q
  <2>3. QED
    BY <2>1, <2>2 DEF Enters, WellFormed
<1>8. CASE RequestOverride(s)
  <2> DEFINE q(l, o, n) ==
        [BlankRequest EXCEPT !.op = "SET_RESOLUTION_OVERRIDE", !.line = l,
                     !.override = o, !.lineExpected = n]
  <2>1. PICK l \in Lines, o \in Overrides, n \in Revisions :
          Begin(s, q(l, o, n), "line")
    BY <1>8 DEF RequestOverride
  <2>2. WellFormed(q(l, o, n)) /\ q(l, o, n).op \in LineOperations
    BY <1>0, <2>1 DEF BlankRequest, Request, WellFormed, MappingOperations,
       LineOperations, Overrides
  <2> HIDE DEF q
  <2>3. QED
    BY <2>1, <2>2 DEF Enters, WellFormed
<1>9. QED
  BY <1>1, <1>2, <1>3, <1>4, <1>5, <1>6, <1>7, <1>8 DEF NewRequest

----------------------------------------------------------------------------
\* The part of the inductive invariant that speaks of sessions: types, the
\* shape of requests, who holds which lock, and that snapshots are current.
SessionInv ==
  /\ TypeOK
  /\ RequestsWellFormed
  /\ LocksAreHeld
  /\ SnapshotsAreCurrent

\* The transaction of s ends without effect, and its answer is no disposition.
Ends(s) == pc[s] # "idle" /\ \E e \in Replies \ Dispositions : Refuse(s, e)

\* The transaction of s takes effect and ends with some answer.
Commits(s) == Ready(s) /\ Persist(s) /\ \E a \in Replies : Finish(s, a)

\* The aggregate's guards return a result or one of the domain errors
\* (supplier_product.go, purchase_line_resolution.go).
LEMMA DomainVerdictType ==
  ASSUME SessionInv, NEW s \in Sessions, pc[s] # "idle"
  PROVE  DomainVerdict(s) \in
           {"changed", "unchanged", "ErrInvalidDecisionMetadata",
            "ErrInvalidMappingTransition", "ErrStaleMappingRevision",
            "ErrStaleResolutionRevision"}
<1>1. cmd[s] \in Request
  BY DEF SessionInv, RequestsWellFormed, WellFormed
<1>2. CASE cmd[s].op = "SET_RESOLUTION_OVERRIDE"
  BY <1>2 DEF DomainVerdict, ChangeResolutionOverride
<1>3. CASE cmd[s].op # "SET_RESOLUTION_OVERRIDE"
  <2> DEFINE k == seen[s].mapping
             m == MappingRequest(s)
  <2>1. MappingOp(s) \in MappingOperations
    BY <1>1, <1>3 DEF MappingOp, Request, LineOperations, MappingOperations
  <2>2. DomainVerdict(s) = MappingVerdict(MappingOp(s), k, seen[s].revision, m)
    BY <1>3 DEF DomainVerdict
  <2> HIDE DEF k, m
  <2>3. QED
    BY <2>1, <2>2 DEF MappingVerdict, MappingOperations, ConfirmMapping,
       CorrectMapping, ExceptionalUnlink, ReportIdentityConflict,
       ResolveIdentityConflict, transition
<1>4. QED
  BY <1>2, <1>3

\* Every error a refused transaction returns is one of the domain's errors.
LEMMA RefusalEnds ==
  ASSUME SessionInv, NEW s \in Sessions,
         \/ RefuseLine(s) \/ RefuseProduct(s) \/ RefuseResource(s)
         \/ RefuseDecision(s) \/ CommitFailed(s) \/ Rollback(s)
  PROVE  Ends(s)
<1>1. CASE RefuseLine(s)
  <2>1. cmd[s].op \in LineOperations
    BY <1>1 DEF RefuseLine, SessionInv, RequestsWellFormed
  <2>2. LineVerdict(s) \in (Replies \ Dispositions) \cup {"ok"}
    BY <2>1 DEF LineVerdict, Replies, Dispositions, LineOperations
  <2>3. QED
    BY <1>1, <2>2 DEF RefuseLine, Ends
<1>2. CASE RefuseProduct(s)
  <2>1. ProductVerdict(s) \in (Replies \ Dispositions) \cup {"ok"}
    BY DEF ProductVerdict, Replies, Dispositions
  <2>2. QED
    BY <1>2, <2>1 DEF RefuseProduct, Ends
<1>3. CASE RefuseResource(s)
  BY <1>3 DEF RefuseResource, NextResource, Ends, Replies, Dispositions
<1>4. CASE RefuseDecision(s)
  <2>1. DomainVerdict(s) \in Replies \ Dispositions
    BY <1>4, DomainVerdictType DEF RefuseDecision, Replies, Dispositions
  <2>2. Verdict(s) \in Replies \ Dispositions
    BY <2>1 DEF Verdict, Replies, Dispositions
  <2>3. QED
    BY <1>4, <2>2 DEF RefuseDecision, Ends
<1>5. CASE CommitFailed(s)
  BY <1>5 DEF CommitFailed, Ready, Ends, Replies, Dispositions
<1>6. CASE Rollback(s)
  BY <1>6 DEF Rollback, Ends, Replies, Dispositions
<1>7. QED
  BY <1>1, <1>2, <1>3, <1>4, <1>5, <1>6

\* A commit answers with the decision's result, a disposition or ambiguity.
LEMMA CommitCommits ==
  ASSUME SessionInv, NEW s \in Sessions, Commit(s) \/ CommitUnacknowledged(s)
  PROVE  Commits(s)
<1>1. Verdict(s) \in {"changed", "unchanged"}
  BY DEF Commit, CommitUnacknowledged, Ready, Accepted
<1>2. Answer(s) \in Replies
  BY <1>1 DEF Answer, commercialIdentityDisposition, Replies, Dispositions
<1>3. QED
  BY <1>2 DEF Commit, CommitUnacknowledged, Commits, Replies

----------------------------------------------------------------------------
\* A new request starts without locks and reads nothing.
LEMMA EntersKeepsSessionInv ==
  ASSUME SessionInv, NEW s \in Sessions, Enters(s)
  PROVE  SessionInv'
<1> USE DEF SessionInv
<1>1. PICK q \in Request, first \in {"line", "product"} :
        /\ Begin(s, q, first)
        /\ WellFormed(q)
        /\ first = "line" => q.op \in LineOperations
        /\ first = "product" => q.op \in MappingOperations
  BY DEF Enters
<1>2. TypeOK'
  BY <1>1 DEF Begin, TypeOK, productVars, lineVars, lockVars, Replies
<1>3. RequestsWellFormed'
  BY <1>1 DEF Begin, TypeOK, RequestsWellFormed, WellFormed, MappingOperations
<1>4. ASSUME NEW t \in Sessions
      PROVE  HoldsLine(t)' = HoldsLine(t) /\ HoldsProduct(t)' = HoldsProduct(t)
  <2>1. CASE t = s
    BY <1>1, <2>1 DEF Begin, TypeOK, HoldsLine, HoldsProduct,
       MappingOperations, LineOperations
  <2>2. CASE t # s
    BY <1>1, <2>2 DEF Begin, TypeOK, HoldsLine, HoldsProduct
  <2>3. QED
    BY <2>1, <2>2
<1>5. LocksAreHeld'
  BY <1>1, <1>4 DEF Begin, TypeOK, LocksAreHeld, HoldsLine, HoldsProduct, lockVars
<1>6. SnapshotsAreCurrent'
  BY <1>1, <1>4 DEF Begin, TypeOK, SnapshotsAreCurrent, HoldsLine, HoldsProduct,
     productVars, lineVars, lockVars
<1>7. QED
  BY <1>2, <1>3, <1>5, <1>6

\* The session parts of the invariant when a transaction ends: its locks go,
\* and nobody else's.
LEMMA FinishReleases ==
  ASSUME SessionInv, NEW s \in Sessions, NEW e \in Replies, Finish(s, e)
  PROVE  /\ pc' \in [Sessions -> {"idle", "line", "product", "decide"}]
         /\ cmd' \in [Sessions -> Request \cup {None}]
         /\ seen' \in [Sessions -> Snapshot]
         /\ reply' \in [Sessions -> Replies]
         /\ lineLock' \in [Lines -> Sessions \cup {Free}]
         /\ productLock' \in [Products -> Sessions \cup {Free}]
         /\ resourceLock' \in [Resources -> Sessions \cup {Free}]
         /\ RequestsWellFormed'
         /\ LocksAreHeld'
<1> USE DEF SessionInv
<1>0. BlankSnapshot \in Snapshot
  BY DEF BlankSnapshot, Snapshot, Unresolved, Mapping, Overrides
<1>1. /\ pc' \in [Sessions -> {"idle", "line", "product", "decide"}]
      /\ cmd' \in [Sessions -> Request \cup {None}]
      /\ seen' \in [Sessions -> Snapshot]
      /\ reply' \in [Sessions -> Replies]
  BY <1>0 DEF Finish, TypeOK
<1>2. /\ lineLock' \in [Lines -> Sessions \cup {Free}]
      /\ productLock' \in [Products -> Sessions \cup {Free}]
      /\ resourceLock' \in [Resources -> Sessions \cup {Free}]
  BY DEF Finish, TypeOK
<1>3. RequestsWellFormed'
  BY DEF Finish, TypeOK, RequestsWellFormed, WellFormed
<1>4. LocksAreHeld'
  <2> SUFFICES ASSUME NEW t \in Sessions
               PROVE  /\ \A l \in Lines : lineLock'[l] = t <=>
                           HoldsLine(t)' /\ cmd'[t].line = l
                      /\ \A p \in Products : productLock'[p] = t <=>
                           HoldsProduct(t)' /\ cmd'[t].product = p
                      /\ \A r \in Resources :
                           resourceLock'[r] = t => pc'[t] = "decide"
    BY DEF LocksAreHeld
  <2>0. Free # t
    BY IdentifierAssumption
  <2>1. CASE t = s
    BY <2>0, <2>1 DEF Finish, TypeOK, HoldsLine, HoldsProduct
  <2>2. CASE t # s
    BY <2>0, <2>2 DEF Finish, TypeOK, LocksAreHeld, HoldsLine, HoldsProduct
  <2>3. QED
    BY <2>1, <2>2
<1>5. QED
  BY <1>1, <1>2, <1>3, <1>4

\* A transaction that ends without effect leaves the others' snapshots alone.
LEMMA EndsKeepsSessionInv ==
  ASSUME SessionInv, NEW s \in Sessions, Ends(s)
  PROVE  SessionInv'
<1> USE DEF SessionInv
<1>1. PICK e \in Replies : Refuse(s, e)
  BY DEF Ends
<1>2. Finish(s, e) /\ UNCHANGED <<recursos, productVars, lineVars>>
  BY <1>1 DEF Refuse
<1>3. TypeOK'
  BY <1>2, FinishReleases DEF TypeOK, productVars, lineVars
<1>4. SnapshotsAreCurrent'
  <2> SUFFICES ASSUME NEW t \in Sessions
               PROVE  SnapshotsAreCurrent!(t)'
    BY DEF SnapshotsAreCurrent
  <2>1. CASE t = s
    BY <1>2, <2>1 DEF Finish, TypeOK, SnapshotsAreCurrent, HoldsLine,
       HoldsProduct, BlankSnapshot
  <2>2. CASE t # s
    BY <1>2, <2>2 DEF Finish, TypeOK, SnapshotsAreCurrent, HoldsLine,
       HoldsProduct, productVars, lineVars, Snapshot
  <2>3. QED
    BY <2>1, <2>2
<1>5. QED
  BY <1>2, <1>3, <1>4, FinishReleases

\* Locking the line: nobody else holds it, and the snapshot is the row.
LEMMA LockLineKeepsSessionInv ==
  ASSUME SessionInv, NEW s \in Sessions, LockLine(s)
  PROVE  SessionInv'
<1> USE DEF SessionInv
<1> DEFINE l == cmd[s].line
<1>1. /\ pc[s] = "line" /\ WellFormed(cmd[s])
      /\ cmd[s].op \in LineOperations /\ l \in Lines /\ l \in purchaseLines
      /\ lineLock[l] = Free
      /\ cmd[s].op = "RESOLVE_PURCHASE_LINE" =>
           /\ resolutionRevision[l] = cmd[s].lineExpected
           /\ override[l] = "NONE"
           /\ association[l] = IF cmd[s].fresh THEN None ELSE cmd[s].product
  <2>1. /\ pc[s] = "line" /\ WellFormed(cmd[s])
        /\ cmd[s].op \in LineOperations /\ l \in Lines
    BY DEF LockLine, RequestsWellFormed, WellFormed
  <2>2. /\ l \in purchaseLines
        /\ cmd[s].op = "RESOLVE_PURCHASE_LINE" =>
             /\ resolutionRevision[l] = cmd[s].lineExpected
             /\ override[l] = "NONE"
             /\ association[l] = IF cmd[s].fresh THEN None ELSE cmd[s].product
    BY <2>1 DEF LockLine, LineVerdict, LineOperations
  <2>3. QED
    BY <2>1, <2>2 DEF LockLine, LineReady
<1>2. /\ lineLock' = [lineLock EXCEPT ![l] = s]
      /\ seen' = [seen EXCEPT ![s] =
                    [seen[s] EXCEPT !.override = override[l],
                                    !.lineRevision = resolutionRevision[l]]]
      /\ pc' = [pc EXCEPT ![s] = IF cmd[s].op = "SET_RESOLUTION_OVERRIDE"
                                 THEN "decide" ELSE "product"]
      /\ UNCHANGED <<recursos, productVars, lineVars, productLock, resourceLock,
                     cmd, reply>>
  BY DEF LockLine, TypeOK
<1> HIDE DEF l
<1>3. TypeOK'
  <2>1. override[l] \in Overrides /\ resolutionRevision[l] \in Nat
    BY <1>1 DEF TypeOK
  <2>2. [seen[s] EXCEPT !.override = override[l],
                        !.lineRevision = resolutionRevision[l]] \in Snapshot
    BY <2>1 DEF TypeOK, Snapshot
  <2>3. QED
    BY <1>1, <1>2, <2>2 DEF TypeOK, productVars, lineVars
<1>4. RequestsWellFormed'
  BY <1>1, <1>2 DEF TypeOK, RequestsWellFormed, WellFormed
<1>5. LocksAreHeld'
  <2> SUFFICES ASSUME NEW t \in Sessions
               PROVE  LocksAreHeld!(t)'
    BY DEF LocksAreHeld
  <2>1. CASE t = s
    BY <1>1, <1>2, <2>1 DEF l, TypeOK, LocksAreHeld, HoldsLine, HoldsProduct,
       LineOperations
  <2>2. CASE t # s
    BY <1>1, <1>2, <2>2, IdentifierAssumption DEF l, TypeOK, LocksAreHeld,
       HoldsLine, HoldsProduct
  <2>3. QED
    BY <2>1, <2>2
<1>6. SnapshotsAreCurrent'
  <2> SUFFICES ASSUME NEW t \in Sessions
               PROVE  SnapshotsAreCurrent!(t)'
    BY DEF SnapshotsAreCurrent
  <2>1. CASE t = s
    BY <1>1, <1>2, <2>1 DEF l, TypeOK, SnapshotsAreCurrent, HoldsLine,
       HoldsProduct, Snapshot, LineOperations, productVars, lineVars
  <2>2. CASE t # s
    BY <1>1, <1>2, <2>2 DEF TypeOK, SnapshotsAreCurrent, HoldsLine,
       HoldsProduct, Snapshot, productVars, lineVars
  <2>3. QED
    BY <2>1, <2>2
<1>7. QED
  BY <1>3, <1>4, <1>5, <1>6

\* Locking (or inserting) the product. Nobody holds it: a holder would have
\* kept it locked, and an inserter too, whether its row is visible or not.
LEMMA LockProductKeepsSessionInv ==
  ASSUME SessionInv, NEW s \in Sessions, LockProduct(s)
  PROVE  SessionInv'
<1> USE DEF SessionInv
<1> DEFINE p == cmd[s].product
<1>1. /\ pc[s] = "product" /\ WellFormed(cmd[s])
      /\ cmd[s].op # "SET_RESOLUTION_OVERRIDE" /\ p \in Products
  BY DEF LockProduct, RequestsWellFormed, WellFormed
<1>2. /\ cmd[s].fresh \/ p \in supplierProducts
      /\ productLock[p] = Free
  BY <1>1 DEF LockProduct, ProductReady, ProductVerdict
<1>3. /\ productLock' = [productLock EXCEPT ![p] = s]
      /\ seen' = [seen EXCEPT ![s] =
                    [seen[s] EXCEPT !.mapping = mapping[p],
                                    !.revision = mappingRevision[p]]]
      /\ pc' = [pc EXCEPT ![s] = "decide"]
      /\ UNCHANGED <<recursos, productVars, lineVars, lineLock, resourceLock,
                     cmd, reply>>
  BY DEF LockProduct, TypeOK
<1> HIDE DEF p
<1>4. TypeOK'
  <2>1. mapping[p] \in Mapping /\ mappingRevision[p] \in Nat
    BY <1>1 DEF TypeOK
  <2>2. [seen[s] EXCEPT !.mapping = mapping[p],
                        !.revision = mappingRevision[p]] \in Snapshot
    BY <2>1 DEF TypeOK, Snapshot
  <2>3. QED
    BY <1>1, <1>3, <2>2 DEF TypeOK, productVars, lineVars
<1>5. RequestsWellFormed'
  BY <1>1, <1>3 DEF TypeOK, RequestsWellFormed, WellFormed
<1>6. LocksAreHeld'
  <2> SUFFICES ASSUME NEW t \in Sessions
               PROVE  LocksAreHeld!(t)'
    BY DEF LocksAreHeld
  <2>1. CASE t = s
    BY <1>1, <1>2, <1>3, <2>1 DEF p, TypeOK, LocksAreHeld, HoldsLine,
       HoldsProduct, LineOperations
  <2>2. CASE t # s
    BY <1>1, <1>2, <1>3, <2>2, IdentifierAssumption DEF p, TypeOK,
       LocksAreHeld, HoldsLine, HoldsProduct
  <2>3. QED
    BY <2>1, <2>2
<1>7. SnapshotsAreCurrent'
  <2> SUFFICES ASSUME NEW t \in Sessions
               PROVE  SnapshotsAreCurrent!(t)'
    BY DEF SnapshotsAreCurrent
  <2>1. CASE t = s
    BY <1>1, <1>2, <1>3, <2>1 DEF p, TypeOK, SnapshotsAreCurrent, HoldsLine,
       HoldsProduct, Snapshot, productVars, lineVars
  <2>2. CASE t # s
    BY <1>1, <1>2, <1>3, <2>2 DEF TypeOK, SnapshotsAreCurrent, HoldsLine,
       HoldsProduct, Snapshot, productVars, lineVars
  <2>3. QED
    BY <2>1, <2>2
<1>8. QED
  BY <1>4, <1>5, <1>6, <1>7

\* Locking a resource and noting whether it is active.
LEMMA LockResourceKeepsSessionInv ==
  ASSUME SessionInv, NEW s \in Sessions, LockResource(s)
  PROVE  SessionInv'
<1> USE DEF SessionInv
<1>1. PICK r \in Resources :
        /\ NextResource(s, r)
        /\ resourceLock[r] = Free
        /\ resourceLock' = [resourceLock EXCEPT ![r] = s]
        /\ seen' = IF recursos[r] = "active"
                   THEN [seen EXCEPT ![s] =
                           [seen[s] EXCEPT !.active = @ \cup {r}]]
                   ELSE seen
        /\ UNCHANGED <<recursos, productVars, lineVars, lineLock, productLock,
                       pc, cmd, reply>>
  BY DEF LockResource
<1>2. pc[s] = "decide"
  BY <1>1 DEF NextResource
<1>3. TypeOK'
  <2>1. [seen[s] EXCEPT !.active = @ \cup {r}] \in Snapshot
    BY DEF TypeOK, Snapshot
  <2>2. QED
    BY <1>1, <2>1 DEF TypeOK, productVars, lineVars
<1>4. RequestsWellFormed'
  BY <1>1 DEF RequestsWellFormed, WellFormed
<1>5. LocksAreHeld'
  BY <1>1, <1>2, IdentifierAssumption DEF TypeOK, LocksAreHeld, HoldsLine,
     HoldsProduct
<1>6. SnapshotsAreCurrent'
  <2> SUFFICES ASSUME NEW t \in Sessions
               PROVE  SnapshotsAreCurrent!(t)'
    BY DEF SnapshotsAreCurrent
  <2>1. CASE t = s
    BY <1>1, <2>1 DEF TypeOK, SnapshotsAreCurrent, HoldsLine,
       HoldsProduct, Snapshot, productVars, lineVars
  <2>2. CASE t # s
    BY <1>1, <2>2, IdentifierAssumption DEF TypeOK, SnapshotsAreCurrent,
       HoldsLine, HoldsProduct, Snapshot, productVars, lineVars
  <2>3. QED
    BY <2>1, <2>2
<1>7. QED
  BY <1>3, <1>4, <1>5, <1>6

\* The mapping a decision stores, and its audit entry, are well typed.
LEMMA NextMappingType ==
  ASSUME SessionInv, NEW s \in Sessions, pc[s] # "idle",
         cmd[s].op # "SET_RESOLUTION_OVERRIDE"
  PROVE  /\ MappingOp(s) \in MappingOperations
         /\ NextMapping(MappingOp(s), seen[s].mapping, cmd[s]) \in Mapping
<1>1. /\ WellFormed(cmd[s]) /\ cmd[s] \in Request
      /\ cmd[s].op \in MappingOperations \cup {"RESOLVE_PURCHASE_LINE"}
  BY DEF SessionInv, RequestsWellFormed, WellFormed, Request, LineOperations
<1>2. MappingOp(s) \in MappingOperations
  BY <1>1 DEF MappingOp, MappingOperations
<1>3. MappingOp(s) \in {"CONFIRM", "CORRECT", "RESOLVE_IDENTITY_CONFLICT"} =>
        cmd[s].target \in Resources
  BY <1>1 DEF WellFormed, MappingOp
<1>4. seen[s].mapping \in Mapping
  BY DEF SessionInv, TypeOK, Snapshot
<1>5. QED
  BY <1>2, <1>3, <1>4 DEF NextMapping, MappingOperations, Confirmed, Unresolved,
     Mapping

\* A commit writes only rows its transaction has locked, and well-typed ones.
LEMMA CommitTouchesOwnRows ==
  ASSUME SessionInv, NEW s \in Sessions, Commits(s)
  PROVE  /\ UNCHANGED <<recursos, purchaseLines>>
         /\ supplierProducts \subseteq supplierProducts'
         /\ supplierProducts' \subseteq Products
         /\ mapping' \in [Products -> Mapping]
         /\ mappingRevision' \in [Products -> Nat]
         /\ mappingAudit' \in [Products -> Seq(MappingAuditEntry)]
         /\ association' \in [Lines -> Products \cup {None}]
         /\ override' \in [Lines -> Overrides]
         /\ resolutionRevision' \in [Lines -> Nat]
         /\ resolutionAudit' \in [Lines -> Seq(ResolutionAuditEntry)]
         /\ \A p \in Products : productLock[p] # s =>
              /\ mapping'[p] = mapping[p]
              /\ mappingRevision'[p] = mappingRevision[p]
              /\ mappingAudit'[p] = mappingAudit[p]
         /\ \A l \in Lines : lineLock[l] # s =>
              /\ association'[l] = association[l]
              /\ override'[l] = override[l]
              /\ resolutionRevision'[l] = resolutionRevision[l]
              /\ resolutionAudit'[l] = resolutionAudit[l]
<1> USE DEF SessionInv
<1>1. /\ pc[s] = "decide" /\ Persist(s) /\ WellFormed(cmd[s])
      /\ cmd[s] \in Request
  BY DEF Commits, Ready, RequestsWellFormed, WellFormed
<1>2. /\ mapping' \in [Products -> Mapping]
      /\ mappingRevision' \in [Products -> Nat]
      /\ mappingAudit' \in [Products -> Seq(MappingAuditEntry)]
      /\ \A p \in Products : productLock[p] # s =>
           /\ mapping'[p] = mapping[p]
           /\ mappingRevision'[p] = mappingRevision[p]
           /\ mappingAudit'[p] = mappingAudit[p]
  <2>1. CASE cmd[s].op # "SET_RESOLUTION_OVERRIDE" /\ Verdict(s) = "changed"
    <3> DEFINE p == cmd[s].product
               next == NextMapping(MappingOp(s), seen[s].mapping, cmd[s])
               entry == [op |-> MappingOp(s), previous |-> seen[s].mapping,
                         next |-> next, previousRevision |-> seen[s].revision,
                         newRevision |-> seen[s].revision + 1]
    <3>1. /\ p \in Products /\ productLock[p] = s
          /\ next \in Mapping /\ MappingOp(s) \in MappingOperations
          /\ seen[s].mapping \in Mapping /\ seen[s].revision \in Nat
      BY <1>1, <2>1, NextMappingType DEF WellFormed, LocksAreHeld, HoldsProduct,
         TypeOK, Snapshot
    <3>2. /\ mapping' = [mapping EXCEPT ![p] = next]
          /\ mappingRevision' =
               [mappingRevision EXCEPT ![p] = seen[s].revision + 1]
          /\ mappingAudit' = [mappingAudit EXCEPT ![p] = Append(@, entry)]
      BY <1>1, <2>1 DEF Persist, WriteMapping
    <3>3. entry \in MappingAuditEntry
      BY <3>1 DEF MappingAuditEntry
    <3> HIDE DEF p, next, entry
    <3>4. QED
      BY <3>1, <3>2, <3>3 DEF TypeOK
  <2>2. CASE ~(cmd[s].op # "SET_RESOLUTION_OVERRIDE" /\ Verdict(s) = "changed")
    BY <1>1, <2>2 DEF Persist, TypeOK
  <2>3. QED
    BY <2>1, <2>2
<1>3. /\ override' \in [Lines -> Overrides]
      /\ resolutionRevision' \in [Lines -> Nat]
      /\ resolutionAudit' \in [Lines -> Seq(ResolutionAuditEntry)]
      /\ \A l \in Lines : lineLock[l] # s =>
           /\ override'[l] = override[l]
           /\ resolutionRevision'[l] = resolutionRevision[l]
           /\ resolutionAudit'[l] = resolutionAudit[l]
  <2>1. CASE cmd[s].op = "SET_RESOLUTION_OVERRIDE" /\ Verdict(s) = "changed"
    <3> DEFINE l == cmd[s].line
               entry == [previous |-> seen[s].override,
                         next |-> cmd[s].override,
                         previousRevision |-> seen[s].lineRevision,
                         newRevision |-> seen[s].lineRevision + 1]
    <3>1. /\ l \in Lines /\ lineLock[l] = s
          /\ cmd[s].override \in Overrides
          /\ seen[s].override \in Overrides /\ seen[s].lineRevision \in Nat
      <4>1. l \in Lines /\ lineLock[l] = s
        BY <1>1, <2>1 DEF WellFormed, LocksAreHeld, HoldsLine, LineOperations
      <4>2. cmd[s].override \in Overrides
        BY <1>1 DEF Request
      <4>3. seen[s].override \in Overrides /\ seen[s].lineRevision \in Nat
        BY DEF TypeOK, Snapshot
      <4>4. QED
        BY <4>1, <4>2, <4>3
    <3>2. /\ override' = [override EXCEPT ![l] = cmd[s].override]
          /\ resolutionRevision' =
               [resolutionRevision EXCEPT ![l] = seen[s].lineRevision + 1]
          /\ resolutionAudit' = [resolutionAudit EXCEPT ![l] = Append(@, entry)]
      BY <1>1, <2>1 DEF Persist, WriteOverride
    <3>3. entry \in ResolutionAuditEntry
      BY <3>1 DEF ResolutionAuditEntry
    <3> HIDE DEF l, entry
    <3>4. QED
      BY <3>1, <3>2, <3>3 DEF TypeOK
  <2>2. CASE ~(cmd[s].op = "SET_RESOLUTION_OVERRIDE" /\ Verdict(s) = "changed")
    BY <1>1, <2>2 DEF Persist, TypeOK
  <2>3. QED
    BY <2>1, <2>2
<1>4. /\ supplierProducts \subseteq supplierProducts'
      /\ supplierProducts' \subseteq Products
      /\ association' \in [Lines -> Products \cup {None}]
      /\ \A l \in Lines : lineLock[l] # s => association'[l] = association[l]
  <2>1. CASE cmd[s].fresh
    <3>1. /\ cmd[s].product \in Products /\ cmd[s].line \in Lines
          /\ lineLock[cmd[s].line] = s
      BY <1>1, <2>1 DEF WellFormed, LocksAreHeld, HoldsLine, LineOperations
    <3>2. /\ supplierProducts' = supplierProducts \cup {cmd[s].product}
          /\ association' =
               [association EXCEPT ![cmd[s].line] = cmd[s].product]
      BY <1>1, <2>1 DEF Persist, Associate
    <3>3. QED
      BY <3>1, <3>2 DEF TypeOK
  <2>2. CASE ~cmd[s].fresh
    BY <1>1, <2>2 DEF Persist, Associate, TypeOK
  <2>3. QED
    BY <2>1, <2>2
<1>5. UNCHANGED <<recursos, purchaseLines>>
  BY <1>1 DEF Persist, Associate
<1>6. QED
  BY <1>2, <1>3, <1>4, <1>5

\* A commit disturbs no other transaction's snapshot.
LEMMA CommitsKeepsSessionInv ==
  ASSUME SessionInv, NEW s \in Sessions, Commits(s)
  PROVE  SessionInv'
<1> USE DEF SessionInv
<1>1. PICK a \in Replies : Finish(s, a)
  BY DEF Commits
<1>2. TypeOK'
  BY <1>1, FinishReleases, CommitTouchesOwnRows DEF TypeOK
<1>3. SnapshotsAreCurrent'
  <2> SUFFICES ASSUME NEW t \in Sessions
               PROVE  SnapshotsAreCurrent!(t)'
    BY DEF SnapshotsAreCurrent
  <2>1. CASE t = s
    BY <1>1, <2>1 DEF Finish, TypeOK, SnapshotsAreCurrent, HoldsLine,
       HoldsProduct, BlankSnapshot
  <2>2. CASE t # s
    <3>0. pc'[t] = pc[t] /\ cmd'[t] = cmd[t] /\ seen'[t] = seen[t]
      BY <1>1, <2>2 DEF Finish, TypeOK
    <3>1. HoldsProduct(t) => cmd[t].product \in Products
                             /\ productLock[cmd[t].product] = t
      BY DEF HoldsProduct, RequestsWellFormed, WellFormed, LocksAreHeld
    <3>2. HoldsLine(t) => cmd[t].line \in Lines /\ lineLock[cmd[t].line] = t
      BY DEF HoldsLine, RequestsWellFormed, WellFormed, LocksAreHeld
    <3>3. \A r \in Resources : resourceLock[r] = t => resourceLock'[r] = t
      BY <1>1, <2>2 DEF Finish, TypeOK
    <3>4. seen[t].active \subseteq Resources
      BY DEF TypeOK, Snapshot
    <3>5. HoldsProduct(t) =>
            /\ mapping'[cmd[t].product] = mapping[cmd[t].product]
            /\ mappingRevision'[cmd[t].product] = mappingRevision[cmd[t].product]
      BY <2>2, <3>1, CommitTouchesOwnRows
    <3>6. HoldsLine(t) =>
            /\ association'[cmd[t].line] = association[cmd[t].line]
            /\ override'[cmd[t].line] = override[cmd[t].line]
            /\ resolutionRevision'[cmd[t].line] = resolutionRevision[cmd[t].line]
      BY <2>2, <3>2, CommitTouchesOwnRows
    <3>7. /\ recursos' = recursos /\ purchaseLines' = purchaseLines
          /\ supplierProducts \subseteq supplierProducts'
      BY CommitTouchesOwnRows
    <3>8. HoldsProduct(t)' = HoldsProduct(t) /\ HoldsLine(t)' = HoldsLine(t)
      BY <3>0 DEF HoldsProduct, HoldsLine
    <3>9. QED
      BY <3>0, <3>3, <3>4, <3>5, <3>6, <3>7, <3>8 DEF SnapshotsAreCurrent
  <2>3. QED
    BY <2>1, <2>2
<1>4. QED
  BY <1>1, <1>2, <1>3, FinishReleases

\* Imports and Resource Master write only rows nobody has locked.
LEMMA NeighboursKeepSessionInv ==
  ASSUME SessionInv, Neighbours
  PROVE  SessionInv'
<1> USE DEF SessionInv
<1>1. ASSUME NEW l \in Lines, ImportPlainLine(l)
      PROVE  SessionInv'
  BY <1>1 DEF ImportPlainLine, TypeOK, RequestsWellFormed, WellFormed,
     LocksAreHeld, SnapshotsAreCurrent, HoldsLine, HoldsProduct,
     productVars, lockVars, sessionVars
<1>2. ASSUME NEW l \in Lines, NEW p \in Products, ImportSkuLine(l, p)
      PROVE  SessionInv'
  BY <1>2 DEF ImportSkuLine, TypeOK, RequestsWellFormed, WellFormed,
     LocksAreHeld, SnapshotsAreCurrent, HoldsLine, HoldsProduct,
     lockVars, sessionVars
<1>3. ASSUME NEW r \in Resources, NEW from, NEW to \in {"active", "inactive"},
             SetResource(r, from, to)
      PROVE  SessionInv'
  <2>1. TypeOK' /\ RequestsWellFormed' /\ LocksAreHeld'
    BY <1>3 DEF SetResource, TypeOK, RequestsWellFormed, WellFormed,
       LocksAreHeld, HoldsLine, HoldsProduct, productVars, lineVars, lockVars,
       sessionVars
  <2>2. SnapshotsAreCurrent'
    BY <1>3, IdentifierAssumption DEF SetResource, TypeOK, SnapshotsAreCurrent,
       HoldsLine, HoldsProduct, Snapshot, productVars, lineVars, lockVars,
       sessionVars
  <2>3. QED
    BY <2>1, <2>2
<1>4. QED
  BY <1>1, <1>2, <1>3 DEF Neighbours, CreateResource, DeactivateResource,
     ReactivateResource

----------------------------------------------------------------------------
\* The kinds of step there are.
LEMMA StepCases ==
  ASSUME SessionInv, [Next]_vars
  PROVE  \/ UNCHANGED vars
         \/ Neighbours
         \/ \E s \in Sessions :
              \/ Enters(s) \/ Ends(s) \/ Commits(s)
              \/ LockLine(s) \/ LockProduct(s) \/ LockResource(s)
<1>1. ASSUME NEW s \in Sessions, NewRequest(s)
      PROVE  Enters(s)
  BY <1>1, RequestEnters
<1>2. ASSUME NEW s \in Sessions, Serve(s) \/ Rollback(s)
      PROVE  \/ Ends(s) \/ Commits(s)
             \/ LockLine(s) \/ LockProduct(s) \/ LockResource(s)
  BY <1>2, RefusalEnds, CommitCommits DEF Serve
<1>3. QED
  BY <1>1, <1>2 DEF Next

\* The initial state has no session and no row.
LEMMA InitSessionInv == Init => SessionInv
<1> SUFFICES ASSUME Init PROVE SessionInv
  OBVIOUS
<1>1. BlankSnapshot \in Snapshot /\ Unresolved \in Mapping
  BY DEF BlankSnapshot, Snapshot, Unresolved, Mapping, Overrides
<1>2. TypeOK
  BY <1>1 DEF Init, TypeOK, Overrides, Replies
<1>3. RequestsWellFormed /\ LocksAreHeld
  BY IdentifierAssumption DEF Init, RequestsWellFormed, LocksAreHeld, HoldsLine,
     HoldsProduct
<1>4. SnapshotsAreCurrent
  BY DEF Init, SnapshotsAreCurrent, HoldsLine, HoldsProduct, BlankSnapshot
<1>5. QED
  BY <1>2, <1>3, <1>4 DEF SessionInv

\* No step breaks the session invariant.
LEMMA NextSessionInv == SessionInv /\ [Next]_vars => SessionInv'
<1> SUFFICES ASSUME SessionInv, [Next]_vars PROVE SessionInv'
  OBVIOUS
<1>1. CASE UNCHANGED vars
  BY <1>1 DEF vars, productVars, lineVars, lockVars, sessionVars, SessionInv,
     TypeOK, RequestsWellFormed, WellFormed, LocksAreHeld, SnapshotsAreCurrent,
     HoldsLine, HoldsProduct
<1>2. QED
  BY <1>1, StepCases, EntersKeepsSessionInv, EndsKeepsSessionInv,
     CommitsKeepsSessionInv, LockLineKeepsSessionInv,
     LockProductKeepsSessionInv, LockResourceKeepsSessionInv,
     NeighboursKeepSessionInv

\* The type invariant, the shape of requests, the lock discipline and the
\* currency of snapshots hold in every reachable state.
THEOREM SessionSafety == Spec => []SessionInv
  BY InitSessionInv, NextSessionInv, PTL DEF Spec

\* Every table, lock and session keeps its type.
THEOREM TypeCorrectness == Spec => []TypeOK
<1>1. SessionInv => TypeOK
  BY DEF SessionInv
<1>2. QED
  BY <1>1, SessionSafety, PTL

\* A transaction never acts on a stale read: the rows it locked with FOR UPDATE
\* are still as it saw them when it decides and writes.
THEOREM SnapshotSafety == Spec => []SnapshotsAreCurrent
<1>1. SessionInv => SnapshotsAreCurrent
  BY DEF SessionInv
<1>2. QED
  BY <1>1, SessionSafety, PTL

----------------------------------------------------------------------------
\* One decision about product p, as the tables show it: an authorized
\* transition to a target that is active, one revision and one audit entry.
Decides(p, op, next) ==
  /\ Ledger!Authorized(op, mapping[p], next)
  /\ KnowledgeState(next) = "CONFIRMED" => recursos[next.resource] = "active"
  /\ mapping' = [mapping EXCEPT ![p] = next]
  /\ mappingRevision' = [mappingRevision EXCEPT ![p] = @ + 1]
  /\ mappingAudit' = [mappingAudit EXCEPT ![p] = Append(@,
       [op |-> op, previous |-> mapping[p], next |-> next,
        previousRevision |-> mappingRevision[p],
        newRevision |-> mappingRevision[p] + 1])]
  /\ recursos' = recursos

mappingTables == <<mapping, mappingRevision, mappingAudit>>

\* An accepted decision follows an edge of the knowledge state machine, from
\* the knowledge the transaction read (the guards of supplier_product.go).
LEMMA ChangeIsAuthorized ==
  ASSUME SessionInv, NEW s \in Sessions, pc[s] # "idle",
         cmd[s].op # "SET_RESOLUTION_OVERRIDE", DomainVerdict(s) = "changed"
  PROVE  Ledger!Authorized(MappingOp(s), seen[s].mapping,
           NextMapping(MappingOp(s), seen[s].mapping, cmd[s]))
<1> DEFINE op == MappingOp(s)
           k == seen[s].mapping
           m == MappingRequest(s)
<1>1. /\ op \in MappingOperations /\ k \in Mapping
      /\ op \in {"CONFIRM", "CORRECT", "RESOLVE_IDENTITY_CONFLICT"} =>
           cmd[s].target \in Resources
  BY NextMappingType DEF SessionInv, RequestsWellFormed, WellFormed, MappingOp,
     TypeOK, Snapshot
<1>2. m.target = cmd[s].target /\ m.current = cmd[s].current
  BY DEF SessionInv, RequestsWellFormed, WellFormed, Request, MappingRequest
<1>3. MappingVerdict(op, k, seen[s].revision, m) = "changed"
  BY DEF DomainVerdict
<1>4. cmd[s].target \in Resources => cmd[s].target # NoResource
  BY IdentifierAssumption DEF NoResource
<1> HIDE DEF op, k, m
<1>5. CASE op = "CONFIRM"
  <2>1. KnowledgeState(k) = "UNRESOLVED"
    BY <1>3, <1>5 DEF MappingVerdict, ConfirmMapping
  <2>2. k = Unresolved
    BY <1>1, <2>1 DEF KnowledgeState, Unresolved, Mapping
  <2>3. QED
    BY <1>1, <1>4, <1>5, <2>2 DEF op, k, Ledger!Authorized, Ledger!Unresolved,
       Ledger!KnowledgeState, Ledger!NoResource, NextMapping, Unresolved,
       NoResource, Confirmed
<1>6. CASE op = "CORRECT"
  <2>1. KnowledgeState(k) = "CONFIRMED" /\ k.resource # cmd[s].target
    BY <1>2, <1>3, <1>6 DEF MappingVerdict, CorrectMapping
  <2>2. QED
    BY <1>1, <1>4, <1>6, <2>1 DEF op, k, Ledger!Authorized, KnowledgeState,
       Ledger!KnowledgeState, Ledger!NoResource, NextMapping, NoResource,
       Confirmed
<1>7. CASE op = "EXCEPTIONAL_UNLINK"
  <2>1. KnowledgeState(k) = "CONFIRMED"
    BY <1>3, <1>7 DEF MappingVerdict, ExceptionalUnlink
  <2>2. QED
    BY <1>7, <2>1 DEF op, k, Ledger!Authorized, KnowledgeState,
       Ledger!KnowledgeState, Ledger!NoResource, Ledger!Unresolved, Unresolved,
       NextMapping, NoResource
<1>8. CASE op = "REPORT_IDENTITY_CONFLICT"
  <2>1. KnowledgeState(k) = "CONFIRMED"
    BY <1>3, <1>8 DEF MappingVerdict, ReportIdentityConflict
  <2>2. QED
    BY <1>8, <2>1 DEF op, k, Ledger!Authorized, KnowledgeState,
       Ledger!KnowledgeState, Ledger!NoResource, NextMapping, NoResource
<1>9. CASE op = "RESOLVE_IDENTITY_CONFLICT"
  <2>1. KnowledgeState(k) = "IDENTITY_CONFLICT"
    BY <1>3, <1>9 DEF MappingVerdict, ResolveIdentityConflict
  <2>2. QED
    BY <1>1, <1>4, <1>9, <2>1 DEF op, k, Ledger!Authorized, KnowledgeState,
       Ledger!KnowledgeState, Ledger!NoResource, NextMapping, NoResource,
       Confirmed
<1>10. QED
  BY <1>1, <1>5, <1>6, <1>7, <1>8, <1>9 DEF op, MappingOperations

\* A commit either leaves the mapping tables alone or is one decision.
LEMMA CommitDecides ==
  ASSUME SessionInv, NEW s \in Sessions, Commits(s)
  PROVE  \/ UNCHANGED mappingTables /\ recursos' = recursos
         \/ \E p \in Products, op \in MappingOperations, next \in Mapping :
              Decides(p, op, next)
<1> USE DEF SessionInv
<1>1. pc[s] = "decide" /\ Persist(s) /\ WellFormed(cmd[s])
  BY DEF Commits, Ready, RequestsWellFormed
<1>2. CASE ~(cmd[s].op # "SET_RESOLUTION_OVERRIDE" /\ Verdict(s) = "changed")
  BY <1>1, <1>2 DEF Persist, mappingTables
<1>3. CASE cmd[s].op # "SET_RESOLUTION_OVERRIDE" /\ Verdict(s) = "changed"
  <2> DEFINE p == cmd[s].product
             op == MappingOp(s)
             next == NextMapping(op, seen[s].mapping, cmd[s])
  <2>1. p \in Products /\ op \in MappingOperations /\ next \in Mapping
    BY <1>1, <1>3, NextMappingType DEF WellFormed
  <2>2. seen[s].mapping = mapping[p] /\ seen[s].revision = mappingRevision[p]
    BY <1>1, <1>3 DEF SnapshotsAreCurrent, HoldsProduct
  <2>3. /\ DomainVerdict(s) = "changed"
        /\ RequiresActiveTarget(s) => cmd[s].target \in seen[s].active
    BY <1>3 DEF Verdict
  <2>4. Ledger!Authorized(op, mapping[p], next)
    BY <1>1, <1>3, <2>2, <2>3, ChangeIsAuthorized
  <2>5. ASSUME KnowledgeState(next) = "CONFIRMED"
        PROVE  recursos[next.resource] = "active"
    <3>1. op \in {"CONFIRM", "CORRECT", "RESOLVE_IDENTITY_CONFLICT"}
      BY <2>1, <2>5 DEF NextMapping, MappingOperations, KnowledgeState,
         Unresolved, Mapping
    <3>2. RequiresActiveTarget(s)
      BY <1>1, <2>3, <3>1 DEF RequiresActiveTarget, MappingOp, WellFormed,
         Request
    <3>3. next.resource = cmd[s].target
      BY <3>1 DEF NextMapping, Confirmed
    <3>4. QED
      BY <2>3, <3>2, <3>3 DEF SnapshotsAreCurrent
  <2>6. /\ mapping' = [mapping EXCEPT ![p] = next]
        /\ mappingRevision' = [mappingRevision EXCEPT ![p] = seen[s].revision + 1]
        /\ mappingAudit' = [mappingAudit EXCEPT ![p] = Append(@,
             [op |-> op, previous |-> seen[s].mapping, next |-> next,
              previousRevision |-> seen[s].revision,
              newRevision |-> seen[s].revision + 1])]
    BY <1>1, <1>3 DEF Persist, WriteMapping
  <2>7. recursos' = recursos
    BY <1>1 DEF Persist
  <2> HIDE DEF p, op, next
  <2>8. Decides(p, op, next)
    BY <2>1, <2>2, <2>4, <2>5, <2>6, <2>7 DEF Decides
  <2>9. QED
    BY <2>1, <2>8
<1>4. QED
  BY <1>2, <1>3

\* Every step is one decision, or leaves the mapping tables alone and at most
\* toggles (or creates) one resource.
LEMMA StepDecides ==
  ASSUME SessionInv, [Next]_vars
  PROVE  \/ /\ UNCHANGED mappingTables
            /\ \/ recursos' = recursos
               \/ \E r \in Resources, to \in {"active", "inactive"} :
                    recursos' = [recursos EXCEPT ![r] = to]
         \/ \E p \in Products, op \in MappingOperations, next \in Mapping :
              Decides(p, op, next)
<1> USE DEF mappingTables
<1>1. CASE UNCHANGED vars
  BY <1>1 DEF vars, productVars
<1>2. CASE Neighbours
  BY <1>2 DEF Neighbours, ImportPlainLine, ImportSkuLine, CreateResource,
     DeactivateResource, ReactivateResource, SetResource, productVars
<1>3. ASSUME NEW s \in Sessions,
             \/ Enters(s) \/ Ends(s)
             \/ LockLine(s) \/ LockProduct(s) \/ LockResource(s)
      PROVE  UNCHANGED mappingTables /\ recursos' = recursos
  BY <1>3 DEF Enters, Begin, Ends, Refuse, LockLine, LockProduct, LockResource,
     productVars
<1>4. QED
  BY <1>1, <1>2, <1>3, StepCases, CommitDecides

\* What appending an entry does to a trail.
LEMMA AppendFacts ==
  ASSUME NEW S, NEW a \in Seq(S), NEW e \in S
  PROVE  /\ Len(a) \in Nat
         /\ Len(Append(a, e)) = Len(a) + 1
         /\ Append(a, e)[Len(a) + 1] = e
         /\ \A i \in 1 .. Len(a) : Append(a, e)[i] = a[i]
         /\ Append(a, e) # <<>>
  OBVIOUS

\* The audit trail explains the mapping, on top of the session invariant.
LEMMA AuditStep ==
  SessionInv /\ AuditReplaysMapping /\ [Next]_vars => AuditReplaysMapping'
<1> SUFFICES ASSUME SessionInv, AuditReplaysMapping, [Next]_vars
             PROVE  AuditReplaysMapping'
  OBVIOUS
<1>1. CASE UNCHANGED mappingTables
  BY <1>1 DEF mappingTables, AuditReplaysMapping
<1>2. ASSUME NEW p \in Products, NEW op \in MappingOperations,
             NEW next \in Mapping, Decides(p, op, next)
      PROVE  AuditReplaysMapping'
  <2> DEFINE entry == [op |-> op, previous |-> mapping[p], next |-> next,
                       previousRevision |-> mappingRevision[p],
                       newRevision |-> mappingRevision[p] + 1]
  <2>1. /\ mapping \in [Products -> Mapping]
        /\ mappingRevision \in [Products -> Nat]
        /\ mappingAudit \in [Products -> Seq(MappingAuditEntry)]
        /\ entry \in MappingAuditEntry
    <3>1. /\ mapping \in [Products -> Mapping]
          /\ mappingRevision \in [Products -> Nat]
          /\ mappingAudit \in [Products -> Seq(MappingAuditEntry)]
      BY DEF SessionInv, TypeOK
    <3>2. entry \in MappingAuditEntry
      BY <3>1 DEF MappingAuditEntry
    <3>3. QED
      BY <3>1, <3>2
  <2>2. /\ entry.next = next /\ entry.previous = mapping[p]
        /\ entry.previousRevision = mappingRevision[p]
        /\ entry.newRevision = mappingRevision[p] + 1
    OBVIOUS
  <2>3. /\ mapping' = [mapping EXCEPT ![p] = next]
        /\ mappingRevision' = [mappingRevision EXCEPT ![p] = @ + 1]
        /\ mappingAudit' = [mappingAudit EXCEPT ![p] = Append(@, entry)]
    BY <1>2 DEF Decides
  <2> HIDE DEF entry
  <2> SUFFICES ASSUME NEW x \in Products
               PROVE  AuditReplaysMapping!(x)'
    BY DEF AuditReplaysMapping
  <2>4. CASE x # p
    BY <2>1, <2>3, <2>4 DEF AuditReplaysMapping
  <2>5. CASE x = p
    <3> DEFINE a == mappingAudit[p]
               b == mappingAudit'[p]
    <3>1. /\ b = Append(a, entry) /\ Len(b) = Len(a) + 1 /\ Len(a) \in Nat
          /\ b[Len(b)] = entry
          /\ \A i \in 1 .. Len(a) : b[i] = a[i]
          /\ b # <<>>
      <4>1. a \in Seq(MappingAuditEntry) /\ b = Append(a, entry)
        BY <2>1, <2>3
      <4>2. QED
        BY <2>1, <4>1, AppendFacts
    <3>2. /\ mappingRevision[p] = Len(a)
          /\ mapping[p] = IF a = <<>> THEN Unresolved ELSE a[Len(a)].next
          /\ \A i \in 1 .. Len(a) :
               /\ a[i].previousRevision = i - 1
               /\ a[i].newRevision = i
               /\ a[i].previous = IF i = 1 THEN Unresolved ELSE a[i - 1].next
      BY DEF AuditReplaysMapping
    <3>3. a = <<>> <=> Len(a) = 0
      BY <2>1
    <3>4. mappingRevision'[p] = Len(b) /\ mapping'[p] = b[Len(b)].next
      BY <2>1, <2>2, <2>3, <3>1, <3>2
    <3> HIDE DEF a, b
    <3>5. ASSUME NEW i \in 1 .. Len(b)
          PROVE  /\ b[i].previousRevision = i - 1
                 /\ b[i].newRevision = i
                 /\ b[i].previous = IF i = 1 THEN Unresolved ELSE b[i - 1].next
      <4>1. CASE i \in 1 .. Len(a)
        BY <3>1, <3>2, <4>1
      <4>2. CASE i = Len(b)
        BY <2>2, <3>1, <3>2, <3>3, <4>2
      <4>3. QED
        BY <3>1, <4>1, <4>2
    <3>6. QED
      BY <2>5, <3>1, <3>4, <3>5 DEF a, b
  <2>6. QED
    BY <2>4, <2>5
<1>3. QED
  BY <1>1, <1>2, StepDecides

\* In every reachable state the audit trail of a product replays to its current
\* mapping and revision: no decision is lost, applied twice or unaudited.
THEOREM AuditSafety == Spec => []AuditReplaysMapping
<1>1. Init => AuditReplaysMapping
  BY DEF Init, AuditReplaysMapping
<1>2. QED
  BY <1>1, AuditStep, SessionSafety, PTL DEF Spec

\* The activity check made when the target was locked still holds when the
\* decision commits, whatever Resource Master does in between.
THEOREM LearnedTargetsAreActive == Spec => TargetActiveWhenLearned
<1>1. SessionInv /\ [Next]_vars =>
        [\A p \in Products :
           mapping'[p] # mapping[p] /\ KnowledgeState(mapping'[p]) = "CONFIRMED"
             => recursos[mapping'[p].resource] = "active"]_vars
  <2> SUFFICES ASSUME SessionInv, [Next]_vars, NEW p \in Products,
                      mapping'[p] # mapping[p],
                      KnowledgeState(mapping'[p]) = "CONFIRMED"
               PROVE  recursos[mapping'[p].resource] = "active"
    OBVIOUS
  <2>1. PICK q \in Products, op \in MappingOperations, next \in Mapping :
          Decides(q, op, next)
    BY StepDecides DEF mappingTables
  <2>2. q = p /\ mapping'[p] = next
    BY <2>1 DEF Decides, SessionInv, TypeOK
  <2>3. QED
    BY <2>1, <2>2 DEF Decides
<1>2. QED
  BY <1>1, SessionSafety, PTL DEF Spec, TargetActiveWhenLearned

----------------------------------------------------------------------------
\* Knowledge names only resources that exist: a target is active when it is
\* learned, no later decision forgets the target of a conflict, and Resource
\* Master never removes a resource.
LEMMA KnowledgeStep ==
  SessionInv /\ KnowledgeNamesResources /\ [Next]_vars
    => KnowledgeNamesResources'
<1> SUFFICES ASSUME SessionInv, KnowledgeNamesResources, [Next]_vars,
                    NEW x \in Products
             PROVE  KnowledgeNamesResources!(x)'
  BY DEF KnowledgeNamesResources
<1>1. /\ mapping \in [Products -> Mapping]
      /\ recursos \in [Resources -> {"absent", "active", "inactive"}]
  BY DEF SessionInv, TypeOK
<1>2. CASE UNCHANGED mappingTables /\ recursos' = recursos
  BY <1>2 DEF mappingTables, KnowledgeNamesResources
<1>3. ASSUME NEW r \in Resources, NEW to \in {"active", "inactive"},
             recursos' = [recursos EXCEPT ![r] = to], UNCHANGED mappingTables
      PROVE  KnowledgeNamesResources!(x)'
  BY <1>1, <1>3 DEF mappingTables, KnowledgeNamesResources, Mapping
<1>4. ASSUME NEW p \in Products, NEW op \in MappingOperations,
             NEW next \in Mapping, Decides(p, op, next)
      PROVE  KnowledgeNamesResources!(x)'
  <2>1. /\ mapping' = [mapping EXCEPT ![p] = next]
        /\ recursos' = recursos
        /\ KnowledgeState(next) = "CONFIRMED" =>
             recursos[next.resource] = "active"
        /\ Ledger!Authorized(op, mapping[p], next)
    BY <1>4 DEF Decides
  <2>2. CASE x # p
    BY <1>1, <2>1, <2>2 DEF KnowledgeNamesResources
  <2>3. CASE x = p /\ next.conflict
    <3>1. /\ KnowledgeState(mapping[p]) = "CONFIRMED"
          /\ next = [mapping[p] EXCEPT !.conflict = TRUE]
      BY <2>1, <2>3 DEF Ledger!Authorized, Ledger!KnowledgeState,
         KnowledgeState, Ledger!NoResource, NoResource, Ledger!Unresolved
    <3>2. next.resource = mapping[p].resource /\ mapping[p].resource # NoResource
      BY <1>1, <3>1 DEF Mapping, KnowledgeState
    <3>3. QED
      BY <1>1, <2>1, <2>3, <3>2 DEF KnowledgeNamesResources
  <2>4. CASE x = p /\ ~next.conflict
    BY <1>1, <2>1, <2>4 DEF KnowledgeState, Mapping
  <2>5. QED
    BY <1>1, <2>2, <2>3, <2>4
<1>5. QED
  BY <1>2, <1>3, <1>4, StepDecides

\* No product ever names a resource that does not exist, and no conflict loses
\* the resource it is about.
THEOREM KnowledgeSafety == Spec => []KnowledgeNamesResources
<1>1. Init => KnowledgeNamesResources
  BY DEF Init, KnowledgeNamesResources, Unresolved
<1>2. QED
  BY <1>1, KnowledgeStep, SessionSafety, PTL DEF Spec

----------------------------------------------------------------------------
\* A step of the transactional system is a step of the ledger of decisions.
LEMMA LedgerStep ==
  SessionInv /\ AuditReplaysMapping /\ [Next]_vars
    => [Ledger!LedgerNext]_(Ledger!ledgerVars)
<1> SUFFICES ASSUME SessionInv, AuditReplaysMapping, [Next]_vars
             PROVE  Ledger!LedgerNext \/ UNCHANGED Ledger!ledgerVars
  OBVIOUS
<1>1. /\ recursos \in [Resources -> {"absent", "active", "inactive"}]
      /\ mapping \in [Products -> Mapping]
  BY DEF SessionInv, TypeOK
<1>2. CASE UNCHANGED mappingTables /\ recursos' = recursos
  BY <1>2 DEF mappingTables, Ledger!ledgerVars
<1>3. ASSUME NEW r \in Resources, NEW to \in {"active", "inactive"},
             recursos' = [recursos EXCEPT ![r] = to], UNCHANGED mappingTables
      PROVE  Ledger!LedgerNext
  <2>1. Ledger!ResourceMaster
    BY <1>1, <1>3 DEF Ledger!ResourceMaster, mappingTables
  <2>2. QED
    BY <2>1 DEF Ledger!LedgerNext
<1>4. ASSUME NEW p \in Products, NEW op \in MappingOperations,
             NEW next \in Mapping, Decides(p, op, next)
      PROVE  Ledger!LedgerNext
  <2>1. mappingRevision[p] = Len(mappingAudit[p])
    BY DEF AuditReplaysMapping
  <2>2. KnowledgeState(next) = Ledger!KnowledgeState(next)
    BY DEF KnowledgeState, Ledger!KnowledgeState, NoResource, Ledger!NoResource
  <2>3. Ledger!Decide(p, op, next)
    BY <1>4, <2>1, <2>2 DEF Decides, Ledger!Decide
  <2>4. op \in Ledger!MappingOperations /\ next \in Ledger!Mapping
    BY DEF MappingOperations, Ledger!MappingOperations, Mapping, Ledger!Mapping,
       NoResource, Ledger!NoResource
  <2>5. QED
    BY <2>3, <2>4 DEF Ledger!LedgerNext
<1>5. QED
  BY <1>2, <1>3, <1>4, StepDecides

\* The transactional core implements the abstract ledger: seen from the mapping
\* tables, concurrent lock-read-decide-write transactions are atomic decisions.
THEOREM LedgerRefinement == Spec => ImplementsLedger
<1>1. Init => Ledger!LedgerInit
  BY DEF Init, Ledger!LedgerInit, Unresolved, Ledger!Unresolved, NoResource,
     Ledger!NoResource
<1>2. QED
  BY <1>1, LedgerStep, SessionSafety, AuditSafety, PTL
     DEF Spec, ImplementsLedger, Ledger!LedgerSpec

----------------------------------------------------------------------------
\* The SQL CASE of the workbench and the Go derivation of a line's status are
\* the same function of the stored rows, because knowledge that is in use never
\* names a missing resource.
THEOREM WorkbenchSafety == Spec => []WorkbenchAgrees
<1>1. SessionInv /\ KnowledgeNamesResources => WorkbenchAgrees
  <2> SUFFICES ASSUME SessionInv, KnowledgeNamesResources, NEW l \in Lines
               PROVE  LET k == MappingOf(l)
                          found == /\ k.resource # NoResource
                                   /\ recursos[k.resource] # "absent"
                      IN  WorkbenchStatus(override[l], association[l] # None, k,
                                          found, ActiveOf(l))
                            = EffectiveLineStatus(override[l], k, ActiveOf(l))
    BY DEF WorkbenchAgrees, SessionInv, TypeOK
  <2> DEFINE k == MappingOf(l)
             active == ActiveOf(l)
             found == k.resource # NoResource /\ recursos[k.resource] # "absent"
             linked == association[l] # None
             o == override[l]
  <2>1. /\ o \in Overrides
        /\ active \in BOOLEAN
        /\ k.resource # NoResource => linked /\ found
        /\ k.conflict \in BOOLEAN
        /\ k.conflict => linked
        /\ k.resource = NoResource => active
    <3>1. association[l] \in Products \cup {None} /\ o \in Overrides
      BY DEF SessionInv, TypeOK
    <3>2. CASE association[l] = None
      BY <3>1, <3>2 DEF MappingOf, ActiveOf, Unresolved
    <3>3. CASE association[l] # None
      BY <3>1, <3>3 DEF MappingOf, ActiveOf, SessionInv, TypeOK, Mapping,
         KnowledgeNamesResources
    <3>4. QED
      BY <3>2, <3>3
  <2> HIDE DEF k, active, found, linked, o
  <2>2. WorkbenchStatus(o, linked, k, found, active)
          = EffectiveLineStatus(o, k, active)
    BY <2>1 DEF WorkbenchStatus, EffectiveLineStatus, Overrides, State, Cause,
       KnowledgeState
  <2>3. QED
    BY <2>2 DEF k, active, found, linked, o
<1>2. QED
  BY <1>1, SessionSafety, KnowledgeSafety, PTL
============================================================================
