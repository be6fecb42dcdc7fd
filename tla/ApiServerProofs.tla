--------------------------- MODULE ApiServerProofs ---------------------------
(***************************************************************************)
(* Theorems about ApiServer: an order revision has one winner, and the     *)
(* answers about a replacement are true, for any clients, bindings and     *)
(* catalog changes, across commits without an answer, crashes and          *)
(* restarts.                                                               *)
(***************************************************************************)
EXTENDS ApiServer, TLAPS

\* A client cannot have read a head that was not stored yet; a revision that
\* won names a head that was replaced.
HeadsSeen ==
  \A r \in Requests : seen[r] # None =>
    seen[r].revision.head \in Nat /\ seen[r].revision.head <= head

HeadsWon == \A w \in won : w.head \in Nat /\ w.head < head

HeadInv ==
  /\ head \in Nat
  /\ at \in [Requests -> {"idle", "begun", "typed", "tabled", "written"}]
  /\ seen = [r \in Requests |-> seen[r]]
  /\ \A r \in Requests : at[r] # "idle" => seen[r] # None
  /\ HeadsSeen /\ HeadsWon

-----------------------------------------------------------------------------
(***************************************************************************)
(* The shapes of steps, as seen by the head, the clients and the answers.  *)
(***************************************************************************)
\* A request goes on, or the step is not one of a request.
GoesOn ==
  /\ answered' = None /\ UNCHANGED <<head, won>>
  /\ \/ UNCHANGED <<at, seen>>
     \/ at' = [r \in Requests |-> "idle"] /\ UNCHANGED seen
     \/ \E r \in Requests :
          \/ at[r] = "idle" /\ UNCHANGED at /\ seen' = [seen EXCEPT ![r] = Snapshot]
          \/ /\ at[r] # "idle" \/ seen[r] # None
             /\ \E stage \in {"begun", "typed", "tabled", "written"} : at' = [at EXCEPT ![r] = stage]
             /\ UNCHANGED seen

\* A request ends with a status, and nothing is stored.
Ended(r, status) ==
  /\ at' = [at EXCEPT ![r] = "idle"] /\ answered' = <<r, status>>
  /\ seen' = seen \/ seen' = [seen EXCEPT ![r] = None]

EndsUnstored(r) ==
  /\ UNCHANGED <<head, won>>
  /\ \E status \in {"400", "409", "422", "500", "503", "closed"} : Ended(r, status)

\* A request ends and its order is stored.
EndsStored(r) ==
  /\ at[r] = "written" /\ head' = head + 1 /\ won' = won \cup {seen[r].revision}
  /\ \E status \in {"200", "503", "closed"} : Ended(r, status)

\* Which answers the errors of a replacement are given.
LEMMA Statuses ==
  /\ StatusOf[CodeOf["ErrInvalidArgument"]] = "400"
  /\ StatusOf[CodeOf["ErrAttributeOrderRevisionConflict"]] = "409"
  /\ StatusOf[CodeOf["ErrResourceValidation"]] = "422"
  /\ StatusOf[CodeOf["ErrAttributeOrderUnavailable"]] = "503"
  /\ StatusOf[CodeOf["deadlock"]] = "500"
BY DEF StatusOf, CodeOf

\* A refusal ends a request unstored.
LEMMA RefuseShape ==
  ASSUME NEW r \in Requests,
         NEW err \in {"ErrInvalidArgument", "ErrAttributeOrderRevisionConflict",
                      "ErrResourceValidation", "ErrAttributeOrderUnavailable", "deadlock"},
         Refuse(r, err)
  PROVE  EndsUnstored(r)
<1>1. StatusOf[CodeOf[err]] \in {"400", "409", "422", "500", "503", "closed"}
  BY Statuses
<1>2. Ended(r, StatusOf[CodeOf[err]]) /\ UNCHANGED <<head, won>>
  BY DEF Refuse, Answer, Ended, orderVars
<1> QED BY <1>1, <1>2 DEF EndsUnstored

\* The steps of a request.
LEMMA RequestShape ==
  ASSUME NEW r \in Requests, Request(r)
  PROVE  GoesOn \/ EndsUnstored(r)
<1>1. CASE ReadAttributeOrder(r)
  BY <1>1 DEF ReadAttributeOrder, GoesOn, orderVars
<1>2. ASSUME NEW keys \in Orders(r), WriteAttributeOrder(r, keys)
      PROVE  GoesOn \/ EndsUnstored(r)
  <2>1. CASE keys = <<>>
    BY <1>2, <2>1, RefuseShape DEF WriteAttributeOrder
  <2>2. CASE keys # <<>>
    BY <1>2, <2>2 DEF WriteAttributeOrder, Going, GoesOn, orderVars
  <2> QED BY <2>1, <2>2
<1> QED BY <1>1, <1>2 DEF Request

\* An unanswered commit stored the order or did not.
LEMMA UnansweredShape ==
  ASSUME NEW r \in Requests, CommitUnanswered(r)
  PROVE  EndsStored(r) \/ EndsUnstored(r)
<1>1. CASE TakeEffect(r) /\ Answer(r, StatusOf[CodeOf[classifyAttributeOrderCommitFailure]])
  <2>1. Answer(r, "503") /\ TakeEffect(r) /\ at[r] = "written"
    BY <1>1, Statuses DEF classifyAttributeOrderCommitFailure, CommitUnanswered
  <2>2. Ended(r, "503")
    BY <2>1 DEF Answer, Ended
  <2> QED BY <2>1, <2>2 DEF TakeEffect, BumpHead, EndsStored
<1>2. CASE Refuse(r, classifyAttributeOrderCommitFailure)
  BY <1>2, RefuseShape DEF classifyAttributeOrderCommitFailure
<1> QED BY <1>1, <1>2 DEF CommitUnanswered

\* The steps of the transaction.
LEMMA ServeShape ==
  ASSUME NEW r \in Requests, Serve(r)
  PROVE  GoesOn \/ EndsUnstored(r) \/ EndsStored(r)
<1>1. CASE LockType(r)
  BY <1>1 DEF LockType, Going, GoesOn, orderVars
<1>2. CASE LockStructural(r)
  BY <1>2 DEF LockStructural, Going, GoesOn, orderVars
<1>3. CASE ReplaceItems(r)
  <2>1. CASE Refuse(r, "ErrAttributeOrderRevisionConflict") \/ Refuse(r, "ErrResourceValidation")
    BY <2>1, RefuseShape
  <2>2. CASE at[r] = "tabled" /\ Going(r, "written") /\ answered' = None /\ UNCHANGED <<orderVars, seen>>
    BY <2>2 DEF Going, GoesOn, orderVars
  <2> QED BY <1>3, <2>1, <2>2 DEF ReplaceItems
<1>4. CASE CommitOrder(r)
  <2>1. PICK status \in {"200", "closed"} : Answer(r, status)
    BY <1>4 DEF CommitOrder
  <2>2. Ended(r, status)
    BY <2>1 DEF Answer, Ended
  <2> QED BY <1>4, <2>2 DEF CommitOrder, TakeEffect, BumpHead, EndsStored
<1>5. CASE CommitUnanswered(r)
  BY <1>5, UnansweredShape
<1> QED BY <1>1, <1>2, <1>3, <1>4, <1>5 DEF Serve

\* An abandoned request stores nothing.
LEMMA AbandonShape ==
  ASSUME NEW r \in Requests, AbandonOrder(r)
  PROVE  EndsUnstored(r)
<1>1. Ended(r, "closed") /\ UNCHANGED <<head, won>>
  BY DEF AbandonOrder, Answer, Ended, orderVars
<1> QED BY <1>1 DEF EndsUnstored

\* Every step has one of the three shapes.
LEMMA NextShape ==
  ASSUME Next
  PROVE  GoesOn \/ \E r \in Requests : EndsUnstored(r) \/ EndsStored(r)
<1>1. CASE Open \/ Stop \/ drainServer \/ ClosePool
  BY <1>1 DEF Open, Stop, drainServer, ClosePool, Quiet, GoesOn, orderVars, requestVars
<1>2. CASE Crash
  BY <1>2 DEF Crash, GoesOn, orderVars
<1>3. CASE ReceiveChange
  BY <1>3 DEF ReceiveChange, ChangeBinding, ChangePresentation, GoesOn, orderVars, requestVars
<1>4. CASE HandleChange
  BY <1>4 DEF HandleChange, CatalogStep, CheckForeignKey, CommitChange, GoesOn, orderVars, requestVars
<1>5. CASE CancelChange
  BY <1>5 DEF CancelChange, AbandonChange, GoesOn, orderVars, requestVars
<1>6. ASSUME NEW r \in Requests, Receive(r) \/ Handle(r)
      PROVE  GoesOn \/ \E q \in Requests : EndsUnstored(q) \/ EndsStored(q)
  BY <1>6, RequestShape, ServeShape DEF Receive, Handle
<1>7. ASSUME NEW r \in Requests, CancelRequest(r)
      PROVE  GoesOn \/ \E q \in Requests : EndsUnstored(q) \/ EndsStored(q)
  BY <1>7, AbandonShape, UnansweredShape DEF CancelRequest
<1>8. ASSUME NEW r \in Requests, ResolveDeadlock(r)
      PROVE  GoesOn \/ \E q \in Requests : EndsUnstored(q) \/ EndsStored(q)
  <2>1. CASE Refuse(r, "deadlock")
    BY <2>1, RefuseShape
  <2>2. CASE AbandonChange
    BY <2>2 DEF AbandonChange, GoesOn, orderVars, requestVars
  <2> QED BY <1>8, <2>1, <2>2 DEF ResolveDeadlock, DeadlockVictim
<1> QED BY <1>1, <1>2, <1>3, <1>4, <1>5, <1>6, <1>7, <1>8 DEF Next

-----------------------------------------------------------------------------
(***************************************************************************)
(* The invariant.                                                          *)
(***************************************************************************)
\* A read shows the stored head.
LEMMA SnapshotHead == Snapshot.revision.head = head
BY DEF Snapshot, OrderRevision

\* Steps that store nothing keep the head and what was seen of it.
LEMMA GoesOnKeepsInv ==
  ASSUME HeadInv, GoesOn
  PROVE  HeadInv'
<1>1. CASE UNCHANGED <<at, seen>>
  BY <1>1 DEF GoesOn, HeadInv, HeadsSeen, HeadsWon
<1>2. CASE at' = [r \in Requests |-> "idle"] /\ UNCHANGED seen
  BY <1>2 DEF GoesOn, HeadInv, HeadsSeen, HeadsWon
<1>3. ASSUME NEW r \in Requests, at[r] = "idle", UNCHANGED at, seen' = [seen EXCEPT ![r] = Snapshot]
      PROVE  HeadInv'
  <2>1. \A q \in Requests : seen'[q] = IF q = r THEN Snapshot ELSE seen[q]
    BY <1>3 DEF HeadInv
  <2>2. seen' = [q \in Requests |-> seen'[q]]
    BY <1>3 DEF HeadInv
  <2> QED BY <1>3, <2>1, <2>2, SnapshotHead DEF GoesOn, HeadInv, HeadsSeen, HeadsWon
<1>4. ASSUME NEW r \in Requests, at[r] # "idle" \/ seen[r] # None, UNCHANGED seen,
             NEW stage \in {"begun", "typed", "tabled", "written"}, at' = [at EXCEPT ![r] = stage]
      PROVE  HeadInv'
  BY <1>4 DEF GoesOn, HeadInv, HeadsSeen, HeadsWon
<1> QED BY <1>1, <1>2, <1>3, <1>4 DEF GoesOn

\* The end of a request keeps it too: a revision that wins names the head
\* it was read with, which the stored one leaves behind.
LEMMA EndKeepsInv ==
  ASSUME HeadInv, NEW r \in Requests, EndsUnstored(r) \/ EndsStored(r)
  PROVE  HeadInv'
<1>1. /\ at' = [at EXCEPT ![r] = "idle"]
      /\ seen' = seen \/ seen' = [seen EXCEPT ![r] = None]
  BY DEF EndsUnstored, EndsStored, Ended
<1>2. /\ \A q \in Requests : (q = r /\ seen'[q] = None) \/ seen'[q] = seen[q]
      /\ seen' = [q \in Requests |-> seen'[q]]
  BY <1>1 DEF HeadInv
<1>3. head' \in Nat /\ head <= head'
  BY DEF EndsUnstored, EndsStored, HeadInv
<1>4. HeadsSeen'
  BY <1>2, <1>3 DEF HeadInv, HeadsSeen
<1>5. HeadsWon'
  <2>1. CASE EndsUnstored(r)
    BY <2>1 DEF EndsUnstored, HeadInv, HeadsWon
  <2>2. CASE EndsStored(r)
    <3>1. seen[r].revision.head \in Nat /\ seen[r].revision.head <= head
      BY <2>2 DEF EndsStored, HeadInv, HeadsSeen
    <3> QED BY <2>2, <3>1 DEF EndsStored, HeadInv, HeadsWon
  <2> QED BY <2>1, <2>2
<1>6. \A q \in Requests : at'[q] # "idle" => seen'[q] # None
  BY <1>1, <1>2 DEF HeadInv
<1> QED BY <1>1, <1>2, <1>3, <1>4, <1>5, <1>6 DEF HeadInv

\* The invariant holds in every reachable state.
LEMMA InvHolds == Spec => []HeadInv
<1>1. Init => HeadInv
  BY DEF Init, OrderInit, HeadInv, HeadsSeen, HeadsWon
<1>2. ASSUME HeadInv, [Next]_vars PROVE HeadInv'
  <2>1. CASE Next
    BY <1>2, <2>1, NextShape, GoesOnKeepsInv, EndKeepsInv
  <2>2. CASE UNCHANGED vars
    BY <1>2, <2>2 DEF vars, orderAllVars, orderVars, requestVars, HeadInv, HeadsSeen, HeadsWon
  <2> QED BY <1>2, <2>1, <2>2
<1> QED BY <1>1, <1>2, PTL DEF Spec

-----------------------------------------------------------------------------
\* An order revision has one winner: no order revision with which a
\* replacement was accepted is ever current again, whatever clients and the
\* catalog writer do, so a replay is refused by planAttributeOrderWrite.
THEOREM OneWinner == Spec => []SpentRevisionsStaySpent
<1>1. HeadInv => SpentRevisionsStaySpent
  <2> SUFFICES ASSUME HeadInv, OrderRevision \in won PROVE FALSE
    BY DEF SpentRevisionsStaySpent
  <2>1. OrderRevision.head = head
    BY DEF OrderRevision
  <2> QED BY <2>1 DEF HeadInv, HeadsWon
<1> QED BY <1>1, InvHolds, PTL

\* Answers are true: 200 is given only in the step that stores the order of
\* its client, and 400, 409, 422 and 500 only in one that stores nothing;
\* what is left in doubt is answered with 503 or a closed connection.
THEOREM AnswersAreTrue == Spec => RepliesTellTruth
<1> DEFINE True(r) ==
      /\ answered' = <<r, "200">> => Applies(r)
      /\ answered' \in {<<r, status>> : status \in {"400", "409", "422", "500"}} => ~Applies(r)
<1>1. ASSUME HeadInv, GoesOn, NEW r \in Requests PROVE True(r)
  BY <1>1, OrderAssumption DEF GoesOn
<1>2. ASSUME HeadInv, NEW q \in Requests, EndsUnstored(q), NEW r \in Requests PROVE True(r)
  BY <1>2 DEF EndsUnstored, Ended, Applies
<1>3. ASSUME HeadInv, NEW q \in Requests, EndsStored(q), NEW r \in Requests PROVE True(r)
  BY <1>3 DEF EndsStored, Ended, Applies, HeadInv
<1> HIDE DEF True
<1>4. HeadInv /\ [Next]_vars =>
        [\A r \in Requests : answered' # answered \/ at' # at => True(r)]_orderAllVars
  <2> SUFFICES ASSUME HeadInv, Next, NEW r \in Requests PROVE True(r)
    BY DEF vars
  <2> QED BY <1>1, <1>2, <1>3, NextShape
<1> USE DEF True
<1> QED BY <1>4, InvHolds, PTL DEF Spec, RepliesTellTruth
=============================================================================
