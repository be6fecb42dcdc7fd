----------------------- MODULE CatalogAuthorityProofs -----------------------
(***************************************************************************)
(* Publication, soundness and revisions of the catalog, for any ids,       *)
(* codes, creators and number of writes.                                   *)
(*                                                                         *)
(* A publication, and a commit, use what the transaction left in pending,  *)
(* so the inductive invariant says what pending is at each point of a      *)
(* write: a sound catalog that differs from the rows by one revision while *)
(* the statement is applied, and the rows themselves after the commit.     *)
(* That needs the ids of rows to be ids the sequences gave out, and the    *)
(* entry of a checked request to be there still when it is applied.        *)
(***************************************************************************)
EXTENDS CatalogAuthority, TLAPS

HasShape(row) == row = [code |-> row.code, parent |-> row.parent,
                        active |-> row.active, revision |-> row.revision]

\* Every id has a row of the table's shape or none.
Table(rs) == /\ rs = [id \in Ids |-> rs[id]]
             /\ \A id \in Ids : rs[id] = None \/ HasShape(rs[id])

\* How one row may differ after a commit.
Succeeds(old, new) ==
  \/ new = old
  \/ old = None /\ new.revision = 1
  \/ new = None
  \/ new.revision = old.revision + 1

RowsInv ==
  /\ Table(rows) /\ Table(pending)
  /\ Present(rows) \subseteq spent
  /\ Sound(LoadCatalog(rows))

WriterInv ==
  /\ wpc \in {"checked", "probed"} =>
       /\ cmd.op \in {"insert", "update", "setActive", "delete"}
       /\ cmd.op # "insert" => cmd.id \in Present(rows)
  /\ wpc = "applied" =>
       /\ Sound(LoadCatalog(pending))
       /\ Present(pending) \subseteq spent
       /\ \A id \in Ids : Succeeds(rows[id], pending[id])
  /\ wpc = "committed" => pending = rows

CatalogInv == RowsInv /\ WriterInv

LEMMA InitCatalogInv == Init => CatalogInv
<1> SUFFICES ASSUME Init PROVE CatalogInv
  OBVIOUS
<1>1. Table(FirstRows)
  BY CatalogAssumption DEF Table, HasShape, Row
<1>2. Sound(LoadCatalog(FirstRows))
  BY CatalogAssumption
<1> QED
  BY <1>1, <1>2 DEF Init, CatalogInv, RowsInv, WriterInv

-----------------------------------------------------------------------------
\* Steps that leave the write and the rows alone.
LEMMA QuietStep ==
  ASSUME CatalogInv, UNCHANGED <<rows, spent, pending, wpc, cmd>>
  PROVE  CatalogInv'
BY DEF CatalogInv, RowsInv, WriterInv

LEMMA AcceptStep ==
  ASSUME CatalogInv, NEW command, Accept(command),
         command.op \in {"insert", "update", "setActive", "delete"},
         command.op # "insert" => command.id \in Present(rows)
  PROVE  CatalogInv'
BY DEF CatalogInv, RowsInv, WriterInv, Accept, storeVars

LEMMA RequestStep ==
  ASSUME CatalogInv, Request
  PROVE  CatalogInv'
<1>1. ASSUME NEW path \in Paths, NEW active \in BOOLEAN, insertLocked(path, active)
      PROVE  CatalogInv'
  BY <1>1, AcceptStep DEF insertLocked
<1>2. ASSUME NEW id \in Present(rows), NEW path \in Paths, NEW active \in BOOLEAN,
             NEW r \in Revisions(id), UpdateRevision(id, path, active, r)
      PROVE  CatalogInv'
  BY <1>2, AcceptStep DEF UpdateRevision
<1>3. ASSUME NEW id \in Present(rows), NEW active \in BOOLEAN,
             NEW r \in Revisions(id), setActiveRevision(id, active, r)
      PROVE  CatalogInv'
  BY <1>3, AcceptStep DEF setActiveRevision
<1>4. ASSUME NEW id \in Present(rows), NEW r \in Revisions(id), HardDeleteRevision(id, r)
      PROVE  CatalogInv'
  BY <1>4, AcceptStep DEF HardDeleteRevision
<1> QED
  BY <1>1, <1>2, <1>3, <1>4 DEF Request

\* What the statement writes: a row of the table's shape whose revision is
\* the first or the next, or none.
LEMMA WrittenSucceeds ==
  ASSUME CatalogInv, wpc = "probed", NEW id \in Ids, id \in TargetIds
  PROVE  /\ Written(id) = None \/ HasShape(Written(id))
         /\ Succeeds(rows[id], Written(id))
<1> USE DEF CatalogInv, RowsInv, WriterInv
<1>1. CASE cmd.op = "insert"
  <2>1. rows[id] = None
    BY <1>1 DEF TargetIds, Present, Table
  <2> QED
    BY <1>1, <2>1 DEF Written, HasShape, Succeeds
<1>2. CASE cmd.op = "update"
  BY <1>2 DEF Written, HasShape, Succeeds
<1>3. CASE cmd.op = "setActive"
  <2>1. id = cmd.id /\ rows[id] # None
    BY <1>3 DEF TargetIds, Present
  <2>2. HasShape(rows[id])
    BY <2>1 DEF Table
  <2>3. Written(id) = [rows[id] EXCEPT !.active = cmd.active, !.revision = @ + 1]
    BY <1>3 DEF Written
  <2>4. Written(id) = [code |-> rows[id].code, parent |-> rows[id].parent,
                       active |-> cmd.active, revision |-> rows[id].revision + 1]
    BY <2>2, <2>3 DEF HasShape
  <2> QED
    BY <2>4 DEF HasShape, Succeeds
<1>4. CASE cmd.op = "delete"
  BY <1>4 DEF Written, Succeeds
<1> QED
  BY <1>1, <1>2, <1>3, <1>4

LEMMA ApplyStep ==
  ASSUME CatalogInv, NEW id \in Ids, Apply(id)
  PROVE  CatalogInv'
<1> USE DEF CatalogInv, RowsInv, WriterInv
<1>1. /\ wpc = "probed" /\ id \in TargetIds /\ rows' = rows
      /\ spent \subseteq spent' /\ (StatementAccepted(id) => id \in spent')
  BY DEF Apply, StatementAccepted
<1>2. CASE wpc' = "idle" /\ pending' = pending
  BY <1>1, <1>2
<1>3. CASE /\ StatementAccepted(id) /\ wpc' = "applied"
           /\ pending' = [rows EXCEPT ![id] = Written(id)]
  <2>1. Sound(LoadCatalog(pending'))
    BY <1>3 DEF StatementAccepted, Coherent
  <2>2. \A k \in Ids : pending'[k] = IF k = id THEN Written(id) ELSE rows[k]
    BY <1>3 DEF Table
  <2>3. Table(pending') /\ \A k \in Ids : Succeeds(rows[k], pending'[k])
    <3>1. pending' = [k \in Ids |-> pending'[k]]
      BY <1>3 DEF Table
    <3>2. \A k \in Ids : /\ pending'[k] = None \/ HasShape(pending'[k])
                         /\ Succeeds(rows[k], pending'[k])
      BY <1>1, <2>2, WrittenSucceeds DEF Table, Succeeds
    <3> QED
      BY <3>1, <3>2 DEF Table
  <2>4. Present(pending') \subseteq spent'
    BY <1>1, <1>3, <2>2 DEF Present, Table
  <2> QED
    BY <1>1, <1>3, <2>1, <2>3, <2>4
<1> QED
  BY <1>2, <1>3 DEF Apply

LEMMA CommitStep ==
  ASSUME CatalogInv, Commit
  PROVE  CatalogInv'
BY DEF CatalogInv, RowsInv, WriterInv, Commit

LEMMA AbandonWriteStep ==
  ASSUME CatalogInv, AbandonWrite
  PROVE  CatalogInv'
BY DEF CatalogInv, RowsInv, WriterInv, AbandonWrite, storeVars

LEMMA CommitUnansweredStep ==
  ASSUME CatalogInv, CommitUnanswered
  PROVE  CatalogInv'
<1> USE DEF CatalogInv, RowsInv, WriterInv
<1>1. /\ wpc = "applied" /\ wpc' = "idle" /\ spent' = spent /\ rows' = pending'
      /\ rows' = rows \/ rows' = pending
  BY DEF CommitUnanswered
<1> QED
  BY <1>1

LEMMA publishCoherentStep ==
  ASSUME CatalogInv, publishCoherent
  PROVE  CatalogInv'
BY DEF CatalogInv, RowsInv, WriterInv, publishCoherent, storeVars

LEMMA RestartStep ==
  ASSUME CatalogInv, Restart
  PROVE  CatalogInv'
BY DEF CatalogInv, RowsInv, WriterInv, Restart, storeVars

LEMMA NextCatalogInv == CatalogInv /\ [Next]_vars => CatalogInv'
<1> SUFFICES ASSUME CatalogInv, [Next]_vars PROVE CatalogInv'
  OBVIOUS
<1>1. CASE Request
  BY <1>1, RequestStep
<1>2. CASE BeginWrite
  BY <1>2 DEF BeginWrite, CatalogInv, RowsInv, WriterInv, storeVars
<1>3. ASSUME NEW id \in Ids, Apply(id) PROVE CatalogInv'
  BY <1>3, ApplyStep
<1>4. CASE Commit
  BY <1>4, CommitStep
<1>5. CASE CommitUnanswered
  BY <1>5, CommitUnansweredStep
<1>6. CASE publishCoherent
  BY <1>6, publishCoherentStep
<1>7. ASSUME NEW c \in Creators, Create(c) PROVE CatalogInv'
  BY <1>7, QuietStep DEF Create, NewResource, InsertResource, LockReferences,
     CommitResource, AbandonResource, EndCreation, storeVars, writeVars
<1>8. CASE Restart
  BY <1>8, RestartStep
<1>9. CASE ResetCatalogWriterAvailability
  BY <1>9, QuietStep DEF ResetCatalogWriterAvailability, storeVars, writeVars
<1>10. CASE AbandonWrite
  BY <1>10, AbandonWriteStep
<1>11. CASE UNCHANGED vars
  BY <1>11, QuietStep DEF vars, storeVars, writeVars
<1> QED
  BY <1>1, <1>2, <1>3, <1>4, <1>5, <1>6, <1>7, <1>8, <1>9, <1>10, <1>11 DEF Next

LEMMA CatalogInvariant == Spec => []CatalogInv
BY InitCatalogInv, NextCatalogInv, PTL DEF Spec

-----------------------------------------------------------------------------
\* Every catalog the transactions commit is valid, whatever snapshot the
\* requests were checked against.
THEOREM CommittedSoundness == Spec => []CommittedCatalogIsSound
<1>1. CatalogInv => CommittedCatalogIsSound
  BY DEF CatalogInv, RowsInv, CommittedCatalogIsSound
<1> QED
  BY <1>1, CatalogInvariant, PTL

\* publishCoherent and the load at boot publish the whole committed catalog,
\* and nothing else publishes.
THEOREM PublicationSafety == Spec => PublicationIsACommit
<1>1. CatalogInv /\ [Next]_vars => [published' # published => published' = LoadCatalog(rows)]_vars
  <2> SUFFICES ASSUME CatalogInv, Next PROVE published' # published => published' = LoadCatalog(rows)
    OBVIOUS
  <2>1. CASE publishCoherent
    BY <2>1 DEF publishCoherent, CatalogInv, WriterInv
  <2>2. CASE Restart
    BY <2>2 DEF Restart
  <2>3. CASE Request
    BY <2>3 DEF Request, insertLocked, UpdateRevision, setActiveRevision,
       HardDeleteRevision, Accept
  <2>4. CASE \/ BeginWrite \/ Commit \/ AbandonWrite \/ CommitUnanswered
             \/ ResetCatalogWriterAvailability
    BY <2>4 DEF BeginWrite, Commit, AbandonWrite, CommitUnanswered,
       ResetCatalogWriterAvailability
  <2>5. ASSUME NEW id \in Ids, Apply(id) PROVE published' = published
    BY <2>5 DEF Apply
  <2>6. ASSUME NEW c \in Creators, Create(c) PROVE published' = published
    BY <2>6 DEF Create, NewResource, InsertResource, LockReferences,
       CommitResource, AbandonResource, EndCreation
  <2> QED
    BY <2>1, <2>2, <2>3, <2>4, <2>5, <2>6 DEF Next
<1> QED
  BY <1>1, CatalogInvariant, PTL DEF Spec, PublicationIsACommit

\* Outside a commit whose answer is pending or was lost, consumers see the
\* committed catalog.
THEOREM PublishedSafety == Spec => []PublishedIsCommitted
<1>1. Init => PublishedIsCommitted
  BY DEF Init, PublishedIsCommitted
<1>2. CatalogInv /\ PublishedIsCommitted /\ [Next]_vars => PublishedIsCommitted'
  <2> SUFFICES ASSUME CatalogInv, PublishedIsCommitted, [Next]_vars
               PROVE  PublishedIsCommitted'
    OBVIOUS
  <2> USE DEF PublishedIsCommitted
  <2>1. CASE publishCoherent
    BY <2>1 DEF publishCoherent, CatalogInv, WriterInv, storeVars
  <2>2. CASE Restart
    BY <2>2 DEF Restart, storeVars
  <2>3. CASE Request
    <3>1. \E command : Accept(command)
      BY <2>3 DEF Request, insertLocked, UpdateRevision, setActiveRevision,
         HardDeleteRevision
    <3> QED
      BY <3>1 DEF Accept, storeVars
  <2>4. CASE BeginWrite \/ AbandonWrite \/ ResetCatalogWriterAvailability
    BY <2>4 DEF BeginWrite, AbandonWrite, ResetCatalogWriterAvailability,
       storeVars, writeVars
  <2>5. CASE Commit \/ CommitUnanswered
    BY <2>5 DEF Commit, CommitUnanswered
  <2>6. ASSUME NEW id \in Ids, Apply(id) PROVE PublishedIsCommitted'
    BY <2>6 DEF Apply
  <2>7. ASSUME NEW c \in Creators, Create(c) PROVE PublishedIsCommitted'
    BY <2>7 DEF Create, NewResource, InsertResource, LockReferences,
       CommitResource, AbandonResource, EndCreation, storeVars, writeVars
  <2>8. CASE UNCHANGED vars
    BY <2>8 DEF vars, storeVars, writeVars
  <2> QED
    BY <2>1, <2>2, <2>3, <2>4, <2>5, <2>6, <2>7, <2>8 DEF Next
<1> QED
  BY <1>1, <1>2, CatalogInvariant, PTL DEF Spec

\* No write changes a row without giving it the next revision.
THEOREM RevisionSafety == Spec => RevisionsNameContent
<1>1. ASSUME CatalogInv, [Next]_vars
      PROVE  \A id \in Ids : Succeeds(rows[id], rows'[id])
  <2>1. CASE Commit \/ CommitUnanswered
    BY <1>1, <2>1 DEF Commit, CommitUnanswered, CatalogInv, WriterInv, Succeeds
  <2>2. CASE rows' = rows
    BY <2>2 DEF Succeeds
  <2>3. CASE Request
    BY <2>3, <2>2 DEF Request, insertLocked, UpdateRevision, setActiveRevision,
       HardDeleteRevision, Accept, storeVars
  <2>4. CASE \/ BeginWrite \/ AbandonWrite \/ publishCoherent \/ Restart
             \/ ResetCatalogWriterAvailability
    BY <2>4, <2>2 DEF BeginWrite, AbandonWrite, publishCoherent, Restart,
       ResetCatalogWriterAvailability, storeVars
  <2>5. ASSUME NEW id \in Ids, Apply(id) PROVE rows' = rows
    BY <2>5 DEF Apply
  <2>6. ASSUME NEW c \in Creators, Create(c) PROVE rows' = rows
    BY <2>6 DEF Create, NewResource, InsertResource, LockReferences,
       CommitResource, AbandonResource, EndCreation, storeVars
  <2>7. CASE UNCHANGED vars
    BY <2>7, <2>2 DEF vars, storeVars
  <2> QED
    BY <1>1, <2>1, <2>2, <2>3, <2>4, <2>5, <2>6, <2>7 DEF Next
<1>2. CatalogInv /\ [Next]_vars =>
        [\A id \in Ids : rows'[id] # rows[id] =>
           \/ rows[id] = None /\ rows'[id].revision = 1
           \/ rows'[id] = None
           \/ rows'[id].revision = rows[id].revision + 1]_vars
  BY <1>1 DEF Succeeds
<1> QED
  BY <1>2, CatalogInvariant, PTL DEF Spec, RevisionsNameContent

-----------------------------------------------------------------------------
(***************************************************************************)
(* References. The foreign keys hold between the tables, and a resource    *)
(* that is stored, or holds its row locks, refers to a chain of rows that  *)
(* the transaction of the writer leaves in place: ConstraintsHold sees the *)
(* stored resources and the row locks of KeyShared the others.             *)
(***************************************************************************)

\* The foreign keys between the three tables.
ParentsExist(rs) ==
  \A id \in Present(rs) :
    /\ id \in Families => rs[id].parent \in Classes /\ rs[id].parent \in Present(rs)
    /\ id \in Types => rs[id].parent \in Families /\ rs[id].parent \in Present(rs)

\* The tables share no id.
LEMMA Levels ==
  ASSUME NEW id \in Ids
  PROVE  /\ id \in Classes <=> Level(id) = 1
         /\ id \in Families <=> Level(id) = 2
         /\ id \in Types <=> Level(id) = 3
         /\ Level(id) \in {1, 2, 3}
BY CatalogAssumption DEF Ids, Level

\* A function on 1 .. 1 is a sequence of one.
LEMMA TupleOfOne ==
  ASSUME NEW S, NEW f, f = [i \in 1 .. 1 |-> f[i]], f[1] \in S
  PROVE  f = <<f[1]>>
OBVIOUS

\* And of three.
LEMMA TupleOfThree ==
  ASSUME NEW f, f = [i \in 1 .. 3 |-> f[i]]
  PROVE  f = <<f[1], f[2], f[3]>>
OBVIOUS

\* The ids above a row are rows.
LEMMA Chains ==
  ASSUME NEW rs, NEW id \in Ids, ParentsExist(rs), id \in Present(rs), rs \in [Ids -> Row \cup {None}]
  PROVE  /\ id \in Classes => Chain(rs, id) = <<id>>
         /\ id \in Families => Chain(rs, id) = <<rs[id].parent, id>>
         /\ id \in Types => Chain(rs, id) = <<rs[rs[id].parent].parent, rs[id].parent, id>>
         /\ DOMAIN Chain(rs, id) = 1 .. Level(id)
         /\ \A i \in 1 .. Level(id) : Chain(rs, id)[i] \in Present(rs)
<1>1. CASE id \in Classes
  <2>1. Level(id) = 1 /\ id \notin Families /\ id \notin Types
    BY <1>1, Levels
  <2>2. Chain(rs, id) = <<id>>
    BY <2>1 DEF Chain
  <2> QED BY <2>1, <2>2
<1>2. CASE id \in Families
  <2>1. Level(id) = 2 /\ id \notin Classes /\ id \notin Types
    BY <1>2, Levels
  <2>2. rs[id].parent \in Present(rs)
    BY <1>2 DEF ParentsExist
  <2>3. Chain(rs, id) = <<rs[id].parent, id>>
    BY <2>1 DEF Chain
  <2> QED BY <2>1, <2>2, <2>3
<1>3. CASE id \in Types
  <2>1. rs[id].parent \in Families /\ rs[id].parent \in Present(rs)
    BY <1>3 DEF ParentsExist
  <2>2. rs[rs[id].parent].parent \in Classes /\ rs[rs[id].parent].parent \in Present(rs)
    BY <2>1 DEF ParentsExist
  <2>3. Level(id) = 3
    BY <1>3, Levels
  <2>. QED
  BY <1>3, Levels, <2>1, <2>2, <2>3 DEF Chain
<1> QED BY <1>1, <1>2, <1>3 DEF Ids

\* The codes of a row and of the rows above it are a path.
LEMMA PathTypes ==
  ASSUME NEW rs, NEW id \in Ids, ParentsExist(rs), id \in Present(rs), rs \in [Ids -> Row \cup {None}]
  PROVE  PathOf(rs, id) \in Paths /\ DOMAIN PathOf(rs, id) = 1 .. Level(id)
<1>1. \A k \in Present(rs) : k \in Ids /\ rs[k].code \in Codes
  BY DEF Present, Row
<1>2. /\ DOMAIN PathOf(rs, id) = 1 .. Level(id)
      /\ \A i \in 1 .. Level(id) : PathOf(rs, id)[i] \in Codes
      /\ PathOf(rs, id) = [i \in 1 .. Level(id) |-> PathOf(rs, id)[i]]
  BY <1>1, Chains DEF PathOf
<1> DEFINE p == PathOf(rs, id)
<1> HIDE DEF p
<1>3. CASE id \in Classes
  BY <1>2, <1>3, Levels, TupleOfOne DEF Paths, p
<1>4. CASE id \in Families
  <2>1. p = [i \in 1 .. 2 |-> p[i]] /\ p[1] \in Codes /\ p[2] \in Codes
    BY <1>2, <1>4, Levels DEF p
  <2>2. p = <<p[1], p[2]>>
    BY <2>1
  <2> QED BY <1>2, <2>1, <2>2 DEF Paths, p
<1>5. CASE id \in Types
  <2>1. p = [i \in 1 .. 3 |-> p[i]] /\ p[1] \in Codes /\ p[2] \in Codes /\ p[3] \in Codes
    BY <1>2, <1>5, Levels DEF p
  <2>2. p = <<p[1], p[2], p[3]>>
    BY <2>1, TupleOfThree
  <2>3. <<p[1], p[2], p[3]>> \in Codes \X Codes \X Codes
    BY <2>1
  <2> QED BY <1>2, <2>1, <2>2, <2>3 DEF Paths, p
<1> QED BY <1>3, <1>4, <1>5 DEF Ids

\* What a path is made of.
LEMMA PathFacts ==
  ASSUME NEW p \in Paths
  PROVE  /\ p \in Seq(Codes)
         /\ Len(p) \in {1, 2, 3} /\ DOMAIN p = 1 .. Len(p)
         /\ Last(p) \in Codes
         /\ Len(p) = 3 => p \in Codes \X Codes \X Codes
         /\ Len(p) > 1 => DOMAIN Front(p) = 1 .. Len(p) - 1
<1>1. p \in Seq(Codes) /\ Len(p) \in {1, 2, 3}
  <2>1. CASE p \in {<<a>> : a \in Codes}
    <3>1. PICK a \in Codes : p = <<a>>
      BY <2>1
    <3> QED BY <3>1
  <2>2. CASE p \in Codes \X Codes
    <3>1. PICK a \in Codes, b \in Codes : p = <<a, b>>
      BY <2>2
    <3> QED BY <3>1
  <2>3. CASE p \in Codes \X Codes \X Codes
    <3>1. PICK a \in Codes, b \in Codes, c \in Codes : p = <<a, b, c>>
      BY <2>3
    <3> QED BY <3>1
  <2> QED BY <2>1, <2>2, <2>3 DEF Paths
<1>2. Len(p) = 3 => p \in Codes \X Codes \X Codes
  BY DEF Paths
<1>3. DOMAIN p = 1 .. Len(p) /\ Last(p) \in Codes
  <2>1. DOMAIN p = 1 .. Len(p) /\ \A n \in 1 .. Len(p) : p[n] \in Codes
    BY <1>1
  <2>2. Len(p) \in 1 .. Len(p)
    <3>1. Len(p) = 1 \/ Len(p) = 2 \/ Len(p) = 3
      BY <1>1
    <3>2. \A n \in Nat \ {0} : n \in 1 .. n
      OBVIOUS
    <3> QED BY <3>1, <3>2
  <2>3. Last(p) = p[Len(p)]
    BY DEF Last
  <2> QED BY <2>1, <2>2, <2>3
<1>4. Len(p) > 1 => DOMAIN Front(p) = 1 .. Len(p) - 1
  BY <1>1 DEF Front
<1> QED BY <1>1, <1>2, <1>3, <1>4

-----------------------------------------------------------------------------
\* The chain of ids a resource refers to exists in rs.
Refers(rs, chain) ==
  /\ chain \in Classes \X Families \X Types
  /\ chain[3] \in Present(rs)
  /\ rs[chain[3]].parent = chain[2] /\ rs[chain[2]].parent = chain[1]

Referring(rs) ==
  /\ ParentsExist(rs)
  /\ \A r \in resources : Refers(rs, r.chain)
  /\ \A c \in Creators : cpc[c] = "inserted" => Refers(rs, held[c])

CreationsFit ==
  \A c \in Creators :
    /\ cpc[c] # "idle" => key[c] \in Codes \X Codes \X Codes
    /\ cpc[c] \in {"selected", "inserted"} => held[c] \in Classes \X Families \X Types

RefInv ==
  /\ TypeOK
  /\ Referring(rows)
  /\ wpc = "applied" => Referring(pending)
  /\ wpc \in {"checked", "probed"} /\ cmd.op = "update" => Len(cmd.path) = Level(cmd.id)
  /\ CreationsFit

\* A chain referred to consists of rows, and is the chain of its type.
LEMMA ReferredRows ==
  ASSUME NEW rs, ParentsExist(rs), NEW chain, Refers(rs, chain)
  PROVE  /\ \A i \in Range(chain) : i \in Present(rs)
         /\ Range(chain) = {chain[1], chain[2], chain[3]}
         /\ Last(chain) \in Present(rs) /\ Chain(rs, Last(chain)) = chain
<1>1. PICK k \in Classes, f \in Families, t \in Types : chain = <<k, f, t>>
  BY DEF Refers
<1>2. /\ t \in Present(rs) /\ rs[t].parent = f /\ rs[f].parent = k
  BY <1>1 DEF Refers
<1>3. f \in Present(rs) /\ k \in Present(rs)
  BY <1>2 DEF ParentsExist
<1>4. Range(chain) = {k, f, t} /\ Last(chain) = t
  BY <1>1 DEF Range, Last
<1>5. Level(t) = 3
  BY Levels DEF Ids
<1>6. Chain(rs, t) = <<k, f, t>>
  BY <1>2, <1>5 DEF Chain
<1> QED BY <1>1, <1>2, <1>3, <1>4, <1>6

\* A statement that leaves the row of a chain, and its parent, in place leaves
\* the reference.
LEMMA KeepsReference ==
  ASSUME ParentsExist(rows), rows \in [Ids -> Row \cup {None}],
         NEW chain, Refers(rows, chain), NEW id \in Ids, NEW row, NEW rs,
         rs = [rows EXCEPT ![id] = row],
         id \in Range(chain) => row # None /\ row.parent = rows[id].parent
  PROVE  Refers(rs, chain)
<1>1. /\ chain \in Classes \X Families \X Types
      /\ chain[3] \in Present(rows)
      /\ rows[chain[3]].parent = chain[2] /\ rows[chain[2]].parent = chain[1]
  BY DEF Refers
<1>2. Range(chain) = {chain[1], chain[2], chain[3]}
  BY ReferredRows
<1>3. chain[2] \in Ids /\ chain[3] \in Ids
  BY <1>1 DEF Ids
<1>4. \A k \in Ids : rs[k] = IF k = id THEN row ELSE rows[k]
  OBVIOUS
<1>5. DOMAIN rs = Ids
  OBVIOUS
<1> QED BY <1>1, <1>2, <1>3, <1>4, <1>5 DEF Refers, Present

\* A row of the table one level up, or nothing for a class.
ParentFits(rs, id, parent) ==
  /\ id \in Families => parent \in Classes /\ parent \in Present(rs)
  /\ id \in Types => parent \in Families /\ parent \in Present(rs)

\* The parent found by its codes is a row of the table one level up.
LEMMA ResolvedParentFits ==
  ASSUME RefInv, NEW id \in Ids, NEW path \in Paths, Len(path) = Level(id),
         Len(path) > 1 => ParentIds(path) # {}
  PROVE  ResolvedParent(path) \in Ids \cup {None} /\ ParentFits(rows, id, ResolvedParent(path))
<1>0. /\ rows \in [Ids -> Row \cup {None}] /\ ParentsExist(rows)
  BY DEF RefInv, TypeOK, Referring
<1>1. CASE Len(path) = 1
  <2>0. Level(id) = 1
    BY <1>1
  <2>1. id \notin Families /\ id \notin Types
    BY <2>0, Levels
  <2> QED BY <1>1, <2>1 DEF ResolvedParent, ParentFits
<1>2. CASE Len(path) > 1
  <2>1. ResolvedParent(path) \in ParentIds(path)
    BY <1>2 DEF ResolvedParent
  <2>2. PICK k : k = ResolvedParent(path)
    OBVIOUS
  <2>3. k \in Present(rows) /\ k \in Ids /\ PathOf(rows, k) = Front(path)
    BY <1>0, <2>1, <2>2 DEF ParentIds, Present
  <2>4. DOMAIN PathOf(rows, k) = 1 .. Level(k)
    BY <1>0, <2>3, PathTypes
  <2>5. DOMAIN Front(path) = 1 .. Len(path) - 1 /\ Len(path) \in {1, 2, 3}
    BY <1>2, PathFacts
  <2>6. Level(k) \in {1, 2, 3}
    BY <2>3, Levels
  <2>7. 1 .. Level(k) = 1 .. Len(path) - 1
    BY <2>3, <2>4, <2>5
  <2>8. Level(k) = Len(path) - 1
    BY <1>2, <2>5, <2>6, <2>7
  <2>9. Level(k) = Level(id) - 1
    BY <2>8
  <2>10. /\ id \in Families => k \in Classes
         /\ id \in Types => k \in Families
    BY <2>3, <2>9, Levels
  <2> QED BY <2>2, <2>3, <2>10 DEF ParentFits
<1> QED BY <1>1, <1>2, PathFacts

\* What the statement writes is a row whose parent exists, or none.
LEMMA WrittenFits ==
  ASSUME RefInv, CatalogInv, wpc = "probed", NEW id \in Ids, id \in TargetIds, ParentFound
  PROVE  /\ Written(id) \in Row \cup {None}
         /\ Written(id) # None => ParentFits(rows, id, Written(id).parent)
<1>0. /\ rows \in [Ids -> Row \cup {None}] /\ ParentsExist(rows)
      /\ cmd \in Commands /\ referenced \in BOOLEAN
      /\ cmd.op \in {"insert", "update", "setActive", "delete"}
      /\ cmd.op # "insert" => id = cmd.id /\ id \in Present(rows)
  BY DEF RefInv, TypeOK, Referring, CatalogInv, WriterInv, TargetIds
<1>1. cmd.path \in Paths /\ cmd.active \in BOOLEAN
  BY <1>0 DEF Commands, BlankCommand
<1>2. cmd.op # "insert" => rows[id] \in Row
  BY <1>0 DEF Present
<1>3. CASE cmd.op \in {"insert", "update"}
  <2>1. Len(cmd.path) = Level(id)
    BY <1>0, <1>3 DEF RefInv, TargetIds
  <2>2. /\ ResolvedParent(cmd.path) \in Ids \cup {None}
        /\ ParentFits(rows, id, ResolvedParent(cmd.path))
    BY <1>1, <1>3, <2>1, ResolvedParentFits DEF ParentFound
  <2>3. Last(cmd.path) \in Codes
    BY <1>1, PathFacts
  <2>4. CASE cmd.op = "insert"
    <3>1. Written(id) = [code |-> Last(cmd.path), parent |-> ResolvedParent(cmd.path),
                         active |-> cmd.active, revision |-> 1]
      BY <2>4 DEF Written
    <3> QED BY <1>1, <2>2, <2>3, <3>1 DEF Row
  <2>5. CASE cmd.op = "update"
    <3>1. Written(id) = [code |-> IF referenced THEN rows[id].code ELSE Last(cmd.path),
                         parent |-> ResolvedParent(cmd.path), active |-> cmd.active,
                         revision |-> rows[id].revision + 1]
      BY <2>5 DEF Written
    <3>2. rows[id].code \in Codes /\ rows[id].revision + 1 \in Nat \ {0}
      BY <1>2, <2>5 DEF Row
    <3> QED BY <1>1, <2>2, <2>3, <3>1, <3>2 DEF Row
  <2> QED BY <1>3, <2>4, <2>5
<1>4. CASE cmd.op = "setActive"
  <2>1. Written(id) = [rows[id] EXCEPT !.active = cmd.active, !.revision = @ + 1]
    BY <1>4 DEF Written
  <2>2. Written(id) \in Row /\ Written(id).parent = rows[id].parent
    <3>1. /\ rows[id].code \in Codes /\ rows[id].parent \in Ids \cup {None}
          /\ rows[id].revision + 1 \in Nat \ {0}
          /\ HasShape(rows[id])
      BY <1>2, <1>4 DEF Row, HasShape
    <3>2. Written(id) = [code |-> rows[id].code, parent |-> rows[id].parent,
                         active |-> cmd.active, revision |-> rows[id].revision + 1]
      BY <2>1, <3>1 DEF HasShape
    <3> QED BY <1>1, <3>1, <3>2 DEF Row
  <2>3. ParentFits(rows, id, rows[id].parent)
    BY <1>0, <1>4 DEF ParentsExist, ParentFits
  <2> QED BY <2>2, <2>3
<1>5. CASE cmd.op = "delete"
  BY <1>5 DEF Written
<1> QED BY <1>0, <1>3, <1>4, <1>5

\* Foreign keys: a row that goes had no children.
LEMMA ParentsStay ==
  ASSUME ParentsExist(rows), rows \in [Ids -> Row \cup {None}],
         NEW id \in Ids, NEW row \in Row \cup {None}, ConstraintsHold(id, row),
         row # None => ParentFits(rows, id, row.parent),
         NEW rs, rs = [rows EXCEPT ![id] = row]
  PROVE  ParentsExist(rs) /\ rs \in [Ids -> Row \cup {None}]
<1>1. \A k \in Ids : rs[k] = IF k = id THEN row ELSE rows[k]
  OBVIOUS
<1>2. rs \in [Ids -> Row \cup {None}] /\ DOMAIN rs = Ids /\ DOMAIN rows = Ids
  OBVIOUS
<1>3. ASSUME NEW k \in Present(rs), NEW p \in Present(rows), p = rs[k].parent, p # k
      PROVE  p \in Present(rs)
  <2>1. CASE p = id
    <3>1. k \in Ids /\ k # id /\ rs[k] = rows[k] /\ k \in Present(rows)
      BY <1>1, <1>2, <1>3, <2>1 DEF Present
    <3>2. k \in Children(rows, id)
      BY <1>3, <2>1, <3>1 DEF Children
    <3>3. row # None
      BY <3>2 DEF ConstraintsHold
    <3> QED BY <1>1, <1>2, <2>1, <3>3 DEF Present
  <2>2. CASE p # id
    BY <1>1, <1>2, <1>3, <2>2 DEF Present
  <2> QED BY <2>1, <2>2
<1>4. ASSUME NEW k \in Present(rs)
      PROVE  ParentFits(rows, k, rs[k].parent) /\ k \in Ids
  <2>1. CASE k = id
    BY <1>1, <1>2, <1>4, <2>1 DEF Present
  <2>2. CASE k # id
    <3>1. k \in Ids /\ rs[k] = rows[k] /\ k \in Present(rows)
      BY <1>1, <1>2, <1>4, <2>2 DEF Present
    <3> QED BY <3>1 DEF ParentsExist, ParentFits
  <2> QED BY <2>1, <2>2
<1>5. Classes \cap Families = {} /\ Families \cap Types = {}
  BY CatalogAssumption
<1>6. ParentsExist(rs)
  BY <1>3, <1>4, <1>5 DEF ParentsExist, ParentFits
<1> QED BY <1>2, <1>6

\* The transaction's rows keep every reference: the stored ones through the
\* foreign keys, those about to be stored through their row locks.
LEMMA ApplyRefers ==
  ASSUME RefInv, CatalogInv, wpc = "probed", NEW id \in Ids, id \in TargetIds,
         StatementAccepted(id), ChangesKey(id, Written(id)) => ~KeyShared(id),
         NEW rs, rs = [rows EXCEPT ![id] = Written(id)]
  PROVE  Referring(rs) /\ rs \in [Ids -> Row \cup {None}]
<1>0. /\ rows \in [Ids -> Row \cup {None}] /\ ParentsExist(rows) /\ Referring(rows)
  BY DEF RefInv, TypeOK, Referring
<1>1. ParentFound /\ ConstraintsHold(id, Written(id))
  BY DEF StatementAccepted
<1>2. /\ Written(id) \in Row \cup {None}
      /\ Written(id) # None => ParentFits(rows, id, Written(id).parent)
  BY <1>1, WrittenFits
<1>3. ParentsExist(rs) /\ rs \in [Ids -> Row \cup {None}]
  BY <1>0, <1>1, <1>2, ParentsStay
<1>4. ASSUME NEW r \in resources
      PROVE  Refers(rs, r.chain)
  <2>1. Refers(rows, r.chain)
    BY <1>0, <1>4 DEF Referring
  <2>2. ASSUME id \in Range(r.chain)
        PROVE  Written(id) # None /\ Written(id).parent = rows[id].parent
    <3>1. id \in ReferencedIds
      BY <1>4, <2>2 DEF ReferencedIds
    <3>2. rows[id] # None
      BY <1>0, <2>1, <2>2, ReferredRows DEF Present
    <3> QED BY <1>1, <3>1, <3>2 DEF ConstraintsHold
  <2> QED BY <1>0, <2>1, <2>2, KeepsReference
<1>5. ASSUME NEW c \in Creators, cpc[c] = "inserted"
      PROVE  Refers(rs, held[c])
  <2>1. Refers(rows, held[c])
    BY <1>0, <1>5 DEF Referring
  <2>2. ASSUME id \in Range(held[c])
        PROVE  Written(id) # None /\ Written(id).parent = rows[id].parent
    <3>1. KeyShared(id)
      BY <1>5, <2>2 DEF KeyShared
    <3>2. rows[id] # None
      BY <1>0, <2>1, <2>2, ReferredRows DEF Present
    <3> QED BY <3>1, <3>2 DEF ChangesKey
  <2> QED BY <1>0, <2>1, <2>2, KeepsReference
<1> QED BY <1>3, <1>4, <1>5 DEF Referring

-----------------------------------------------------------------------------
\* The catalog loaded from rows with parents is one of paths.
LEMMA LoadedTypes ==
  ASSUME NEW rs \in [Ids -> Row \cup {None}], ParentsExist(rs)
  PROVE  LoadCatalog(rs) \subseteq [path : Paths, active : BOOLEAN]
<1> SUFFICES ASSUME NEW id \in Present(rs)
             PROVE  Entry(PathOf(rs, id), rs[id].active) \in [path : Paths, active : BOOLEAN]
  BY DEF LoadCatalog
<1>1. id \in Ids /\ rs[id] \in Row
  BY DEF Present
<1>2. rs[id].active \in BOOLEAN
  BY <1>1 DEF Row
<1>3. PathOf(rs, id) \in Paths
  BY <1>1, PathTypes
<1> QED BY <1>2, <1>3 DEF Entry

\* The rows the migrations leave have their parents.
LEMMA InitRefInv == Init => RefInv
<1> SUFFICES ASSUME Init PROVE RefInv
  OBVIOUS
<1>1. FirstRows \in [Ids -> Row \cup {None}]
  BY CatalogAssumption
<1>2. ParentsExist(FirstRows)
  <2> SUFFICES ASSUME NEW id \in Present(FirstRows)
               PROVE  /\ id \in Families => /\ FirstRows[id].parent \in Classes
                                            /\ FirstRows[id].parent \in Present(FirstRows)
                      /\ id \in Types => /\ FirstRows[id].parent \in Families
                                         /\ FirstRows[id].parent \in Present(FirstRows)
    BY DEF ParentsExist
  <2>1. (CASE Level(id) = 1 -> FirstRows[id].parent = None
           [] Level(id) = 2 -> FirstRows[id].parent \in Classes \cap Present(FirstRows)
           [] OTHER -> FirstRows[id].parent \in Families \cap Present(FirstRows))
    BY CatalogAssumption
  <2>2. id \in Ids
    BY <1>1 DEF Present
  <2>3. (id \in Families => Level(id) = 2) /\ (id \in Types => Level(id) = 3)
    BY <2>2, Levels
  <2> QED BY <2>1, <2>3
<1>3. LoadCatalog(FirstRows) \subseteq [path : Paths, active : BOOLEAN]
  BY <1>1, <1>2, LoadedTypes
<1>m. 0 \in 0 .. MaxWrites /\ Present(FirstRows) \subseteq Ids
  BY <1>1, CatalogAssumption DEF Present
<1>4. TypeOK
  BY <1>1, <1>3, <1>m DEF Init, TypeOK, Commands
<1>5. Referring(rows) /\ CreationsFit
  BY <1>2 DEF Init, Referring, CreationsFit
<1> QED BY <1>4, <1>5 DEF RefInv, Init

\* An accepted request is one of the commands.
LEMMA AcceptKeepsRefs ==
  ASSUME RefInv, NEW command \in Commands, Accept(command),
         command.op = "update" => Len(command.path) = Level(command.id)
  PROVE  RefInv'
<1>1. /\ UNCHANGED <<rows, spent, resources, published, writerUnavailable, unconfirmed,
                     referenced, pending, cpc, key, held>>
      /\ wpc' = "checked" /\ cmd' = command /\ writes' = writes + 1 /\ writes < MaxWrites
  BY DEF Accept, storeVars, createVars
<1>2. TypeOK'
  <2>1. writes' \in 0 .. MaxWrites
    BY <1>1, CatalogAssumption DEF RefInv, TypeOK
  <2> QED BY <1>1, <2>1 DEF RefInv, TypeOK
<1>3. Referring(rows)' /\ CreationsFit'
  BY <1>1 DEF RefInv, Referring, CreationsFit
<1> QED BY <1>1, <1>2, <1>3 DEF RefInv

\* Every request that is served is such a command.
LEMMA RequestKeepsRefs ==
  ASSUME RefInv, Request
  PROVE  RefInv'
<1>0. rows \in [Ids -> Row \cup {None}] /\ ParentsExist(rows)
  BY DEF RefInv, TypeOK, Referring
<1>i. ASSUME NEW id \in Present(rows)
      PROVE  /\ id \in Ids /\ PathOf(rows, id) \in Paths
             /\ \A r \in Revisions(id) : r \in Nat
  <2>1. id \in Ids /\ rows[id] \in Row
    BY <1>0 DEF Present
  <2>2. rows[id].revision \in Nat
    BY <2>1 DEF Row
  <2> QED BY <1>0, <2>1, <2>2, PathTypes DEF Revisions
<1>1. ASSUME NEW path \in Paths, NEW active \in BOOLEAN, insertLocked(path, active)
      PROVE  RefInv'
  BY <1>1, AcceptKeepsRefs DEF insertLocked, Commands
<1>2. ASSUME NEW id \in Present(rows), NEW path \in Paths, NEW active \in BOOLEAN,
             NEW r \in Revisions(id), UpdateRevision(id, path, active, r)
      PROVE  RefInv'
  <2>1. id \in Ids /\ r \in Nat
    BY <1>i, <1>2
  <2> QED BY <1>2, <2>1, AcceptKeepsRefs DEF UpdateRevision, Commands
<1>3. ASSUME NEW id \in Present(rows), NEW active \in BOOLEAN,
             NEW r \in Revisions(id), setActiveRevision(id, active, r)
      PROVE  RefInv'
  <2>1. id \in Ids /\ r \in Nat /\ PathOf(rows, id) \in Paths
    BY <1>i, <1>3
  <2> QED BY <1>3, <2>1, AcceptKeepsRefs DEF setActiveRevision, Commands
<1>4. ASSUME NEW id \in Present(rows), NEW r \in Revisions(id), HardDeleteRevision(id, r)
      PROVE  RefInv'
  <2>1. id \in Ids /\ r \in Nat /\ PathOf(rows, id) \in Paths
    BY <1>i, <1>4
  <2> QED BY <1>4, <2>1, AcceptKeepsRefs DEF HardDeleteRevision, Commands
<1> QED
  BY <1>1, <1>2, <1>3, <1>4 DEF Request

\* The statement is refused, or leaves every reference in place.
LEMMA ApplyKeepsRefs ==
  ASSUME RefInv, CatalogInv, NEW id \in Ids, Apply(id)
  PROVE  RefInv'
<1>1. /\ wpc = "probed" /\ id \in TargetIds /\ referenced' = FALSE
      /\ spent' \in {spent, spent \cup {id}}
      /\ UNCHANGED <<rows, resources, published, writerUnavailable, unconfirmed, writes,
                     cpc, key, held>>
  BY DEF Apply, createVars
<1>2. Referring(rows)' /\ CreationsFit'
  BY <1>1 DEF RefInv, Referring, CreationsFit
<1>3. CASE wpc' = "idle" /\ cmd' = BlankCommand /\ pending' = pending
  <2>1. TypeOK'
    BY <1>1, <1>3 DEF RefInv, TypeOK, Commands
  <2> QED BY <1>2, <1>3, <2>1 DEF RefInv
<1>4. CASE /\ StatementAccepted(id) /\ (ChangesKey(id, Written(id)) => ~KeyShared(id))
           /\ wpc' = "applied" /\ pending' = [rows EXCEPT ![id] = Written(id)]
           /\ cmd' = cmd
  <2>1. Referring(pending') /\ pending' \in [Ids -> Row \cup {None}]
    BY <1>1, <1>4, ApplyRefers
  <2>2. Referring(pending)'
    BY <1>1, <2>1 DEF Referring
  <2>3. TypeOK'
    BY <1>1, <1>4, <2>1 DEF RefInv, TypeOK
  <2> QED BY <1>2, <1>4, <2>2, <2>3 DEF RefInv
<1> QED BY <1>3, <1>4 DEF Apply

\* The other steps of the writer, and a restart, keep or commit such rows.
LEMMA WriterKeepsRefs ==
  ASSUME RefInv, CatalogInv,
         \/ BeginWrite \/ Commit \/ AbandonWrite \/ CommitUnanswered \/ publishCoherent
         \/ Restart \/ ResetCatalogWriterAvailability
  PROVE  RefInv'
<1>0. Referring(rows) /\ CreationsFit /\ TypeOK
  BY DEF RefInv
<1>1. CASE BeginWrite
  <2>1. TypeOK'
    BY <1>0, <1>1 DEF BeginWrite, TypeOK, storeVars, createVars
  <2> QED BY <1>1, <2>1 DEF RefInv, Referring, CreationsFit, BeginWrite, storeVars, createVars
<1>2. CASE Commit
  <2>1. Referring(rows)' /\ wpc' = "committed"
    BY <1>2 DEF RefInv, Referring, Commit, createVars
  <2>2. TypeOK'
    BY <1>0, <1>2 DEF Commit, TypeOK, createVars
  <2>3. CreationsFit'
    BY <1>0, <1>2 DEF Commit, CreationsFit, createVars
  <2> QED BY <2>1, <2>2, <2>3 DEF RefInv
<1>3. CASE AbandonWrite
  <2>1. TypeOK'
    BY <1>0, <1>3 DEF AbandonWrite, TypeOK, storeVars, createVars, Commands
  <2> QED BY <1>3, <2>1 DEF RefInv, Referring, CreationsFit, AbandonWrite, storeVars, createVars
<1>4. CASE CommitUnanswered
  <2>1. /\ wpc = "applied" /\ wpc' = "idle" /\ cmd' = BlankCommand /\ unconfirmed' = TRUE
        /\ rows' \in {rows, pending} /\ pending' = rows'
        /\ writerUnavailable' \in BOOLEAN
        /\ UNCHANGED <<spent, resources, published, referenced, writes, cpc, key, held>>
    BY <1>4 DEF CommitUnanswered, createVars, classifyV2WriteError
  <2>2. Referring(rows)' /\ CreationsFit'
    BY <1>0, <2>1 DEF RefInv, Referring, CreationsFit
  <2>3. TypeOK'
    BY <1>0, <2>1 DEF TypeOK, Commands
  <2> QED BY <2>1, <2>2, <2>3 DEF RefInv
<1>5. CASE publishCoherent
  <2>1. pending = rows
    BY <1>5 DEF CatalogInv, WriterInv, publishCoherent
  <2>2. LoadCatalog(pending) \subseteq [path : Paths, active : BOOLEAN]
    BY <1>0, <2>1, LoadedTypes DEF Referring, TypeOK
  <2>3. TypeOK'
    BY <1>0, <1>5, <2>2 DEF publishCoherent, TypeOK, storeVars, createVars, Commands
  <2> QED BY <1>5, <2>3 DEF RefInv, Referring, CreationsFit, publishCoherent, storeVars, createVars
<1>6. CASE Restart
  <2>1. LoadCatalog(rows) \subseteq [path : Paths, active : BOOLEAN]
    BY <1>0, LoadedTypes DEF Referring, TypeOK
  <2>2. TypeOK'
    BY <1>0, <1>6, <2>1 DEF Restart, TypeOK, storeVars, Commands
  <2>3. Referring(rows)' /\ CreationsFit' /\ wpc' = "idle"
    BY <1>0, <1>6 DEF Restart, Referring, CreationsFit, storeVars
  <2> QED BY <2>2, <2>3 DEF RefInv
<1>7. CASE ResetCatalogWriterAvailability
  <2>1. TypeOK'
    BY <1>0, <1>7 DEF ResetCatalogWriterAvailability, TypeOK, storeVars, writeVars, createVars
  <2> QED BY <1>7, <2>1 DEF RefInv, Referring, CreationsFit, ResetCatalogWriterAvailability,
             storeVars, writeVars, createVars
<1> QED BY <1>1, <1>2, <1>3, <1>4, <1>5, <1>6, <1>7

\* A creation refers to the chain it locked, which an applied statement left
\* alone.
LEMMA CreationKeepsRefs ==
  ASSUME RefInv, CatalogInv, NEW c \in Creators, Create(c)
  PROVE  RefInv'
<1>0. /\ Referring(rows) /\ CreationsFit /\ TypeOK
      /\ rows \in [Ids -> Row \cup {None}] /\ ParentsExist(rows)
      /\ cpc \in [Creators -> {"idle", "validated", "selected", "inserted"}]
      /\ key \in [Creators -> {<<>>} \cup (Codes \X Codes \X Codes)]
      /\ held \in [Creators -> {<<>>} \cup (Classes \X Families \X Types)]
  BY DEF RefInv, Referring, TypeOK
<1>1. ASSUME NEW path \in Paths, NewResource(c, path)
      PROVE  RefInv'
  <2>1. /\ cpc' = [cpc EXCEPT ![c] = "validated"] /\ key' = [key EXCEPT ![c] = path]
        /\ path \in Codes \X Codes \X Codes
        /\ UNCHANGED <<rows, spent, resources, published, writerUnavailable, unconfirmed,
                       wpc, cmd, referenced, pending, writes, held>>
    BY <1>1, PathFacts DEF NewResource, storeVars, writeVars
  <2>2. TypeOK' /\ CreationsFit'
    BY <1>0, <2>1 DEF TypeOK, CreationsFit
  <2>3. Referring(rows)' /\ (wpc = "applied" => Referring(pending)')
    BY <1>0, <2>1 DEF RefInv, Referring
  <2> QED BY <2>1, <2>2, <2>3 DEF RefInv
<1>2. CASE InsertResource(c)
  <2>1. PICK chain \in Selected(key[c]) :
          /\ cpc[c] = "validated"
          /\ cpc' = [cpc EXCEPT ![c] = "selected"] /\ held' = [held EXCEPT ![c] = chain]
          /\ UNCHANGED <<rows, spent, resources, published, writerUnavailable, unconfirmed,
                         wpc, cmd, referenced, pending, writes, key>>
    BY <1>2 DEF InsertResource, storeVars, writeVars
  <2>2. PICK t \in Present(rows) \cap Types : chain = Chain(rows, t)
    BY DEF Selected
  <2>3. chain \in Classes \X Families \X Types
    <3>1. rows[t].parent \in Families /\ rows[t].parent \in Present(rows)
      BY <1>0 DEF ParentsExist
    <3>2. rows[rows[t].parent].parent \in Classes
      BY <1>0, <3>1 DEF ParentsExist
    <3>3. chain = <<rows[rows[t].parent].parent, rows[t].parent, t>>
      BY <1>0, <2>2, Chains DEF Ids
    <3> QED BY <3>1, <3>2, <3>3
  <2>4. TypeOK' /\ CreationsFit'
    BY <1>0, <2>1, <2>3 DEF TypeOK, CreationsFit
  <2>5. Referring(rows)' /\ (wpc = "applied" => Referring(pending)')
    BY <1>0, <2>1 DEF RefInv, Referring
  <2> QED BY <2>1, <2>4, <2>5 DEF RefInv
<1>3. CASE LockReferences(c)
  <2>1. /\ cpc[c] = "selected" /\ cpc' = [cpc EXCEPT ![c] = "inserted"]
        /\ \A i \in Range(held[c]) : wpc = "applied" => ~ChangesKey(i, pending[i])
        /\ Last(held[c]) \in Present(rows) /\ Chain(rows, Last(held[c])) = held[c]
        /\ UNCHANGED <<rows, spent, resources, published, writerUnavailable, unconfirmed,
                       wpc, cmd, referenced, pending, writes, key, held>>
    BY <1>3 DEF LockReferences, storeVars, writeVars
  <2>2. PICK k \in Classes, f \in Families, t \in Types : held[c] = <<k, f, t>>
    BY <1>0, <2>1 DEF CreationsFit
  <2>3. Last(held[c]) = t /\ Range(held[c]) = {k, f, t}
    BY <2>2 DEF Last, Range
  <2>4. t \in Present(rows) /\ rows[t].parent = f /\ rows[f].parent = k
    <3>1. Chain(rows, t) = <<rows[rows[t].parent].parent, rows[t].parent, t>>
      BY <1>0, <2>1, <2>3, Chains DEF Ids
    <3> QED BY <2>1, <2>2, <2>3, <3>1
  <2>5. Refers(rows, held[c])
    BY <2>2, <2>4 DEF Refers
  <2>6. ASSUME wpc = "applied" PROVE Refers(pending, held[c])
    <3>1. f \in Present(rows)
      BY <1>0, <2>4 DEF ParentsExist
    <3>2. ~ChangesKey(t, pending[t]) /\ ~ChangesKey(f, pending[f])
      BY <2>1, <2>3, <2>6
    <3>3. /\ pending[t] # None /\ pending[t].parent = f /\ pending[f].parent = k
      BY <2>4, <3>1, <3>2 DEF ChangesKey, Present
    <3>4. t \in Present(pending)
      BY <1>0, <3>3 DEF Present, TypeOK, Ids
    <3> QED BY <2>2, <3>3, <3>4 DEF Refers
  <2>7. TypeOK' /\ CreationsFit'
    BY <1>0, <2>1, <2>2 DEF TypeOK, CreationsFit
  <2>8. Referring(rows)' /\ (wpc = "applied" => Referring(pending)')
    BY <1>0, <2>1, <2>5, <2>6 DEF RefInv, Referring
  <2> QED BY <2>1, <2>7, <2>8 DEF RefInv
<1>4. ASSUME EndCreation(c),
             \/ resources' = resources
             \/ /\ cpc[c] = "inserted"
                /\ resources' = resources \cup {[chain |-> held[c], key |-> key[c]]}
      PROVE  RefInv'
  <2>1. /\ cpc' = [cpc EXCEPT ![c] = "idle"]
        /\ key' = [key EXCEPT ![c] = <<>>] /\ held' = [held EXCEPT ![c] = <<>>]
        /\ UNCHANGED <<rows, spent, published, writerUnavailable, unconfirmed, wpc, cmd,
                       referenced, pending, writes>>
    BY <1>4 DEF EndCreation, writeVars
  <2>2. resources' \subseteq [chain : Classes \X Families \X Types,
                              key : Codes \X Codes \X Codes]
    BY <1>0, <1>4 DEF TypeOK, CreationsFit
  <2>3. TypeOK' /\ CreationsFit'
    BY <1>0, <2>1, <2>2 DEF TypeOK, CreationsFit
  <2>4. ASSUME NEW rs, Referring(rs)
        PROVE  /\ \A r \in resources' : Refers(rs, r.chain)
               /\ \A d \in Creators : cpc'[d] = "inserted" => Refers(rs, held'[d])
    BY <1>0, <1>4, <2>1, <2>4 DEF Referring
  <2>5. Referring(rows)' /\ (wpc = "applied" => Referring(pending)')
    BY <1>0, <2>1, <2>4 DEF RefInv, Referring
  <2> QED BY <2>1, <2>3, <2>5 DEF RefInv
<1> QED
  BY <1>1, <1>2, <1>3, <1>4 DEF Create, CommitResource, AbandonResource

\* No step loses a reference or a type.
LEMMA NextRefInv == RefInv /\ CatalogInv /\ [Next]_vars => RefInv'
<1> SUFFICES ASSUME RefInv, CatalogInv, [Next]_vars PROVE RefInv'
  OBVIOUS
<1>1. CASE UNCHANGED vars
  BY <1>1 DEF vars, storeVars, writeVars, createVars, RefInv, TypeOK, Referring, CreationsFit
<1> QED
  BY <1>1, RequestKeepsRefs, ApplyKeepsRefs, WriterKeepsRefs, CreationKeepsRefs DEF Next

\* References, and the types of everything, are sound in every reachable state.
LEMMA RefInvariant == Spec => []RefInv
BY InitRefInv, NextRefInv, CatalogInvariant, PTL DEF Spec

\* Every column and Go value of the catalog and its writer keeps its type.
THEOREM CatalogTypes == Spec => []TypeOK
<1>1. RefInv => TypeOK
  BY DEF RefInv
<1> QED BY <1>1, RefInvariant, PTL

\* No catalog write takes the class, family or type of a stored resource away,
\* although it probed for references before the resource was stored.
THEOREM ReferenceSafety == Spec => []ResourcesKeepTheirEntries
<1>1. RefInv => ResourcesKeepTheirEntries
  BY ReferredRows DEF RefInv, Referring, ResourcesKeepTheirEntries
<1> QED BY <1>1, RefInvariant, PTL
=============================================================================
