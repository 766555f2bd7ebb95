--------------------------- MODULE OnlineGC_proofs ---------------------------
(***************************************************************************)
(* The row locks of the refcount transactions and of the reaper make every *)
(* interleaving of their statements a sequence of BlobRefs transactions:   *)
(* OnlineGC implements BlobRefs, its counts are exact and the reaper never *)
(* deletes an object of a referenced blob.                                 *)
(***************************************************************************)
EXTENDS OnlineGC, ManifestStore_proofs

Proved == INSTANCE BlobRefs_proofs

\* A transaction is open only in the refcount step of a handler; it has
\* updated only counts of rows it wrote, and what it has written is still
\* absent (add_refs) or still present (remove_refs) in the committed edges.
TxShape == \A c \in Clients :
    /\ ~tx[c].open => tx[c] = Closed
    /\ tx[c].open => req[c].pc \in {"add_refs", "remove_refs"}
    /\ tx[c].held \subseteq tx[c].rows
    /\ req[c].pc = "add_refs" => /\ tx[c].todo \cup tx[c].rows \subseteq BlobsOf[req[c].man]
                                 /\ \A b \in tx[c].rows : <<req[c].man, b>> \notin edges
    /\ req[c].pc = "remove_refs" => \A b \in tx[c].rows : <<req[c].man, b>> \in edges

\* A refcount row has one owner.
RowLocks ==
    /\ \A c, d \in Clients : c # d => tx[c].held \cap tx[d].held = {}
    /\ \A c \in Clients, r \in Reapers : reaper[r].pc = "delete" => reaper[r].blob \notin tx[c].held
    /\ \A r, s \in Reapers : r # s /\ reaper[r].pc = "delete" /\ reaper[s].pc = "delete"
                                => reaper[r].blob # reaper[s].blob

\* An edge has one writer.
EdgeLocks == \A c, d \in Clients :
    c # d /\ req[c].man = req[d].man => tx[c].rows \cap tx[d].rows = {}

\* While a reaper deletes objects of a blob, the blob's count stays zero.
ReaperHoldsZero == \A r \in Reapers :
    reaper[r].pc = "delete" => reaper[r].blob \in Blobs /\ refcount[reaper[r].blob] = 0

GCInv ==
    /\ TypeOK
    /\ RequestsNamed
    /\ TxShape
    /\ RowLocks
    /\ EdgeLocks
    /\ ReaperHoldsZero

TxType == [open : BOOLEAN, todo : SUBSET Blobs, newPaths : SUBSET Blobs,
           rows : SUBSET Blobs, held : SUBSET Blobs]
ReaperType == [pc : {"idle", "batch", "delete"}, batch : SUBSET Blobs,
               blob : Blobs \cup {None}, todo : SUBSET Repos]

\* A closed transaction and an idle reaper are well-formed.
LEMMA ClosedType == /\ Closed \in TxType /\ ~Closed.open
                    /\ Closed.rows = {} /\ Closed.held = {} /\ Closed.todo = {}
                    /\ IdleReaper \in ReaperType /\ IdleReaper.pc = "idle"
  BY DEF Closed, TxType, IdleReaper, ReaperType

\* Empty tables, no transaction, idle reapers.
LEMMA GCInvInit == Init => GCInv
<1> SUFFICES ASSUME Init PROVE GCInv
  OBVIOUS
<1> USE DEF Init, StoreInit
<1>1. StoreTypeOK /\ RequestsNamed
  BY IdleReqType DEF StoreTypeOK, RequestsNamed
<1>2. Tables!RefTypeOK
  BY DEF Tables!RefInit, Tables!RefTypeOK, Tables!ZeroedStates, Tables!NoRow
<1>3. tx \in [Clients -> TxType] /\ reaper \in [Reapers -> ReaperType]
  BY ClosedType
<1>4. faults \in 0..MaxReaperFaults
  BY GCAssumption
<1>5. TypeOK
  BY <1>1, <1>2, <1>3, <1>4 DEF TypeOK, TxType, ReaperType
<1>6. TxShape /\ RowLocks /\ EdgeLocks /\ ReaperHoldsZero
  BY ClosedType, IdleReqType DEF TxShape, RowLocks, EdgeLocks, ReaperHoldsZero
<1> QED BY <1>1, <1>5, <1>6 DEF GCInv

\* A handler step: its request has no open transaction, the tables stay.
LEMMA StoreStepInv ==
  ASSUME GCInv, NEW c \in Clients, StoreStep(c)
  PROVE  GCInv'
<1> USE DEF GCInv
<1>1. ~tx[c].open
  BY DEF StoreStep, Arrive, HandlerStep, PutManifest, DeleteByDigest, DeleteByTag, PutTag, ListTags,
         ReadLink, DeleteLink, EndScan, DropTag, At, TxShape
<1>2. tx[c] = Closed
  BY <1>1 DEF TxShape
<1>3. PICK q : Becomes(c, q) /\ Named(q)
  BY HandlerTyping DEF StoreStep, TypeOK
<1>4. StoreTypeOK' /\ RequestsNamed'
  BY <1>3, HandlerTyping, BecomesTyping DEF StoreStep, TypeOK, StoreTypeOK
<1>5. TypeOK'
  BY <1>4 DEF StoreStep, TypeOK, tableVars, reaperVars, Tables!RefTypeOK
<1>6. /\ tx' = tx /\ reaper' = reaper /\ edges' = edges /\ refcount' = refcount
      /\ \A d \in Clients \ {c} : req'[d] = req[d]
  BY <1>3 DEF StoreStep, tableVars, reaperVars, Becomes, TypeOK, StoreTypeOK
<1>7. TxShape'
  BY <1>2, <1>6, ClosedType DEF TxShape
<1>8. EdgeLocks'
  BY <1>2, <1>6, ClosedType DEF EdgeLocks
<1>9. RowLocks' /\ ReaperHoldsZero'
  BY <1>6 DEF RowLocks, ReaperHoldsZero
<1> QED BY <1>4, <1>5, <1>7, <1>8, <1>9

\* A statement of c's open transaction replaces its record by x and leaves the
\* rest alone; x keeps the shape and the locks.
LEMMA StatementInv ==
  ASSUME GCInv, NEW c \in Clients, NEW x \in TxType,
         tx' = [tx EXCEPT ![c] = x],
         UNCHANGED <<storeVars, objects, tableVars, reaperVars>>,
         x.open, req[c].pc \in {"add_refs", "remove_refs"},
         x.held \subseteq x.rows,
         req[c].pc = "add_refs" => /\ x.todo \cup x.rows \subseteq BlobsOf[req[c].man]
                                   /\ \A b \in x.rows : <<req[c].man, b>> \notin edges,
         req[c].pc = "remove_refs" => \A b \in x.rows : <<req[c].man, b>> \in edges,
         \A b \in x.held \ tx[c].held : RowFree(b),
         \A b \in x.rows \ tx[c].rows : EdgeFree(c, b)
  PROVE  GCInv'
<1> USE DEF GCInv
<1>1. tx \in [Clients -> TxType]
  BY DEF TypeOK, TxType
<1>2. /\ req' = req /\ edges' = edges /\ refcount' = refcount /\ reaper' = reaper
      /\ tx'[c] = x /\ \A d \in Clients \ {c} : tx'[d] = tx[d]
  BY <1>1 DEF storeVars, tableVars, reaperVars
<1>3. TypeOK' /\ RequestsNamed'
  BY <1>1 DEF TypeOK, TxType, StoreTypeOK, RequestsNamed, Tables!RefTypeOK, storeVars, tableVars, reaperVars
<1>4. TxShape'
  BY <1>2 DEF TxShape
<1>5. RowLocks'
  BY <1>2 DEF RowLocks, RowFree
<1>6. EdgeLocks'
  BY <1>2 DEF EdgeLocks, EdgeFree
<1>7. ReaperHoldsZero'
  BY <1>2 DEF ReaperHoldsZero
<1> QED BY <1>3, <1>4, <1>5, <1>6, <1>7

\* Every statement that is not a COMMIT.
LEMMA StatementsInv ==
  ASSUME GCInv, NEW c \in Clients,
         BeginAddRefs(c) \/ BeginRemoveRefs(c)
           \/ \E b \in Blobs : InsertRef(c, b) \/ UpdateRefcount(c, b)
  PROVE  GCInv'
<1> USE DEF GCInv
<1>1. tx \in [Clients -> TxType] /\ tx[c] \in TxType
  BY DEF TypeOK, TxType
<1>2. ~tx[c].open => tx[c].rows = {} /\ tx[c].held = {} /\ tx[c].todo = {}
  BY ClosedType DEF TxShape
<1>3. CASE BeginAddRefs(c)
  <2> DEFINE x == [tx[c] EXCEPT !.open = TRUE, !.todo = BlobsOf[req[c].man]]
  <2>1. req[c].man \in Manifests /\ BlobsOf[req[c].man] \in SUBSET Blobs
    BY <1>3, GCAssumption DEF BeginAddRefs, At, RequestsNamed
  <2>2. x \in TxType /\ x.open /\ x.rows = {} /\ x.held = {} /\ x.todo = BlobsOf[req[c].man]
    BY <1>1, <1>2, <1>3, <2>1 DEF BeginAddRefs, TxType
  <2>3. tx' = [tx EXCEPT ![c] = x]
    BY <1>3 DEF BeginAddRefs
  <2>4. req[c].pc = "add_refs"
    BY <1>3 DEF BeginAddRefs, At
  <2>5. UNCHANGED <<storeVars, objects, tableVars, reaperVars>>
    BY <1>3 DEF BeginAddRefs
  <2> HIDE DEF x
  <2> QED BY <2>2, <2>3, <2>4, <2>5, StatementInv
<1>4. CASE BeginRemoveRefs(c)
  <2> DEFINE x == [tx[c] EXCEPT !.open = TRUE, !.rows = Tables!BlobsOfEdges(req[c].man)]
  <2>1. Tables!BlobsOfEdges(req[c].man) \in SUBSET Blobs
    BY DEF Tables!BlobsOfEdges
  <2>2. x \in TxType /\ x.open /\ x.held = {} /\ x.rows = Tables!BlobsOfEdges(req[c].man)
    BY <1>1, <1>2, <1>4, <2>1 DEF BeginRemoveRefs, TxType
  <2>3. tx' = [tx EXCEPT ![c] = x]
    BY <1>4 DEF BeginRemoveRefs
  <2>4. req[c].pc = "remove_refs"
    BY <1>4 DEF BeginRemoveRefs, At
  <2>5. UNCHANGED <<storeVars, objects, tableVars, reaperVars>>
    BY <1>4 DEF BeginRemoveRefs
  <2>6. /\ \A b \in x.rows : <<req[c].man, b>> \in edges
        /\ \A b \in x.rows \ tx[c].rows : EdgeFree(c, b)
    BY <1>4, <2>2 DEF BeginRemoveRefs, Tables!BlobsOfEdges
  <2> HIDE DEF x
  <2> QED BY <2>2, <2>3, <2>4, <2>5, <2>6, StatementInv
<1>5. ASSUME NEW b \in Blobs, InsertRef(c, b) PROVE GCInv'
  <2> DEFINE x == [tx[c] EXCEPT
                     !.todo = tx[c].todo \ {b},
                     !.newPaths = IF <<req[c].repo, b>> \in paths THEN tx[c].newPaths
                                                                  ELSE tx[c].newPaths \cup {b},
                     !.rows = IF <<req[c].man, b>> \in edges THEN tx[c].rows
                                                             ELSE tx[c].rows \cup {b}]
  <2>1. x \in TxType /\ x.open = tx[c].open /\ x.held = tx[c].held /\ x.todo = tx[c].todo \ {b}
    BY <1>1 DEF TxType
  <2>2. x.rows = IF <<req[c].man, b>> \in edges THEN tx[c].rows ELSE tx[c].rows \cup {b}
    BY <1>1 DEF TxType
  <2>3. tx' = [tx EXCEPT ![c] = x]
    BY <1>5 DEF InsertRef
  <2>4. req[c].pc = "add_refs" /\ tx[c].open /\ b \in tx[c].todo /\ EdgeFree(c, b)
    BY <1>5 DEF InsertRef, At
  <2>5. UNCHANGED <<storeVars, objects, tableVars, reaperVars>>
    BY <1>5 DEF InsertRef
  <2> HIDE DEF x
  <2>6. /\ x.held \subseteq x.rows
        /\ x.todo \cup x.rows \subseteq BlobsOf[req[c].man]
        /\ \A d \in x.rows : <<req[c].man, d>> \notin edges
        /\ \A d \in x.rows \ tx[c].rows : EdgeFree(c, d)
    BY <2>1, <2>2, <2>4 DEF TxShape
  <2> QED BY <2>1, <2>3, <2>4, <2>5, <2>6, StatementInv
<1>6. ASSUME NEW b \in Blobs, UpdateRefcount(c, b) PROVE GCInv'
  <2> DEFINE x == [tx[c] EXCEPT !.held = tx[c].held \cup {b}]
  <2>1. /\ x \in TxType /\ x.open = tx[c].open /\ x.rows = tx[c].rows /\ x.todo = tx[c].todo
        /\ x.held = tx[c].held \cup {b}
    BY <1>1 DEF TxType
  <2>2. tx' = [tx EXCEPT ![c] = x]
    BY <1>6 DEF UpdateRefcount
  <2>3. b \in tx[c].rows /\ RowFree(b)
    BY <1>6 DEF UpdateRefcount
  <2>4. UNCHANGED <<storeVars, objects, tableVars, reaperVars>>
    BY <1>6 DEF UpdateRefcount
  <2>5. tx[c].open /\ req[c].pc \in {"add_refs", "remove_refs"}
    BY <1>2, <2>3 DEF TxShape
  <2> HIDE DEF x
  <2>6. /\ x.held \subseteq x.rows
        /\ req[c].pc = "add_refs" => /\ x.todo \cup x.rows \subseteq BlobsOf[req[c].man]
                                     /\ \A d \in x.rows : <<req[c].man, d>> \notin edges
        /\ req[c].pc = "remove_refs" => \A d \in x.rows : <<req[c].man, d>> \in edges
        /\ \A d \in x.held \ tx[c].held : RowFree(d)
        /\ x.rows \ tx[c].rows = {}
    BY <2>1, <2>3 DEF TxShape
  <2> QED BY <2>1, <2>2, <2>4, <2>5, <2>6, StatementInv
<1> QED BY <1>3, <1>4, <1>5, <1>6

\* c's transaction ends, by COMMIT or rollback, and its request with it.  The
\* tables change only at edges and counts that the transaction had locked.
LEMMA EndTxInv ==
  ASSUME GCInv, NEW c \in Clients,
         tx' = [tx EXCEPT ![c] = Closed], Finish(c),
         UNCHANGED <<manifests, tagLink, objects, reaperVars>>,
         paths' \subseteq Repos \X Blobs, Tables!RefTypeOK',
         \A d \in Clients \ {c} : \A b \in tx[d].rows :
            <<req[d].man, b>> \in edges' <=> <<req[d].man, b>> \in edges,
         \A b \in Blobs \ tx[c].held : refcount'[b] = refcount[b]
  PROVE  GCInv'
<1> USE DEF GCInv
<1>1. tx \in [Clients -> TxType] /\ req \in [Clients -> Requests]
  BY DEF TypeOK, TxType, StoreTypeOK
<1>2. /\ reaper' = reaper /\ req'[c] = IdleReq /\ \A d \in Clients \ {c} : req'[d] = req[d]
      /\ tx'[c] = Closed /\ \A d \in Clients \ {c} : tx'[d] = tx[d]
  BY <1>1 DEF Finish, reaperVars
<1>3. req' \in [Clients -> Requests] /\ tx' \in [Clients -> TxType]
  BY <1>1, IdleReqType, ClosedType DEF Finish
<1>4. TypeOK'
  BY <1>3 DEF TypeOK, TxType, StoreTypeOK, reaperVars
<1>5. RequestsNamed'
  BY <1>2, IdleReqType DEF RequestsNamed
<1>6. TxShape'
  BY <1>2, ClosedType, IdleReqType DEF TxShape
<1>7. RowLocks'
  BY <1>2, ClosedType DEF RowLocks
<1>8. EdgeLocks'
  BY <1>2, ClosedType DEF EdgeLocks
<1>9. ReaperHoldsZero'
  BY <1>2 DEF ReaperHoldsZero, RowLocks
<1> QED BY <1>4, <1>5, <1>6, <1>7, <1>8, <1>9

\* A rollback leaves the tables alone.
LEMMA RollbackInv ==
  ASSUME GCInv, NEW c \in Clients, RefsFail(c) \/ AbandonRequest(c)
  PROVE  GCInv'
<1>1. /\ tx' = [tx EXCEPT ![c] = Closed] /\ Finish(c)
      /\ UNCHANGED <<manifests, tagLink, objects, tableVars, reaperVars>>
  BY DEF RefsFail, AbandonRequest, Abandon
<1>2. paths' \subseteq Repos \X Blobs /\ Tables!RefTypeOK'
  BY <1>1 DEF GCInv, TypeOK, Tables!RefTypeOK, tableVars
<1>3. edges' = edges /\ refcount' = refcount
  BY <1>1 DEF tableVars
<1> QED BY <1>1, <1>2, <1>3, EndTxInv

\* The COMMIT of add_refs is a step AddRefs of BlobRefs.
LEMMA CommitAddRefines ==
  ASSUME GCInv, NEW c \in Clients, CommitAddRefs(c)
  PROVE  Tables!AddRefs(req[c].man, tx[c].rows)
<1>1. tx[c].rows \subseteq BlobsOf[req[c].man] \ Tables!BlobsOfEdges(req[c].man)
  BY DEF CommitAddRefs, GCInv, TxShape, At, Tables!BlobsOfEdges
<1>2. refcount \in [Blobs -> Nat \cup {Tables!NoRow}]
  BY DEF GCInv, TypeOK, Tables!RefTypeOK
<1>3. refcount' = [b \in Blobs |-> IF b \in tx[c].rows THEN Tables!Count(b) + 1 ELSE refcount[b]]
  BY <1>2 DEF CommitAddRefs, Tables!Count, Tables!NoRow
<1> QED BY <1>1, <1>3 DEF CommitAddRefs, Tables!AddRefs

\* The COMMIT of remove_refs is a step RemoveRefs of BlobRefs.
LEMMA CommitRemoveRefines ==
  ASSUME GCInv, NEW c \in Clients, CommitRemoveRefs(c)
  PROVE  Tables!RemoveRefs(req[c].man, tx[c].rows)
<1>1. tx[c].rows \subseteq Tables!BlobsOfEdges(req[c].man)
  <2>1. tx[c].rows \subseteq Blobs
    BY DEF GCInv, TypeOK
  <2> QED BY <2>1 DEF CommitRemoveRefs, GCInv, TxShape, At, Tables!BlobsOfEdges
<1>2. zeroed' = [b \in Blobs |-> IF Tables!Decremented(b, tx[c].rows) /\ refcount[b] = 1
                                 THEN "grace" ELSE zeroed[b]]
  BY DEF CommitRemoveRefs, Tables!Decremented
<1> QED BY <1>1, <1>2 DEF CommitRemoveRefs, Tables!RemoveRefs, Tables!Decremented

\* The COMMIT of reap_blob is a step Reap of BlobRefs: the count it read under
\* the row lock is still zero.
LEMMA CommitReapRefines ==
  ASSUME GCInv, NEW r \in Reapers, CommitReap(r)
  PROVE  reaper[r].blob \in Blobs /\ Tables!Reap(reaper[r].blob)
  BY DEF CommitReap, GCInv, ReaperHoldsZero, Tables!Reap

\* Both COMMITs keep the invariant.
LEMMA CommitInv ==
  ASSUME GCInv, NEW c \in Clients, CommitAddRefs(c) \/ CommitRemoveRefs(c)
  PROVE  GCInv'
<1> USE DEF GCInv
<1>1. /\ tx' = [tx EXCEPT ![c] = Closed] /\ Finish(c)
      /\ UNCHANGED <<manifests, tagLink, objects, reaperVars>>
  BY DEF CommitAddRefs, CommitRemoveRefs
<1>2. /\ req[c].repo \in Repos /\ req[c].man \in Manifests
      /\ tx[c].rows \subseteq Blobs /\ tx[c].newPaths \subseteq Blobs
      /\ tx[c].rows = tx[c].held
  BY DEF CommitAddRefs, CommitRemoveRefs, At, RequestsNamed, TypeOK
<1>3. paths' \subseteq Repos \X Blobs
  BY <1>2 DEF CommitAddRefs, CommitRemoveRefs, TypeOK
<1>4. Tables!RefTypeOK'
  <2>1. CASE CommitAddRefs(c)
    BY <2>1, <1>2 DEF CommitAddRefs, TypeOK, Tables!RefTypeOK, Tables!ZeroedStates, Tables!NoRow
  <2>2. CASE CommitRemoveRefs(c)
    BY <2>2, <1>2 DEF CommitRemoveRefs, TypeOK, Tables!RefTypeOK, Tables!ZeroedStates, Tables!NoRow
  <2> QED BY <2>1, <2>2
<1>5. ASSUME NEW d \in Clients \ {c}, NEW b \in tx[d].rows
      PROVE  <<req[d].man, b>> \in edges' <=> <<req[d].man, b>> \in edges
  <2>1. req[d].man = req[c].man => b \notin tx[c].rows
    BY DEF EdgeLocks
  <2> QED BY <2>1 DEF CommitAddRefs, CommitRemoveRefs
<1>6. \A b \in Blobs \ tx[c].held : refcount'[b] = refcount[b]
  BY DEF CommitAddRefs, CommitRemoveRefs
<1> QED BY <1>1, <1>3, <1>4, <1>5, <1>6, EndTxInv

\* A reaper's record becomes x; the requests stay.
LEMMA ReaperMoveInv ==
  ASSUME GCInv, NEW r \in Reapers, NEW x \in ReaperType,
         reaper' = [reaper EXCEPT ![r] = x],
         UNCHANGED <<storeVars, tx>>,
         objects' \subseteq Repos \X Blobs, paths' \subseteq Repos \X Blobs,
         Tables!RefTypeOK', paused' = paused, faults' \in 0..MaxReaperFaults,
         edges' = edges,
         x.pc = "delete" =>
            /\ x.blob \in Blobs /\ refcount'[x.blob] = 0
            /\ \A c \in Clients : x.blob \notin tx[c].held
            /\ \A q \in Reapers \ {r} : reaper[q].pc = "delete" => reaper[q].blob # x.blob,
         \A q \in Reapers \ {r} :
            reaper[q].pc = "delete" => refcount'[reaper[q].blob] = refcount[reaper[q].blob]
  PROVE  GCInv'
<1> USE DEF GCInv
<1>1. reaper \in [Reapers -> ReaperType]
  BY DEF TypeOK, ReaperType
<1>2. reaper'[r] = x /\ \A q \in Reapers \ {r} : reaper'[q] = reaper[q]
  BY <1>1
<1>3. reaper' \in [Reapers -> ReaperType]
  BY <1>1
<1>4. TypeOK'
  BY <1>3 DEF TypeOK, ReaperType, StoreTypeOK, storeVars
<1>5. RequestsNamed' /\ TxShape' /\ EdgeLocks'
  BY DEF RequestsNamed, TxShape, EdgeLocks, storeVars
<1>6. RowLocks'
  BY <1>2 DEF RowLocks
<1>7. ReaperHoldsZero'
  BY <1>2 DEF ReaperHoldsZero
<1> QED BY <1>4, <1>5, <1>6, <1>7

\* The reaper's steps that leave the tables alone.
LEMMA ReaperStepInv ==
  ASSUME GCInv, NEW r \in Reapers,
         \/ SelectBatch(r) \/ EndBatch(r) \/ ReapFails(r) \/ ReaperCrash(r)
         \/ \E b \in Blobs : LockCandidate(r, b)
         \/ \E repo \in Repos : DeleteObject(r, repo)
  PROVE  GCInv'
<1> USE DEF GCInv
<1>1. reaper \in [Reapers -> ReaperType] /\ reaper[r] \in ReaperType
  BY DEF TypeOK, ReaperType
<1>2. UNCHANGED <<storeVars, tableVars, tx, paused>>
  BY DEF SelectBatch, EndBatch, ReapFails, ReaperCrash, LockCandidate, DeleteObject
<1>3. paths' \subseteq Repos \X Blobs /\ Tables!RefTypeOK' /\ edges' = edges /\ refcount' = refcount
  BY <1>2 DEF TypeOK, Tables!RefTypeOK, tableVars
<1>4. objects' \subseteq Repos \X Blobs
  BY DEF SelectBatch, EndBatch, ReapFails, ReaperCrash, LockCandidate, DeleteObject, TypeOK
<1>5. faults' \in 0..MaxReaperFaults
  <2>1. faults \in 0..MaxReaperFaults
    BY DEF TypeOK
  <2>2. \/ faults' = faults
        \/ faults < MaxReaperFaults /\ faults' = faults + 1
    BY DEF SelectBatch, EndBatch, ReapFails, ReaperCrash, LockCandidate, DeleteObject
  <2> HIDE DEF GCInv
  <2> QED BY <2>1, <2>2, GCAssumption
<1>6. PICK x \in ReaperType :
        /\ reaper' = [reaper EXCEPT ![r] = x]
        /\ x.pc = "delete" =>
             /\ x.blob \in Blobs /\ refcount[x.blob] = 0
             /\ \A c \in Clients : x.blob \notin tx[c].held
             /\ \A q \in Reapers \ {r} : reaper[q].pc = "delete" => reaper[q].blob # x.blob
  <2>1. CASE SelectBatch(r)
    <3>1. PICK batch \in SUBSET Eligible :
             reaper' = [reaper EXCEPT ![r].pc = "batch", ![r].batch = batch]
      BY <2>1 DEF SelectBatch
    <3> DEFINE x == [reaper[r] EXCEPT !.pc = "batch", !.batch = batch]
    <3>2. batch \subseteq Blobs
      BY DEF Eligible
    <3>3. x \in ReaperType /\ x.pc = "batch"
      BY <1>1, <3>2 DEF ReaperType
    <3>4. reaper' = [reaper EXCEPT ![r] = x]
      BY <3>1
    <3> HIDE DEF x
    <3> QED BY <3>3, <3>4
  <2>2. CASE EndBatch(r) \/ ReaperCrash(r)
    BY <2>2, ClosedType DEF EndBatch, ReaperCrash
  <2>3. CASE ReapFails(r)
    <3> DEFINE x == [IdleReaper EXCEPT !.pc = "batch", !.batch = reaper[r].batch \ {reaper[r].blob}]
    <3>1. x \in ReaperType /\ x.pc = "batch"
      BY <1>1 DEF ReaperType, IdleReaper
    <3>2. reaper' = [reaper EXCEPT ![r] = x]
      BY <2>3 DEF ReapFails, NextCandidate
    <3> HIDE DEF x
    <3> QED BY <3>1, <3>2
  <2>4. ASSUME NEW b \in Blobs, LockCandidate(r, b)
        PROVE  \E x \in ReaperType :
                 /\ reaper' = [reaper EXCEPT ![r] = x]
                 /\ x.pc = "delete" =>
                      /\ x.blob \in Blobs /\ refcount[x.blob] = 0
                      /\ \A c \in Clients : x.blob \notin tx[c].held
                      /\ \A q \in Reapers \ {r} : reaper[q].pc = "delete" => reaper[q].blob # x.blob
    <3>0. ASSUME refcount[b] = 0 PROVE RowFree(b)
      <4>1. refcount[b] # Tables!NoRow
        BY <3>0 DEF Tables!NoRow
      <4> QED BY <2>4, <4>1 DEF LockCandidate
    <3>1. CASE refcount[b] = 0
      <4> DEFINE x == [reaper[r] EXCEPT !.pc = "delete", !.blob = b,
                                        !.todo = {repo \in Repos : <<repo, b>> \in paths}]
      <4>1. x \in ReaperType /\ x.blob = b
        BY <1>1 DEF ReaperType
      <4>2. reaper' = [reaper EXCEPT ![r] = x]
        BY <2>4, <3>1 DEF LockCandidate
      <4>3. RowFree(b)
        BY <3>0, <3>1
      <4> HIDE DEF x
      <4> QED BY <3>1, <4>1, <4>2, <4>3 DEF RowFree
    <3>2. CASE refcount[b] # 0
      <4> DEFINE x == [reaper[r] EXCEPT !.batch = reaper[r].batch \ {b}]
      <4>1. x \in ReaperType /\ x.pc = "batch"
        BY <1>1, <2>4 DEF ReaperType, LockCandidate
      <4>2. reaper' = [reaper EXCEPT ![r] = x]
        BY <2>4, <3>2 DEF LockCandidate
      <4> HIDE DEF x
      <4> QED BY <4>1, <4>2
    <3> QED BY <3>1, <3>2
  <2>5. ASSUME NEW repo \in Repos, DeleteObject(r, repo)
        PROVE  \E x \in ReaperType :
                 /\ reaper' = [reaper EXCEPT ![r] = x]
                 /\ x.pc = "delete" =>
                      /\ x.blob \in Blobs /\ refcount[x.blob] = 0
                      /\ \A c \in Clients : x.blob \notin tx[c].held
                      /\ \A q \in Reapers \ {r} : reaper[q].pc = "delete" => reaper[q].blob # x.blob
    <3> DEFINE x == [reaper[r] EXCEPT !.todo = reaper[r].todo \ {repo}]
    <3>1. x \in ReaperType /\ x.pc = reaper[r].pc /\ x.blob = reaper[r].blob
      BY <1>1 DEF ReaperType
    <3>2. reaper' = [reaper EXCEPT ![r] = x]
      BY <2>5 DEF DeleteObject
    <3>3. /\ x.blob \in Blobs /\ refcount[x.blob] = 0
          /\ \A c \in Clients : x.blob \notin tx[c].held
          /\ \A q \in Reapers \ {r} : reaper[q].pc = "delete" => reaper[q].blob # x.blob
      BY <2>5, <3>1 DEF DeleteObject, ReaperHoldsZero, RowLocks
    <3> HIDE DEF x
    <3> QED BY <3>1, <3>2, <3>3
  <2> QED BY <2>1, <2>2, <2>3, <2>4, <2>5
<1> QED BY <1>2, <1>3, <1>4, <1>5, <1>6, ReaperMoveInv

\* The COMMIT of reap_blob keeps the invariant.
LEMMA CommitReapInv ==
  ASSUME GCInv, NEW r \in Reapers, CommitReap(r)
  PROVE  GCInv'
<1> USE DEF GCInv
<1>1. reaper \in [Reapers -> ReaperType] /\ reaper[r] \in ReaperType
  BY DEF TypeOK, ReaperType
<1> DEFINE x == [IdleReaper EXCEPT !.pc = "batch", !.batch = reaper[r].batch \ {reaper[r].blob}]
<1>2. x \in ReaperType /\ x.pc = "batch"
  BY <1>1 DEF ReaperType, IdleReaper
<1>3. reaper' = [reaper EXCEPT ![r] = x]
  BY DEF CommitReap, NextCandidate
<1>4. /\ UNCHANGED <<storeVars, tx>> /\ objects' \subseteq Repos \X Blobs
      /\ paths' \subseteq Repos \X Blobs /\ edges' = edges
      /\ paused' = paused /\ faults' \in 0..MaxReaperFaults
  BY DEF CommitReap, TypeOK
<1>5. Tables!RefTypeOK'
  BY DEF CommitReap, TypeOK, Tables!RefTypeOK, Tables!ZeroedStates
<1>6. \A q \in Reapers \ {r} :
         reaper[q].pc = "delete" => refcount'[reaper[q].blob] = refcount[reaper[q].blob]
  BY DEF CommitReap, RowLocks, ReaperHoldsZero, TypeOK, Tables!RefTypeOK
<1> HIDE DEF x
<1> QED BY <1>2, <1>3, <1>4, <1>5, <1>6, ReaperMoveInv

\* Uploads, the clock and the operator.
LEMMA OtherInv ==
  ASSUME GCInv, \/ \E repo \in Repos, b \in Blobs : UploadBlob(repo, b)
                \/ \E b \in Blobs : GraceElapses(b)
                \/ \E r \in Reapers : Pause(r) \/ Resume(r)
  PROVE  GCInv'
<1> USE DEF GCInv
<1>1. UNCHANGED <<storeVars, edges, refcount, paths, tx, reaper, faults>>
  <2>1. CASE \E repo \in Repos, b \in Blobs : UploadBlob(repo, b)
    BY <2>1 DEF UploadBlob, tableVars, reaperVars
  <2>2. CASE \E b \in Blobs : GraceElapses(b)
    BY <2>2 DEF GraceElapses, reaperVars
  <2>3. CASE \E r \in Reapers : Pause(r) \/ Resume(r)
    BY <2>3 DEF Pause, Resume, tableVars
  <2> QED BY <2>1, <2>2, <2>3
<1>2. objects' \subseteq Repos \X Blobs
  <2>1. objects \subseteq Repos \X Blobs
    BY DEF TypeOK
  <2>2. CASE \E repo \in Repos, b \in Blobs : UploadBlob(repo, b)
    BY <2>1, <2>2 DEF UploadBlob
  <2>3. CASE objects' = objects
    BY <2>1, <2>3
  <2> QED BY <2>2, <2>3 DEF GraceElapses, Pause, Resume
<1>3. zeroed' \in [Blobs -> Tables!ZeroedStates]
  <2>1. zeroed \in [Blobs -> Tables!ZeroedStates]
    BY DEF TypeOK, Tables!RefTypeOK
  <2>2. CASE \E b \in Blobs : GraceElapses(b)
    BY <2>1, <2>2 DEF GraceElapses, Tables!ZeroedStates
  <2>3. CASE zeroed' = zeroed
    BY <2>1, <2>3
  <2> QED BY <2>2, <2>3 DEF UploadBlob, Pause, Resume, tableVars
<1>4. paused' \subseteq Reapers
  BY DEF UploadBlob, GraceElapses, Pause, Resume, reaperVars, TypeOK
<1>5. TypeOK'
  BY <1>1, <1>2, <1>3, <1>4 DEF TypeOK, StoreTypeOK, Tables!RefTypeOK, storeVars
<1> QED
  BY <1>1, <1>5 DEF RequestsNamed, TxShape, RowLocks, EdgeLocks, ReaperHoldsZero, storeVars

\* Every step keeps the lock invariant.
LEMMA GCInvNext == GCInv /\ [Next]_vars => GCInv'
<1> SUFFICES ASSUME GCInv, [Next]_vars PROVE GCInv'
  OBVIOUS
<1>1. ASSUME NEW c \in Clients, StoreStep(c) PROVE GCInv'
  BY <1>1, StoreStepInv
<1>2. ASSUME NEW c \in Clients, TxStep(c) PROVE GCInv'
  BY <1>2, StatementsInv, CommitInv DEF TxStep
<1>3. ASSUME NEW c \in Clients, RefsFail(c) \/ AbandonRequest(c) PROVE GCInv'
  BY <1>3, RollbackInv
<1>4. ASSUME NEW r \in Reapers, ReaperStep(r) \/ ReapFails(r) \/ ReaperCrash(r) PROVE GCInv'
  BY <1>4, ReaperStepInv, CommitReapInv DEF ReaperStep
<1>5. CASE UNCHANGED vars
  BY <1>5 DEF vars, storeVars, tableVars, reaperVars, GCInv, TypeOK, StoreTypeOK,
     Tables!RefTypeOK, RequestsNamed, TxShape, RowLocks, EdgeLocks, ReaperHoldsZero
<1> QED BY <1>1, <1>2, <1>3, <1>4, <1>5, OtherInv DEF Next

\* Only the three COMMITs and the clock touch the tables, each as one
\* transaction of BlobRefs.
LEMMA StepRefines == GCInv /\ [Next]_vars => [Tables!RefNext]_(Tables!refVars)
<1> SUFFICES ASSUME GCInv, [Next]_vars PROVE Tables!RefNext \/ UNCHANGED Tables!refVars
  OBVIOUS
<1> USE DEF Tables!refVars, tableVars
<1>0. \A c \in Clients : /\ tx[c].rows \in SUBSET Blobs
                         /\ req[c].pc \in {"add_refs", "remove_refs"} => req[c].man \in Manifests
  BY DEF GCInv, TypeOK, RequestsNamed
<1>1. ASSUME NEW c \in Clients, CommitAddRefs(c) PROVE Tables!RefNext
  BY <1>0, <1>1, CommitAddRefines DEF CommitAddRefs, At, Tables!RefNext
<1>2. ASSUME NEW c \in Clients, CommitRemoveRefs(c) PROVE Tables!RefNext
  BY <1>0, <1>2, CommitRemoveRefines DEF CommitRemoveRefs, At, Tables!RefNext
<1>3. ASSUME NEW r \in Reapers, CommitReap(r) PROVE Tables!RefNext
  BY <1>3, CommitReapRefines DEF Tables!RefNext
<1>4. ASSUME NEW b \in Blobs, GraceElapses(b) PROVE Tables!RefNext
  BY <1>4 DEF GraceElapses, Tables!GraceElapses, Tables!RefNext
<1>5. ASSUME NEW c \in Clients,
             \/ StoreStep(c) \/ RefsFail(c) \/ AbandonRequest(c)
             \/ BeginAddRefs(c) \/ BeginRemoveRefs(c)
             \/ \E b \in Blobs : InsertRef(c, b) \/ UpdateRefcount(c, b)
      PROVE  UNCHANGED Tables!refVars
  BY <1>5 DEF StoreStep, RefsFail, AbandonRequest, BeginAddRefs, BeginRemoveRefs, InsertRef,
     UpdateRefcount
<1>6. ASSUME NEW r \in Reapers,
             \/ SelectBatch(r) \/ EndBatch(r) \/ ReapFails(r) \/ ReaperCrash(r)
             \/ \E b \in Blobs : LockCandidate(r, b)
             \/ \E repo \in Repos : DeleteObject(r, repo)
      PROVE  UNCHANGED Tables!refVars
  BY <1>6 DEF SelectBatch, EndBatch, ReapFails, ReaperCrash, LockCandidate, DeleteObject
<1>7. CASE \/ \E repo \in Repos, b \in Blobs : UploadBlob(repo, b)
           \/ \E r \in Reapers : Pause(r) \/ Resume(r)
           \/ UNCHANGED vars
  BY <1>7 DEF UploadBlob, Pause, Resume, vars
<1> QED
  BY <1>1, <1>2, <1>3, <1>4, <1>5, <1>6, <1>7 DEF Next, TxStep, ReaperStep

\* Every reachable state satisfies the lock invariant.
LEMMA GCInvHolds == Spec => []GCInv
  BY GCInvInit, GCInvNext, PTL DEF Spec

\* The variables of the handlers, transactions and reapers keep their types.
THEOREM TypeCorrect == Spec => []TypeOK
<1>1. GCInv => TypeOK
  BY DEF GCInv
<1> QED BY <1>1, GCInvHolds, PTL

\* OnlineGC implements BlobRefs: under any interleaving of statements,
\* rollbacks, deadlock victims, reaper crashes and storage failures, the
\* refcount tables change by whole transactions that count correctly.
THEOREM RefinesBlobRefs == Spec => ImplementsBlobRefs
<1>1. Init => Tables!RefInit
  BY DEF Init
<1> QED BY <1>1, StepRefines, GCInvHolds, PTL DEF Spec, ImplementsBlobRefs, Tables!RefSpec

\* The tables of OnlineGC keep the invariant of BlobRefs_proofs.
LEMMA RefInvStep == GCInv /\ Proved!RefInv /\ [Next]_vars => Proved!RefInv'
<1> SUFFICES ASSUME GCInv, Proved!RefInv, [Next]_vars PROVE Proved!RefInv'
  OBVIOUS
<1>1. Tables!RefNext <=> Proved!RefNext
  BY DEF Tables!RefNext, Proved!RefNext, Tables!AddRefs, Proved!AddRefs, Tables!RemoveRefs,
     Proved!RemoveRefs, Tables!GraceElapses, Proved!GraceElapses, Tables!Reap, Proved!Reap,
     Tables!Count, Proved!Count, Tables!NoRow, Proved!NoRow, Tables!BlobsOfEdges,
     Proved!BlobsOfEdges, Tables!Decremented, Proved!Decremented
<1>2. Proved!RefNext \/ UNCHANGED Proved!refVars
  BY <1>1, StepRefines DEF Tables!refVars, Proved!refVars
<1>3. BlobsOf \in [Manifests -> SUBSET Blobs]
  BY GCAssumption
<1> QED BY <1>2, <1>3, Proved!RefInvNext

\* Both invariants hold in every reachable state.
LEMMA InvariantsHold == Spec => [](GCInv /\ Proved!RefInv)
<1>0. BlobsOf \in [Manifests -> SUBSET Blobs]
  BY GCAssumption
<1>1. Init => Proved!RefInv
  BY <1>0, Proved!RefInvInit DEF Init, Tables!RefInit, Proved!RefInit, Tables!NoRow, Proved!NoRow
<1> QED BY <1>1, GCInvInit, GCInvNext, RefInvStep, PTL DEF Spec

\* In every committed state a blob's count is the number of its referrers.
THEOREM CountsExact == Spec => []CountsMatchEdges
<1>1. Proved!RefInv => CountsMatchEdges
  BY DEF Proved!RefInv, CountsMatchEdges, Tables!RefcountMatchesEdges, Tables!Count,
     Tables!NoRow, Tables!Referrers, Proved!RefcountMatchesEdges, Proved!Count,
     Proved!NoRow, Proved!Referrers, Proved!Cardinality, Tables!Cardinality
<1> QED BY <1>1, InvariantsHold, PTL

\* The only step that deletes an object is DeleteObject, under the lock of the
\* blob's row and with its count at zero.
LEMMA DeletesUnreferenced ==
  ASSUME GCInv, Proved!RefInv, Next, NEW x \in objects \ objects'
  PROVE  Tables!Referrers(x[2]) = {}
<1>1. PICK r \in Reapers, repo \in Repos : DeleteObject(r, repo)
  <2>1. \A c \in Clients : ~(StoreStep(c) \/ TxStep(c) \/ RefsFail(c) \/ AbandonRequest(c))
    BY DEF StoreStep, TxStep, RefsFail, AbandonRequest, BeginAddRefs, BeginRemoveRefs,
       InsertRef, UpdateRefcount, CommitAddRefs, CommitRemoveRefs
  <2>2. ~\E r \in Reapers : Pause(r) \/ Resume(r)
    BY DEF Pause, Resume
  <2>3. /\ ~\E repo \in Repos, b \in Blobs : UploadBlob(repo, b)
        /\ ~\E b \in Blobs : GraceElapses(b)
    BY DEF UploadBlob, GraceElapses
  <2>4. \A r \in Reapers :
           /\ ~(SelectBatch(r) \/ CommitReap(r) \/ EndBatch(r) \/ ReapFails(r) \/ ReaperCrash(r))
           /\ ~\E b \in Blobs : LockCandidate(r, b)
    BY DEF SelectBatch, CommitReap, EndBatch, ReapFails, ReaperCrash, LockCandidate
  <2> QED BY <2>1, <2>2, <2>3, <2>4 DEF Next, ReaperStep
<1>2. x = <<repo, reaper[r].blob>> /\ reaper[r].pc = "delete"
  BY <1>1 DEF DeleteObject
<1>3. reaper[r].blob \in Blobs /\ refcount[reaper[r].blob] = 0
  BY <1>2 DEF GCInv, ReaperHoldsZero
<1>4. BlobsOf \in [Manifests -> SUBSET Blobs]
  BY GCAssumption
<1>5. Proved!Referrers(reaper[r].blob) = {}
  BY <1>3, <1>4, Proved!ZeroIsUnreferenced
<1> QED BY <1>2, <1>5 DEF Tables!Referrers, Proved!Referrers

\* The reaper deletes no object of a blob that a committed manifest references,
\* whatever happens between its candidate query and its delete.
THEOREM ReaperIsSafe == Spec => ReaperSparesReferenced
<1>1. GCInv /\ Proved!RefInv /\ [Next]_vars
        => [\A x \in objects \ objects' : Tables!Referrers(x[2]) = {}]_vars
  BY DeletesUnreferenced
<1> QED BY <1>1, InvariantsHold, PTL DEF Spec, ReaperSparesReferenced
=============================================================================
