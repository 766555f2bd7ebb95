---------------------------- MODULE Fleet_proofs ----------------------------
(***************************************************************************)
(* Proofs about what spans several processes: the operator's upgrades,     *)
(* which implement OrderedRollout, and replication between regions.        *)
(***************************************************************************)
EXTENDS Operator, Regions, TLAPS

----------------------------------------------------------------------------
(* Replication: what a region has not got yet is owed to it, in order.        *)

\* Replication events, and what a region's store can be.
Events == [kind : Kinds, m : Manifest, ref : BOOLEAN]
Stores == [mans : SUBSET Manifest, layers : SUBSET Manifest, tag : Manifest \cup {NoTag}]

\* What a region's store holds.
At(s) == [mans |-> mans[s], layers |-> layers[s], tag |-> tag[s]]

\* What an event does to the store of the region it is written or applied in.
Effect(e, x) ==
    [mans |-> IF e.kind = "manifest" THEN x.mans \cup {e.m}
              ELSE IF e.kind = "delete" /\ ~e.ref THEN x.mans \ {e.m} ELSE x.mans,
     layers |-> IF e.kind = "blob" THEN x.layers \cup {e.m} ELSE x.layers,
     tag |-> IF e.kind = "manifest" /\ e.ref THEN e.m
             ELSE IF e.kind = "delete" /\ (e.ref \/ x.tag = e.m) THEN NoTag ELSE x.tag]

\* The events q, applied in order, lead from a to b.
Path(a, q, b) ==
    \E h \in [0..Len(q) -> Stores] :
        /\ h[0] = a /\ h[Len(q)] = b
        /\ \A i \in 1..Len(q) : h[i] = Effect(q[i], h[i - 1])

\* A tag names a manifest of the same store.
Tidy(x) == x.tag # NoTag => x.tag \in x.mans

\* b and the event that waits for room, if any, make c.
Settles(p, b, c) == (p = {} => c = b) /\ \A e \in p : c = Effect(e, b)

\* An event leads from stores to stores.
LEMMA EffectType ==
  ASSUME NEW e \in Events, NEW x \in Stores PROVE Effect(e, x) \in Stores
BY DEF Effect, Events, Stores

\* An event applied twice is an event applied once.
LEMMA EffectTwice ==
  ASSUME NEW e \in Events, NEW x \in Stores, e.m # NoTag
  PROVE  Effect(e, Effect(e, x)) = Effect(e, x)
<1>1. PICK y \in Stores : y = Effect(e, x)
  BY EffectType
<1>2. /\ y.mans = IF e.kind = "manifest" THEN x.mans \cup {e.m}
                  ELSE IF e.kind = "delete" /\ ~e.ref THEN x.mans \ {e.m} ELSE x.mans
      /\ y.layers = IF e.kind = "blob" THEN x.layers \cup {e.m} ELSE x.layers
      /\ y.tag = IF e.kind = "manifest" /\ e.ref THEN e.m
                 ELSE IF e.kind = "delete" /\ (e.ref \/ x.tag = e.m) THEN NoTag ELSE x.tag
  BY <1>1 DEF Effect
<1>3. PICK z \in Stores : z = Effect(e, y)
  BY EffectType
<1>4. z.mans = y.mans /\ z.layers = y.layers /\ z.tag = y.tag
  BY <1>2, <1>3 DEF Effect
<1> QED BY <1>1, <1>3, <1>4 DEF Stores

\* No event, no change.
LEMMA PathNil ==
  ASSUME NEW a, NEW b PROVE Path(a, <<>>, b) <=> a = b /\ a \in Stores
<1>1. ASSUME Path(a, <<>>, b) PROVE a = b /\ a \in Stores
  BY <1>1 DEF Path
<1>2. ASSUME a = b, a \in Stores PROVE Path(a, <<>>, b)
  <2>1. PICK h : h = [i \in 0..0 |-> a]
    OBVIOUS
  <2>2. h \in [0..Len(<<>>) -> Stores] /\ h[0] = a /\ h[Len(<<>>)] = b
    BY <1>2, <2>1
  <2>3. \A i \in 1..Len(<<>>) : h[i] = Effect(<<>>[i], h[i - 1])
    OBVIOUS
  <2> QED BY <2>2, <2>3 DEF Path
<1> QED BY <1>1, <1>2

\* The ends of a path are stores.
LEMMA PathType ==
  ASSUME NEW q \in Seq(Events), NEW a, NEW b, Path(a, q, b) PROVE a \in Stores /\ b \in Stores
BY DEF Path

\* One more event at the end.
LEMMA PathAppend ==
  ASSUME NEW q \in Seq(Events), NEW e \in Events, NEW a, NEW b, Path(a, q, b)
  PROVE  Path(a, Append(q, e), Effect(e, b))
<1>1. PICK h \in [0..Len(q) -> Stores] :
         /\ h[0] = a /\ h[Len(q)] = b
         /\ \A i \in 1..Len(q) : h[i] = Effect(q[i], h[i - 1])
  BY DEF Path
<1>2. PICK n \in Nat : n = Len(q)
  OBVIOUS
<1>3. PICK p \in Seq(Events) : p = Append(q, e)
  OBVIOUS
<1>4. Len(p) = n + 1 /\ p[n + 1] = e /\ \A i \in 1..n : p[i] = q[i]
  BY <1>2, <1>3
<1>5. PICK y \in Stores : y = Effect(e, b)
  BY <1>1, EffectType
<1>6. PICK g : g = [i \in 0..(n + 1) |-> IF i = n + 1 THEN y ELSE h[i]]
  OBVIOUS
<1>7. g \in [0..Len(p) -> Stores] /\ g[n + 1] = y /\ \A i \in 0..n : g[i] = h[i]
  BY <1>1, <1>2, <1>4, <1>6
<1>8. ASSUME NEW i \in 1..Len(p) PROVE g[i] = Effect(p[i], g[i - 1])
  <2>1. CASE i = n + 1
    BY <1>1, <1>2, <1>4, <1>5, <1>7, <2>1
  <2>2. CASE i # n + 1
    <3>1. i \in 1..n /\ i - 1 \in 0..n /\ i \in 0..n
      BY <1>4, <2>2
    <3> QED BY <1>1, <1>2, <1>4, <1>7, <3>1
  <2> QED BY <2>1, <2>2
<1>9. g[0] = a /\ g[Len(p)] = y
  BY <1>1, <1>2, <1>4, <1>7
<1> QED BY <1>3, <1>5, <1>7, <1>8, <1>9 DEF Path

\* The first event taken off.
LEMMA PathTail ==
  ASSUME NEW q \in Seq(Events), q # <<>>, NEW a, NEW b, Path(a, q, b)
  PROVE  Path(Effect(Head(q), a), Tail(q), b)
<1>1. PICK h \in [0..Len(q) -> Stores] :
         /\ h[0] = a /\ h[Len(q)] = b
         /\ \A i \in 1..Len(q) : h[i] = Effect(q[i], h[i - 1])
  BY DEF Path
<1>2. PICK n \in Nat : n = Len(q) /\ n > 0
  OBVIOUS
<1>3. PICK p \in Seq(Events) : p = Tail(q)
  OBVIOUS
<1>4. Len(p) = n - 1 /\ Head(q) = q[1] /\ \A i \in 1..(n - 1) : p[i] = q[i + 1]
  BY <1>2, <1>3
<1>5. PICK g : g = [i \in 0..(n - 1) |-> h[i + 1]]
  OBVIOUS
<1>6. g \in [0..Len(p) -> Stores] /\ \A i \in 0..(n - 1) : g[i] = h[i + 1]
  BY <1>1, <1>2, <1>4, <1>5
<1>7. ASSUME NEW i \in 1..Len(p) PROVE g[i] = Effect(p[i], g[i - 1])
  <2>1. i \in 1..(n - 1) /\ i \in 0..(n - 1) /\ i - 1 \in 0..(n - 1) /\ i + 1 \in 1..n /\ (i + 1) - 1 = i /\ (i - 1) + 1 = i
    BY <1>2, <1>4
  <2>2. g[i] = h[i + 1] /\ g[i - 1] = h[i]
    BY <1>6, <2>1
  <2>3. h[i + 1] = Effect(q[i + 1], h[i])
    BY <1>1, <1>2, <2>1
  <2> QED BY <1>4, <2>1, <2>2, <2>3
<1>8. g[0] = Effect(Head(q), a) /\ g[Len(p)] = b
  BY <1>1, <1>2, <1>4, <1>6
<1> QED BY <1>3, <1>6, <1>7, <1>8 DEF Path

\* At most m.
Few(m) == SUBSET {m}

\* The store y of a region that did not get a push stands beside the store x of one
\* that did: it lacks the manifests D, and a tag that names one of T.
Lags(x, y, D, T) ==
    /\ y.layers = x.layers
    /\ y.mans = x.mans \ D
    /\ y.tag = IF x.tag \in T THEN NoTag ELSE x.tag

\* The events after which the difference in the manifests, or in the tag, is gone.
EvensMans(f, m) == f.m = m /\ (f.kind = "manifest" \/ (f.kind = "delete" /\ ~f.ref))
EvensTag(f, m) == (f.kind = "manifest" /\ f.ref) \/ (f.kind = "delete" /\ (f.ref \/ f.m = m))

\* One event further, the stores stand as before or closer.
LEMMA LagStep ==
  ASSUME NEW m \in Manifest, NEW f \in Events, NEW x \in Stores, NEW y \in Stores,
         NEW D \in Few(m), NEW T \in Few(m), Lags(x, y, D, T)
  PROVE  Lags(Effect(f, x), Effect(f, y), IF EvensMans(f, m) THEN {} ELSE D,
                                          IF EvensTag(f, m) THEN {} ELSE T)
<1>1. PICK u \in Stores, v \in Stores : u = Effect(f, x) /\ v = Effect(f, y)
  BY EffectType
<1>2. u.layers = v.layers
  BY <1>1 DEF Effect, Lags
<1>3. v.mans = u.mans \ (IF EvensMans(f, m) THEN {} ELSE D)
  <2>1. /\ u.mans = IF f.kind = "manifest" THEN x.mans \cup {f.m}
                    ELSE IF f.kind = "delete" /\ ~f.ref THEN x.mans \ {f.m} ELSE x.mans
        /\ v.mans = IF f.kind = "manifest" THEN y.mans \cup {f.m}
                    ELSE IF f.kind = "delete" /\ ~f.ref THEN y.mans \ {f.m} ELSE y.mans
    BY <1>1 DEF Effect
  <2>2. y.mans = x.mans \ D
    BY DEF Lags
  <2>3. CASE f.kind = "manifest"
    BY <2>1, <2>2, <2>3 DEF EvensMans, Few
  <2>4. CASE f.kind # "manifest" /\ f.kind = "delete" /\ ~f.ref
    BY <2>1, <2>2, <2>4 DEF EvensMans, Few
  <2>5. CASE f.kind # "manifest" /\ ~(f.kind = "delete" /\ ~f.ref)
    BY <2>1, <2>2, <2>5 DEF EvensMans
  <2> QED BY <2>3, <2>4, <2>5
<1>4. v.tag = IF u.tag \in (IF EvensTag(f, m) THEN {} ELSE T) THEN NoTag ELSE u.tag
  BY <1>1, RegionsAssumption DEF Effect, Lags, EvensTag, Events, Kinds, Stores, Few
<1> QED BY <1>1, <1>2, <1>3, <1>4 DEF Lags

\* That store is determined.
Lagged(x, D, T) ==
    [mans |-> x.mans \ D, layers |-> x.layers, tag |-> IF x.tag \in T THEN NoTag ELSE x.tag]

\* It is the only store that lags so.
LEMMA LaggedIs ==
  ASSUME NEW m \in Manifest, NEW x \in Stores, NEW D \in Few(m), NEW T \in Few(m)
  PROVE  /\ Lagged(x, D, T) \in Stores
         /\ \A y \in Stores : Lags(x, y, D, T) <=> y = Lagged(x, D, T)
<1>1. PICK u \in Stores : u = Lagged(x, D, T)
  BY DEF Lagged, Stores
<1>2. Lags(x, u, D, T)
  BY <1>1 DEF Lagged, Lags
<1>3. ASSUME NEW y \in Stores, Lags(x, y, D, T) PROVE y = u
  <2>1. y.mans = u.mans /\ y.layers = u.layers /\ y.tag = u.tag
    BY <1>2, <1>3 DEF Lags
  <2> QED BY <2>1 DEF Stores
<1> QED BY <1>1, <1>2, <1>3

\* The store that did not get the push has a path of its own.
LEMMA LagPath ==
  ASSUME NEW m \in Manifest, NEW q \in Seq(Events), NEW D \in Few(m), NEW T \in Few(m),
         NEW x \in Stores, NEW y \in Stores, NEW b \in Stores, Path(x, q, b), Lags(x, y, D, T)
  PROVE  \E c \in Stores, D1 \in Few(m), T1 \in Few(m) : Path(y, q, c) /\ Lags(b, c, D1, T1)
<1>1. PICK h \in [0..Len(q) -> Stores] :
         /\ h[0] = x /\ h[Len(q)] = b
         /\ \A i \in 1..Len(q) : h[i] = Effect(q[i], h[i - 1])
  BY DEF Path
<1>2. PICK n \in Nat : n = Len(q)
  OBVIOUS
<1>3. \A i \in 1..n : q[i] \in Events
  BY <1>2
<1>4. PICK dm : dm = [i \in 0..n |-> IF \E j \in 1..i : EvensMans(q[j], m) THEN {} ELSE D]
  OBVIOUS
<1>5. PICK dt : dt = [i \in 0..n |-> IF \E j \in 1..i : EvensTag(q[j], m) THEN {} ELSE T]
  OBVIOUS
<1>6. PICK g : g = [i \in 0..n |-> Lagged(h[i], dm[i], dt[i])]
  OBVIOUS
<1>7. /\ \A i \in 0..n : dm[i] \in Few(m) /\ dt[i] \in Few(m)
      /\ dm[0] = D /\ dt[0] = T
  BY <1>4, <1>5 DEF Few
<1>8. ASSUME NEW i \in 1..n
      PROVE  /\ dm[i] = IF EvensMans(q[i], m) THEN {} ELSE dm[i - 1]
             /\ dt[i] = IF EvensTag(q[i], m) THEN {} ELSE dt[i - 1]
  <2>1. i \in 0..n /\ i - 1 \in 0..n /\ 1..i = 1..(i - 1) \cup {i}
    OBVIOUS
  <2>2. dm[i] = IF EvensMans(q[i], m) THEN {} ELSE dm[i - 1]
    BY <1>4, <2>1
  <2>3. dt[i] = IF EvensTag(q[i], m) THEN {} ELSE dt[i - 1]
    BY <1>5, <2>1
  <2> QED BY <2>2, <2>3
<1>9. ASSUME NEW i \in 0..n
      PROVE  h[i] \in Stores /\ g[i] \in Stores /\ Lags(h[i], g[i], dm[i], dt[i])
  <2>1. h[i] \in Stores /\ g[i] = Lagged(h[i], dm[i], dt[i])
    BY <1>1, <1>2, <1>6
  <2>2. PICK u \in Stores, D1 \in Few(m), T1 \in Few(m) : u = h[i] /\ D1 = dm[i] /\ T1 = dt[i]
    BY <1>7, <2>1
  <2>3. PICK v \in Stores : v = Lagged(u, D1, T1)
    BY LaggedIs
  <2>4. Lags(u, v, D1, T1)
    BY <2>3, LaggedIs
  <2> QED BY <2>1, <2>2, <2>3, <2>4
<1>10. ASSUME NEW i \in 1..n PROVE g[i] = Effect(q[i], g[i - 1])
  <2>1. i \in 0..n /\ i - 1 \in 0..n /\ q[i] \in Events
    BY <1>3
  <2>2. PICK k \in 0..n : k = i - 1
    BY <2>1
  <2>3. PICK f \in Events : f = q[i]
    BY <2>1
  <2>4. PICK z \in Stores : z = Effect(f, g[k])
    BY <1>9, EffectType
  <2>5. Lags(Effect(f, h[k]), Effect(f, g[k]), IF EvensMans(f, m) THEN {} ELSE dm[k],
                                               IF EvensTag(f, m) THEN {} ELSE dt[k])
    BY <1>7, <1>9, LagStep
  <2>6. h[i] = Effect(f, h[k])
    BY <1>1, <1>2, <2>2, <2>3
  <2>7. /\ dm[i] = IF EvensMans(f, m) THEN {} ELSE dm[k]
        /\ dt[i] = IF EvensTag(f, m) THEN {} ELSE dt[k]
    BY <1>8, <2>2, <2>3
  <2>8. Lags(h[i], z, dm[i], dt[i])
    BY <2>4, <2>5, <2>6, <2>7
  <2>9. z = Lagged(h[i], dm[i], dt[i])
    <3>1. PICK u \in Stores, D1 \in Few(m), T1 \in Few(m) : u = h[i] /\ D1 = dm[i] /\ T1 = dt[i]
      BY <1>7, <1>9, <2>1
    <3>2. z = Lagged(u, D1, T1)
      BY <2>8, <3>1, LaggedIs
    <3> QED BY <3>1, <3>2
  <2> QED BY <1>6, <2>1, <2>2, <2>3, <2>4, <2>9
<1>11. g[0] = y
  <2>1. 0 \in 0..n /\ h[0] = x
    BY <1>1
  <2>2. y = Lagged(x, D, T)
    BY LaggedIs
  <2> QED BY <1>6, <1>7, <2>1, <2>2
<1>12. Path(y, q, g[n])
  <2>1. g \in [0..n -> Stores]
    BY <1>6, <1>9
  <2> QED BY <1>2, <1>10, <1>11, <2>1 DEF Path
<1>13. n \in 0..n /\ h[n] = b
  BY <1>1, <1>2
<1> QED BY <1>7, <1>9, <1>12, <1>13

\* A push of a manifest that is gone again, and that no other tag stands in the
\* way of, need not be applied: what follows it makes up for it.
LEMMA SkipPath ==
  ASSUME NEW e \in Events, e.kind = "manifest", NEW q \in Seq(Events), NEW p \in SUBSET Events,
         NEW y \in Stores, Tidy(y), e.ref => y.tag \in {NoTag, e.m},
         NEW c \in Stores, Tidy(c), e.m \notin c.mans,
         NEW b \in Stores, Path(Effect(e, y), q, b), Settles(p, b, c)
  PROVE  \E d \in Stores : Path(y, q, d) /\ Settles(p, d, c)
<1>1. PICK x \in Stores : x = Effect(e, y)
  BY EffectType
<1>2. x.mans = y.mans \cup {e.m} /\ x.layers = y.layers /\ x.tag = (IF e.ref THEN e.m ELSE y.tag)
  BY <1>1 DEF Effect
<1>3. PICK m \in Manifest : m = e.m /\ m # NoTag
  BY RegionsAssumption DEF Events
<1>4. CASE y.tag = m
  <2>1. m \in y.mans
    BY <1>3, <1>4 DEF Tidy
  <2>2. x.mans = y.mans /\ x.layers = y.layers /\ x.tag = y.tag
    BY <1>2, <1>3, <1>4, <2>1
  <2>3. x = y
    BY <2>2 DEF Stores
  <2> QED BY <1>1, <2>3
<1>5. CASE y.tag # m
  <2>1. PICK D \in Few(m), T \in Few(m) : D = {m} \ y.mans /\ T = {m}
    BY DEF Few
  <2>2. Lags(x, y, D, T)
    BY <1>2, <1>3, <1>5, <2>1 DEF Lags
  <2>0. Path(x, q, b)
    BY <1>1
  <2>3. PICK d \in Stores, D1 \in Few(m), T1 \in Few(m) : Path(y, q, d) /\ Lags(b, d, D1, T1)
    BY <2>0, <2>2, LagPath
  <2>4. c.tag # m /\ m \notin c.mans
    BY <1>3 DEF Tidy
  <2>5. ASSUME NEW v \in Stores, NEW D2 \in Few(m), NEW T2 \in Few(m), Lags(c, v, D2, T2)
        PROVE  v = c
    <3>1. v.mans = c.mans /\ v.layers = c.layers /\ v.tag = c.tag
      BY <2>4, <2>5 DEF Lags, Few
    <3> QED BY <2>5, <3>1 DEF Stores
  <2>6. p = {} => c = d
    BY <2>3, <2>5 DEF Settles
  <2>7. ASSUME NEW f \in p PROVE c = Effect(f, d)
    <3>1. c = Effect(f, b) /\ f \in Events
      BY DEF Settles
    <3>2. PICK v \in Stores : v = Effect(f, d)
      BY <3>1, EffectType
    <3>3. PICK D2 \in Few(m), T2 \in Few(m) :
             D2 = (IF EvensMans(f, m) THEN {} ELSE D1) /\ T2 = (IF EvensTag(f, m) THEN {} ELSE T1)
      BY DEF Few
    <3>4. Lags(Effect(f, b), Effect(f, d), D2, T2)
      BY <2>3, <3>1, <3>3, LagStep
    <3> QED BY <2>5, <3>1, <3>2, <3>4
  <2> QED BY <2>3, <2>6, <2>7 DEF Settles
<1> QED BY <1>4, <1>5

\* Where a replication loop is.
LoopRecords == [pc : {"idle", "next", "again", "sent"}, ev : Events \cup {IdleLoop.ev},
                todo : SUBSET Region, tries : Nat]
Loops == {w \in LoopRecords : /\ w.pc = "idle" => w = IdleLoop
                              /\ w.pc # "idle" => w.ev \in Events /\ w.todo # {}}
Attempts == {a \in [from : Region, to : Region, ev : Events, try : Nat] : a.to # a.from}

\* The stores hold manifests and layers, and a tag names a manifest of its store.
StoresTyped ==
    /\ mans \in [Region -> SUBSET Manifest] /\ layers \in [Region -> SUBSET Manifest]
    /\ tag \in [Region -> Manifest \cup {NoTag}]
    /\ \A r \in Region : tag[r] # NoTag => tag[r] \in mans[r]

\* Types; a loop never owes its own region.
RegionTyped ==
    /\ StoresTyped
    /\ pending \in [Region -> SUBSET Events] /\ queue \in [Region -> Seq(Events)]
    /\ worker \in [Region -> Loops] /\ \A r \in Region : r \notin worker[r].todo
    /\ net \in SUBSET Attempts
    /\ lost \in BOOLEAN /\ raced \in BOOLEAN /\ late \in BOOLEAN

\* A loop that waits for an event owes nobody anything.
LEMMA IdleLoopType == IdleLoop \in Loops /\ IdleLoop.pc = "idle" /\ IdleLoop.todo = {}
<1>1. PICK w : w = IdleLoop
  OBVIOUS
<1>2. w.pc = "idle" /\ w.todo = {} /\ w.tries = 0 /\ w.ev = IdleLoop.ev
  BY <1>1 DEF IdleLoop
<1>3. w \in LoopRecords
  BY <1>1 DEF LoopRecords, IdleLoop
<1> QED BY <1>1, <1>2, <1>3 DEF Loops

\* The store of a region, as a record.
LEMMA AtType ==
  ASSUME RegionTyped, NEW r \in Region
  PROVE  /\ At(r) \in Stores /\ Tidy(At(r))
         /\ At(r).mans = mans[r] /\ At(r).layers = layers[r] /\ At(r).tag = tag[r]
BY DEF RegionTyped, StoresTyped, At, Stores, Tidy

\* An event never carries the absent tag.
LEMMA EventName == ASSUME NEW e \in Events PROVE e.m # NoTag /\ e.m \in Manifest
BY RegionsAssumption DEF Events

\* A loop that is under way has a region to go to.
LEMMA TargetType ==
  ASSUME RegionTyped, NEW r \in Region, worker[r].pc # "idle"
  PROVE  /\ Target(r) \in worker[r].todo /\ Target(r) \in Region /\ Target(r) # r
         /\ worker[r].ev \in Events /\ worker[r] \in LoopRecords
<1>1. worker[r] \in Loops
  BY DEF RegionTyped
<1>2. worker[r].ev \in Events /\ worker[r].todo # {} /\ worker[r] \in LoopRecords
  BY <1>1 DEF Loops
<1>3. Target(r) \in worker[r].todo
  BY <1>2 DEF Target
<1> QED BY <1>2, <1>3 DEF RegionTyped, LoopRecords

\* Done with one region, the loop goes to the next one or waits for an event.
LEMMA AdvanceIs ==
  ASSUME RegionTyped, NEW r \in Region, worker[r].pc # "idle", Advance(r)
  PROVE  /\ worker' \in [Region -> Loops] /\ \A x \in Region : x \notin worker'[x].todo
         /\ worker'[r].todo = worker[r].todo \ {Target(r)}
         /\ worker'[r].todo # {} => worker'[r].ev = worker[r].ev
         /\ \A x \in Region \ {r} : worker'[x] = worker[x]
<1>1. PICK w \in LoopRecords : w = worker[r] /\ w.ev \in Events
  BY TargetType
<1>2. PICK rest \in SUBSET Region : rest = w.todo \ {Target(r)}
  BY <1>1 DEF LoopRecords
<1>3. CASE rest = {}
  <2>1. worker' = [worker EXCEPT ![r] = IdleLoop]
    BY <1>1, <1>2, <1>3 DEF Advance
  <2> QED BY <1>1, <1>2, <1>3, <2>1, IdleLoopType DEF RegionTyped
<1>4. CASE rest # {}
  <2>1. PICK v : v = [w EXCEPT !.pc = "next", !.todo = rest, !.tries = 0]
    OBVIOUS
  <2>2. v \in LoopRecords /\ v.pc = "next" /\ v.todo = rest /\ v.ev = w.ev
    BY <2>1 DEF LoopRecords
  <2>3. v \in Loops
    BY <1>1, <1>4, <2>2 DEF Loops
  <2>4. worker' = [worker EXCEPT ![r] = v]
    BY <1>1, <1>2, <1>4, <2>1 DEF Advance
  <2> QED BY <1>1, <1>2, <2>2, <2>3, <2>4 DEF RegionTyped
<1> QED BY <1>3, <1>4

\* A step that only moves the loop's program counter or counts an attempt.
Nudged(r) ==
    /\ worker' \in [Region -> Loops] /\ \A x \in Region : x \notin worker'[x].todo
    /\ worker'[r].todo = worker[r].todo /\ worker'[r].ev = worker[r].ev
    /\ \A x \in Region \ {r} : worker'[x] = worker[x]

\* A change of the program counter and the attempts is such a step.
LEMMA NudgeIs ==
  ASSUME RegionTyped, NEW r \in Region, worker[r].pc # "idle",
         NEW pc \in {"again", "sent"}, NEW n \in Nat,
         worker' = [worker EXCEPT ![r].pc = pc, ![r].tries = n]
  PROVE  Nudged(r) /\ worker'[r].pc = pc
<1>1. PICK w \in LoopRecords : w = worker[r] /\ w.ev \in Events /\ w.todo # {}
  BY TargetType
<1>2. PICK v : v = [w EXCEPT !.pc = pc, !.tries = n]
  OBVIOUS
<1>3. v \in LoopRecords /\ v.pc = pc /\ v.todo = w.todo /\ v.ev = w.ev
  BY <1>2 DEF LoopRecords
<1>4. v \in Loops
  BY <1>1, <1>3 DEF Loops
<1>5. worker' = [worker EXCEPT ![r] = v]
  BY <1>1, <1>2 DEF RegionTyped
<1>6. /\ worker' \in [Region -> Loops] /\ worker'[r] = v
      /\ \A x \in Region \ {r} : worker'[x] = worker[x]
  BY <1>4, <1>5 DEF RegionTyped
<1>7. \A x \in Region : x \notin worker'[x].todo
  BY <1>1, <1>3, <1>6 DEF RegionTyped
<1> QED BY <1>1, <1>3, <1>6, <1>7 DEF Nudged

\* The event e happened in the store of region s, and in no other.
Stored(s, e) ==
    /\ StoresTyped'
    /\ At(s)' = Effect(e, At(s))
    /\ \A x \in Region \ {s} : mans'[x] = mans[x] /\ layers'[x] = layers[x] /\ tag'[x] = tag[x]
    /\ mans'[s] = Effect(e, At(s)).mans /\ layers'[s] = Effect(e, At(s)).layers
    /\ tag'[s] = Effect(e, At(s)).tag

\* The handlers of /internal/replicate do what the event says.
LEMMA ReplicateIs ==
  ASSUME RegionTyped, NEW s \in Region, NEW e \in Events,
         ReplicateManifest(s, e) \/ ReplicateBlob(s, e) \/ ReplicateDelete(s, e)
  PROVE  Stored(s, e)
<1>1. PICK x \in Stores : x = At(s) /\ Tidy(x) /\ x.mans = mans[s] /\ x.layers = layers[s] /\ x.tag = tag[s]
  BY AtType
<1>2. PICK y \in Stores : y = Effect(e, x)
  BY EffectType
<1>3. /\ y.mans = IF e.kind = "manifest" THEN x.mans \cup {e.m}
                  ELSE IF e.kind = "delete" /\ ~e.ref THEN x.mans \ {e.m} ELSE x.mans
      /\ y.layers = IF e.kind = "blob" THEN x.layers \cup {e.m} ELSE x.layers
      /\ y.tag = IF e.kind = "manifest" /\ e.ref THEN e.m
                 ELSE IF e.kind = "delete" /\ (e.ref \/ x.tag = e.m) THEN NoTag ELSE x.tag
  BY <1>2 DEF Effect
<1>4. e.ref \in BOOLEAN /\ e.m \in Manifest /\ e.m # NoTag
  BY EventName DEF Events
<1>5. /\ mans' = [mans EXCEPT ![s] = y.mans]
      /\ layers' = [layers EXCEPT ![s] = y.layers]
      /\ tag' = [tag EXCEPT ![s] = y.tag]
  <2>0. mans \in [Region -> SUBSET Manifest] /\ layers \in [Region -> SUBSET Manifest]
        /\ tag \in [Region -> Manifest \cup {NoTag}]
    BY DEF RegionTyped, StoresTyped
  <2>1. CASE ReplicateManifest(s, e)
    BY <1>1, <1>3, <1>4, <2>0, <2>1 DEF ReplicateManifest
  <2>2. CASE ReplicateBlob(s, e)
    BY <1>1, <1>3, <1>4, <2>0, <2>2 DEF ReplicateBlob
  <2>3. CASE ReplicateDelete(s, e)
    BY <1>1, <1>3, <1>4, <2>0, <2>3 DEF ReplicateDelete, Untagged
  <2> QED BY <2>1, <2>2, <2>3
<1>6. y.tag # NoTag => y.tag \in y.mans
  BY <1>1, <1>3, <1>4 DEF Tidy
<1>7. mans'[s] = y.mans /\ layers'[s] = y.layers /\ tag'[s] = y.tag
  BY <1>5 DEF RegionTyped, StoresTyped
<1>8. \A r \in Region \ {s} : mans'[r] = mans[r] /\ layers'[r] = layers[r] /\ tag'[r] = tag[r]
  BY <1>5 DEF RegionTyped, StoresTyped
<1>9. mans' \in [Region -> SUBSET Manifest] /\ layers' \in [Region -> SUBSET Manifest]
      /\ tag' \in [Region -> Manifest \cup {NoTag}]
  BY <1>5 DEF RegionTyped, StoresTyped, Stores
<1>10. StoresTyped'
  BY <1>6, <1>7, <1>8, <1>9 DEF RegionTyped, StoresTyped
<1>11. At(s)' = y
  BY <1>7 DEF At, Stores
<1> QED BY <1>1, <1>2, <1>7, <1>8, <1>10, <1>11 DEF Stored

\* A client's write does to its region what its event will do to the others.
LEMMA HandlerIs ==
  ASSUME RegionTyped, NEW r \in Region, NEW m \in Manifest,
         \/ UploadLayer(r, m) \/ DeleteManifest(r, m) \/ DeleteTag(r)
         \/ \E ref \in BOOLEAN : PushManifest(r, m, ref)
  PROVE  \E e \in Events : /\ Write(r, e) /\ Stored(r, e)
                           /\ e.kind = "manifest" => e.m \in layers[r]
<1>0. \A k \in Kinds, n \in Manifest, ref \in BOOLEAN :
         /\ Event(k, n, ref) \in Events
         /\ Event(k, n, ref).kind = k /\ Event(k, n, ref).m = n /\ Event(k, n, ref).ref = ref
  BY DEF Event, Events
<1>1. CASE UploadLayer(r, m)
  <2>0. "blob" \in Kinds
    BY DEF Kinds
  <2>1. PICK e \in Events : e = Event("blob", m, FALSE) /\ e.kind = "blob" /\ e.m = m
    BY <1>0, <2>0
  <2>2. Write(r, e) /\ ReplicateBlob(r, e)
    BY <1>1, <2>1 DEF UploadLayer, ReplicateBlob
  <2> QED BY <2>1, <2>2, ReplicateIs
<1>2. CASE DeleteManifest(r, m)
  <2>1. PICK e \in Events : e = Event("delete", m, FALSE) /\ e.kind = "delete" /\ e.m = m /\ ~e.ref
    BY <1>0 DEF Kinds
  <2>2. Write(r, e) /\ ReplicateDelete(r, e)
    BY <1>2, <2>1 DEF DeleteManifest, ReplicateDelete
  <2> QED BY <2>1, <2>2, ReplicateIs
<1>3. CASE DeleteTag(r)
  <2>0. tag[r] \in Manifest
    BY <1>3 DEF DeleteTag, RegionTyped, StoresTyped
  <2>1. PICK e \in Events : e = Event("delete", tag[r], TRUE) /\ e.kind = "delete" /\ e.ref
    BY <1>0, <2>0 DEF Kinds
  <2>2. Write(r, e) /\ ReplicateDelete(r, e)
    BY <1>3, <2>1 DEF DeleteTag, ReplicateDelete
  <2> QED BY <2>1, <2>2, ReplicateIs
<1>4. ASSUME NEW ref \in BOOLEAN, PushManifest(r, m, ref)
      PROVE  \E e \in Events : /\ Write(r, e) /\ Stored(r, e)
                               /\ e.kind = "manifest" => e.m \in layers[r]
  <2>1. PICK e \in Events : e = Event("manifest", m, ref) /\ e.kind = "manifest" /\ e.m = m /\ e.ref = ref
    BY <1>0 DEF Kinds
  <2>2. Write(r, e) /\ ReplicateManifest(r, e) /\ m \in layers[r]
    BY <1>4, <2>1 DEF PushManifest, ReplicateManifest
  <2> QED BY <2>1, <2>2, ReplicateIs
<1> QED BY <1>1, <1>2, <1>3, <1>4

\* The region has the layer, or the layer's event comes before place i of the queue.
Covered(r, s, m, i) ==
    \/ m \in layers[s]
    \/ s \in worker[r].todo /\ worker[r].ev.kind = "blob" /\ worker[r].ev.m = m
    \/ \E j \in 1..Len(queue[r]) : j < i /\ queue[r][j].kind = "blob" /\ queue[r][j].m = m

\* What one region still owes another of its layers, ahead of their manifests.
LayersAhead(r, s) ==
    /\ layers[s] \subseteq layers[r]
    /\ \A m \in layers[r] : \/ Covered(r, s, m, Len(queue[r]) + 1)
                            \/ \E e \in pending[r] : e.kind = "blob" /\ e.m = m
    /\ \A e \in pending[r] : e.kind = "manifest" => Covered(r, s, e.m, Len(queue[r]) + 1)
    /\ \A i \in 1..Len(queue[r]) : queue[r][i].kind = "manifest" => Covered(r, s, queue[r][i].m, i)
    /\ s \in worker[r].todo /\ worker[r].ev.kind = "manifest" => worker[r].ev.m \in layers[s]

\* Everything s has not got from r, applied in order, makes its store that of r.
First(r, s) == IF s \in worker[r].todo THEN Effect(worker[r].ev, At(s)) ELSE At(s)
Synced(r, s) ==
    \E b \in Stores : Path(First(r, s), queue[r], b) /\ Settles(pending[r], b, At(r))

\* Only region r has events under way, one of them at most outside the channel.
LoneWriter(r) ==
    /\ \A s \in Region \ {r} : Drained(s)
    /\ \A e, f \in pending[r] : e = f

\* Region r alone has something under way, and all of it leads the others to it.
Leads(r) ==
    /\ LoneWriter(r)
    /\ \A s \in Region \ {r} : LayersAhead(r, s)
    /\ ~late => \A s \in Region \ {r} : Synced(r, s)

\* A layer is stored before its event exists.
Offered ==
    \A r \in Region :
        /\ \A e \in pending[r] : e.kind = "blob" => e.m \in layers[r]
        /\ \A i \in 1..Len(queue[r]) : queue[r][i].kind = "blob" => queue[r][i].m \in layers[r]
        /\ worker[r].pc # "idle" /\ worker[r].ev.kind = "blob" => worker[r].ev.m \in layers[r]
        /\ \A msg \in net : msg.from = r /\ msg.ev.kind = "blob" => msg.ev.m \in layers[r]

\* A manifest is stored, or on its way, only where its layer is.
Stocked ==
    /\ \A msg \in net : msg.ev.kind = "manifest" => msg.ev.m \in layers[msg.to]
    /\ \A s \in Region : mans[s] \subseteq layers[s]

\* The inductive invariant.
RegionInv ==
    /\ RegionTyped /\ Offered
    /\ ~lost /\ ~raced => Stocked /\ \E r \in Region : Leads(r)

\* The regions start equal and nothing is under way.
LEMMA RegionInvInit == RegionInit => RegionInv
<1> SUFFICES ASSUME RegionInit PROVE RegionInv
  OBVIOUS
<1>1. PICK held \in SUBSET Manifest, t \in Manifest \cup {NoTag} :
         /\ t \in held \cup {NoTag}
         /\ mans = [r \in Region |-> held] /\ layers = [r \in Region |-> held]
         /\ tag = [r \in Region |-> t]
  BY DEF RegionInit
<1>2. /\ pending = [r \in Region |-> {}] /\ queue = [r \in Region |-> <<>>]
      /\ worker = [r \in Region |-> IdleLoop] /\ net = {}
      /\ lost = FALSE /\ raced = FALSE /\ late = FALSE
  BY DEF RegionInit
<1>3. StoresTyped
  BY <1>1 DEF StoresTyped
<1>4. RegionTyped
  <2>1. pending \in [Region -> SUBSET Events] /\ queue \in [Region -> Seq(Events)]
    BY <1>2
  <2>2. worker \in [Region -> Loops] /\ \A r \in Region : r \notin worker[r].todo
    BY <1>2, IdleLoopType
  <2>3. net \in SUBSET Attempts /\ lost \in BOOLEAN /\ raced \in BOOLEAN /\ late \in BOOLEAN
    BY <1>2
  <2> QED BY <1>3, <2>1, <2>2, <2>3 DEF RegionTyped
<1>5. \A r \in Region : pending[r] = {} /\ queue[r] = <<>> /\ worker[r] = IdleLoop /\ worker[r].todo = {}
                        /\ worker[r].pc = "idle" /\ Len(queue[r]) = 0
  BY <1>2, IdleLoopType
<1>6. Offered
  BY <1>2, <1>5 DEF Offered
<1>7. Stocked
  BY <1>1, <1>2 DEF Stocked
<1>8. Leads(Primary)
  <2>1. LoneWriter(Primary)
    BY <1>2, <1>5, RegionsAssumption DEF LoneWriter, Drained
  <2>2. \A s \in Region \ {Primary} : LayersAhead(Primary, s)
    BY <1>1, <1>5, RegionsAssumption DEF LayersAhead, Covered
  <2>3. ASSUME NEW s \in Region \ {Primary} PROVE Synced(Primary, s)
    <3>1. At(Primary) \in Stores /\ At(s) = At(Primary)
      BY <1>1, <1>4, AtType, RegionsAssumption DEF At
    <3>2. First(Primary, s) = At(Primary)
      BY <1>5, <3>1, RegionsAssumption DEF First
    <3>3. Path(At(Primary), <<>>, At(Primary))
      BY <3>1, PathNil
    <3> QED BY <1>5, <3>1, <3>2, <3>3, RegionsAssumption DEF Synced, Settles
  <2> QED BY <2>1, <2>2, <2>3 DEF Leads
<1> QED BY <1>4, <1>6, <1>7, <1>8, RegionsAssumption DEF RegionInv

\* The region with something under way is the one that leads.
LEMMA LeadIs ==
  ASSUME NEW r \in Region, NEW x \in Region, Leads(x), ~Drained(r)
  PROVE  x = r
BY DEF Leads, LoneWriter

\* Between two writes the lead may be any region's.
LEMMA Handover ==
  ASSUME RegionTyped, NEW x \in Region, Leads(x), NEW r \in Region, pending[r] = {},
         \A s \in Region \ {r} : Drained(s)
  PROVE  Leads(r)
<1>1. CASE x = r
  BY <1>1
<1>2. CASE x # r
  <2>1. \A s \in Region : Drained(s)
    BY <1>2 DEF Leads, LoneWriter
  <2>2. \A s \in Region : pending[s] = {} /\ queue[s] = <<>> /\ worker[s] = IdleLoop /\ worker[s].todo = {}
                          /\ Len(queue[s]) = 0
    BY <2>1, IdleLoopType DEF Drained
  <2>3. \A s \in Region : layers[s] = layers[x]
    <3>1. ASSUME NEW s \in Region \ {x} PROVE layers[s] = layers[x]
      <4>1. LayersAhead(x, s)
        BY DEF Leads
      <4>2. \A m \in layers[x] : Covered(x, s, m, Len(queue[x]) + 1)
        BY <2>2, <4>1 DEF LayersAhead
      <4>3. layers[x] \subseteq layers[s]
        BY <2>2, <4>2 DEF Covered
      <4> QED BY <4>1, <4>3 DEF LayersAhead
    <3> QED BY <3>1
  <2>4. \A s \in Region \ {r} : LayersAhead(r, s)
    BY <2>2, <2>3 DEF LayersAhead, Covered
  <2>5. LoneWriter(r)
    BY <2>1, <2>2 DEF LoneWriter
  <2>6. ASSUME ~late, NEW s \in Region PROVE At(s) = At(x)
    <3>1. CASE s = x
      BY <3>1
    <3>2. CASE s # x
      <4>1. PICK b \in Stores : Path(First(x, s), queue[x], b) /\ Settles(pending[x], b, At(x))
        BY <2>6, <3>2 DEF Leads, Synced
      <4>2. At(x) = b /\ First(x, s) = At(s)
        BY <2>2, <4>1 DEF Settles, First
      <4>3. Path(At(s), <<>>, b)
        BY <2>2, <4>1, <4>2
      <4> QED BY <4>2, <4>3, PathNil
    <3> QED BY <3>1, <3>2
  <2>7. ASSUME ~late, NEW s \in Region \ {r} PROVE Synced(r, s)
    <3>1. At(r) \in Stores /\ At(s) = At(r)
      BY <2>6, <2>7, AtType
    <3>2. First(r, s) = At(r)
      BY <2>2, <3>1 DEF First
    <3>3. Path(At(r), <<>>, At(r))
      BY <3>1, PathNil
    <3> QED BY <2>2, <3>1, <3>2, <3>3 DEF Synced, Settles
  <2> QED BY <2>4, <2>5, <2>7 DEF Leads
<1> QED BY <1>1, <1>2

\* Layers are only ever added.
LEMMA StoredLayers ==
  ASSUME RegionTyped, NEW s \in Region, NEW e \in Events, Stored(s, e)
  PROVE  /\ \A x \in Region : layers[x] \subseteq layers'[x]
         /\ layers'[s] = IF e.kind = "blob" THEN layers[s] \cup {e.m} ELSE layers[s]
         /\ mans'[s] \subseteq IF e.kind = "manifest" THEN mans[s] \cup {e.m} ELSE mans[s]
         /\ \A x \in Region \ {s} : At(x)' = At(x) /\ layers'[x] = layers[x] /\ mans'[x] = mans[x]
<1>1. At(s).layers = layers[s] /\ At(s).mans = mans[s]
  BY AtType
<1>2. layers'[s] = IF e.kind = "blob" THEN layers[s] \cup {e.m} ELSE layers[s]
  BY <1>1 DEF Stored, Effect
<1>3. mans'[s] \subseteq IF e.kind = "manifest" THEN mans[s] \cup {e.m} ELSE mans[s]
  BY <1>1 DEF Stored, Effect
<1>4. \A x \in Region \ {s} : At(x)' = At(x) /\ layers'[x] = layers[x] /\ mans'[x] = mans[x]
  BY DEF Stored, At
<1> QED BY <1>2, <1>3, <1>4

\* A write of a client: its region leads, or something is under way elsewhere and
\* the writes raced.
LEMMA WriteKeeps ==
  ASSUME RegionInv, NEW r \in Region, NEW e \in Events, Write(r, e), Stored(r, e),
         e.kind = "manifest" => e.m \in layers[r]
  PROVE  RegionInv'
<1>0. RegionTyped
  BY DEF RegionInv
<1>1. /\ pending' = [pending EXCEPT ![r] = @ \cup {e}]
      /\ raced' = (raced \/ pending[r] # {} \/ \E s \in Region \ {r} : ~Drained(s))
      /\ queue' = queue /\ worker' = worker /\ net' = net /\ lost' = lost /\ late' = late
  BY DEF Write
<1>2. /\ pending'[r] = pending[r] \cup {e} /\ \A x \in Region \ {r} : pending'[x] = pending[x]
      /\ pending' \in [Region -> SUBSET Events]
  BY <1>0, <1>1 DEF RegionTyped
<1>3. raced' \in BOOLEAN
  BY <1>1
<1>4. RegionTyped'
  BY <1>0, <1>1, <1>2, <1>3 DEF RegionTyped, Stored
<1>5. /\ \A x \in Region : layers[x] \subseteq layers'[x]
      /\ layers'[r] = IF e.kind = "blob" THEN layers[r] \cup {e.m} ELSE layers[r]
      /\ mans'[r] \subseteq IF e.kind = "manifest" THEN mans[r] \cup {e.m} ELSE mans[r]
      /\ \A x \in Region \ {r} : At(x)' = At(x) /\ layers'[x] = layers[x] /\ mans'[x] = mans[x]
  BY <1>0, StoredLayers
<1>6. Offered'
  <2>1. ASSUME NEW x \in Region
        PROVE  \A f \in pending'[x] : f.kind = "blob" => f.m \in layers'[x]
    BY <1>2, <1>5 DEF RegionInv, Offered
  <2> QED BY <1>1, <1>5, <2>1 DEF RegionInv, Offered
<1>7. ASSUME ~lost', ~raced' PROVE Stocked' /\ Leads(r)'
  <2>1. /\ ~lost /\ ~raced /\ pending[r] = {} /\ \A s \in Region \ {r} : Drained(s)
    BY <1>1, <1>7
  <2>2. Stocked /\ Leads(r)
    BY <1>0, <2>1, Handover DEF RegionInv
  <2>3. Stocked'
    <3>1. \A msg \in net : msg.to \in Region
      BY <1>0 DEF RegionTyped, Attempts
    <3>2. \A msg \in net' : msg.ev.kind = "manifest" => msg.ev.m \in layers'[msg.to]
      BY <1>1, <1>5, <2>2, <3>1 DEF Stocked
    <3>3. ASSUME NEW s \in Region PROVE mans'[s] \subseteq layers'[s]
      BY <1>5, <2>2 DEF Stocked
    <3> QED BY <3>2, <3>3 DEF Stocked
  <2>4. LoneWriter(r)'
    <3>1. \A s \in Region \ {r} : Drained(s)'
      BY <1>1, <1>2, <2>1 DEF Drained
    <3> QED BY <1>2, <2>1, <3>1 DEF LoneWriter
  <2>5. ASSUME NEW s \in Region \ {r} PROVE LayersAhead(r, s)'
    <3>1. LayersAhead(r, s)
      BY <2>2 DEF Leads
    <3>2. \A m, i : Covered(r, s, m, i)' <=> Covered(r, s, m, i)
      BY <1>1, <1>5 DEF Covered
    <3>3. \A m \in layers'[r] : \/ Covered(r, s, m, Len(queue[r]) + 1)
                                \/ \E f \in pending'[r] : f.kind = "blob" /\ f.m = m
      BY <1>2, <1>5, <2>1, <3>1 DEF LayersAhead
    <3>4. \A f \in pending'[r] : f.kind = "manifest" => Covered(r, s, f.m, Len(queue[r]) + 1)
      BY <1>2, <2>1, <3>1 DEF LayersAhead
    <3> QED BY <1>1, <1>5, <3>1, <3>2, <3>3, <3>4 DEF LayersAhead
  <2>6. ASSUME ~late', NEW s \in Region \ {r} PROVE Synced(r, s)'
    <3>1. PICK b \in Stores : Path(First(r, s), queue[r], b) /\ Settles(pending[r], b, At(r))
      BY <1>1, <2>2, <2>6 DEF Leads, Synced
    <3>2. First(r, s)' = First(r, s)
      BY <1>1, <1>5 DEF First
    <3>3. At(r) = b /\ At(r)' = Effect(e, b)
      BY <2>1, <3>1 DEF Settles, Stored
    <3>4. Settles(pending'[r], b, At(r)')
      BY <1>2, <2>1, <3>3 DEF Settles
    <3> QED BY <1>1, <3>1, <3>2, <3>4 DEF Synced
  <2> QED BY <2>3, <2>4, <2>5, <2>6 DEF Leads
<1> QED BY <1>4, <1>6, <1>7 DEF RegionInv

\* The event of a handler that waited goes to the end of the channel.
LEMMA EnqueueKeeps ==
  ASSUME RegionInv, NEW r \in Region, NEW e \in pending[r], Enqueue(r, e)
  PROVE  RegionInv'
<1>0. RegionTyped /\ e \in Events /\ queue[r] \in Seq(Events) /\ Len(queue[r]) \in Nat
  BY DEF RegionInv, RegionTyped
<1>1. /\ queue' = [queue EXCEPT ![r] = Append(@, e)] /\ pending' = [pending EXCEPT ![r] = @ \ {e}]
      /\ mans' = mans /\ layers' = layers /\ tag' = tag
      /\ worker' = worker /\ net' = net /\ lost' = lost /\ raced' = raced /\ late' = late
  BY DEF Enqueue, stores
<1>2. /\ pending'[r] = pending[r] \ {e} /\ pending' \in [Region -> SUBSET Events]
      /\ queue'[r] = Append(queue[r], e) /\ queue' \in [Region -> Seq(Events)]
      /\ \A x \in Region \ {r} : pending'[x] = pending[x] /\ queue'[x] = queue[x]
  BY <1>0, <1>1 DEF RegionTyped
<1>3. PICK n \in Nat : n = Len(queue[r])
  BY <1>0
<1>4. Len(queue'[r]) = n + 1 /\ queue'[r][n + 1] = e /\ \A i \in 1..n : queue'[r][i] = queue[r][i]
  BY <1>0, <1>2, <1>3
<1>5. RegionTyped'
  BY <1>0, <1>1, <1>2 DEF RegionTyped, StoresTyped
<1>6. Offered'
  <2>1. \A i \in 1..Len(queue'[r]) : queue'[r][i].kind = "blob" => queue'[r][i].m \in layers[r]
    <3>1. ASSUME NEW i \in 1..(n + 1), queue'[r][i].kind = "blob" PROVE queue'[r][i].m \in layers[r]
      <4>1. CASE i = n + 1
        BY <1>4, <3>1, <4>1 DEF RegionInv, Offered
      <4>2. CASE i # n + 1
        <5>1. i \in 1..n
          BY <4>2
        <5> QED BY <1>3, <1>4, <3>1, <5>1 DEF RegionInv, Offered
      <4> QED BY <4>1, <4>2
    <3> QED BY <1>4, <3>1
  <2> QED BY <1>1, <1>2, <2>1 DEF RegionInv, Offered
<1>7. ASSUME ~lost', ~raced' PROVE Stocked' /\ Leads(r)'
  <2>1. Stocked /\ Leads(r)
    <3>1. ~Drained(r)
      BY DEF Drained
    <3> QED BY <1>1, <1>7, <3>1, LeadIs DEF RegionInv
  <2>2. Stocked'
    BY <1>1, <2>1 DEF Stocked
  <2>3. pending[r] = {e} /\ pending'[r] = {}
    BY <1>2, <2>1 DEF Leads, LoneWriter
  <2>4. LoneWriter(r)'
    <3>1. \A s \in Region \ {r} : Drained(s)'
      BY <1>1, <1>2, <2>1 DEF Drained, Leads, LoneWriter
    <3> QED BY <2>3, <3>1 DEF LoneWriter
  <2>5. ASSUME NEW s \in Region \ {r} PROVE LayersAhead(r, s)'
    <3>1. LayersAhead(r, s)
      BY <2>1 DEF Leads
    <3>2. ASSUME NEW m, NEW i \in 1..(n + 1), Covered(r, s, m, i) PROVE Covered(r, s, m, i)'
      BY <1>1, <1>3, <1>4, <3>2 DEF Covered
    <3>3. ASSUME NEW m, Covered(r, s, m, n + 1) PROVE Covered(r, s, m, n + 2)'
      BY <1>1, <1>3, <1>4, <3>3 DEF Covered
    <3>4. ASSUME e.kind = "blob" PROVE Covered(r, s, e.m, n + 2)'
      BY <1>3, <1>4, <3>4 DEF Covered
    <3>5. ASSUME NEW m \in layers[r] PROVE Covered(r, s, m, n + 2)'
      <4>1. Covered(r, s, m, n + 1) \/ (e.kind = "blob" /\ e.m = m)
        BY <1>3, <2>3, <3>1 DEF LayersAhead
      <4> QED BY <3>3, <3>4, <4>1
    <3>8. \A m \in layers'[r] : Covered(r, s, m, Len(queue[r]) + 1)'
      BY <1>1, <1>4, <3>5 DEF Covered
    <3>6. ASSUME NEW i \in 1..(n + 1), queue'[r][i].kind = "manifest"
          PROVE  Covered(r, s, queue'[r][i].m, i)
      <4>1. CASE i = n + 1
        BY <1>3, <1>4, <2>3, <3>1, <3>6, <4>1 DEF LayersAhead
      <4>2. CASE i # n + 1
        <5>1. i \in 1..n
          BY <4>2
        <5> QED BY <1>3, <1>4, <3>1, <3>6, <5>1 DEF LayersAhead
      <4> QED BY <4>1, <4>2
    <3>7. ASSUME NEW i \in 1..Len(queue'[r]), queue'[r][i].kind = "manifest"
          PROVE  Covered(r, s, queue[r][i].m, i)'
      <4>1. PICK m : m = queue'[r][i].m
        OBVIOUS
      <4>2. Covered(r, s, m, i)'
        BY <1>4, <3>2, <3>6, <3>7, <4>1
      <4> QED BY <4>1, <4>2 DEF Covered
    <3> QED BY <1>1, <2>3, <3>1, <3>7, <3>8 DEF LayersAhead
  <2>6. ASSUME ~late', NEW s \in Region \ {r} PROVE Synced(r, s)'
    <3>1. PICK b \in Stores : Path(First(r, s), queue[r], b) /\ Settles(pending[r], b, At(r))
      BY <1>1, <2>1, <2>6 DEF Leads, Synced
    <3>2. First(r, s)' = First(r, s) /\ At(r)' = At(r)
      BY <1>1 DEF First, At
    <3>3. At(r) = Effect(e, b) /\ At(r) \in Stores
      BY <1>0, <2>3, <3>1, AtType DEF Settles
    <3>4. Path(First(r, s), queue'[r], At(r))
      BY <1>0, <1>2, <3>1, <3>3, PathAppend
    <3>5. Settles(pending'[r], At(r), At(r))
      BY <2>3 DEF Settles
    <3> QED BY <3>2, <3>3, <3>4, <3>5 DEF Synced
  <2> QED BY <2>2, <2>4, <2>5, <2>6 DEF Leads
<1> QED BY <1>5, <1>6, <1>7 DEF RegionInv

\* There is another region to replicate to.
LEMMA OtherRegion == ASSUME NEW r \in Region PROVE Region \ {r} # {}
BY RegionsAssumption

\* The loop takes the first event of the channel: it is now owed to every region.
LEMMA ReceiveKeeps ==
  ASSUME RegionInv, NEW r \in Region, Receive(r)
  PROVE  RegionInv'
<1>0. /\ RegionTyped /\ queue[r] \in Seq(Events) /\ queue[r] # <<>> /\ Len(queue[r]) \in Nat
      /\ worker[r] = IdleLoop /\ worker[r].todo = {}
  <2>1. RegionTyped /\ queue[r] \in Seq(Events) /\ queue[r] # <<>> /\ worker[r] \in Loops /\ worker[r].pc = "idle"
    BY DEF RegionInv, RegionTyped, Receive
  <2>2. worker[r] = IdleLoop
    BY <2>1 DEF Loops
  <2> QED BY <2>1, <2>2, IdleLoopType
<1>1. PICK e \in Events : e = Head(queue[r]) /\ e = queue[r][1]
  BY <1>0
<1>2. PICK n \in Nat : Len(queue[r]) = n + 1
  <2>1. Len(queue[r]) > 0
    BY <1>0
  <2>2. Len(queue[r]) - 1 \in Nat /\ Len(queue[r]) = (Len(queue[r]) - 1) + 1
    BY <1>0, <2>1
  <2> QED BY <2>2
<1>3. PICK w : w = [pc |-> "next", ev |-> e, todo |-> Region \ {r}, tries |-> 0]
  OBVIOUS
<1>4. w.pc = "next" /\ w.ev = e /\ w.todo = Region \ {r} /\ w \in LoopRecords
  BY <1>3 DEF LoopRecords
<1>5. w \in Loops
  BY <1>4, OtherRegion DEF Loops
<1>6. /\ worker' = [worker EXCEPT ![r] = w] /\ queue' = [queue EXCEPT ![r] = Tail(@)]
      /\ mans' = mans /\ layers' = layers /\ tag' = tag /\ pending' = pending /\ net' = net
      /\ lost' = lost /\ raced' = raced /\ late' = late
  BY <1>1, <1>3 DEF Receive, stores
<1>7. /\ worker'[r] = w /\ worker' \in [Region -> Loops]
      /\ queue'[r] = Tail(queue[r]) /\ queue' \in [Region -> Seq(Events)]
      /\ \A x \in Region \ {r} : worker'[x] = worker[x] /\ queue'[x] = queue[x]
  BY <1>0, <1>5, <1>6 DEF RegionTyped
<1>8. Len(queue'[r]) = n /\ \A i \in 1..n : queue'[r][i] = queue[r][i + 1]
  BY <1>0, <1>2, <1>7
<1>9. RegionTyped'
  BY <1>0, <1>4, <1>6, <1>7 DEF RegionTyped, StoresTyped
<1>10. Offered'
  <2>1. \A i \in 1..(n + 1) : queue[r][i].kind = "blob" => queue[r][i].m \in layers[r]
    BY <1>2 DEF RegionInv, Offered
  <2>2. \A i \in 1..n : queue'[r][i].kind = "blob" => queue'[r][i].m \in layers[r]
    BY <1>8, <2>1
  <2>3. e.kind = "blob" => e.m \in layers[r]
    BY <1>1, <2>1
  <2> QED BY <1>4, <1>6, <1>7, <1>8, <2>2, <2>3 DEF RegionInv, Offered
<1>11. ASSUME ~lost', ~raced' PROVE Stocked' /\ Leads(r)'
  <2>1. Stocked /\ Leads(r)
    <3>1. ~Drained(r)
      BY <1>0 DEF Drained
    <3> QED BY <1>6, <1>11, <3>1, LeadIs DEF RegionInv
  <2>2. Stocked'
    BY <1>6, <2>1 DEF Stocked
  <2>3. LoneWriter(r)'
    <3>1. \A s \in Region \ {r} : Drained(s)'
      BY <1>6, <1>7, <2>1 DEF Drained, Leads, LoneWriter
    <3> QED BY <1>6, <2>1, <3>1 DEF Leads, LoneWriter
  <2>4. ASSUME NEW s \in Region \ {r} PROVE LayersAhead(r, s)'
    <3>1. LayersAhead(r, s)
      BY <2>1 DEF Leads
    <3>2. ASSUME NEW m, NEW i \in 1..(n + 1), Covered(r, s, m, i + 1) PROVE Covered(r, s, m, i)'
      <4>1. CASE m \in layers[s]
        BY <1>6, <4>1 DEF Covered
      <4>2. ASSUME NEW j \in 1..Len(queue[r]), j < i + 1, queue[r][j].kind = "blob", queue[r][j].m = m
            PROVE  Covered(r, s, m, i)'
        <5>1. CASE j = 1
          BY <1>1, <1>4, <1>7, <4>2, <5>1 DEF Covered
        <5>2. CASE j # 1
          <6>1. PICK k \in 1..n : k = j - 1 /\ k + 1 = j /\ k < i
            BY <1>2, <4>2, <5>2
          <6>2. queue'[r][k].kind = "blob" /\ queue'[r][k].m = m
            BY <1>8, <4>2, <6>1
          <6> QED BY <1>8, <6>1, <6>2 DEF Covered
        <5> QED BY <5>1, <5>2
      <4> QED BY <1>0, <3>2, <4>1, <4>2 DEF Covered
    <3>3. ASSUME NEW m, Covered(r, s, m, 1) PROVE m \in layers[s]
      BY <1>0, <3>3 DEF Covered
    <3>4. ASSUME NEW m, Covered(r, s, m, n + 2) PROVE Covered(r, s, m, n + 1)'
      BY <3>2, <3>4
    <3>5. \A m : Covered(r, s, m, n + 1)' => Covered(r, s, m, Len(queue[r]) + 1)'
      BY <1>8 DEF Covered
    <3>6. \A m \in layers'[r] : \/ Covered(r, s, m, Len(queue[r]) + 1)'
                                \/ \E f \in pending'[r] : f.kind = "blob" /\ f.m = m
      BY <1>2, <1>6, <3>1, <3>4, <3>5 DEF LayersAhead
    <3>7. ASSUME NEW f \in pending'[r], f.kind = "manifest" PROVE Covered(r, s, f.m, Len(queue[r]) + 1)'
      <4>1. Covered(r, s, f.m, n + 2)
        BY <1>2, <1>6, <3>1, <3>7 DEF LayersAhead
      <4> QED BY <3>4, <3>5, <4>1
    <3>8. ASSUME NEW i \in 1..Len(queue'[r]), queue'[r][i].kind = "manifest"
          PROVE  Covered(r, s, queue[r][i].m, i)'
      <4>1. PICK m : m = queue'[r][i].m
        OBVIOUS
      <4>2. i \in 1..n /\ i + 1 \in 1..Len(queue[r]) /\ queue'[r][i] = queue[r][i + 1]
        BY <1>2, <1>8
      <4>3. Covered(r, s, m, i + 1)
        BY <3>1, <3>8, <4>1, <4>2 DEF LayersAhead
      <4>4. Covered(r, s, m, i)'
        BY <3>2, <4>2, <4>3
      <4> QED BY <4>1, <4>4 DEF Covered
    <3>9. e.kind = "manifest" => e.m \in layers[s]
      <4>1. 1 \in 1..Len(queue[r])
        BY <1>2
      <4> QED BY <1>1, <3>1, <3>3, <4>1 DEF LayersAhead
    <3>10. layers'[s] \subseteq layers'[r] /\ worker'[r].ev = e
      BY <1>4, <1>6, <1>7, <3>1 DEF LayersAhead
    <3> QED BY <1>6, <3>6, <3>7, <3>8, <3>9, <3>10 DEF LayersAhead
  <2>5. ASSUME ~late', NEW s \in Region \ {r} PROVE Synced(r, s)'
    <3>1. PICK b \in Stores : Path(First(r, s), queue[r], b) /\ Settles(pending[r], b, At(r))
      BY <1>6, <2>1, <2>5 DEF Leads, Synced
    <3>2. First(r, s) = At(s) /\ First(r, s)' = Effect(e, At(s)) /\ At(r)' = At(r)
      BY <1>0, <1>4, <1>6, <1>7 DEF First, At
    <3>3. Path(Effect(e, At(s)), queue'[r], b)
      BY <1>0, <1>1, <1>7, <3>1, <3>2, PathTail
    <3> QED BY <1>6, <3>1, <3>2, <3>3 DEF Synced
  <2> QED BY <2>2, <2>3, <2>4, <2>5 DEF Leads
<1> QED BY <1>9, <1>10, <1>11 DEF RegionInv

\* A step that moves the loop's program counter, sends the event, or forgets an attempt.
LEMMA NudgeKeeps ==
  ASSUME RegionInv, NEW r \in Region, worker[r].pc # "idle", Nudged(r),
         mans' = mans, layers' = layers, tag' = tag, pending' = pending, queue' = queue,
         lost' = lost, raced' = raced, late' = late, net' \in SUBSET Attempts,
         \A msg \in net' \ net : msg.from = r /\ msg.to \in worker[r].todo /\ msg.ev = worker[r].ev
  PROVE  RegionInv'
<1>0. RegionTyped /\ worker[r] # IdleLoop
  BY IdleLoopType DEF RegionInv
<1>1. RegionTyped'
  BY <1>0 DEF RegionTyped, StoresTyped, Nudged
<1>2. Offered'
  BY DEF RegionInv, Offered, Nudged
<1>3. ASSUME ~lost', ~raced' PROVE Stocked' /\ Leads(r)'
  <2>1. Stocked /\ Leads(r)
    <3>1. ~Drained(r)
      BY <1>0 DEF Drained
    <3> QED BY <1>3, <3>1, LeadIs DEF RegionInv
  <2>2. \A s \in Region \ {r} : LayersAhead(r, s)
    BY <2>1 DEF Leads
  <2>3. ASSUME NEW msg \in net', msg.ev.kind = "manifest" PROVE msg.ev.m \in layers'[msg.to]
    <3>1. CASE msg \in net
      BY <2>1, <2>3, <3>1 DEF Stocked
    <3>2. CASE msg \notin net
      <4>1. msg.to \in Region \ {r} /\ msg.to \in worker[r].todo /\ msg.ev = worker[r].ev
        BY <1>0, <3>2 DEF RegionTyped, Attempts
      <4> QED BY <2>2, <2>3, <4>1 DEF LayersAhead
    <3> QED BY <3>1, <3>2
  <2>4. Stocked'
    BY <2>1, <2>3 DEF Stocked
  <2>5. LoneWriter(r)'
    <3>1. \A s \in Region \ {r} : Drained(s)'
      BY <2>1 DEF Drained, Leads, LoneWriter, Nudged
    <3> QED BY <2>1, <3>1 DEF Leads, LoneWriter
  <2>6. ASSUME NEW s \in Region \ {r} PROVE LayersAhead(r, s)'
    <3>1. worker'[r].todo = worker[r].todo /\ worker'[r].ev = worker[r].ev
      BY DEF Nudged
    <3> QED BY <2>2, <3>1 DEF LayersAhead, Covered
  <2>7. ASSUME ~late', NEW s \in Region \ {r} PROVE Synced(r, s)'
    <3>1. First(r, s)' = First(r, s) /\ At(r)' = At(r)
      BY DEF First, At, Nudged
    <3> QED BY <2>1, <2>7, <3>1 DEF Synced, Leads
  <2> QED BY <2>4, <2>5, <2>6, <2>7 DEF Leads
<1> QED BY <1>1, <1>2, <1>3 DEF RegionInv

\* Once an event is lost, nothing is promised but types.
LEMMA LossKeeps ==
  ASSUME RegionInv, NEW r \in Region, worker[r].pc # "idle", Advance(r), lost' = TRUE,
         StoresTyped', layers' = layers, pending' = pending, queue' = queue,
         raced' = raced, late' = late, net' \subseteq net
  PROVE  RegionInv'
<1>0. RegionTyped
  BY DEF RegionInv
<1>1. /\ worker' \in [Region -> Loops] /\ \A x \in Region : x \notin worker'[x].todo
      /\ worker'[r].todo # {} => worker'[r].ev = worker[r].ev
      /\ \A x \in Region \ {r} : worker'[x] = worker[x]
  BY <1>0, AdvanceIs
<1>2. RegionTyped'
  BY <1>0, <1>1 DEF RegionTyped
<1>3. worker'[r].pc # "idle" => worker'[r].ev = worker[r].ev
  BY <1>1 DEF Loops
<1>4. Offered'
  BY <1>1, <1>3 DEF RegionInv, Offered
<1> QED BY <1>2, <1>4 DEF RegionInv

\* What a retry does: another attempt, or the event is given up for this region.
LEMMA RetryIs ==
  ASSUME RegionTyped, NEW r \in Region, worker[r].pc # "idle", Retry(r)
  PROVE  \/ Nudged(r) /\ lost' = lost
         \/ Advance(r) /\ lost' = TRUE
<1>1. CASE worker[r].tries < Retries
  <2>1. PICK n \in Nat : n = worker[r].tries + 1
    BY TargetType DEF LoopRecords
  <2>2. worker' = [worker EXCEPT ![r].pc = "again", ![r].tries = n] /\ lost' = lost
    BY <1>1, <2>1 DEF Retry
  <2> QED BY <2>2, NudgeIs
<1>2. CASE ~(worker[r].tries < Retries)
  BY <1>2 DEF Retry
<1> QED BY <1>1, <1>2

\* No answer in time.
LEMMA TimeOutKeeps ==
  ASSUME RegionInv, NEW r \in Region, NEW arrives \in BOOLEAN, TimeOut(r, arrives)
  PROVE  RegionInv'
<1>1. /\ worker[r].pc # "idle" /\ Retry(r) /\ net' \subseteq net /\ RegionTyped
      /\ mans' = mans /\ layers' = layers /\ tag' = tag /\ pending' = pending /\ queue' = queue
      /\ raced' = raced /\ late' = late
  BY DEF TimeOut, stores, RegionInv
<1>2. StoresTyped' /\ net' \in SUBSET Attempts
  BY <1>1 DEF RegionTyped, StoresTyped
<1>3. CASE Nudged(r) /\ lost' = lost
  BY <1>1, <1>2, <1>3, NudgeKeeps
<1>4. CASE Advance(r) /\ lost' = TRUE
  BY <1>1, <1>2, <1>4, LossKeeps
<1> QED BY <1>1, <1>3, <1>4, RetryIs

\* The content could not be read: the event is over for this region.
LEMMA ReadFailsKeeps ==
  ASSUME RegionInv, NEW r \in Region, ReadFails(r)
  PROVE  RegionInv'
<1>1. /\ worker[r].pc # "idle" /\ Advance(r) /\ lost' = TRUE /\ net' = net /\ RegionTyped
      /\ mans' = mans /\ layers' = layers /\ tag' = tag /\ pending' = pending /\ queue' = queue
      /\ raced' = raced /\ late' = late
  BY DEF ReadFails, stores, RegionInv
<1>2. StoresTyped'
  BY <1>1 DEF RegionTyped, StoresTyped
<1> QED BY <1>1, <1>2, LossKeeps

\* The event goes out, or the breaker refuses it.
LEMMA SendKeeps ==
  ASSUME RegionInv, NEW r \in Region, Send(r)
  PROVE  RegionInv'
<1>1. /\ worker[r].pc # "idle" /\ RegionTyped
      /\ mans' = mans /\ layers' = layers /\ tag' = tag /\ pending' = pending /\ queue' = queue
      /\ raced' = raced /\ late' = late
  BY DEF Send, stores, RegionInv
<1>2. StoresTyped'
  BY <1>1 DEF RegionTyped, StoresTyped
<1>3. CASE Advance(r) /\ lost' = TRUE /\ net' = net
  BY <1>1, <1>2, <1>3, LossKeeps
<1>4. CASE /\ worker' = [worker EXCEPT ![r].pc = "sent"] /\ lost' = lost
           /\ net' = net \cup {[from |-> r, to |-> Target(r), ev |-> worker[r].ev, try |-> worker[r].tries]}
  <2>1. PICK n \in Nat, t \in Region, e \in Events :
           n = worker[r].tries /\ t = Target(r) /\ e = worker[r].ev /\ t \in worker[r].todo /\ t # r
    BY <1>1, TargetType DEF LoopRecords
  <2>2. PICK msg : msg = [from |-> r, to |-> t, ev |-> e, try |-> n]
    OBVIOUS
  <2>3. msg \in Attempts /\ msg.from = r /\ msg.to = t /\ msg.ev = e
    BY <2>1, <2>2 DEF Attempts
  <2>4. net' = net \cup {msg}
    BY <1>4, <2>1, <2>2
  <2>5. worker' = [worker EXCEPT ![r].pc = "sent", ![r].tries = n]
    BY <1>1, <1>4, <2>1, TargetType DEF RegionTyped, LoopRecords
  <2>6. Nudged(r)
    BY <1>1, <2>5, NudgeIs
  <2>7. net' \in SUBSET Attempts
    BY <1>1, <2>3, <2>4 DEF RegionTyped
  <2> QED BY <1>1, <1>4, <2>1, <2>3, <2>4, <2>6, <2>7, NudgeKeeps
<1> QED BY <1>3, <1>4 DEF Send

\* A push whose manifest is gone is passed over; what is queued behind it makes up
\* for it, unless it was to move a tag.
LEMMA SkipKeeps ==
  ASSUME RegionInv, NEW r \in Region, Skip(r)
  PROVE  RegionInv'
<1>0. /\ RegionTyped /\ worker[r].pc # "idle" /\ worker[r].ev.kind = "manifest"
      /\ worker[r].ev.m \notin mans[r] /\ Advance(r)
      /\ lost' = (lost \/ (worker[r].ev.ref /\ tag[Target(r)] \notin {NoTag, worker[r].ev.m}))
      /\ mans' = mans /\ layers' = layers /\ tag' = tag /\ pending' = pending /\ queue' = queue
      /\ net' = net /\ raced' = raced /\ late' = late
  BY DEF Skip, stores, RegionInv
<1>1. PICK t \in Region : t = Target(r) /\ t \in worker[r].todo /\ t # r
  BY <1>0, TargetType
<1>2. /\ worker' \in [Region -> Loops] /\ \A x \in Region : x \notin worker'[x].todo
      /\ worker'[r].todo = worker[r].todo \ {t}
      /\ worker'[r].todo # {} => worker'[r].ev = worker[r].ev
      /\ \A x \in Region \ {r} : worker'[x] = worker[x]
  BY <1>0, <1>1, AdvanceIs
<1>3. lost' \in BOOLEAN
  BY <1>0
<1>4. RegionTyped'
  BY <1>0, <1>2, <1>3 DEF RegionTyped, StoresTyped
<1>5. worker'[r].pc # "idle" => worker'[r].ev = worker[r].ev
  BY <1>2 DEF Loops
<1>6. Offered'
  BY <1>0, <1>2, <1>5 DEF RegionInv, Offered
<1>7. ASSUME ~lost', ~raced' PROVE Stocked' /\ Leads(r)'
  <2>1. ~lost /\ ~raced /\ (worker[r].ev.ref => tag[t] \in {NoTag, worker[r].ev.m})
    BY <1>0, <1>1, <1>7
  <2>2. Stocked /\ Leads(r)
    <3>1. ~Drained(r)
      BY <1>0, IdleLoopType DEF Drained
    <3> QED BY <2>1, <3>1, LeadIs DEF RegionInv
  <2>3. Stocked'
    BY <1>0, <2>2 DEF Stocked
  <2>4. LoneWriter(r)'
    <3>1. \A s \in Region \ {r} : Drained(s)'
      BY <1>0, <1>2, <2>2 DEF Drained, Leads, LoneWriter
    <3> QED BY <1>0, <2>2, <3>1 DEF Leads, LoneWriter
  <2>5. ASSUME NEW s \in Region \ {r} PROVE LayersAhead(r, s)'
    <3>1. LayersAhead(r, s)
      BY <2>2 DEF Leads
    <3>2. \A m, i : Covered(r, s, m, i) => Covered(r, s, m, i)'
      BY <1>0 DEF Covered
    <3>3. s \in worker'[r].todo => s \in worker[r].todo /\ worker'[r].ev = worker[r].ev
      BY <1>2
    <3> QED BY <1>0, <3>1, <3>2, <3>3 DEF LayersAhead
  <2>6. ASSUME ~late', NEW s \in Region \ {r} PROVE Synced(r, s)'
    <3>1. PICK b \in Stores : Path(First(r, s), queue[r], b) /\ Settles(pending[r], b, At(r))
      BY <1>0, <2>2, <2>6 DEF Leads, Synced
    <3>2. At(s)' = At(s) /\ At(r)' = At(r)
      BY <1>0 DEF At
    <3>3. CASE s # t
      <4>1. First(r, s)' = First(r, s)
        BY <1>2, <3>2, <3>3 DEF First
      <4> QED BY <1>0, <3>1, <3>2, <4>1 DEF Synced
    <3>4. CASE s = t
      <4>1. PICK e \in Events : e = worker[r].ev
        BY <1>0, TargetType
      <4>2. PICK y \in Stores, c \in Stores :
               /\ y = At(s) /\ Tidy(y) /\ y.tag = tag[s]
               /\ c = At(r) /\ Tidy(c) /\ c.mans = mans[r]
        BY <1>0, AtType
      <4>3. First(r, s) = Effect(e, y) /\ First(r, s)' = y
        BY <1>1, <1>2, <3>2, <3>4, <4>1, <4>2 DEF First
      <4>4. queue[r] \in Seq(Events) /\ pending[r] \in SUBSET Events
        BY <1>0 DEF RegionTyped
      <4>5. e.kind = "manifest" /\ (e.ref => y.tag \in {NoTag, e.m}) /\ e.m \notin c.mans
        BY <1>0, <2>1, <3>4, <4>1, <4>2
      <4>6. PICK d \in Stores : Path(y, queue[r], d) /\ Settles(pending[r], d, c)
        BY <3>1, <4>2, <4>3, <4>4, <4>5, SkipPath
      <4> QED BY <1>0, <3>2, <4>2, <4>3, <4>6 DEF Synced
    <3> QED BY <3>3, <3>4
  <2> QED BY <2>3, <2>4, <2>5, <2>6 DEF Leads
<1> QED BY <1>4, <1>6, <1>7 DEF RegionInv

\* The other region's handler ran, in time or late.
LEMMA ApplyKeeps ==
  ASSUME RegionInv, NEW msg \in net, Apply(msg)
  PROVE  RegionInv'
<1>0. PICK r \in Region, t \in Region, e \in Events :
         r = msg.from /\ t = msg.to /\ e = msg.ev /\ t # r /\ RegionTyped
  BY DEF RegionInv, RegionTyped, Attempts
<1>1. /\ net' = net \ {msg} /\ pending' = pending /\ queue' = queue
      /\ lost' = lost /\ raced' = raced /\ late' = (late \/ GivenUp(msg))
  BY DEF Apply
<1>2. Stored(t, e)
  BY <1>0, ReplicateIs DEF Apply
<1>3. /\ \A x \in Region : layers[x] \subseteq layers'[x]
      /\ layers'[t] = IF e.kind = "blob" THEN layers[t] \cup {e.m} ELSE layers[t]
      /\ mans'[t] \subseteq IF e.kind = "manifest" THEN mans[t] \cup {e.m} ELSE mans[t]
      /\ \A x \in Region \ {t} : At(x)' = At(x) /\ layers'[x] = layers[x] /\ mans'[x] = mans[x]
  BY <1>0, <1>2, StoredLayers
\* The loop goes on if this is the answer it waits for, and stands still if not.
<1>4. /\ worker' \in [Region -> Loops] /\ \A x \in Region : x \notin worker'[x].todo
      /\ worker'[r].todo # {} => worker'[r].ev = worker[r].ev
      /\ \A x \in Region \ {r} : worker'[x] = worker[x]
      /\ \/ worker'[r].todo = worker[r].todo
         \/ worker'[r].todo = worker[r].todo \ {t} /\ worker[r].ev = e
  <2>1. CASE Awaited(msg)
    <3>1. worker[r].pc # "idle" /\ worker[r].ev = e /\ Target(r) = t
      BY <1>0, <2>1 DEF Awaited
    <3>2. Advance(r)
      BY <1>0, <2>1 DEF Apply
    <3> QED BY <1>0, <3>1, <3>2, AdvanceIs
  <2>2. CASE ~Awaited(msg)
    BY <1>0, <2>2 DEF Apply, RegionTyped
  <2> QED BY <2>1, <2>2
<1>5. late' \in BOOLEAN
  BY <1>1
<1>6. RegionTyped'
  BY <1>0, <1>1, <1>2, <1>4, <1>5 DEF RegionTyped, Stored
<1>7. worker'[r].pc # "idle" => worker'[r].ev = worker[r].ev /\ worker[r].pc # "idle"
  <2>1. worker'[r].pc # "idle" => worker'[r].todo # {}
    BY <1>4 DEF Loops
  <2>2. worker[r].pc = "idle" => worker[r].todo = {}
    BY <1>0, IdleLoopType DEF RegionTyped, Loops
  <2> QED BY <1>4, <2>1, <2>2
<1>8. Offered'
  BY <1>1, <1>3, <1>4, <1>7 DEF RegionInv, Offered
<1>9. ASSUME ~lost', ~raced' PROVE Stocked' /\ Leads(r)'
  <2>1. Stocked /\ Leads(r)
    <3>1. ~Drained(r)
      BY <1>0 DEF Drained
    <3> QED BY <1>1, <1>9, <3>1, LeadIs DEF RegionInv
  <2>2. Stocked'
    <3>1. \A x \in net' : x.ev.kind = "manifest" => x.ev.m \in layers'[x.to]
      BY <1>0, <1>1, <1>3, <2>1 DEF Stocked, RegionTyped, Attempts
    <3>2. e.kind = "manifest" => e.m \in layers[t]
      BY <1>0, <2>1 DEF Stocked
    <3>3. ASSUME NEW s \in Region PROVE mans'[s] \subseteq layers'[s]
      BY <1>3, <2>1, <3>2 DEF Stocked
    <3> QED BY <3>1, <3>3 DEF Stocked
  <2>3. LoneWriter(r)'
    <3>1. \A s \in Region \ {r} : Drained(s)'
      BY <1>1, <1>4, <2>1 DEF Drained, Leads, LoneWriter
    <3> QED BY <1>1, <2>1, <3>1 DEF Leads, LoneWriter
  <2>4. ASSUME NEW s \in Region \ {r} PROVE LayersAhead(r, s)'
    <3>1. LayersAhead(r, s)
      BY <2>1 DEF Leads
    <3>2. ASSUME NEW m, NEW i, Covered(r, s, m, i) PROVE Covered(r, s, m, i)'
      <4>1. CASE m \in layers[s]
        BY <1>3, <4>1 DEF Covered
      <4>2. CASE s \in worker[r].todo /\ worker[r].ev.kind = "blob" /\ worker[r].ev.m = m
        <5>1. CASE s \in worker'[r].todo
          BY <1>4, <4>2, <5>1 DEF Covered
        <5>2. CASE s \notin worker'[r].todo
          <6>1. s = t /\ worker[r].ev = e
            BY <1>4, <4>2, <5>2
          <6> QED BY <1>3, <4>2, <6>1 DEF Covered
        <5> QED BY <5>1, <5>2
      <4>3. CASE \E j \in 1..Len(queue[r]) : j < i /\ queue[r][j].kind = "blob" /\ queue[r][j].m = m
        BY <1>1, <4>3 DEF Covered
      <4> QED BY <3>2, <4>1, <4>2, <4>3 DEF Covered
    <3>3. layers'[r] = layers[r] /\ layers'[s] \subseteq layers'[r]
      <4>1. e.kind = "blob" => e.m \in layers[r]
        BY <1>0 DEF RegionInv, Offered
      <4> QED BY <1>0, <1>3, <3>1, <4>1 DEF LayersAhead
    <3>4. s \in worker'[r].todo => s \in worker[r].todo /\ worker'[r].ev = worker[r].ev
      BY <1>4
    <3> QED BY <1>1, <1>3, <3>1, <3>2, <3>3, <3>4 DEF LayersAhead
  <2>5. ASSUME ~late', NEW s \in Region \ {r} PROVE Synced(r, s)'
    <3>1. PICK b \in Stores : Path(First(r, s), queue[r], b) /\ Settles(pending[r], b, At(r))
      BY <1>1, <2>1, <2>5 DEF Leads, Synced
    <3>2. worker[r].pc # "idle" /\ worker[r].ev = e /\ Target(r) = t /\ t \in worker[r].todo
      BY <1>0, <1>1, <2>5, TargetType DEF GivenUp
    <3>3. At(r)' = At(r)
      BY <1>0, <1>3
    <3>4. First(r, s)' = First(r, s)
      <4>1. CASE s = t
        <5>1. PICK x \in Stores : x = At(t)
          BY <1>0, AtType
        <5>2. First(r, s) = Effect(e, x) /\ At(s)' = Effect(e, x)
          BY <1>2, <3>2, <4>1, <5>1 DEF First, Stored
        <5>3. First(r, s)' = Effect(e, Effect(e, x)) \/ First(r, s)' = Effect(e, x)
          BY <1>4, <3>2, <5>2 DEF First
        <5> QED BY <5>2, <5>3, EffectTwice, EventName
      <4>2. CASE s # t
        BY <1>3, <1>4, <4>2 DEF First
      <4> QED BY <4>1, <4>2
    <3> QED BY <1>1, <3>1, <3>3, <3>4 DEF Synced
  <2> QED BY <2>2, <2>3, <2>4, <2>5 DEF Leads
<1> QED BY <1>6, <1>8, <1>9 DEF RegionInv

\* The manifest arrived and its link did not: the retry finds it there.
LEMMA HalfKeeps ==
  ASSUME RegionInv, NEW msg \in net, ApplyHalf(msg)
  PROVE  RegionInv'
<1>0. PICK r \in Region, t \in Region, e \in Events :
         r = msg.from /\ t = msg.to /\ e = msg.ev /\ t # r /\ RegionTyped
  BY DEF RegionInv, RegionTyped, Attempts
<1>1. /\ mans' = [mans EXCEPT ![t] = @ \cup {e.m}] /\ net' = net \ {msg} /\ Retry(r)
      /\ layers' = layers /\ tag' = tag /\ pending' = pending /\ queue' = queue
      /\ raced' = raced /\ late' = late /\ e.kind = "manifest"
  BY <1>0 DEF ApplyHalf
<1>2. worker[r].pc # "idle" /\ worker[r].ev = e /\ Target(r) = t /\ t \in worker[r].todo
  BY <1>0, TargetType DEF ApplyHalf, Awaited
<1>3. /\ mans'[t] = mans[t] \cup {e.m} /\ \A x \in Region \ {t} : mans'[x] = mans[x]
      /\ mans' \in [Region -> SUBSET Manifest]
  BY <1>0, <1>1, EventName DEF RegionTyped, StoresTyped
<1>4. StoresTyped'
  BY <1>0, <1>1, <1>3 DEF RegionTyped, StoresTyped
<1>5. CASE Advance(r) /\ lost' = TRUE
  BY <1>0, <1>1, <1>2, <1>4, <1>5, LossKeeps
<1>6. CASE Nudged(r) /\ lost' = lost
  <2>1. RegionTyped'
    BY <1>0, <1>1, <1>4, <1>6 DEF RegionTyped, Nudged
  <2>2. Offered'
    BY <1>0, <1>1, <1>2, <1>6 DEF RegionInv, Offered, Nudged
  <2>3. ASSUME ~lost', ~raced' PROVE Stocked' /\ Leads(r)'
    <3>1. Stocked /\ Leads(r)
      <4>1. ~Drained(r)
        BY <1>0 DEF Drained
      <4> QED BY <1>1, <1>6, <2>3, <4>1, LeadIs DEF RegionInv
    <3>2. e.m \in layers[t]
      BY <1>0, <1>1, <3>1 DEF Stocked
    <3>3. Stocked'
      BY <1>1, <1>3, <3>1, <3>2 DEF Stocked
    <3>4. LoneWriter(r)'
      <4>1. \A s \in Region \ {r} : Drained(s)'
        BY <1>1, <1>6, <3>1 DEF Drained, Leads, LoneWriter, Nudged
      <4> QED BY <1>1, <3>1, <4>1 DEF Leads, LoneWriter
    <3>5. ASSUME NEW s \in Region \ {r} PROVE LayersAhead(r, s)'
      <4>1. worker'[r].todo = worker[r].todo /\ worker'[r].ev = worker[r].ev /\ LayersAhead(r, s)
        BY <1>6, <3>1 DEF Nudged, Leads
      <4> QED BY <1>1, <4>1 DEF LayersAhead, Covered
    <3>6. ASSUME ~late', NEW s \in Region \ {r} PROVE Synced(r, s)'
      <4>1. At(r)' = At(r) /\ (s # t => At(s)' = At(s))
        BY <1>0, <1>1, <1>3 DEF At
      <4>2. First(r, s)' = First(r, s)
        <5>1. CASE s = t
          <6>1. PICK x \in Stores : x = At(t) /\ x.mans = mans[t] /\ x.layers = layers[t] /\ x.tag = tag[t]
            BY <1>0, AtType
          <6>2. PICK y \in Stores : y = At(t)' /\ y.mans = mans'[t] /\ y.layers = layers'[t] /\ y.tag = tag'[t]
            <7>1. PICK M \in SUBSET Manifest, L \in SUBSET Manifest, g \in Manifest \cup {NoTag} :
                     M = mans'[t] /\ L = layers'[t] /\ g = tag'[t]
              BY <1>4 DEF StoresTyped
            <7>2. At(t)' = [mans |-> M, layers |-> L, tag |-> g]
              BY <7>1 DEF At
            <7>3. PICK z \in Stores : z = [mans |-> M, layers |-> L, tag |-> g]
              BY DEF Stores
            <7> QED BY <7>1, <7>2, <7>3
          <6>3. PICK u \in Stores, v \in Stores : u = Effect(e, x) /\ v = Effect(e, y)
            BY EffectType
          <6>4. u.mans = v.mans /\ u.layers = v.layers /\ u.tag = v.tag
            BY <1>1, <1>3, <6>1, <6>2, <6>3 DEF Effect
          <6>5. u = v
            BY <6>4 DEF Stores
          <6>6. First(r, s) = u /\ First(r, s)' = v
            BY <1>2, <1>6, <5>1, <6>1, <6>2, <6>3 DEF First, Nudged
          <6> QED BY <6>5, <6>6
        <5>2. CASE s # t
          BY <1>6, <4>1, <5>2 DEF First, Nudged
        <5> QED BY <5>1, <5>2
      <4> QED BY <1>1, <3>1, <3>6, <4>1, <4>2 DEF Synced, Leads
    <3> QED BY <3>3, <3>4, <3>5, <3>6 DEF Leads
  <2> QED BY <2>1, <2>2, <2>3 DEF RegionInv
<1> QED BY <1>0, <1>1, <1>2, <1>5, <1>6, RetryIs

\* Steps that touch no store and no event.
LEMMA IdleKeeps ==
  ASSUME RegionInv, mans' = mans, layers' = layers, tag' = tag, pending' = pending, queue' = queue,
         worker' = worker, net' = net, lost' = lost, raced' = raced, late' = late
  PROVE  RegionInv'
<1>1. RegionTyped' /\ Offered'
  BY DEF RegionInv, RegionTyped, StoresTyped, Offered
<1>2. Stocked => Stocked'
  BY DEF Stocked
<1>3. ASSUME NEW r \in Region, Leads(r) PROVE Leads(r)'
  <2>1. LoneWriter(r)'
    BY <1>3 DEF Leads, LoneWriter, Drained
  <2>2. \A s \in Region \ {r} : LayersAhead(r, s)'
    BY <1>3 DEF Leads, LayersAhead, Covered
  <2>3. ASSUME ~late', NEW s \in Region \ {r} PROVE Synced(r, s)'
    <3>1. At(r)' = At(r) /\ First(r, s)' = First(r, s)
      BY DEF At, First
    <3> QED BY <1>3, <2>3, <3>1 DEF Leads, Synced
  <2> QED BY <2>1, <2>2, <2>3 DEF Leads
<1> QED BY <1>1, <1>2, <1>3 DEF RegionInv

\* A client goes away before its event is queued.
LEMMA DropKeeps ==
  ASSUME RegionInv, NEW r \in Region, NEW e \in pending[r], DropRequest(r, e)
  PROVE  RegionInv'
<1>1. /\ pending' = [pending EXCEPT ![r] = @ \ {e}] /\ lost' = TRUE
      /\ mans' = mans /\ layers' = layers /\ tag' = tag /\ queue' = queue
      /\ worker' = worker /\ net' = net /\ raced' = raced /\ late' = late
  BY DEF DropRequest, stores
<1>2. pending' \in [Region -> SUBSET Events] /\ \A x \in Region : pending'[x] \subseteq pending[x]
  BY <1>1 DEF RegionInv, RegionTyped
<1>3. RegionTyped' /\ Offered'
  BY <1>1, <1>2 DEF RegionInv, RegionTyped, StoresTyped, Offered
<1> QED BY <1>1, <1>3 DEF RegionInv

\* A region stops: what it had not sent is lost.
LEMMA StopKeeps ==
  ASSUME RegionInv, NEW r \in Region, Stop(r)
  PROVE  RegionInv'
<1>1. /\ lost' = (lost \/ pending[r] # {} \/ queue[r] # <<>> \/ worker[r] # IdleLoop)
      /\ pending' = [pending EXCEPT ![r] = {}] /\ queue' = [queue EXCEPT ![r] = <<>>]
      /\ worker' = [worker EXCEPT ![r] = IdleLoop]
      /\ mans' = mans /\ layers' = layers /\ tag' = tag /\ net' = net /\ raced' = raced /\ late' = late
  BY DEF Stop, stores
<1>2. RegionTyped
  BY DEF RegionInv
<1>3. CASE pending[r] = {} /\ queue[r] = <<>> /\ worker[r] = IdleLoop
  <2>1. pending' = pending /\ queue' = queue /\ worker' = worker
    BY <1>1, <1>2, <1>3 DEF RegionTyped
  <2>2. lost' = lost
    BY <1>1, <1>2, <1>3 DEF RegionTyped
  <2> QED BY <1>1, <2>1, <2>2, IdleKeeps
<1>4. CASE ~(pending[r] = {} /\ queue[r] = <<>> /\ worker[r] = IdleLoop)
  <2>1. lost' = TRUE
    BY <1>1, <1>4
  <2>2. /\ pending' \in [Region -> SUBSET Events] /\ pending'[r] = {}
        /\ queue' \in [Region -> Seq(Events)] /\ queue'[r] = <<>> /\ Len(queue'[r]) = 0
        /\ worker' \in [Region -> Loops] /\ worker'[r] = IdleLoop
        /\ \A x \in Region \ {r} : pending'[x] = pending[x] /\ queue'[x] = queue[x] /\ worker'[x] = worker[x]
    BY <1>1, <1>2, IdleLoopType DEF RegionTyped
  <2>3. worker'[r].todo = {} /\ worker'[r].pc = "idle"
    BY <2>2, IdleLoopType
  <2>4. RegionTyped'
    BY <1>1, <1>2, <2>1, <2>2, <2>3 DEF RegionTyped, StoresTyped
  <2>5. Offered'
    BY <1>1, <2>2, <2>3 DEF RegionInv, Offered
  <2> QED BY <2>1, <2>4, <2>5 DEF RegionInv
<1> QED BY <1>3, <1>4

\* Every step keeps the invariant.
LEMMA RegionInvNext == RegionInv /\ [RegionNext]_regionVars => RegionInv'
<1> SUFFICES ASSUME RegionInv, [RegionNext]_regionVars PROVE RegionInv'
  OBVIOUS
<1>1. CASE UNCHANGED regionVars
  BY <1>1, IdleKeeps DEF regionVars
<1>2. ASSUME NEW r \in Region, NEW m \in Manifest,
             \/ UploadLayer(r, m) \/ DeleteManifest(r, m) \/ DeleteTag(r)
             \/ \E ref \in BOOLEAN : PushManifest(r, m, ref)
      PROVE  RegionInv'
  <2>1. PICK e \in Events : Write(r, e) /\ Stored(r, e) /\ (e.kind = "manifest" => e.m \in layers[r])
    BY <1>2, HandlerIs DEF RegionInv
  <2> QED BY <2>1, WriteKeeps
<1>3. ASSUME NEW r \in Region, DeleteTag(r) PROVE RegionInv'
  <2>1. tag[r] \in Manifest
    BY <1>3 DEF DeleteTag, RegionInv, RegionTyped, StoresTyped
  <2> QED BY <1>2, <1>3, <2>1
<1>4. ASSUME NEW r \in Region, \/ Start(r)
                               \/ \E s \in Region \ {r} : Cool(r, s) \/ CheckHealth(r, s)
      PROVE  RegionInv'
  BY <1>4, IdleKeeps DEF Start, Cool, CheckHealth, stores
<1>5. ASSUME NEW r \in Region,
             \/ \E ev \in pending[r] : Enqueue(r, ev) \/ DropRequest(r, ev)
             \/ Receive(r) \/ Skip(r) \/ ReadFails(r) \/ Send(r) \/ Stop(r)
             \/ \E arrives \in BOOLEAN : TimeOut(r, arrives)
      PROVE  RegionInv'
  BY <1>5, EnqueueKeeps, DropKeeps, ReceiveKeeps, SkipKeeps, ReadFailsKeeps, SendKeeps, StopKeeps, TimeOutKeeps
<1>6. ASSUME NEW msg \in net, Apply(msg) \/ ApplyHalf(msg) PROVE RegionInv'
  BY <1>6, ApplyKeeps, HalfKeeps
<1>7. CASE RegionNext
  BY <1>2, <1>3, <1>4, <1>5, <1>6, <1>7 DEF RegionNext
<1> QED BY <1>1, <1>7

\* The inductive invariant of replication holds always.
LEMMA RegionInvariant == RegionSpec => []RegionInv
BY RegionInvInit, RegionInvNext, PTL DEF RegionSpec

\* Once nothing is under way all regions hold the same, unless an event was lost,
\* writes overlapped or an attempt arrived after its time.
THEOREM RegionsEndEqual == RegionSpec => []RegionsConverge
<1>1. RegionInv => RegionsConverge
  <2> SUFFICES ASSUME RegionInv, Quiet, ~lost, ~raced, ~late, NEW r \in Region, NEW s \in Region
               PROVE  mans[r] = mans[s] /\ layers[r] = layers[s] /\ tag[r] = tag[s]
    BY DEF RegionsConverge
  <2>1. PICK x \in Region : Leads(x)
    BY DEF RegionInv
  <2>2. RegionTyped /\ pending[x] = {} /\ queue[x] = <<>> /\ worker[x].todo = {}
    BY IdleLoopType DEF RegionInv, Quiet, Drained
  <2>3. ASSUME NEW y \in Region \ {x} PROVE At(y) = At(x)
    <3>1. PICK b \in Stores : Path(First(x, y), queue[x], b) /\ Settles(pending[x], b, At(x))
      BY <2>1 DEF Leads, Synced
    <3>2. At(x) = b /\ First(x, y) = At(y) /\ Path(At(y), <<>>, b)
      BY <2>2, <3>1 DEF Settles, First
    <3> QED BY <3>2, PathNil
  <2>4. At(r) = At(s)
    BY <2>3
  <2> QED BY <2>2, <2>4, AtType
<1> QED BY <1>1, RegionInvariant, PTL

\* A region that has a manifest has its layers, unless an event was lost or writes
\* overlapped: late and repeated attempts included.
THEOREM LayersPrecedeManifests == RegionSpec => []LayersArriveFirst
<1>1. RegionInv => LayersArriveFirst
  BY DEF RegionInv, Stocked, LayersArriveFirst, HeadManifest, Available, HeadBlob
<1> QED BY <1>1, RegionInvariant, PTL

----------------------------------------------------------------------------
(* The operator: a pass applies a plan it made earlier.                       *)

USE OperatorAssumption DEF Images

\* The inductive invariant of the operator.
Inv == OpTypeOK /\ PlanStaysSafe

(* What plan_rollout answers for an existing registry: the image it has, or    *)
(* the target, and the target only when auth is absent or rolled out to it.    *)
LEMMA PlanIsSafe ==
    ASSUME auth \in Deployments, registry \in Deployments, PlanStaysSafe, NEW target \in Images
    PROVE  /\ PlanRollout(target).rimg \in Images
           /\ PlanRollout(target).upgrading \in BOOLEAN
           /\ PlanRollout(target).starts \in BOOLEAN
           /\ registry.img \notin {Absent, PlanRollout(target).rimg} =>
                 /\ PlanRollout(target).rimg = target
                 /\ auth.img \in {Absent, target}
                 /\ auth.pods \subseteq {target}
<1> DEFINE now == IF registry.img = Absent THEN target ELSE registry.img
<1>1. now \in Images
  BY DEF Deployments
<1>2. CASE auth.img = Absent
  BY <1>2 DEF PlanRollout, PlanStaysSafe
<1>3. CASE auth.img # Absent /\ auth.img # target
  BY <1>1, <1>3 DEF PlanRollout
<1>4. CASE auth.img = target /\ ~auth.rolled
  BY <1>1, <1>4 DEF PlanRollout, RolledOut
<1>5. CASE auth.img = target /\ auth.rolled
  BY <1>5 DEF PlanRollout, RolledOut, PlanStaysSafe
<1> QED
  BY <1>2, <1>3, <1>4, <1>5

(* resolve_target names an image and leaves a well-formed status.              *)
LEMMA ResolvedType ==
    ASSUME OpTypeOK, NEW answers \in BOOLEAN
    PROVE  Resolved(answers).target \in Images /\ Resolved(answers).st \in Statuses
<1>1. cr.tag \in Tags /\ cr.auto \in BOOLEAN
  BY DEF OpTypeOK, Specs
<1>2. upstream[cr.tag] \in Digests
  BY <1>1 DEF OpTypeOK
<1>3. status.digest \in Digests \cup {Absent}
  BY DEF OpTypeOK, Statuses
<1>4. [status EXCEPT !.tracked = cr.tag, !.digest = upstream[cr.tag], !.checked = TRUE] \in Statuses
  BY <1>1, <1>2 DEF OpTypeOK, Statuses
<1> QED
  BY <1>1, <1>2, <1>3, <1>4 DEF Resolved, ResolveDigest, LastKnown, OpTypeOK

(* A pass that starts is well formed and its plan is safe.                     *)
LEMMA PlannedIsSafe ==
    ASSUME Inv, NEW answers \in BOOLEAN, config # Absent
    PROVE  LET p == Planned(answers) IN
           /\ p \in Passes
           /\ p.pc = "auth" /\ {p.target, p.rimg} \subseteq Images
           /\ registry.img \notin {Absent, p.rimg} =>
                 /\ p.rimg = p.target
                 /\ auth.img \in {Absent, p.target}
                 /\ auth.pods \subseteq {p.target}
<1> DEFINE r == Resolved(answers)
           plan == PlanRollout(r.target)
<1>1. r.target \in Images /\ r.st \in Statuses
  BY ResolvedType DEF Inv
<1>2. auth \in Deployments /\ registry \in Deployments /\ PlanStaysSafe
  BY DEF Inv, OpTypeOK
<1>3. /\ plan.rimg \in Images /\ plan.upgrading \in BOOLEAN /\ plan.starts \in BOOLEAN
      /\ registry.img \notin {Absent, plan.rimg} =>
            /\ plan.rimg = r.target
            /\ auth.img \in {Absent, r.target}
            /\ auth.pods \subseteq {r.target}
  BY <1>1, <1>2, PlanIsSafe
<1>4. cr.auto \in BOOLEAN /\ cr.before \in BOOLEAN /\ cr.gen \in Nat /\ config \in Configs
  BY DEF Inv, OpTypeOK, Specs
<1> DEFINE b == plan.starts /\ cr.before
<1>5. b \in BOOLEAN
  BY <1>3, <1>4
<1>6. Planned(answers) = [Idle EXCEPT !.pc = "auth", !.target = r.target, !.rimg = plan.rimg,
                     !.upgrading = plan.upgrading, !.cfg = config, !.st = r.st,
                     !.before = b, !.auto = cr.auto, !.gen = cr.gen]
  BY DEF Planned
<1> HIDE DEF r, plan, b
<1>7. Planned(answers) = [pc |-> "auth", target |-> r.target, rimg |-> plan.rimg,
          upgrading |-> plan.upgrading, cfg |-> config, before |-> b, auto |-> cr.auto,
          gen |-> cr.gen, authOk |-> FALSE, bad |-> FALSE, st |-> r.st]
  BY <1>6 DEF Idle
<1> QED
  BY <1>1, <1>3, <1>4, <1>5, <1>7 DEF Passes

(* A Deployment stays well formed when it is applied, and its pods are those   *)
(* it had and the ones of its new image.                                       *)
LEMMA AppliedType ==
    ASSUME NEW d \in Deployments, NEW image \in Images, NEW cfg \in Configs
    PROVE  /\ Applied(d, image, cfg) \in Deployments
           /\ Applied(d, image, cfg).img = image
           /\ \/ d.img = image /\ Applied(d, image, cfg).pods = d.pods
              \/ Applied(d, image, cfg).pods = d.pods \cup {image}
           /\ Applied(d, image, cfg).rolled => Applied(d, image, cfg) = d
<1>1. CASE d.img = image /\ d.cfg = cfg
  BY <1>1 DEF Applied
<1>2. CASE ~(d.img = image /\ d.cfg = cfg)
  <2>1. Applied(d, image, cfg) = [img |-> image, cfg |-> cfg, pods |-> d.pods \cup {image},
                                  rolled |-> FALSE, stuck |-> FALSE]
    BY <1>2 DEF Applied, Deployments
  <2> QED
    BY <2>1 DEF Deployments
<1> QED
  BY <1>1, <1>2

(* Rolling a Deployment out leaves the pods of its image only.                 *)
LEMMA RolledType ==
    ASSUME NEW d \in Deployments, d.img # Absent
    PROVE  /\ Rolled(d) \in Deployments
           /\ Rolled(d).img = d.img /\ Rolled(d).pods = {d.img}
  BY DEF Rolled, Deployments

(* The steps of a pass that starts or ends: the Deployments do not change.     *)
LEMMA ReconcilePreserves ==
    ASSUME Inv, NEW answers \in BOOLEAN, Reconcile(answers)
    PROVE  Inv'
<1> DEFINE p == Planned(answers)
<1>1. /\ UNCHANGED <<cr, auth, registry, config, upstream>>
      /\ config # Absent
      /\ BeginApplying(p) \/ AwaitBackup(p) \/ BlockUpgrade(p)
  BY DEF Reconcile
<1>2. /\ p \in Passes
      /\ p.pc = "auth" /\ {p.target, p.rimg} \subseteq Images
      /\ registry.img \notin {Absent, p.rimg} =>
            /\ p.rimg = p.target
            /\ auth.img \in {Absent, p.target}
            /\ auth.pods \subseteq {p.target}
  BY <1>1, PlannedIsSafe
<1> HIDE DEF p
<1>3. CASE BeginApplying(p)
  <2>1. pass' = p /\ status' = status
    BY <1>3 DEF BeginApplying
  <2>2. OpTypeOK'
    BY <1>1, <1>2, <2>1 DEF Inv, OpTypeOK
  <2>3. PlanStaysSafe'
    BY <1>1, <1>2, <2>1 DEF Inv, PlanStaysSafe
  <2> QED
    BY <2>2, <2>3 DEF Inv
<1>4. ASSUME NEW phase \in Phases, SetPhase(p.st, phase), UNCHANGED pass
      PROVE  Inv'
  <2>1. p.st \in Statuses
    BY <1>2 DEF Passes
  <2>2. status' \in Statuses
    BY <1>4, <2>1 DEF SetPhase, Statuses
  <2>3. OpTypeOK'
    BY <1>1, <1>4, <2>2 DEF Inv, OpTypeOK
  <2>4. PlanStaysSafe'
    BY <1>1, <1>4 DEF Inv, PlanStaysSafe
  <2> QED
    BY <2>3, <2>4 DEF Inv
<1>5. CASE AwaitBackup(p)
  BY <1>4, <1>5 DEF AwaitBackup, Phases
<1>6. CASE BlockUpgrade(p)
  BY <1>4, <1>6 DEF BlockUpgrade, Phases
<1> QED
  BY <1>1, <1>3, <1>5, <1>6

(* ApplyAuth moves auth to the target of the pass, which the plan allows.      *)
LEMMA ApplyAuthPreserves ==
    ASSUME Inv, ApplyAuth
    PROVE  Inv'
<1> DEFINE d == Applied(auth, pass.target, pass.cfg)
<1>1. /\ pass.pc = "auth" /\ pass \in Passes /\ auth \in Deployments
      /\ pass.target \in Images /\ pass.rimg \in Images /\ pass.cfg \in Configs
  BY DEF Inv, OpTypeOK, ApplyAuth, PlanStaysSafe, Passes
<1>2. /\ d \in Deployments /\ d.img = pass.target
      /\ \/ auth.img = pass.target /\ d.pods = auth.pods
         \/ d.pods = auth.pods \cup {pass.target}
      /\ d.rolled => d = auth
  BY <1>1, AppliedType
<1>3. /\ auth' = d
      /\ pass' = [pass EXCEPT !.pc = "registry", !.authOk = d.rolled, !.bad = d.stuck]
      /\ UNCHANGED <<cr, status, registry, config, upstream>>
  BY DEF ApplyAuth, RolledOut
<1> HIDE DEF d
<1>4. /\ pass' \in Passes /\ pass'.pc = "registry"
      /\ pass'.target = pass.target /\ pass'.rimg = pass.rimg
  <2>1. d.rolled \in BOOLEAN /\ d.stuck \in BOOLEAN
    BY <1>2 DEF Deployments
  <2> QED
    BY <1>1, <1>3, <2>1 DEF Passes
<1>5. OpTypeOK'
  BY <1>2, <1>3, <1>4 DEF Inv, OpTypeOK
<1>6. PlanStaysSafe'
  BY <1>1, <1>2, <1>3, <1>4 DEF Inv, PlanStaysSafe
<1> QED
  BY <1>5, <1>6 DEF Inv

(* ApplyRegistry changes the registry and ends the part of the pass that the   *)
(* plan is about.                                                              *)
LEMMA ApplyRegistryPreserves ==
    ASSUME Inv, ApplyRegistry
    PROVE  Inv'
<1>1. /\ pass \in Passes /\ registry \in Deployments
      /\ pass.target \in Images /\ pass.rimg \in Images /\ pass.cfg \in Configs
      /\ pass.st \in Statuses
  BY DEF Inv, OpTypeOK, ApplyRegistry, PlanStaysSafe, Passes
<1>2. registry' \in Deployments
  BY <1>1, AppliedType DEF ApplyRegistry
<1>3. PICK phase \in Phases, current \in {pass.target, pass.st.current} :
         pass' = [pass EXCEPT !.pc = "status",
                              !.st = [pass.st EXCEPT !.phase = phase, !.current = current]]
  BY DEF ApplyRegistry, Phases
<1>4. [pass.st EXCEPT !.phase = phase, !.current = current] \in Statuses
  BY <1>1, <1>3 DEF Statuses
<1>5. pass' \in Passes /\ pass'.pc = "status"
  BY <1>1, <1>3, <1>4 DEF Passes
<1>6. UNCHANGED <<cr, status, auth, config, upstream>>
  BY DEF ApplyRegistry
<1>7. OpTypeOK'
  BY <1>2, <1>5, <1>6 DEF Inv, OpTypeOK
<1>8. PlanStaysSafe'
  BY <1>5, <1>6 DEF Inv, PlanStaysSafe
<1> QED
  BY <1>7, <1>8 DEF Inv

(* What leaves the Deployments alone and either ends the pass or touches the   *)
(* status it carries keeps the plan safe.                                      *)
LEMMA StatusStepPreserves ==
    ASSUME Inv, UNCHANGED <<auth, registry>>, status' \in Statuses,
           cr' \in Specs, config' \in Configs \cup {Absent}, upstream' \in [Tags -> Digests],
           \/ pass' = Idle
           \/ pass' = pass
           \/ \E st \in Statuses : pass' = [pass EXCEPT !.st = st]
    PROVE  Inv'
<1>1. Idle \in Passes /\ Idle.pc = "idle"
  BY DEF Idle, Passes, NoStatus, Statuses, Phases, Configs
<1>2. /\ pass' \in Passes
      /\ \/ pass'.pc = "idle"
         \/ pass'.pc = pass.pc /\ pass'.target = pass.target /\ pass'.rimg = pass.rimg
  <2>1. CASE pass' = Idle
    BY <1>1, <2>1
  <2>2. CASE pass' = pass
    BY <2>2 DEF Inv, OpTypeOK
  <2>3. CASE \E st \in Statuses : pass' = [pass EXCEPT !.st = st]
    BY <2>3 DEF Inv, OpTypeOK, Passes
  <2> QED
    BY <2>1, <2>2, <2>3
<1>3. OpTypeOK'
  BY <1>2 DEF Inv, OpTypeOK
<1>4. PlanStaysSafe'
  BY <1>2 DEF Inv, PlanStaysSafe
<1> QED
  BY <1>3, <1>4 DEF Inv

(* What the cluster does to auth alone, from outside a pass: roll it out, stop *)
(* making progress, or lose it.                                                *)
LEMMA AuthStepPreserves ==
    ASSUME Inv, UNCHANGED <<cr, status, registry, config, pass, upstream>>,
           \/ auth.img # Absent /\ auth' = Rolled(auth)
           \/ auth.img # Absent /\ auth' = [auth EXCEPT !.stuck = TRUE]
           \/ auth' = NoDeployment
    PROVE  Inv'
<1>1. auth \in Deployments
  BY DEF Inv, OpTypeOK
<1>2. CASE auth.img # Absent /\ auth' = Rolled(auth)
  <2>1. auth' \in Deployments /\ auth'.img = auth.img /\ auth'.pods = {auth.img}
    BY <1>1, <1>2, RolledType
  <2> QED
    BY <1>2, <2>1 DEF Inv, OpTypeOK, PlanStaysSafe
<1>3. CASE auth.img # Absent /\ auth' = [auth EXCEPT !.stuck = TRUE]
  <2>1. /\ auth' \in Deployments /\ auth'.img = auth.img /\ auth'.pods = auth.pods
        /\ auth'.rolled = auth.rolled
    BY <1>1, <1>3 DEF Deployments
  <2> QED
    BY <2>1 DEF Inv, OpTypeOK, PlanStaysSafe
<1>4. CASE auth' = NoDeployment
  <2>1. auth' \in Deployments /\ auth'.img = Absent /\ auth'.pods = {} /\ auth'.rolled = FALSE
    BY <1>4 DEF NoDeployment, Deployments, Configs
  <2> QED
    BY <2>1 DEF Inv, OpTypeOK, PlanStaysSafe
<1> QED
  BY <1>2, <1>3, <1>4

(* What the cluster does to the registry alone.                                *)
LEMMA RegistryStepPreserves ==
    ASSUME Inv, UNCHANGED <<cr, status, auth, config, pass, upstream>>,
           \/ registry.img # Absent /\ registry' = Rolled(registry)
           \/ registry' = [registry EXCEPT !.stuck = TRUE]
           \/ registry' = NoDeployment
    PROVE  Inv'
<1>1. registry' \in Deployments /\ registry'.img \in {registry.img, Absent}
  <2>1. registry \in Deployments
    BY DEF Inv, OpTypeOK
  <2>2. CASE registry.img # Absent /\ registry' = Rolled(registry)
    BY <2>1, <2>2, RolledType
  <2>3. CASE registry' = NoDeployment
    BY <2>3 DEF NoDeployment, Deployments, Configs
  <2>4. CASE registry' = [registry EXCEPT !.stuck = TRUE]
    BY <2>1, <2>4 DEF Deployments
  <2> QED
    BY <2>2, <2>3, <2>4
<1> QED
  BY <1>1 DEF Inv, OpTypeOK, PlanStaysSafe

(* The pass, the cluster and the people who edit keep the invariant: between   *)
(* the plan and the applies auth can only get closer to the target.            *)
LEMMA NextPreserves ==
    ASSUME Inv, [OpNext]_opVars
    PROVE  Inv'
<1>0. /\ cr \in Specs /\ status \in Statuses /\ config \in Configs \cup {Absent}
      /\ upstream \in [Tags -> Digests] /\ pass \in Passes /\ pass.st \in Statuses
  BY DEF Inv, OpTypeOK, Passes
<1>1. CASE ReconcilePaused \/ ReconcileWithoutConfig
  <2>1. status' \in Statuses
    BY <1>0, <1>1 DEF ReconcilePaused, ReconcileWithoutConfig, SetPhase, Statuses, Phases
  <2> QED
    BY <1>0, <1>1, <2>1, StatusStepPreserves DEF ReconcilePaused, ReconcileWithoutConfig
<1>2. CASE ReconcileAnswered \/ ReconcileUnanswered
  BY <1>2, ReconcilePreserves DEF ReconcileAnswered, ReconcileUnanswered
<1>3. CASE ApplyAuth
  BY <1>3, ApplyAuthPreserves
<1>4. CASE ApplyRegistry
  BY <1>4, ApplyRegistryPreserves
<1>5. CASE WriteStatus \/ PassFails
  BY <1>0, <1>5, StatusStepPreserves DEF WriteStatus, PassFails
<1>6. CASE EditSpec
  <2>1. cr' \in Specs
    BY <1>0, <1>6 DEF EditSpec, Specs
  <2> QED
    BY <1>0, <1>6, <2>1, StatusStepPreserves DEF EditSpec
<1>7. CASE EditConfig
  BY <1>0, <1>7, StatusStepPreserves DEF EditConfig
<1>8. CASE MoveTag
  <2>1. upstream' \in [Tags -> Digests]
    BY <1>0, <1>8 DEF MoveTag
  <2> QED
    BY <1>0, <1>8, <2>1, StatusStepPreserves DEF MoveTag
<1>9. CASE DeleteDeployment
  BY <1>9, AuthStepPreserves, RegistryStepPreserves DEF DeleteDeployment
<1>10. CASE BackupSucceeds \/ BackupFails
  BY <1>0, <1>10, StatusStepPreserves DEF BackupSucceeds, BackupFails, JobEnds
<1>11. CASE AuthRollsOut \/ RolloutStalls
  BY <1>11, AuthStepPreserves, RegistryStepPreserves DEF AuthRollsOut, RolloutStalls, Stalls
<1>12. CASE RegistryRollsOut
  BY <1>12, RegistryStepPreserves DEF RegistryRollsOut
<1>13. CASE IntervalElapses
  <2>1. status' \in Statuses /\ [pass.st EXCEPT !.checked = FALSE] \in Statuses
    BY <1>0, <1>13 DEF IntervalElapses, Statuses
  <2> QED
    BY <1>0, <1>13, <2>1, StatusStepPreserves DEF IntervalElapses
<1>14. CASE UNCHANGED opVars
  BY <1>0, <1>14, StatusStepPreserves DEF opVars
<1> QED
  BY <1>1, <1>2, <1>3, <1>4, <1>5, <1>6, <1>7, <1>8, <1>9, <1>10, <1>11, <1>12, <1>13, <1>14
     DEF OpNext, Passing, Cluster, Disturbing

(* The initial states, with nothing deployed and no pass in progress.          *)
LEMMA InitEstablishes == OpInit => Inv
<1> SUFFICES ASSUME OpInit PROVE Inv
  OBVIOUS
<1> DEFINE first == CHOOSE t \in Tags : TRUE
<1>0. first \in Tags
  OBVIOUS
<1>1. cr \in Specs
  <2>1. cr \in [tag: {first}, auto: BOOLEAN, before: {TRUE}, paused: BOOLEAN, gen: {1}]
    BY DEF OpInit
  <2> HIDE DEF first
  <2>2. /\ cr = [tag |-> cr.tag, auto |-> cr.auto, before |-> cr.before,
                 paused |-> cr.paused, gen |-> cr.gen]
        /\ cr.tag = first /\ cr.gen = 1
    BY <2>1
  <2>3. cr.auto \in BOOLEAN /\ cr.before \in BOOLEAN /\ cr.paused \in BOOLEAN
    BY <2>1, Zenon
  <2> QED
    BY <1>0, <2>2, <2>3 DEF Specs
<1>2. upstream \in [Tags -> Digests]
  BY DEF OpInit
<1>3. /\ status \in Statuses /\ auth \in Deployments /\ registry \in Deployments
      /\ config \in Configs \cup {Absent} /\ pass \in Passes
  BY DEF OpInit, NoStatus, NoDeployment, Idle, Statuses, Deployments, Passes, Phases, Configs
<1>4. PlanStaysSafe
  BY DEF OpInit, NoDeployment, Idle, PlanStaysSafe
<1> QED
  BY <1>1, <1>2, <1>3, <1>4 DEF Inv, OpTypeOK

(* A pass in flight keeps a plan that is safe to carry out.                    *)
THEOREM PlansStaySafe == OpSpec => []PlanStaysSafe
<1>1. Inv => PlanStaysSafe
  BY DEF Inv
<1> QED
  BY <1>1, InitEstablishes, NextPreserves, PTL DEF OpSpec

-----------------------------------------------------------------------------
(* The refinement.  A step that changes neither image nor the pods of auth is  *)
(* a stutter of the abstract specification.                                    *)

(* Applying auth moves it to the target of the pass, or leaves it as it is.    *)
LEMMA ApplyAuthRefines ==
    ASSUME Inv, ApplyAuth
    PROVE  [Rollout!RolloutNext]_(Rollout!rolloutVars)
<1>1. /\ auth \in Deployments /\ pass.target \in Images /\ pass.cfg \in Configs
  BY DEF Inv, OpTypeOK, ApplyAuth, PlanStaysSafe, Passes
<1>2. /\ auth'.img = pass.target
      /\ \/ auth.img = pass.target /\ auth'.pods = auth.pods
         \/ auth'.pods = auth.pods \cup {pass.target}
  BY <1>1, AppliedType DEF ApplyAuth
<1>3. registry' = registry
  BY DEF ApplyAuth
<1> QED
  BY <1>1, <1>2, <1>3 DEF Rollout!RolloutNext, Rollout!rolloutVars, Rollout!MoveAuth

(* Applying the registry creates it, leaves its image, or moves it, and then   *)
(* the safe plan is the guard of the abstract move.                            *)
LEMMA ApplyRegistryRefines ==
    ASSUME Inv, ApplyRegistry
    PROVE  [Rollout!RolloutNext]_(Rollout!rolloutVars)
<1>1. /\ pass.pc = "registry" /\ registry \in Deployments
      /\ pass.rimg \in Images /\ pass.cfg \in Configs
  BY DEF Inv, OpTypeOK, ApplyRegistry, PlanStaysSafe, Passes
<1>2. registry'.img = pass.rimg /\ auth' = auth
  BY <1>1, AppliedType DEF ApplyRegistry
<1>3. CASE registry.img = pass.rimg
  BY <1>2, <1>3 DEF Rollout!rolloutVars
<1>4. CASE registry.img = Absent
  BY <1>1, <1>2, <1>4 DEF Rollout!RolloutNext, Rollout!CreateRegistry
<1>5. CASE registry.img \notin {Absent, pass.rimg}
  <2>1. auth.img \in {Absent, pass.rimg} /\ auth.pods \subseteq {pass.rimg}
    BY <1>1, <1>5 DEF Inv, PlanStaysSafe
  <2> QED
    BY <1>1, <1>2, <2>1 DEF Rollout!RolloutNext, Rollout!MoveRegistry
<1> QED
  BY <1>3, <1>4, <1>5

(* The cluster rolls auth out, stalls it, or loses one of the two.             *)
LEMMA ClusterRefines ==
    ASSUME Inv, AuthRollsOut \/ RegistryRollsOut \/ RolloutStalls \/ DeleteDeployment
    PROVE  [Rollout!RolloutNext]_(Rollout!rolloutVars)
<1>1. auth \in Deployments /\ registry \in Deployments
  BY DEF Inv, OpTypeOK
<1>2. CASE RolloutStalls
  <2>1. auth'.img = auth.img /\ auth'.pods = auth.pods /\ registry'.img = registry.img
    BY <1>1, <1>2 DEF RolloutStalls, Deployments
  <2> QED
    BY <2>1 DEF Rollout!rolloutVars
<1>3. CASE RegistryRollsOut
  <2>1. registry'.img = registry.img /\ auth' = auth
    BY <1>1, <1>3, RolledType DEF RegistryRollsOut
  <2> QED
    BY <2>1 DEF Rollout!rolloutVars
<1>4. CASE DeleteDeployment
  <2>1. CASE auth' = NoDeployment /\ registry' = registry
    BY <2>1 DEF NoDeployment, Rollout!RolloutNext, Rollout!RemoveAuth
  <2>2. CASE registry' = NoDeployment /\ auth' = auth
    BY <2>2 DEF NoDeployment, Rollout!RolloutNext, Rollout!RemoveRegistry
  <2> QED
    BY <1>4, <2>1, <2>2 DEF DeleteDeployment
<1>5. CASE AuthRollsOut
  <2>1. auth'.img = auth.img /\ auth'.pods = {auth.img} /\ registry' = registry
    BY <1>1, <1>5, RolledType DEF AuthRollsOut
  <2>2. auth.img \in auth.pods
    BY <1>5 DEF Inv, PlanStaysSafe, AuthRollsOut
  <2> QED
    BY <2>1, <2>2 DEF Rollout!RolloutNext, Rollout!RollAuth
<1> QED
  BY <1>2, <1>3, <1>4, <1>5

(* Every step of the operator and its environment is a step of the ordered     *)
(* rollout or a stutter.                                                       *)
LEMMA StepRefines ==
    ASSUME Inv, [OpNext]_opVars
    PROVE  [Rollout!RolloutNext]_(Rollout!rolloutVars)
<1>1. CASE ApplyAuth
  BY <1>1, ApplyAuthRefines
<1>2. CASE ApplyRegistry
  BY <1>2, ApplyRegistryRefines
<1>3. CASE AuthRollsOut \/ RegistryRollsOut \/ RolloutStalls \/ DeleteDeployment
  BY <1>3, ClusterRefines
<1>4. ASSUME UNCHANGED <<auth, registry>>
      PROVE  UNCHANGED Rollout!rolloutVars
  BY <1>4 DEF Rollout!rolloutVars
<1>5. CASE \/ ReconcilePaused \/ ReconcileWithoutConfig \/ WriteStatus \/ PassFails
           \/ EditSpec \/ EditConfig \/ MoveTag \/ IntervalElapses
  BY <1>4, <1>5 DEF ReconcilePaused, ReconcileWithoutConfig, WriteStatus, PassFails,
                    EditSpec, EditConfig, MoveTag, IntervalElapses
<1>6. CASE ReconcileAnswered \/ ReconcileUnanswered
  BY <1>4, <1>6 DEF ReconcileAnswered, ReconcileUnanswered, Reconcile
<1>7. CASE BackupSucceeds \/ BackupFails
  BY <1>4, <1>7 DEF BackupSucceeds, BackupFails, JobEnds
<1>8. CASE UNCHANGED opVars
  BY <1>4, <1>8 DEF opVars
<1> QED
  BY <1>1, <1>2, <1>3, <1>5, <1>6, <1>7, <1>8 DEF OpNext, Passing, Cluster, Disturbing

(* The lifecycle operator implements the ordered rollout: the registry, which  *)
(* migrates the schema, never moves to an image while an auth pod runs         *)
(* another one, whatever fails or is edited between plan_rollout and the       *)
(* applies (reconcile).                                                        *)
THEOREM RefinesOrderedRollout == OpSpec => ImplementsOrderedRollout
<1>1. OpInit => Rollout!RolloutInit
  BY DEF OpInit, NoDeployment, Rollout!RolloutInit
<1> QED
  BY <1>1, InitEstablishes, NextPreserves, StepRefines, PTL
     DEF OpSpec, ImplementsOrderedRollout, Rollout!RolloutSpec

-----------------------------------------------------------------------------
(* Backups before an upgrade.  A Job is named by generation and images, so a   *)
(* Job that succeeded may be an old one; that the upgrade was backed up since  *)
(* auth took up its image is not inductive.  Without auto-update a generation  *)
(* has one target: once auth left an image for it under that generation, it    *)
(* does not come back to need the Job again.                                   *)

\* Generations only grow, and no Job of the present one exists while a pass of
\* an earlier one is under way.
GenerationsOrdered ==
    /\ \A j \in jobs : j.gen <= cr.gen
    /\ pass.pc # "idle" => /\ pass.gen <= cr.gen
                           /\ \A j \in jobs : j.gen = cr.gen => pass.gen = cr.gen

\* Without auto-update the passes and Jobs of the present generation have one
\* target, and a Job that is no longer fresh has done its service.
OneTarget ==
    ~cr.auto =>
        /\ pass.pc # "idle" /\ pass.gen = cr.gen => pass.target = cr.tag
        /\ \A j \in jobs : j.gen = cr.gen =>
              /\ j.to = cr.tag
              /\ j.state = "succeeded" => j \in fresh \/ auth.img \in {Absent, cr.tag}

\* The backup of the upgrade that the pass is about to begin.
Backup(p, img) == [gen |-> p.gen, from |-> img, to |-> p.target, state |-> "succeeded"]

\* The pass that is about to move auth has its backup.
PassIsBackedUp ==
    pass.pc = "auth" /\ pass.before /\ auth.img # Absent =>
        /\ Backup(pass, auth.img) \in jobs
        /\ pass.auto \/ Backup(pass, auth.img) \in fresh

\* The inductive invariant of backups.
BackupInv == jobs \in SUBSET Jobs /\ GenerationsOrdered /\ OneTarget /\ PassIsBackedUp

(* No Job and no pass at the start.                                            *)
LEMMA BackupInvInit == OpInit => BackupInv
  BY DEF OpInit, Idle, BackupInv, GenerationsOrdered, OneTarget, PassIsBackedUp

(* What a pass took from the resource.                                         *)
LEMMA PlannedFrom ==
    ASSUME Inv, NEW answers \in BOOLEAN
    PROVE  LET p == Planned(answers) IN
           /\ p.pc = "auth" /\ p.gen = cr.gen /\ p.auto = cr.auto
           /\ ~cr.auto => p.target = cr.tag
           /\ p.before => auth.img \notin {Absent, p.target}
<1> DEFINE r == Resolved(answers)
           plan == PlanRollout(r.target)
           b == plan.starts /\ cr.before
<1>1. plan.starts => auth.img \notin {Absent, r.target}
  BY DEF PlanRollout
<1>2. ~cr.auto => r.target = cr.tag
  BY DEF Resolved
<1>3. b => auth.img \notin {Absent, r.target}
  BY <1>1
<1>4. Planned(answers) = [Idle EXCEPT !.pc = "auth", !.target = r.target, !.rimg = plan.rimg,
                     !.upgrading = plan.upgrading, !.cfg = config, !.st = r.st,
                     !.before = b, !.auto = cr.auto, !.gen = cr.gen]
  BY DEF Planned
<1> HIDE DEF r, plan, b
<1>5. Planned(answers) = [pc |-> "auth", target |-> r.target, rimg |-> plan.rimg,
          upgrading |-> plan.upgrading, cfg |-> config, before |-> b, auto |-> cr.auto,
          gen |-> cr.gen, authOk |-> FALSE, bad |-> FALSE, st |-> r.st]
  BY <1>4 DEF Idle
<1> QED BY <1>2, <1>3, <1>5

(* Steps that leave resource and Jobs alone and move auth to no other image.   *)
LEMMA BackupFrame ==
    ASSUME BackupInv, UNCHANGED <<cr, jobs, fresh>>, auth'.img \in {auth.img, Absent},
           \/ pass'.pc = "idle"
           \/ /\ pass.pc # "idle" /\ pass'.pc \in {pass.pc, "status"}
              /\ pass'.target = pass.target /\ pass'.gen = pass.gen
              /\ pass'.before = pass.before /\ pass'.auto = pass.auto
    PROVE  BackupInv'
<1>1. GenerationsOrdered'
  BY DEF BackupInv, GenerationsOrdered
<1>2. OneTarget'
  BY DEF BackupInv, OneTarget
<1>3. PassIsBackedUp'
  BY DEF BackupInv, PassIsBackedUp, Backup
<1> QED BY <1>1, <1>2, <1>3 DEF BackupInv

(* A pass that begins has its backup; one that waits for it creates a Job of   *)
(* its own generation.                                                         *)
LEMMA ReconcileBacksUp ==
    ASSUME Inv, BackupInv, NEW answers \in BOOLEAN, Reconcile(answers)
    PROVE  BackupInv'
<1> DEFINE p == Planned(answers)
<1>1. /\ UNCHANGED <<cr, auth, fresh>> /\ pass.pc = "idle" /\ config # Absent
      /\ BeginApplying(p) \/ AwaitBackup(p) \/ BlockUpgrade(p)
  BY DEF Reconcile
<1>2. /\ p \in Passes /\ p.target \in Images
  BY <1>1, PlannedIsSafe
<1>3. /\ p.pc = "auth" /\ p.gen = cr.gen /\ p.auto = cr.auto
      /\ ~cr.auto => p.target = cr.tag
      /\ p.before => auth.img \notin {Absent, p.target}
  BY PlannedFrom
<1>4. JobOf(JobKey(auth.img, p.target), "succeeded") = Backup(p, auth.img)
  BY <1>3 DEF JobOf, JobKey, Backup
<1>5. cr.gen \in Nat /\ cr.tag \in Images /\ auth.img \in Images \cup {Absent}
  BY DEF Inv, OpTypeOK, Specs, Deployments
<1> HIDE DEF p
<1>6. CASE BeginApplying(p)
  <2>1. pass' = p /\ jobs' = jobs /\ (p.before => Backup(p, auth.img) \in jobs)
    BY <1>4, <1>6 DEF BeginApplying, BackupIs
  <2>2. GenerationsOrdered'
    BY <1>1, <1>3, <1>5, <2>1 DEF BackupInv, GenerationsOrdered
  <2>3. OneTarget'
    BY <1>1, <1>3, <2>1 DEF BackupInv, OneTarget
  <2>4. PassIsBackedUp'
    BY <1>1, <1>3, <2>1 DEF BackupInv, OneTarget, PassIsBackedUp, Backup
  <2> QED BY <2>1, <2>2, <2>3, <2>4 DEF BackupInv
<1>7. CASE AwaitBackup(p)
  <2>1. PICK j \in Jobs : /\ j = JobOf(JobKey(auth.img, p.target), "running")
                          /\ j.gen = cr.gen /\ j.to = p.target /\ j.state = "running"
    <3>1. auth.img \in Images /\ p.target \in Images
      BY <1>2, <1>3, <1>5, <1>7 DEF AwaitBackup
    <3>2. JobOf(JobKey(auth.img, p.target), "running")
            = [gen |-> cr.gen, from |-> auth.img, to |-> p.target, state |-> "running"]
      BY DEF JobOf, JobKey
    <3> QED BY <1>5, <3>1, <3>2 DEF Jobs
  <2>2. jobs' = jobs \cup {j} /\ pass' = pass
    BY <1>7, <2>1 DEF AwaitBackup
  <2>3. GenerationsOrdered'
    BY <1>1, <1>5, <2>1, <2>2 DEF BackupInv, GenerationsOrdered
  <2>4. OneTarget'
    BY <1>1, <1>3, <2>1, <2>2 DEF BackupInv, OneTarget
  <2>5. PassIsBackedUp'
    BY <1>1, <2>2 DEF PassIsBackedUp
  <2> QED BY <2>1, <2>2, <2>3, <2>4, <2>5 DEF BackupInv
<1>8. CASE BlockUpgrade(p)
  <2>1. UNCHANGED <<pass, jobs>>
    BY <1>8 DEF BlockUpgrade
  <2> QED BY <1>1, <2>1, BackupFrame
<1> QED BY <1>1, <1>6, <1>7, <1>8

(* ApplyAuth uses the freshness up; a Job of the present generation then has   *)
(* auth where it leads.                                                        *)
LEMMA ApplyAuthBacksUp ==
    ASSUME Inv, BackupInv, ApplyAuth
    PROVE  BackupInv'
<1>1. /\ pass.pc = "auth" /\ pass \in Passes /\ auth \in Deployments
      /\ pass.target \in Images /\ pass.cfg \in Configs
  BY DEF Inv, OpTypeOK, ApplyAuth, PlanStaysSafe, Passes
<1>2. auth'.img = pass.target
  BY <1>1, AppliedType DEF ApplyAuth
<1>3. /\ pass'.pc = "registry" /\ pass'.target = pass.target /\ pass'.gen = pass.gen
      /\ UNCHANGED <<cr, jobs>>
  BY <1>1 DEF ApplyAuth, Passes
<1>4. auth.img = pass.target => fresh' = fresh
  BY DEF ApplyAuth
<1>5. GenerationsOrdered'
  BY <1>1, <1>3 DEF BackupInv, GenerationsOrdered
<1>6. OneTarget'
  BY <1>1, <1>2, <1>3, <1>4 DEF BackupInv, OneTarget, GenerationsOrdered
<1>7. PassIsBackedUp'
  BY <1>3 DEF PassIsBackedUp
<1> QED BY <1>3, <1>5, <1>6, <1>7 DEF BackupInv

(* A Job that succeeds is fresh; one that succeeded is never touched again.    *)
LEMMA JobEndsBacksUp ==
    ASSUME BackupInv, NEW j \in jobs, NEW state \in {"succeeded", "failed"}, JobEnds(j, state)
    PROVE  BackupInv'
<1>1. PICK k \in Jobs : /\ k = [j EXCEPT !.state = state]
                        /\ k.gen = j.gen /\ k.to = j.to /\ k.state = state
  <2>1. j \in Jobs
    BY DEF BackupInv
  <2>2. [j EXCEPT !.state = state] = [gen |-> j.gen, from |-> j.from, to |-> j.to, state |-> state]
    BY <2>1 DEF Jobs
  <2> QED BY <2>1, <2>2 DEF Jobs
<1>2. /\ j.state = "running" /\ jobs' = (jobs \ {j}) \cup {k}
      /\ fresh' = IF state = "succeeded" THEN fresh \cup {k} ELSE fresh
      /\ UNCHANGED <<cr, auth, pass>>
  BY <1>1 DEF JobEnds
<1>3. GenerationsOrdered'
  BY <1>1, <1>2 DEF BackupInv, GenerationsOrdered
<1>4. OneTarget'
  BY <1>1, <1>2 DEF BackupInv, OneTarget
<1>5. PassIsBackedUp'
  <2>1. Backup(pass, auth.img) # j
    BY <1>2 DEF Backup
  <2> QED BY <1>2, <2>1 DEF BackupInv, PassIsBackedUp, Backup
<1> QED BY <1>1, <1>2, <1>3, <1>4, <1>5 DEF BackupInv

(* An edit opens a generation that has no Job and no pass yet.                 *)
LEMMA EditBacksUp ==
    ASSUME Inv, BackupInv, EditSpec
    PROVE  BackupInv'
<1>1. /\ cr'.gen = cr.gen + 1 /\ cr.gen \in Nat
      /\ UNCHANGED <<auth, jobs, fresh, pass>>
  BY DEF Inv, OpTypeOK, Specs, EditSpec
<1>2. pass.gen \in Nat /\ \A j \in jobs : j.gen \in Nat
  BY DEF Inv, OpTypeOK, Passes, BackupInv, Jobs
<1>3. /\ \A j \in jobs : j.gen <= cr.gen /\ j.gen # cr.gen + 1 /\ j.gen <= cr.gen + 1
      /\ pass.pc # "idle" => pass.gen <= cr.gen + 1 /\ pass.gen # cr.gen + 1
  BY <1>1, <1>2 DEF BackupInv, GenerationsOrdered
<1>4. GenerationsOrdered'
  BY <1>1, <1>3 DEF GenerationsOrdered
<1>5. OneTarget'
  BY <1>1, <1>3 DEF OneTarget
<1>6. PassIsBackedUp'
  BY <1>1 DEF BackupInv, PassIsBackedUp
<1> QED BY <1>1, <1>4, <1>5, <1>6 DEF BackupInv

(* From outside a pass auth keeps its image or is deleted.                     *)
LEMMA AuthKeepsImage ==
    ASSUME auth \in Deployments, DeleteDeployment \/ AuthRollsOut \/ RolloutStalls
    PROVE  auth'.img \in {auth.img, Absent}
<1>1. CASE DeleteDeployment
  BY <1>1 DEF DeleteDeployment, NoDeployment
<1>2. CASE AuthRollsOut
  BY <1>2, RolledType DEF AuthRollsOut
<1>3. CASE RolloutStalls
  <2>1. auth' = [auth EXCEPT !.stuck = TRUE] \/ auth' = auth
    BY <1>3 DEF RolloutStalls
  <2> QED BY <2>1 DEF Deployments
<1> QED BY <1>1, <1>2, <1>3

(* Every other step is none of the backups' business.                          *)
LEMMA BackupInvNext ==
    ASSUME Inv, BackupInv, [OpNext]_opVars
    PROVE  BackupInv'
<1>0. pass \in Passes /\ auth \in Deployments
  BY DEF Inv, OpTypeOK
<1>1. CASE ReconcileAnswered \/ ReconcileUnanswered
  BY <1>1, ReconcileBacksUp DEF ReconcileAnswered, ReconcileUnanswered
<1>2. CASE ApplyAuth
  BY <1>2, ApplyAuthBacksUp
<1>3. CASE BackupSucceeds \/ BackupFails
  BY <1>3, JobEndsBacksUp DEF BackupSucceeds, BackupFails
<1>4. CASE EditSpec
  BY <1>4, EditBacksUp
<1>5. CASE ReconcilePaused \/ ReconcileWithoutConfig \/ EditConfig \/ MoveTag
           \/ RegistryRollsOut \/ UNCHANGED opVars
  BY <1>5, BackupFrame
     DEF ReconcilePaused, ReconcileWithoutConfig, EditConfig, MoveTag, RegistryRollsOut, opVars
<1>6. CASE WriteStatus \/ PassFails
  BY <1>6, BackupFrame DEF WriteStatus, PassFails, Idle
<1>7. CASE ApplyRegistry
  <2>1. PICK st : pass' = [pass EXCEPT !.pc = "status", !.st = st]
    BY <1>7 DEF ApplyRegistry
  <2>2. /\ pass'.pc = "status" /\ pass'.target = pass.target /\ pass'.gen = pass.gen
        /\ pass'.before = pass.before /\ pass'.auto = pass.auto
    BY <1>0, <2>1 DEF Passes
  <2>3. UNCHANGED <<cr, auth, jobs, fresh>> /\ pass.pc # "idle"
    BY <1>7 DEF ApplyRegistry
  <2> QED BY <2>2, <2>3, BackupFrame
<1>8. CASE IntervalElapses
  <2>1. PICK st : pass' = [pass EXCEPT !.st = st]
    BY <1>8 DEF IntervalElapses
  <2>2. /\ pass'.pc = pass.pc /\ pass'.target = pass.target /\ pass'.gen = pass.gen
        /\ pass'.before = pass.before /\ pass'.auto = pass.auto
    BY <1>0, <2>1 DEF Passes
  <2>3. UNCHANGED <<cr, auth, jobs, fresh>>
    BY <1>8 DEF IntervalElapses
  <2> QED BY <2>2, <2>3, BackupFrame
<1>9. CASE DeleteDeployment \/ AuthRollsOut \/ RolloutStalls
  <2>1. UNCHANGED <<cr, jobs, fresh, pass>>
    BY <1>9 DEF DeleteDeployment, AuthRollsOut, RolloutStalls
  <2>2. auth'.img \in {auth.img, Absent}
    BY <1>0, <1>9, AuthKeepsImage
  <2> QED BY <2>1, <2>2, BackupFrame
<1> QED
  BY <1>1, <1>2, <1>3, <1>4, <1>5, <1>6, <1>7, <1>8, <1>9 DEF OpNext, Passing, Cluster, Disturbing

(* The backup's Job stands where preupgrade_backup found it until auth moves.  *)
LEMMA StepIsBackedUp ==
    ASSUME Inv, BackupInv, OpNext, NEW t \in Images,
           auth.img \in Images \ {t}, auth'.img = t, pass.before
    PROVE  \E j \in jobs : /\ j.from = auth.img /\ j.to = t /\ j.state = "succeeded"
                           /\ j \in fresh \/ (pass.auto /\ j.gen = pass.gen)
<1>0. auth \in Deployments
  BY DEF Inv, OpTypeOK
<1>1. ApplyAuth
  <2>1. auth'.img \notin {auth.img, Absent}
    OBVIOUS
  <2>2. ~(AuthRollsOut \/ RolloutStalls \/ DeleteDeployment)
    BY <1>0, <2>1, AuthKeepsImage
  <2>3. auth' # auth
    BY <2>1
  <2> QED
    BY <2>2, <2>3 DEF OpNext, Passing, Cluster, Disturbing, ReconcilePaused, ReconcileWithoutConfig,
       ReconcileAnswered, ReconcileUnanswered, Reconcile, ApplyRegistry, WriteStatus, PassFails,
       EditSpec, EditConfig, MoveTag, BackupSucceeds, BackupFails, JobEnds, RegistryRollsOut,
       IntervalElapses
<1>2. /\ pass.pc = "auth" /\ pass.target \in Images /\ pass.cfg \in Configs
  BY <1>1 DEF Inv, OpTypeOK, ApplyAuth, PlanStaysSafe, Passes
<1>3. t = pass.target
  BY <1>0, <1>1, <1>2, AppliedType DEF ApplyAuth
<1>4. /\ Backup(pass, auth.img) \in jobs
      /\ pass.auto \/ Backup(pass, auth.img) \in fresh
  BY <1>2 DEF BackupInv, PassIsBackedUp
<1> QED BY <1>3, <1>4 DEF Backup

(* With backup.beforeUpgrade auth leaves an image only after a backup of that  *)
(* step, taken since the image was taken up unless auto-update reuses a Job.   *)
THEOREM UpgradesBackedUp == OpSpec => UpgradeIsBackedUp
<1>1. Inv /\ BackupInv /\ [OpNext]_opVars => (Inv /\ BackupInv)'
  BY NextPreserves, BackupInvNext
<1>2. Inv /\ BackupInv /\ [OpNext]_opVars =>
        [\A t \in Images :
            (auth.img \in Images \ {t} /\ auth'.img = t /\ pass.before) =>
               \E j \in jobs : /\ j.from = auth.img /\ j.to = t /\ j.state = "succeeded"
                               /\ j \in fresh \/ (pass.auto /\ j.gen = pass.gen)]_opVars
  BY StepIsBackedUp
<1> QED BY <1>1, <1>2, InitEstablishes, BackupInvInit, PTL DEF OpSpec, UpgradeIsBackedUp

=============================================================================
