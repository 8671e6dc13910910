--------------------------- MODULE Services_proofs ---------------------------
(***************************************************************************)
(* Proofs about the services of a node that the program does not yet use   *)
(* to their full extent: the distributed hash table, the strategy for the  *)
(* punches of a peer, and the STUN client.  No two of them share a         *)
(* variable.                                                               *)
(***************************************************************************)
EXTENDS DHT, PunchStrategy, STUN, Selection_proofs, SequenceTheorems

-----------------------------------------------------------------------------
(* The distributed hash table: DHT *)

-----------------------------------------------------------------------------
(* Ids and distances *)

Places == 0..(Bits - 1)

\* The first place at which two ids differ.
FirstAt(x, y, i) == i \in Places /\ x[i] # y[i] /\ \A j \in 0..(i - 1) : x[j] = y[j]

\* Ids that differ do so at a first place.
LEMMA FirstDiffering ==
    ASSUME NEW x \in ids, NEW y \in ids, x # y
    PROVE  \E i \in Places : FirstAt(x, y, i)
  <1> DEFINE D == {i \in Places : x[i] # y[i]}
  <1>1. D # {}
    <2>1. x = [i \in 0..(Bits - 1) |-> x[i]] /\ y = [i \in 0..(Bits - 1) |-> y[i]]
      BY DEF ids
    <2>2. \E i \in 0..(Bits - 1) : x[i] # y[i]
      BY <2>1
    <2> QED BY <2>2 DEF Places
  <1>2. D \in SUBSET Nat
    BY DEF Places
  <1>3. PICK i \in D : \A j \in D : i =< j
    BY <1>1, <1>2, LeastNumber
  <1>4. ASSUME NEW j \in 0..(i - 1) PROVE x[j] = y[j]
    <2>1. i \in Nat /\ i =< Bits - 1 /\ Bits \in Nat
      BY DHTAssumption DEF Places
    <2>2. j \in Nat /\ j < i /\ j \in Places
      BY <2>1 DEF Places
    <2> QED BY <1>3, <2>1, <2>2
  <1> QED BY <1>4 DEF FirstAt

\* There is only one.
LEMMA OneFirst ==
    ASSUME NEW x, NEW y, NEW i, NEW j, FirstAt(x, y, i), FirstAt(x, y, j)
    PROVE  i = j
  <1>1. i \in Nat /\ j \in Nat
    BY DHTAssumption DEF FirstAt, Places
  <1>2. ~(i < j) /\ ~(j < i)
    BY <1>1 DEF FirstAt
  <1> QED BY <1>1, <1>2

\* The bucket of another node is where its id first differs; a node's own id is
\* in the last bucket.
LEMMA BucketOf ==
    ASSUME NEW n \in Node, NEW x \in Node
    PROVE  /\ GetBucketIndex(n, x) \in Places
           /\ x # n => FirstAt(NodeId[n], NodeId[x], GetBucketIndex(n, x))
           /\ x = n => GetBucketIndex(n, x) = Bits - 1
  <1> DEFINE D == {i \in 0..(Bits - 1) : NodeId[n][i] # NodeId[x][i]}
  <1>1. Bits - 1 \in Places /\ NodeId[n] \in ids /\ NodeId[x] \in ids
    BY DHTAssumption DEF Places
  <1>2. CASE x = n
    BY <1>1, <1>2 DEF GetBucketIndex
  <1>3. CASE x # n
    <2>1. NodeId[n] # NodeId[x]
      BY <1>3, DHTAssumption
    <2>2. PICK i \in Places : FirstAt(NodeId[n], NodeId[x], i)
      BY <1>1, <2>1, FirstDiffering
    <2>3. i \in D
      BY <2>2 DEF FirstAt, Places
    <2>4. D \in SUBSET Nat /\ D # {}
      BY <2>3
    <2>5. GetBucketIndex(n, x) = CHOOSE k \in D : \A j \in D : k =< j
      BY <2>4 DEF GetBucketIndex
    <2> HIDE DEF D
    <2>6. GetBucketIndex(n, x) \in D /\ \A j \in D : GetBucketIndex(n, x) =< j
      BY <2>4, <2>5, LeastChosen
    <2> DEFINE g == GetBucketIndex(n, x)
    <2>7. g \in Places /\ NodeId[n][g] # NodeId[x][g]
      BY <2>6 DEF D, Places
    <2>8. ASSUME NEW j \in 0..(g - 1) PROVE NodeId[n][j] = NodeId[x][j]
      <3>1. Bits \in Nat /\ g \in Nat /\ g =< Bits - 1
        BY <2>7, DHTAssumption DEF Places
      <3> HIDE DEF g
      <3>2. j \in 0..(Bits - 1) /\ ~(g =< j)
        BY <3>1
      <3> QED BY <2>6, <3>2 DEF D, g
    <2> QED BY <1>3, <2>7, <2>8 DEF FirstAt
  <1> QED BY <1>2, <1>3

\* Ids share the bits before the place at which they first differ.
LEMMA SharedBitsBefore ==
    ASSUME NEW x, NEW y, NEW i, FirstAt(x, y, i)
    PROVE  SharedBits(x, y) = i
  <1>1. Bits \in Nat /\ i \in Nat /\ i =< Bits - 1
    BY DHTAssumption DEF FirstAt, Places
  <1>2. ASSUME NEW k \in 0..(Bits - 1)
        PROVE  (\A j \in 0..k : x[j] = y[j]) <=> k \in 0..(i - 1)
    <2>1. CASE k < i
      BY <1>1, <2>1 DEF FirstAt
    <2>2. CASE ~(k < i)
      <3>1. i \in 0..k
        BY <1>1, <2>2
      <3> QED BY <1>1, <2>2, <3>1 DEF FirstAt
    <2> QED BY <2>1, <2>2
  <1>3. {k \in 0..(Bits - 1) : \A j \in 0..k : x[j] = y[j]} = 0..(i - 1)
    <2>1. \A k \in 0..(i - 1) : k \in 0..(Bits - 1)
      BY <1>1
    <2> QED BY <1>2, <2>1
  <1>4. Cardinality(0..(i - 1)) = i
    BY <1>1, FS_Interval
  <1> QED BY <1>3, <1>4 DEF SharedBits

\* The ids of nodes share a natural number of bits.
LEMMA SharedBitsType ==
    ASSUME NEW x, NEW y
    PROVE  SharedBits(x, y) \in Nat
  <1>1. IsFiniteSet(0..(Bits - 1))
    BY FS_Interval, DHTAssumption
  <1>2. {k \in 0..(Bits - 1) : \A j \in 0..k : x[j] = y[j]} \in SUBSET (0..(Bits - 1))
    OBVIOUS
  <1> QED BY <1>1, <1>2, FS_Subset, FS_CardinalityType DEF SharedBits

-----------------------------------------------------------------------------
(* The routing table *)

Full(bucket) == Cardinality(bucket) >= DHT_K_BUCKET_SIZE

\* The table of n after AddNode has been called for the known nodes.
TableFits(n, table, known) ==
    /\ table \in [Places -> Bucket]
    /\ \A i \in Places : \A x \in table[i] : GetBucketIndex(n, x) = i
    /\ \A x \in known \ Nodes(table) : Full(table[GetBucketIndex(n, x)])

\* A bucket keeps what it has, and takes the newcomer unless it is full.
LEMMA BucketAddProperties ==
    ASSUME NEW bucket \in Bucket, NEW x \in Node
    PROVE  /\ BucketAdd(bucket, x) \in Bucket
           /\ bucket \subseteq BucketAdd(bucket, x)
           /\ BucketAdd(bucket, x) \subseteq bucket \cup {x}
           /\ x \in BucketAdd(bucket, x) \/ Full(bucket)
  <1>1. bucket \in SUBSET Node /\ Cardinality(bucket) =< DHT_K_BUCKET_SIZE
    BY DEF Bucket
  <1>2. IsFiniteSet(bucket) /\ Cardinality(bucket) \in Nat
    BY <1>1, DHTAssumption, FS_Subset, FS_CardinalityType
  <1>3. CASE x \in bucket
    <2>1. bucket \cup {x} = bucket
      BY <1>3
    <2> QED BY <1>3, <2>1 DEF BucketAdd
  <1>4. CASE x \notin bucket /\ Cardinality(bucket) < DHT_K_BUCKET_SIZE
    <2>1. Cardinality(bucket \cup {x}) = Cardinality(bucket) + 1
      BY <1>2, <1>4, FS_AddElement
    <2>2. bucket \cup {x} \in Bucket
      BY <1>1, <1>2, <1>4, <2>1, DHTAssumption DEF Bucket
    <2> QED BY <1>4, <2>2 DEF BucketAdd
  <1>5. CASE x \notin bucket /\ ~(Cardinality(bucket) < DHT_K_BUCKET_SIZE)
    BY <1>2, <1>5, DHTAssumption DEF BucketAdd, Full
  <1> QED BY <1>3, <1>4, <1>5

\* AddNode of one more node.
LEMMA AddNodeFits ==
    ASSUME NEW n \in Node, NEW table, NEW known \in SUBSET Node, TableFits(n, table, known), NEW x \in Node
    PROVE  TableFits(n, [table EXCEPT ![GetBucketIndex(n, x)] = BucketAdd(@, x)], known \cup {x})
  <1> DEFINE g == GetBucketIndex(n, x)
             b == BucketAdd(table[g], x)
             t == [table EXCEPT ![g] = b]
  <1>1. table \in [Places -> Bucket] /\ g \in Places /\ table[g] \in Bucket
    BY BucketOf DEF TableFits
  <1>2. /\ b \in Bucket /\ table[g] \subseteq b /\ b \subseteq table[g] \cup {x}
        /\ x \in b \/ Full(table[g])
    BY <1>1, BucketAddProperties
  <1>3. \A i \in Places : \A y \in table[i] : GetBucketIndex(n, y) = i
    BY DEF TableFits
  <1>4. GetBucketIndex(n, x) = g
    OBVIOUS
  <1> HIDE DEF b, g
  <1>5. t \in [Places -> Bucket] /\ \A i \in Places : t[i] = IF i = g THEN b ELSE table[i]
    BY <1>1, <1>2
  <1> HIDE DEF t
  <1>6. \A i \in Places : table[i] \subseteq t[i]
    BY <1>2, <1>5
  <1>7. \A i \in Places : \A y \in t[i] : GetBucketIndex(n, y) = i
    BY <1>2, <1>3, <1>4, <1>5
  <1>8. \A y \in Nodes(table) : y \in Nodes(t)
    BY <1>6 DEF Nodes, Places
  <1>9. ASSUME NEW i \in Places, Full(table[i]) PROVE Full(t[i])
    <2>1. table[i] \in SUBSET t[i] /\ t[i] \in SUBSET Node
      BY <1>5, <1>6 DEF Bucket
    <2>2. IsFiniteSet(t[i])
      BY <2>1, DHTAssumption, FS_Subset
    <2>3. Cardinality(table[i]) =< Cardinality(t[i]) /\ IsFiniteSet(table[i])
      BY <2>1, <2>2, FS_Subset
    <2>4. Cardinality(table[i]) \in Nat /\ Cardinality(t[i]) \in Nat
      BY <2>2, <2>3, FS_CardinalityType
    <2> QED BY <1>9, <2>3, <2>4, DHTAssumption DEF Full
  <1>10. ASSUME NEW y \in (known \cup {x}) \ Nodes(t)
         PROVE  Full(t[GetBucketIndex(n, y)])
    <2>1. y \in Node /\ GetBucketIndex(n, y) \in Places
      BY BucketOf
    <2>2. CASE y = x
      <3>1. x \notin b
        BY <1>1, <1>5, <1>10, <2>2 DEF Nodes, Places
      <3> QED BY <1>1, <1>2, <1>4, <1>9, <2>2, <3>1
    <2>3. CASE y # x
      <3>1. y \in known \ Nodes(table)
        BY <1>8, <1>10, <2>3
      <3>2. Full(table[GetBucketIndex(n, y)])
        BY <3>1 DEF TableFits
      <3> QED BY <1>9, <2>1, <3>2
    <2> QED BY <2>2, <2>3
  <1>11. TableFits(n, t, known \cup {x})
    BY <1>5, <1>7, <1>10 DEF TableFits
  <1> QED BY <1>11 DEF t, b, g

\* AddNodes: the function by which it is defined exists, and fits at each of its
\* places.
LEMMA AddNodesFits ==
    ASSUME NEW n \in Node, NEW nodes \in Seq(Node), NEW known \in SUBSET Node,
           TableFits(n, m_buckets[n], known)
    PROVE  TableFits(n, AddNodes(n, nodes), known \cup ToSet(nodes))
  <1> DEFINE size == Len(nodes)
             start == m_buckets[n]
             Added(t, x) == [t EXCEPT ![GetBucketIndex(n, x)] = BucketAdd(@, x)]
             Adds(f, k) == f = [i \in 0..k |-> IF i = 0 THEN start ELSE Added(f[i - 1], nodes[i])]
             table == CHOOSE f : Adds(f, size)
             Missing == {k \in Nat : k =< size /\ \A f : ~Adds(f, k)}
  <1>1. size \in Nat /\ DOMAIN nodes = 1..size /\ \A i \in 1..size : nodes[i] \in Node
    OBVIOUS
  <1>2. AddNodes(n, nodes) = table[size]
    BY DEF AddNodes
  <1>4. ASSUME NEW t, NEW seen \in SUBSET Node, TableFits(n, t, seen), NEW x \in Node
        PROVE  TableFits(n, Added(t, x), seen \cup {x})
    BY <1>4, AddNodeFits
  <1>5. TableFits(n, start, known)
    OBVIOUS
  <1> HIDE DEF size, start, Added
  <1>6. Missing = {}
    <2> SUFFICES ASSUME Missing # {} PROVE FALSE
      OBVIOUS
    <2>1. PICK k \in Missing : \A m \in Missing : k =< m
      BY LeastNumber
    <2>2. k \in Nat /\ k =< size /\ \A f : ~Adds(f, k)
      BY <2>1
    <2>3. CASE k = 0
      <3>1. Adds([i \in 0..0 |-> start], 0)
        <4>1. \A i \in 0..0 : i = 0
          OBVIOUS
        <4> QED BY <4>1, Zenon
      <3> QED BY <2>2, <2>3, <3>1
    <2>4. CASE k # 0
      <3>1. k - 1 \in Nat /\ k - 1 < k /\ k - 1 =< size
        BY <1>1, <2>2, <2>4
      <3>2. k - 1 \notin Missing
        <4> HIDE DEF Missing
        <4> QED BY <2>1, <2>2, <3>1
      <3>3. PICK f : Adds(f, k - 1)
        <4> HIDE DEF Adds
        <4> QED BY <3>1, <3>2
      <3> DEFINE g == [i \in 0..k |-> IF i < k THEN f[i] ELSE Added(f[i - 1], nodes[i])]
      <3>4. DOMAIN f = 0..(k - 1)
            /\ \A i \in 0..(k - 1) : f[i] = IF i = 0 THEN start ELSE Added(f[i - 1], nodes[i])
        BY <3>3
      <3>5. \A i \in 0..k : g[i] = IF i = 0 THEN start ELSE Added(g[i - 1], nodes[i])
        <4> SUFFICES ASSUME NEW i \in 0..k
                     PROVE  g[i] = IF i = 0 THEN start ELSE Added(g[i - 1], nodes[i])
          OBVIOUS
        <4>1. CASE i = 0
          <5>1. 0 \in 0..(k - 1) /\ 0 < k
            BY <2>2, <3>1
          <5>2. f[0] = start
            BY <3>4, <5>1
          <5> QED BY <4>1, <5>1, <5>2
        <4>2. CASE i # 0
          <5>1. i - 1 \in 0..(k - 1) /\ i - 1 \in 0..k /\ i - 1 < k
            BY <2>2, <4>2
          <5>2. g[i - 1] = f[i - 1]
            BY <5>1
          <5>3. g[i] = Added(f[i - 1], nodes[i])
            <6>1. CASE i < k
              <7>1. i \in 0..(k - 1)
                BY <2>2, <6>1
              <7> QED BY <3>4, <4>2, <6>1, <7>1
            <6>2. CASE ~(i < k)
              BY <4>2, <6>2
            <6> QED BY <6>1, <6>2
          <5> QED BY <4>2, <5>2, <5>3
        <4> QED BY <4>1, <4>2
      <3>6. Adds(g, k)
        BY <3>5, Zenon
      <3> QED BY <2>2, <3>6
    <2> QED BY <2>3, <2>4
  <1>7. Adds(table, size)
    <2>1. size \notin Missing /\ size \in Nat /\ size =< size
      BY <1>1, <1>6
    <2>2. \E f : Adds(f, size)
      <3> HIDE DEF Adds
      <3> QED BY <2>1
    <2> QED BY <2>2, Zenon
  <1>8. /\ table[0] = start
        /\ \A i \in 1..size : table[i] = Added(table[i - 1], nodes[i])
    <2> HIDE DEF table
    <2>1. \A i \in 0..size : table[i] = IF i = 0 THEN start ELSE Added(table[i - 1], nodes[i])
      BY <1>7
    <2>2. 0 \in 0..size /\ \A i \in 1..size : i \in 0..size /\ i # 0
      BY <1>1
    <2> QED BY <2>1, <2>2
  <1> HIDE DEF table
  <1> DEFINE seen(i) == known \cup {nodes[j] : j \in 1..i}
             Bad == {i \in Nat : i =< size /\ ~TableFits(n, table[i], seen(i))}
  <1>9. Bad = {}
    <2> SUFFICES ASSUME Bad # {} PROVE FALSE
      OBVIOUS
    <2>1. PICK k \in Bad : \A m \in Bad : k =< m
      BY LeastNumber
    <2>2. k \in Nat /\ k =< size /\ ~TableFits(n, table[k], seen(k))
      BY <2>1
    <2>3. CASE k = 0
      <3>1. seen(0) = known
        OBVIOUS
      <3> QED BY <1>5, <1>8, <2>2, <2>3, <3>1
    <2>4. CASE k # 0
      <3>1. k - 1 \in Nat /\ k - 1 < k /\ k - 1 =< size /\ k \in 1..size
        BY <1>1, <2>2, <2>4
      <3>2. k - 1 \notin Bad
        <4> HIDE DEF Bad
        <4> QED BY <2>1, <2>2, <3>1
      <3>3. TableFits(n, table[k - 1], seen(k - 1))
        BY <3>1, <3>2
      <3>4. seen(k - 1) \in SUBSET Node
        BY <1>1, <3>1
      <3>5. seen(k) = seen(k - 1) \cup {nodes[k]}
        <4>1. 1..k = (1..(k - 1)) \cup {k}
          BY <3>1
        <4> QED BY <4>1
      <3>6. nodes[k] \in Node
        BY <1>1, <3>1
      <3> HIDE DEF seen
      <3>7. TableFits(n, Added(table[k - 1], nodes[k]), seen(k - 1) \cup {nodes[k]})
        BY <1>4, <3>3, <3>4, <3>6
      <3> QED BY <1>8, <2>2, <3>1, <3>5, <3>7
    <2> QED BY <2>3, <2>4
  <1>10. size \notin Bad /\ size =< size
    BY <1>1, <1>9
  <1>11. TableFits(n, table[size], seen(size))
    BY <1>1, <1>10
  <1>12. seen(size) = known \cup ToSet(nodes)
    BY <1>1 DEF ToSet
  <1> QED BY <1>2, <1>11, <1>12 DEF table

-----------------------------------------------------------------------------
(* The closest nodes *)

\* Distances are ids, and differ where the ids do.
LEMMA DistanceType ==
    ASSUME NEW x \in ids, NEW target \in ids
    PROVE  /\ XORDistance(x, target) \in ids
           /\ \A y \in ids : \A i \in Places :
                 XORDistance(x, target)[i] = XORDistance(y, target)[i] <=> x[i] = y[i]
  <1>1. XORDistance(x, target) \in ids
    BY DEF XORDistance, ids
  <1>2. ASSUME NEW y \in ids, NEW i \in Places
        PROVE  XORDistance(x, target)[i] = XORDistance(y, target)[i] <=> x[i] = y[i]
    <2>1. x[i] \in {0, 1} /\ y[i] \in {0, 1} /\ target[i] \in {0, 1}
      BY DEF ids, Places
    <2>2. /\ XORDistance(x, target)[i] = IF x[i] = target[i] THEN 0 ELSE 1
          /\ XORDistance(y, target)[i] = IF y[i] = target[i] THEN 0 ELSE 1
      BY DEF XORDistance, Places
    <2> QED BY <2>1, <2>2
  <1> QED BY <1>1, <1>2

\* CompareXORDistance decides at the first bit in which two distances differ.
LEMMA ComparesFirst ==
    ASSUME NEW d \in ids, NEW e \in ids
    PROVE  /\ CompareXORDistance(d, e) <=> \E i \in Places : FirstAt(d, e, i) /\ d[i] = 0 /\ e[i] = 1
           /\ d # e => CompareXORDistance(d, e) \/ CompareXORDistance(e, d)
           /\ ~(CompareXORDistance(d, e) /\ CompareXORDistance(e, d))
           /\ ~CompareXORDistance(d, d)
  <1>1. \A i \in Places : d[i] \in {0, 1} /\ e[i] \in {0, 1}
    BY DEF ids, Places
  <1>2. \A i \in Places : d[i] < e[i] <=> d[i] # e[i] /\ d[i] = 0 /\ e[i] = 1
    BY <1>1
  <1>3. \A i \in Places : e[i] < d[i] <=> d[i] # e[i] /\ d[i] = 1 /\ e[i] = 0
    BY <1>1
  <1>4. CompareXORDistance(d, e) <=> \E i \in Places : FirstAt(d, e, i) /\ d[i] = 0 /\ e[i] = 1
    BY <1>2, Zenon DEF CompareXORDistance, FirstAt, Places
  <1>5. CompareXORDistance(e, d) <=> \E i \in Places : FirstAt(d, e, i) /\ d[i] = 1 /\ e[i] = 0
    BY <1>3, Zenon DEF CompareXORDistance, FirstAt, Places
  <1>6. d # e => CompareXORDistance(d, e) \/ CompareXORDistance(e, d)
    <2> SUFFICES ASSUME d # e PROVE CompareXORDistance(d, e) \/ CompareXORDistance(e, d)
      OBVIOUS
    <2>1. PICK i \in Places : FirstAt(d, e, i)
      BY FirstDiffering
    <2>2. d[i] # e[i]
      BY <2>1 DEF FirstAt
    <2>3. (d[i] = 0 /\ e[i] = 1) \/ (d[i] = 1 /\ e[i] = 0)
      BY <1>1, <2>2
    <2> QED BY <1>4, <1>5, <2>1, <2>3
  <1>7. ~(CompareXORDistance(d, e) /\ CompareXORDistance(e, d))
    <2> SUFFICES ASSUME CompareXORDistance(d, e), CompareXORDistance(e, d) PROVE FALSE
      OBVIOUS
    <2>1. PICK i \in Places : FirstAt(d, e, i) /\ d[i] = 0 /\ e[i] = 1
      BY <1>4
    <2>2. PICK j \in Places : FirstAt(d, e, j) /\ d[j] = 1 /\ e[j] = 0
      BY <1>5
    <2>3. i = j
      BY <2>1, <2>2, OneFirst
    <2> QED BY <2>1, <2>2, <2>3
  <1>8. ~CompareXORDistance(d, d)
    <2> SUFFICES ASSUME NEW i \in Places, d[i] < d[i] PROVE FALSE
      BY DEF CompareXORDistance, Places
    <2> QED BY <1>1
  <1> QED BY <1>4, <1>6, <1>7, <1>8

\* What is closer than something closer is closer.
LEMMA CompareIsTransitive ==
    ASSUME NEW d \in ids, NEW e \in ids, NEW f \in ids,
           CompareXORDistance(d, e), CompareXORDistance(e, f)
    PROVE  CompareXORDistance(d, f)
  <1>1. PICK i \in 0..(Bits - 1) : d[i] < e[i] /\ \A k \in 0..(i - 1) : d[k] = e[k]
    BY DEF CompareXORDistance
  <1>2. PICK j \in 0..(Bits - 1) : e[j] < f[j] /\ \A k \in 0..(j - 1) : e[k] = f[k]
    BY DEF CompareXORDistance
  <1>3. \A k \in 0..(Bits - 1) : d[k] \in {0, 1} /\ e[k] \in {0, 1} /\ f[k] \in {0, 1}
    BY DEF ids
  <1>4. i \in Int /\ j \in Int
    OBVIOUS
  <1>5. CASE i < j
    <2>1. i \in 0..(j - 1)
      BY <1>4, <1>5
    <2>2. d[i] < f[i]
      BY <1>1, <1>2, <2>1
    <2>3. \A k \in 0..(i - 1) : k \in 0..(j - 1)
      BY <1>4, <1>5
    <2>4. \A k \in 0..(i - 1) : d[k] = f[k]
      BY <1>1, <1>2, <2>3
    <2> QED BY <2>2, <2>4 DEF CompareXORDistance
  <1>6. CASE i = j
    BY <1>1, <1>2, <1>3, <1>6
  <1>7. CASE j < i
    <2>1. j \in 0..(i - 1)
      BY <1>4, <1>7
    <2>2. d[j] < f[j]
      BY <1>1, <1>2, <2>1
    <2>3. \A k \in 0..(j - 1) : k \in 0..(i - 1)
      BY <1>4, <1>7
    <2>4. \A k \in 0..(j - 1) : d[k] = f[k]
      BY <1>1, <1>2, <2>3
    <2> QED BY <2>2, <2>4 DEF CompareXORDistance
  <1>8. i < j \/ i = j \/ j < i
    BY <1>4
  <1> QED BY <1>5, <1>6, <1>7, <1>8

\* Of two nodes one is closer, and closeness is an order.
LEMMA CloserOrder ==
    ASSUME NEW target \in ids, NEW x \in Node, NEW y \in Node
    PROVE  /\ x # y => Closer(target, x, y) \/ Closer(target, y, x)
           /\ ~(Closer(target, x, y) /\ Closer(target, y, x))
           /\ ~Closer(target, x, x)
           /\ \A z \in Node : Closer(target, x, y) /\ Closer(target, y, z) => Closer(target, x, z)
  <1> DEFINE D(n) == XORDistance(NodeId[n], target)
  <1>1. \A n \in Node : NodeId[n] \in ids /\ D(n) \in ids
    BY DistanceType, DHTAssumption
  <1>2. x # y => D(x) # D(y)
    <2> SUFFICES ASSUME x # y PROVE D(x) # D(y)
      OBVIOUS
    <2>1. NodeId[x] # NodeId[y]
      BY DHTAssumption
    <2>2. PICK i \in Places : FirstAt(NodeId[x], NodeId[y], i)
      BY <1>1, <2>1, FirstDiffering
    <2>3. NodeId[x][i] # NodeId[y][i]
      BY <2>2 DEF FirstAt
    <2>4. D(x)[i] # D(y)[i]
      BY <1>1, <2>3, DistanceType
    <2> QED BY <2>4
  <1>3. \A u, v \in Node : Closer(target, u, v) <=> CompareXORDistance(D(u), D(v))
    BY DEF Closer
  <1> HIDE DEF D
  <1>4. x # y => Closer(target, x, y) \/ Closer(target, y, x)
    BY <1>1, <1>2, <1>3, ComparesFirst
  <1>5. ~(Closer(target, x, y) /\ Closer(target, y, x))
    BY <1>1, <1>3, ComparesFirst
  <1>6. ~Closer(target, x, x)
    BY <1>1, <1>3, ComparesFirst
  <1>7. \A z \in Node : Closer(target, x, y) /\ Closer(target, y, z) => Closer(target, x, z)
    BY <1>1, <1>3, CompareIsTransitive
  <1> QED BY <1>4, <1>5, <1>6, <1>7

\* Sorting puts each of a set of nodes at a place of its own, and the closer of
\* two before the other.
LEMMA BeforeProperties ==
    ASSUME NEW target \in ids, NEW S \in SUBSET Node
    PROVE  /\ IsFiniteSet(S) /\ Cardinality(S) \in Nat
           /\ \A x \in S : Before(S, target, x) \in 0..(Cardinality(S) - 1)
           /\ \A x, y \in S : Closer(target, x, y) => Before(S, target, x) < Before(S, target, y)
           /\ \A x, y \in S : Before(S, target, x) < Before(S, target, y) => Closer(target, x, y)
           /\ \A k \in 0..(Cardinality(S) - 1) : \E x \in S : Before(S, target, x) = k
  <1> DEFINE C(x) == {y \in S : Closer(target, y, x)}
             R == 0..(Cardinality(S) - 1)
             f == [x \in S |-> Before(S, target, x)]
  <1>1. IsFiniteSet(S) /\ Cardinality(S) \in Nat
    BY DHTAssumption, FS_Subset, FS_CardinalityType
  <1>2. ASSUME NEW x \in S
        PROVE  /\ C(x) \in SUBSET S /\ x \notin C(x) /\ IsFiniteSet(C(x))
               /\ Before(S, target, x) = Cardinality(C(x)) /\ Cardinality(C(x)) \in Nat
    <2>1. C(x) \in SUBSET S /\ x \notin C(x)
      BY CloserOrder
    <2>2. IsFiniteSet(C(x)) /\ Cardinality(C(x)) \in Nat
      BY <1>1, <2>1, FS_Subset, FS_CardinalityType
    <2> QED BY <2>1, <2>2 DEF Before
  <1>3. ASSUME NEW x \in S PROVE Before(S, target, x) \in R
    <2>1. C(x) \in SUBSET S /\ C(x) # S
      BY <1>2
    <2> HIDE DEF C
    <2>2. Cardinality(C(x)) =< Cardinality(S) /\ Cardinality(C(x)) # Cardinality(S)
      BY <1>1, <2>1, FS_Subset
    <2> QED BY <1>1, <1>2, <2>2
  <1>4. ASSUME NEW x \in S, NEW y \in S, Closer(target, x, y)
        PROVE  Before(S, target, x) < Before(S, target, y)
    <2>1. C(x) \in SUBSET C(y) /\ x \in C(y)
      BY <1>4, CloserOrder
    <2>2. x \notin C(x) /\ IsFiniteSet(C(y))
      BY <1>2
    <2>3. Before(S, target, x) = Cardinality(C(x)) /\ Before(S, target, y) = Cardinality(C(y))
          /\ Cardinality(C(x)) \in Nat /\ Cardinality(C(y)) \in Nat
      BY <1>2
    <2> HIDE DEF C
    <2>4. C(x) # C(y)
      BY <2>1, <2>2
    <2>5. Cardinality(C(x)) =< Cardinality(C(y)) /\ Cardinality(C(x)) # Cardinality(C(y))
      BY <2>1, <2>2, <2>4, FS_Subset
    <2> QED BY <2>3, <2>5
  <1>5. ASSUME NEW x \in S, NEW y \in S, Before(S, target, x) < Before(S, target, y)
        PROVE  Closer(target, x, y)
    <2>1. Before(S, target, x) \in Int /\ Before(S, target, y) \in Int
      BY <1>3
    <2>2. x # y /\ ~Closer(target, y, x)
      BY <1>4, <1>5, <2>1
    <2> QED BY <2>2, CloserOrder
  <1>6. \A k \in R : \E x \in S : Before(S, target, x) = k
    <2>1. f \in [S -> R]
      BY <1>3
    <2>2. ASSUME NEW x \in S, NEW y \in S, f[x] = f[y] PROVE x = y
      <3>1. Before(S, target, x) = Before(S, target, y) /\ Before(S, target, x) \in Int
        BY <1>3, <2>2
      <3>2. ~Closer(target, x, y) /\ ~Closer(target, y, x)
        BY <1>4, <3>1
      <3> QED BY <3>2, CloserOrder
    <2>3. IsFiniteSet(R) /\ Cardinality(R) = Cardinality(S)
      BY <1>1, FS_Interval
    <2>4. f \in Injection(S, R)
      BY <2>1, <2>2 DEF Injection, IsInjective
    <2>5. f \in Surjection(S, R)
      BY <1>1, <2>3, <2>4, FS_Injection
    <2> QED BY <2>5 DEF Surjection
  <1> QED BY <1>1, <1>3, <1>4, <1>5, <1>6

\* GetClosestNodes lists nodes of the table, and what it leaves out of a full
\* list is further away than all that it lists.
LEMMA ClosestProperties ==
    ASSUME NEW n, Nodes(m_buckets[n]) \subseteq Node, NEW target \in ids, NEW count \in Nat
    PROVE  LET list == GetClosestNodes(n, target, count)
           IN  /\ list \in Seq(Node)
               /\ ToSet(list) \subseteq Nodes(m_buckets[n])
               /\ \A x \in Nodes(m_buckets[n]) \ ToSet(list) :
                     /\ Len(list) = count
                     /\ \A y \in ToSet(list) : Closer(target, y, x)
  <1> DEFINE S == Nodes(m_buckets[n])
             size == IF Cardinality(S) > count THEN count ELSE Cardinality(S)
             at(k) == CHOOSE x \in S : Before(S, target, x) = k - 1
             list == GetClosestNodes(n, target, count)
  <1>1. list = [k \in 1..size |-> at(k)]
    BY DEF GetClosestNodes
  <1>2. S \in SUBSET Node
    OBVIOUS
  <1> HIDE DEF S, list
  <1>3. Cardinality(S) \in Nat
    BY <1>2, BeforeProperties
  <1>4. size \in Nat /\ size =< Cardinality(S) /\ size =< count
    BY <1>3
  <1>5. \A k \in 0..(Cardinality(S) - 1) : \E x \in S : Before(S, target, x) = k
    BY <1>2, BeforeProperties
  <1>6. ASSUME NEW k \in 1..size
        PROVE  at(k) \in S /\ Before(S, target, at(k)) = k - 1
    <2>1. k - 1 \in 0..(Cardinality(S) - 1)
      BY <1>3, <1>4
    <2>2. \E x \in S : Before(S, target, x) = k - 1
      BY <1>5, <2>1
    <2> QED BY <2>2
  <1> HIDE DEF at
  <1>7. list \in Seq(Node) /\ Len(list) = size /\ DOMAIN list = 1..size
    <2>1. list \in [1..size -> Node]
      BY <1>1, <1>2, <1>6
    <2> HIDE DEF size
    <2> QED BY <1>4, <2>1
  <1>8. ToSet(list) = {at(k) : k \in 1..size}
    <2> HIDE DEF size
    <2> QED BY <1>1 DEF ToSet
  <1>9. ToSet(list) \subseteq S
    BY <1>6, <1>8
  <1>10. ASSUME NEW x \in S \ ToSet(list)
         PROVE  Len(list) = count /\ \A y \in ToSet(list) : Closer(target, y, x)
    <2> DEFINE b == Before(S, target, x)
    <2>1. b \in 0..(Cardinality(S) - 1)
      BY <1>2, BeforeProperties
    <2>2. ~(b < size)
      <3> SUFFICES ASSUME b < size PROVE FALSE
        OBVIOUS
      <3>1. b + 1 \in 1..size /\ (b + 1) - 1 = b
        BY <1>4, <2>1
      <3>2. at(b + 1) \in S /\ Before(S, target, at(b + 1)) = b
        BY <1>6, <3>1
      <3>3. ~(Before(S, target, x) < Before(S, target, at(b + 1)))
            /\ ~(Before(S, target, at(b + 1)) < Before(S, target, x))
        BY <2>1, <3>2
      <3>4. ~Closer(target, x, at(b + 1)) /\ ~Closer(target, at(b + 1), x)
        BY <1>2, <3>2, <3>3, BeforeProperties
      <3>5. x = at(b + 1)
        BY <1>2, <3>2, <3>4, CloserOrder
      <3> HIDE DEF size, b
      <3> QED BY <1>8, <3>1, <3>5
    <2>3. size = count
      BY <1>3, <2>1, <2>2
    <2>4. ASSUME NEW y \in ToSet(list) PROVE Closer(target, y, x)
      <3>1. PICK k \in 1..size : y = at(k)
        <4> HIDE DEF size
        <4> QED BY <1>8
      <3>2. y \in S /\ Before(S, target, y) = k - 1
        BY <1>6, <3>1
      <3>3. Before(S, target, y) < Before(S, target, x)
        BY <1>4, <2>1, <2>2, <3>2
      <3> QED BY <1>2, <3>2, <3>3, BeforeProperties
    <2> HIDE DEF size
    <2> QED BY <1>7, <2>3, <2>4
  <1> QED BY <1>7, <1>9, <1>10 DEF S, list

-----------------------------------------------------------------------------
(* Routing tables, peer tables and packets *)

Zero == [i \in 0..(Bits - 1) |-> 0]

TablesInv ==
    /\ TypeOK
    /\ \A n \in Node : TableFits(n, m_buckets[n], told[n])
    /\ \A m \in net : m.type = "find_node" => m.id = Zero

\* What the packets of each type hold.
LEMMA PacketTypes ==
    ASSUME NEW m \in Packets
    PROVE  /\ m.src \in Node /\ m.dst \in Node
           /\ m.type \in {"peer_list", "nodes"} => m.nodes \in Seq(Node)
           /\ m.type = "find_node" => m.id \in ids
           /\ m.type \in {"store", "get_value", "value"} => m.id \in Keys
  <1>1. CASE m \in [type: {"peer_list", "nodes"}, src: Node, dst: Node, nodes: Seq(Node)]
    BY <1>1
  <1>2. CASE m \in [type: {"find_node"}, src: Node, dst: Node, id: ids]
    BY <1>2
  <1>3. CASE m \in [type: {"store", "get_value", "value"}, src: Node, dst: Node, id: Keys]
    BY <1>3
  <1> QED BY <1>1, <1>2, <1>3 DEF Packets

\* The packets that nodes make.
LEMMA PacketsMade ==
    ASSUME NEW n \in Node, NEW d \in Node
    PROVE  /\ \A nodes \in Seq(Node) : PeerList(n, d, nodes) \in Packets
                                       /\ FindNodeResponse(n, d, nodes) \in Packets
           /\ \A target \in ids : FindNode(n, d, target) \in Packets
           /\ \A k \in Keys : /\ StorePacket(n, d, k) \in Packets
                              /\ GetValuePacket(n, d, k) \in Packets
                              /\ GetValueResponse(n, d, k) \in Packets
  BY DEF PeerList, FindNodeResponse, FindNode, StorePacket, GetValuePacket, GetValueResponse, Packets

\* Peer tables hold nodes.
LEMMA AddPeersType ==
    ASSUME NEW peers \in Seq(Node), NEW nodes \in Seq(Node)
    PROVE  AddPeers(peers, nodes) \in Seq(Node)
  <1>1. {i \in DOMAIN nodes : ~Contains(peers, nodes[i])} \in SUBSET DOMAIN nodes
    OBVIOUS
  <1>2. Selected(nodes, {i \in DOMAIN nodes : ~Contains(peers, nodes[i])}) \in Seq(Node)
    BY <1>1, SelectedProperties
  <1> QED BY <1>2 DEF AddPeers

\* The nodes of a table that fits are nodes of the network.
LEMMA FitsNodes ==
    ASSUME NEW n, NEW table, NEW known, TableFits(n, table, known)
    PROVE  Nodes(table) \subseteq Node
  BY DEF TableFits, Nodes, Places, Bucket

\* Learn: what a table is told of fits it, and the others stay as they are.
LEMMA LearnFits ==
    ASSUME TypeOK, \A n \in Node : TableFits(n, m_buckets[n], told[n]),
           NEW d \in Node, NEW nodes \in Seq(Node), Learn(d, nodes)
    PROVE  /\ \A n \in Node : TableFits(n, m_buckets'[n], told'[n])
           /\ told' \in [Node -> SUBSET Node]
           /\ m_buckets' \in [Node -> [0..(Bits - 1) -> Bucket]]
  <1>1. told[d] \in SUBSET Node /\ ToSet(nodes) \in SUBSET Node
    BY DEF TypeOK, ToSet
  <1>2. TableFits(d, AddNodes(d, nodes), told[d] \cup ToSet(nodes))
    BY <1>1, AddNodesFits
  <1>3. told' = [told EXCEPT ![d] = told[d] \cup ToSet(nodes)]
        /\ m_buckets' = [m_buckets EXCEPT ![d] = AddNodes(d, nodes)]
    BY DEF Learn
  <1>4. \A n \in Node : /\ told'[n] = IF n = d THEN told[d] \cup ToSet(nodes) ELSE told[n]
                        /\ m_buckets'[n] = IF n = d THEN AddNodes(d, nodes) ELSE m_buckets[n]
    BY <1>3 DEF TypeOK
  <1>5. AddNodes(d, nodes) \in [0..(Bits - 1) -> Bucket]
    BY <1>2 DEF TableFits, Places
  <1>6. told' \in [Node -> SUBSET Node]
    BY <1>1, <1>3 DEF TypeOK
  <1>7. m_buckets' \in [Node -> [0..(Bits - 1) -> Bucket]]
    BY <1>3, <1>5 DEF TypeOK
  <1>8. \A n \in Node : TableFits(n, m_buckets'[n], told'[n])
    BY <1>2, <1>4
  <1> QED BY <1>6, <1>7, <1>8

\* Stores after Store, Get or GetValue.
LEMMA StoreTypes ==
    ASSUME TypeOK, NEW n \in Node, NEW k \in Keys
    PROVE  /\ Stored(m_localStore[n], k) \in Stores
           /\ Erased(n, k) \in Stores
  <1> DEFINE store == m_localStore[n]
             held == DOMAIN store
             time == (GetCurrentTime + TTL) % TimeWrap
  <1>1. store \in Stores
    BY DEF TypeOK
  <1>2. PICK h \in SUBSET Keys : store \in [h -> 0..(TimeWrap - 1)]
    BY <1>1 DEF Stores
  <1>3. held \in SUBSET Keys /\ store \in [held -> 0..(TimeWrap - 1)]
    BY <1>2
  <1>4. now \in Nat /\ TTL \in Nat /\ TimeWrap \in Nat \ {0}
    BY DHTAssumption DEF TypeOK
  <1>5. GetCurrentTime \in Nat
    BY <1>4 DEF GetCurrentTime
  <1>6. time \in 0..(TimeWrap - 1)
    BY <1>4, <1>5
  <1> HIDE DEF time
  <1>7. Stored(store, k) \in [held \cup {k} -> 0..(TimeWrap - 1)]
    BY <1>3, <1>6 DEF Stored, time
  <1>8. held \cup {k} \in SUBSET Keys
    BY <1>3
  <1>9. Stored(store, k) \in Stores
    BY <1>7, <1>8 DEF Stores
  <1>10. Erased(n, k) \in Stores
    <2>1. CASE Held(n, k)
      BY <1>1, <2>1 DEF Erased
    <2>2. CASE ~Held(n, k)
      <3>1. Erased(n, k) \in [held \ {k} -> 0..(TimeWrap - 1)]
        BY <1>3, <2>2 DEF Erased
      <3>2. held \ {k} \in SUBSET Keys
        BY <1>3
      <3> QED BY <3>1, <3>2 DEF Stores
    <2> QED BY <2>1, <2>2
  <1> QED BY <1>9, <1>10

\* The invariant holds of empty tables.
LEMMA TablesInit == Init => TablesInv
  <1> SUFFICES ASSUME Init PROVE TablesInv
    OBVIOUS
  <1>1. {} \in Bucket
    BY FS_EmptySet, DHTAssumption DEF Bucket
  <1>2. <<>> \in Stores
    <2>1. <<>> \in [{} -> 0..(TimeWrap - 1)]
      OBVIOUS
    <2> QED BY <2>1 DEF Stores
  <1>3. TypeOK
    BY <1>1, <1>2, DHTAssumption DEF Init, TypeOK
  <1>4. ASSUME NEW n \in Node PROVE TableFits(n, m_buckets[n], told[n])
    BY <1>1, <1>4 DEF Init, TableFits, Places
  <1> QED BY <1>3, <1>4 DEF TablesInv, Init

\* Every step keeps the tables and sends packets of their types.
LEMMA TablesStep == TablesInv /\ [Next]_vars => TablesInv'
  <1> SUFFICES ASSUME TablesInv, [Next]_vars PROVE TablesInv'
    OBVIOUS
  <1>1. TypeOK /\ (\A n \in Node : TableFits(n, m_buckets[n], told[n]))
        /\ (\A m \in net : m.type = "find_node" => m.id = Zero)
    BY DEF TablesInv
  <1>2. Zero \in ids
    BY DEF Zero, ids
  <1>3. \A n \in Node : Nodes(m_buckets[n]) \subseteq Node
    BY <1>1, FitsNodes
  <1>4. \A n \in Node : \A target \in ids : \A count \in Nat :
           /\ GetClosestNodes(n, target, count) \in Seq(Node)
           /\ ToSet(GetClosestNodes(n, target, count)) \subseteq Node
    BY <1>3, ClosestProperties
  <1>5. Keys \subseteq ids /\ DHT_K_BUCKET_SIZE \in Nat /\ DHT_ALPHA \in Nat /\ Seeds \subseteq Node
    BY DHTAssumption
  <1>6. CASE Tick
    <2>1. now' \in 0..Horizon
      BY <1>1, <1>6, DHTAssumption DEF Tick, TypeOK
    <2> QED BY <1>1, <1>6, <2>1 DEF Tick, TablesInv, TypeOK
  <1>7. ASSUME NEW c \in Clients, Discover(c)
        PROVE  TablesInv'
    <2>1. \A s \in Seeds : FindNode(c, s, Zero) \in Packets /\ FindNode(c, s, Zero).id = Zero
      BY <1>2, <1>5, PacketsMade DEF Clients, FindNode
    <2>2. net' = net \cup {FindNode(c, s, Zero) : s \in Seeds}
      BY <1>7 DEF Discover, Zero
    <2>3. \A m \in net' : m \in Packets /\ (m.type = "find_node" => m.id = Zero)
      BY <1>1, <2>1, <2>2 DEF TypeOK
    <2> QED BY <1>1, <1>7, <2>3 DEF Discover, TablesInv, TypeOK
  <1>8. ASSUME NEW c \in Clients, NEW s \in Seeds, Handshake(c, s)
        PROVE  TablesInv'
    <2>1. c \in Node /\ s \in Node /\ <<s>> \in Seq(Node) /\ <<c>> \in Seq(Node)
      BY <1>5 DEF Clients
    <2>2. m_peers' \in [Node -> Seq(Node)]
      <3>1. AddPeers(m_peers[c], <<s>>) \in Seq(Node) /\ AddPeers(m_peers[s], <<c>>) \in Seq(Node)
        BY <1>1, <2>1, AddPeersType DEF TypeOK
      <3>2. c # s
        BY DEF Clients
      <3> QED BY <1>1, <1>8, <2>1, <3>1, <3>2 DEF Handshake, TypeOK
    <2>3. /\ \A n \in Node : TableFits(n, m_buckets'[n], told'[n])
          /\ told' \in [Node -> SUBSET Node]
          /\ m_buckets' \in [Node -> [0..(Bits - 1) -> Bucket]]
      BY <1>1, <1>8, <2>1, LearnFits DEF Handshake
    <2>4. PeerList(c, s, m_peers'[c]) \in Packets /\ PeerList(s, c, m_peers'[s]) \in Packets
      BY <2>1, <2>2, PacketsMade
    <2>5. PeerList(c, s, m_peers'[c]).type = "peer_list" /\ PeerList(s, c, m_peers'[s]).type = "peer_list"
      BY DEF PeerList
    <2>6. net' = net \cup {PeerList(c, s, m_peers'[c]), PeerList(s, c, m_peers'[s])}
      BY <1>8 DEF Handshake
    <2>7. \A m \in net' : m \in Packets /\ (m.type = "find_node" => m.id = Zero)
      BY <1>1, <2>4, <2>5, <2>6 DEF TypeOK
    <2>8. /\ connected' \subseteq Clients \X Seeds
          /\ UNCHANGED <<dhtDiscoverySent, m_localStore, now, stored, calls>>
      BY <1>1, <1>8 DEF Handshake, TypeOK
    <2>9. TypeOK'
      BY <1>1, <2>2, <2>3, <2>7, <2>8 DEF TypeOK
    <2> QED BY <2>3, <2>7, <2>9 DEF TablesInv
  <1>9. ASSUME NEW n \in Node, NEW k \in Keys, StoreValue(n, k)
        PROVE  TablesInv'
    <2> DEFINE list == GetClosestNodes(n, k, DHT_K_BUCKET_SIZE)
    <2>1. \A d \in ToSet(list) : StorePacket(n, d, k) \in Packets /\ StorePacket(n, d, k).type = "store"
      BY <1>4, <1>5, PacketsMade DEF StorePacket
    <2>2. net' = net \cup {StorePacket(n, d, k) : d \in ToSet(list)}
      BY <1>9 DEF StoreValue
    <2>3. \A m \in net' : m \in Packets /\ (m.type = "find_node" => m.id = Zero)
      BY <1>1, <2>1, <2>2 DEF TypeOK
    <2>4. calls' \in [{"StoreValue", "GetValue"} -> 0..MaxCalls]
      BY <1>1, <1>9, DHTAssumption DEF StoreValue, Call, TypeOK
    <2> QED BY <1>1, <1>9, <2>3, <2>4 DEF StoreValue, TablesInv, TypeOK
  <1>10. ASSUME NEW n \in Node, NEW k \in Keys, GetValue(n, k)
         PROVE  TablesInv'
    <2> DEFINE list == GetClosestNodes(n, k, DHT_ALPHA)
    <2>1. \A d \in ToSet(list) : GetValuePacket(n, d, k) \in Packets /\ GetValuePacket(n, d, k).type = "get_value"
      BY <1>4, <1>5, PacketsMade DEF GetValuePacket
    <2>2. \A m \in net' : m \in net \/ \E d \in ToSet(list) : m = GetValuePacket(n, d, k)
      BY <1>10 DEF GetValue
    <2>3. \A m \in net' : m \in Packets /\ (m.type = "find_node" => m.id = Zero)
      BY <1>1, <2>1, <2>2 DEF TypeOK
    <2>4. calls' \in [{"StoreValue", "GetValue"} -> 0..MaxCalls]
      BY <1>1, <1>10, DHTAssumption DEF GetValue, Call, TypeOK
    <2>5. m_localStore' \in [Node -> Stores]
      <3>1. Erased(n, k) \in Stores
        BY <1>1, StoreTypes
      <3> QED BY <1>1, <1>10, <3>1 DEF GetValue, TypeOK
    <2> QED BY <1>1, <1>10, <2>3, <2>4, <2>5 DEF GetValue, TablesInv, TypeOK
  <1>11. ASSUME NEW m \in net, Receive(m)
         PROVE  TablesInv'
    <2>1. m \in Packets /\ m.src \in Node /\ m.dst \in Node
      BY <1>1, PacketTypes DEF TypeOK
    <2>2. CASE HandlePeerList(m)
      <3>1. m.nodes \in Seq(Node)
        BY <2>1, <2>2, PacketTypes DEF HandlePeerList
      <3>2. AddPeers(m_peers[m.dst], m.nodes) \in Seq(Node)
        BY <1>1, <2>1, <3>1, AddPeersType DEF TypeOK
      <3>3. m_peers' \in [Node -> Seq(Node)]
        BY <1>1, <2>1, <2>2, <3>2 DEF HandlePeerList, TypeOK
      <3>4. /\ \A n \in Node : TableFits(n, m_buckets'[n], told'[n])
            /\ told' \in [Node -> SUBSET Node]
            /\ m_buckets' \in [Node -> [0..(Bits - 1) -> Bucket]]
        BY <1>1, <2>1, <2>2, <3>1, LearnFits DEF HandlePeerList
      <3> QED BY <1>1, <2>2, <3>3, <3>4 DEF HandlePeerList, TablesInv, TypeOK
    <2>3. CASE HandleFindNode(m) \/ HandleFindNodeRequest(m)
      <3> DEFINE list == GetClosestNodes(m.dst, m.id, DHT_K_BUCKET_SIZE)
                 new == FindNodeResponse(m.dst, m.src, list)
      <3>1. m.id \in ids
        BY <2>1, <2>3, PacketTypes DEF HandleFindNode, HandleFindNodeRequest
      <3>2. new \in Packets /\ new.type = "nodes"
        BY <1>4, <1>5, <2>1, <3>1, PacketsMade DEF FindNodeResponse
      <3>3. net' = net \cup {new}
        BY <2>3 DEF HandleFindNode, HandleFindNodeRequest, FindNodes
      <3>4. \A p \in net' : p \in Packets /\ (p.type = "find_node" => p.id = Zero)
        BY <1>1, <3>2, <3>3 DEF TypeOK
      <3> QED BY <1>1, <2>3, <3>4 DEF HandleFindNode, HandleFindNodeRequest, TablesInv, TypeOK
    <2>4. CASE HandleFindNodeResponse(m)
      <3>1. m.nodes \in Seq(Node)
        BY <2>1, <2>4, PacketTypes DEF HandleFindNodeResponse
      <3>2. /\ \A n \in Node : TableFits(n, m_buckets'[n], told'[n])
            /\ told' \in [Node -> SUBSET Node]
            /\ m_buckets' \in [Node -> [0..(Bits - 1) -> Bucket]]
        BY <1>1, <2>1, <2>4, <3>1, LearnFits DEF HandleFindNodeResponse
      <3> QED BY <1>1, <2>4, <3>2 DEF HandleFindNodeResponse, TablesInv, TypeOK
    <2>5. CASE HandleStore(m)
      <3>1. m.id \in Keys
        BY <2>1, <2>5, PacketTypes DEF HandleStore
      <3>2. Stored(m_localStore[m.dst], m.id) \in Stores
        BY <1>1, <2>1, <3>1, StoreTypes
      <3>3. m_localStore' \in [Node -> Stores]
        BY <1>1, <2>1, <2>5, <3>2 DEF HandleStore, TypeOK
      <3>4. stored' \subseteq Node \X Keys \X (0..Horizon)
        BY <1>1, <2>1, <2>5, <3>1 DEF HandleStore, TypeOK
      <3> QED BY <1>1, <2>5, <3>3, <3>4 DEF HandleStore, TablesInv, TypeOK
    <2>6. CASE HandleGetValueRequest(m)
      <3> DEFINE new == GetValueResponse(m.dst, m.src, m.id)
      <3>1. m.id \in Keys
        BY <2>1, <2>6, PacketTypes DEF HandleGetValueRequest
      <3>2. new \in Packets /\ new.type = "value"
        BY <2>1, <3>1, PacketsMade DEF GetValueResponse
      <3>3. \A p \in net' : p \in net \/ p = new
        BY <2>6 DEF HandleGetValueRequest
      <3>4. \A p \in net' : p \in Packets /\ (p.type = "find_node" => p.id = Zero)
        BY <1>1, <3>2, <3>3 DEF TypeOK
      <3>5. Erased(m.dst, m.id) \in Stores
        BY <1>1, <2>1, <3>1, StoreTypes
      <3>6. m_localStore' \in [Node -> Stores]
        BY <1>1, <2>1, <2>6, <3>5 DEF HandleGetValueRequest, TypeOK
      <3> QED BY <1>1, <2>6, <3>4, <3>6 DEF HandleGetValueRequest, TablesInv, TypeOK
    <2>7. CASE HandleGetValueResponse(m)
      BY <1>1, <2>7 DEF HandleGetValueResponse, TablesInv, TypeOK
    <2> QED BY <1>11, <2>2, <2>3, <2>4, <2>5, <2>6, <2>7 DEF Receive
  <1>12. CASE UNCHANGED vars
    BY <1>1, <1>12 DEF vars, TablesInv, TypeOK
  <1> QED BY <1>6, <1>7, <1>8, <1>9, <1>10, <1>11, <1>12 DEF Next

\* The routing tables fit what they have been told, in any network.
THEOREM TablesWellKept == Spec => []TablesInv
  <1> QED BY TablesInit, TablesStep, PTL DEF Spec

\* Every id shares all its bits with itself.
LEMMA SharedBitsOwn ==
    ASSUME NEW x
    PROVE  SharedBits(x, x) = Bits
  <1>1. {k \in 0..(Bits - 1) : \A j \in 0..k : x[j] = x[j]} = 0..(Bits - 1)
    OBVIOUS
  <1>2. Cardinality(0..(Bits - 1)) = Bits
    BY FS_Interval, DHTAssumption
  <1> QED BY <1>1, <1>2 DEF SharedBits

\* The last bucket has a place for the node itself and for the one id that shares
\* all other bits: with two places in a bucket it never refuses the node itself.
LEMMA RoomForOneself ==
    ASSUME NEW n \in Node, NEW table, NEW known, TableFits(n, table, known), DHT_K_BUCKET_SIZE >= 2,
           n \in known
    PROVE  n \in Nodes(table)
  <1> SUFFICES ASSUME n \notin Nodes(table) PROVE FALSE
    OBVIOUS
  <1> DEFINE b == table[Bits - 1]
  <1>1. Bits - 1 \in Places /\ Bits - 1 \in 0..(Bits - 1) /\ GetBucketIndex(n, n) = Bits - 1
    BY BucketOf, DHTAssumption DEF Places
  <1>2. Full(b)
    BY <1>1 DEF TableFits
  <1>3. b \in SUBSET Node /\ n \notin b
    BY <1>1 DEF TableFits, Bucket, Nodes
  <1>4. \A y \in b : GetBucketIndex(n, y) = Bits - 1
    BY <1>1 DEF TableFits
  <1> HIDE DEF b
  <1>5. \A y \in b : FirstAt(NodeId[n], NodeId[y], Bits - 1)
    BY <1>3, <1>4, BucketOf
  <1>6. ASSUME NEW y \in b, NEW z \in b PROVE y = z
    <2>1. NodeId[n] \in ids /\ NodeId[y] \in ids /\ NodeId[z] \in ids /\ Bits \in Nat
      BY <1>3, DHTAssumption
    <2>2. \A j \in 0..((Bits - 1) - 1) : NodeId[y][j] = NodeId[z][j]
      BY <1>5 DEF FirstAt
    <2>3. NodeId[n][Bits - 1] # NodeId[y][Bits - 1] /\ NodeId[n][Bits - 1] # NodeId[z][Bits - 1]
      BY <1>5 DEF FirstAt
    <2>4. \A i \in 0..(Bits - 1) : NodeId[n][i] \in {0, 1} /\ NodeId[y][i] \in {0, 1} /\ NodeId[z][i] \in {0, 1}
      BY <2>1 DEF ids
    <2>5. NodeId[y][Bits - 1] = NodeId[z][Bits - 1]
      BY <1>1, <2>3, <2>4
    <2>6. ASSUME NEW i \in 0..(Bits - 1) PROVE NodeId[y][i] = NodeId[z][i]
      <3>1. i = Bits - 1 \/ i \in 0..((Bits - 1) - 1)
        BY <2>1
      <3> QED BY <2>2, <2>5, <3>1
    <2>7. NodeId[y] = NodeId[z]
      <3>1. /\ NodeId[y] = [i \in 0..(Bits - 1) |-> NodeId[y][i]]
            /\ NodeId[z] = [i \in 0..(Bits - 1) |-> NodeId[z][i]]
        BY <2>1 DEF ids
      <3> QED BY <2>6, <3>1
    <2> QED BY <1>3, <2>7, DHTAssumption
  <1>7. CASE b = {}
    BY <1>2, <1>7, FS_EmptySet, DHTAssumption DEF Full
  <1>8. CASE b # {}
    <2>1. PICK y \in b : TRUE
      BY <1>8
    <2>2. b = {y}
      BY <1>6, <2>1
    <2>3. Cardinality(b) = 1
      BY <2>2, FS_Singleton
    <2> QED BY <1>2, <2>3, DHTAssumption DEF Full
  <1> QED BY <1>7, <1>8

\* A routing table gives up no node for one further away, in whatever order
\* AddNode is called: all that a node is told of is in its table, or the table
\* has DHT_K_BUCKET_SIZE others at least as near.  (With one place in a bucket
\* the node itself may be missing.)
THEOREM NeighboursAreKept == DHT_K_BUCKET_SIZE >= 2 => (Spec => []NothingForgotten)
  <1> SUFFICES ASSUME DHT_K_BUCKET_SIZE >= 2 PROVE Spec => []NothingForgotten
    OBVIOUS
  <1>1. TablesInv => NothingForgotten
    <2> SUFFICES ASSUME TablesInv, NEW n \in Node, NEW x \in told[n] \ Nodes(m_buckets[n])
                 PROVE  Cardinality({y \in Nodes(m_buckets[n]) :
                           SharedBits(NodeId[n], NodeId[y]) >= SharedBits(NodeId[n], NodeId[x])})
                             >= DHT_K_BUCKET_SIZE
      BY DEF NothingForgotten
    <2> DEFINE table == m_buckets[n]
               g == GetBucketIndex(n, x)
               near == {y \in Nodes(table) :
                           SharedBits(NodeId[n], NodeId[y]) >= SharedBits(NodeId[n], NodeId[x])}
    <2>1. TableFits(n, table, told[n]) /\ x \in Node
      BY DEF TablesInv, TypeOK
    <2>2. x # n
      BY <2>1, RoomForOneself
    <2>3. g \in Places /\ SharedBits(NodeId[n], NodeId[x]) = g
      BY <2>1, <2>2, BucketOf, SharedBitsBefore
    <2>4. Full(table[g]) /\ table[g] \in SUBSET Node /\ table[g] \subseteq Nodes(table)
          /\ \A y \in table[g] : GetBucketIndex(n, y) = g
      BY <2>1, <2>3 DEF TableFits, Bucket, Nodes, Places
    <2>5. g \in Nat /\ g =< Bits - 1 /\ Bits \in Nat
      BY <2>3, DHTAssumption DEF Places
    <2>6. Nodes(table) \in SUBSET Node
      BY <2>1, FitsNodes
    <2> HIDE DEF g, table
    <2>7. ASSUME NEW y \in table[g]
          PROVE  SharedBits(NodeId[n], NodeId[y]) >= g
      <3>1. CASE y = n
        BY <2>5, <3>1, SharedBitsOwn
      <3>2. CASE y # n
        <4>1. SharedBits(NodeId[n], NodeId[y]) = g
          BY <2>4, <3>2, BucketOf, SharedBitsBefore
        <4> QED BY <2>5, <4>1
      <3> QED BY <3>1, <3>2
    <2>8. table[g] \in SUBSET near /\ near \in SUBSET Node
      BY <2>3, <2>4, <2>6, <2>7
    <2> HIDE DEF near
    <2>9. IsFiniteSet(near) /\ Cardinality(near) \in Nat
      BY <2>8, DHTAssumption, FS_Subset, FS_CardinalityType
    <2>10. IsFiniteSet(table[g]) /\ Cardinality(table[g]) =< Cardinality(near)
      BY <2>8, <2>9, FS_Subset
    <2>11. Cardinality(table[g]) \in Nat
      BY <2>10, FS_CardinalityType
    <2>12. Cardinality(near) >= DHT_K_BUCKET_SIZE
      BY <2>4, <2>9, <2>10, <2>11, DHTAssumption DEF Full
    <2> QED BY <2>12 DEF near, table
  <1> QED BY <1>1, TablesWellKept, PTL

-----------------------------------------------------------------------------
(* The answers to FIND_NODE *)

\* Value: the function by which it is defined exists.
LEMMA ValueBits ==
    ASSUME NEW x \in ids
    PROVE  \E v \in [0..Bits -> Nat] :
              /\ v[0] = 0 /\ \A i \in 1..Bits : v[i] = 2 * v[i - 1] + x[i - 1]
              /\ Value(x) = v[Bits]
  <1> DEFINE Reads(f, k) == f = [i \in 0..k |-> IF i = 0 THEN 0 ELSE 2 * f[i - 1] + x[i - 1]]
             v == CHOOSE f : Reads(f, Bits)
             Missing == {k \in Nat : k =< Bits /\ \A f : ~Reads(f, k)}
  <1>1. Bits \in Nat /\ \A i \in 0..(Bits - 1) : x[i] \in Nat
    BY DHTAssumption DEF ids
  <1>2. Value(x) = v[Bits]
    BY DEF Value
  <1>3. Missing = {}
    <2> SUFFICES ASSUME Missing # {} PROVE FALSE
      OBVIOUS
    <2>1. PICK k \in Missing : \A m \in Missing : k =< m
      BY LeastNumber
    <2>2. k \in Nat /\ k =< Bits /\ \A f : ~Reads(f, k)
      BY <2>1
    <2>3. CASE k = 0
      <3>1. Reads([i \in 0..0 |-> 0], 0)
        <4>1. \A i \in 0..0 : i = 0
          OBVIOUS
        <4> QED BY <4>1, Zenon
      <3> QED BY <2>2, <2>3, <3>1
    <2>4. CASE k # 0
      <3>1. k - 1 \in Nat /\ k - 1 < k /\ k - 1 =< Bits
        BY <1>1, <2>2, <2>4
      <3>2. k - 1 \notin Missing
        <4> HIDE DEF Missing
        <4> QED BY <2>1, <2>2, <3>1
      <3>3. PICK f : Reads(f, k - 1)
        <4> HIDE DEF Reads
        <4> QED BY <3>1, <3>2
      <3> DEFINE g == [i \in 0..k |-> IF i < k THEN f[i] ELSE 2 * f[i - 1] + x[i - 1]]
      <3>4. \A i \in 0..(k - 1) : f[i] = IF i = 0 THEN 0 ELSE 2 * f[i - 1] + x[i - 1]
        BY <3>3
      <3>5. \A i \in 0..k : g[i] = IF i = 0 THEN 0 ELSE 2 * g[i - 1] + x[i - 1]
        <4> SUFFICES ASSUME NEW i \in 0..k
                     PROVE  g[i] = IF i = 0 THEN 0 ELSE 2 * g[i - 1] + x[i - 1]
          OBVIOUS
        <4>1. CASE i = 0
          <5>1. 0 \in 0..(k - 1) /\ 0 < k
            BY <2>2, <3>1
          <5>2. f[0] = 0
            BY <3>4, <5>1
          <5> QED BY <4>1, <5>1, <5>2
        <4>2. CASE i # 0
          <5>1. i - 1 \in 0..(k - 1) /\ i - 1 \in 0..k /\ i - 1 < k
            BY <2>2, <4>2
          <5>2. g[i - 1] = f[i - 1]
            BY <5>1
          <5>3. g[i] = 2 * f[i - 1] + x[i - 1]
            <6>1. CASE i < k
              <7>1. i \in 0..(k - 1)
                BY <2>2, <6>1
              <7> QED BY <3>4, <4>2, <6>1, <7>1
            <6>2. CASE ~(i < k)
              BY <4>2, <6>2
            <6> QED BY <6>1, <6>2
          <5> QED BY <4>2, <5>2, <5>3
        <4> QED BY <4>1, <4>2
      <3>6. Reads(g, k)
        BY <3>5, Zenon
      <3> QED BY <2>2, <3>6
    <2> QED BY <2>3, <2>4
  <1>4. Reads(v, Bits)
    <2>1. Bits \notin Missing /\ Bits \in Nat /\ Bits =< Bits
      BY <1>1, <1>3
    <2>2. \E f : Reads(f, Bits)
      <3> HIDE DEF Reads
      <3> QED BY <2>1
    <2> QED BY <2>2, Zenon
  <1> HIDE DEF v
  <1>5. /\ v = [i \in 0..Bits |-> v[i]]
        /\ \A i \in 0..Bits : v[i] = IF i = 0 THEN 0 ELSE 2 * v[i - 1] + x[i - 1]
    BY <1>4
  <1>6. v[0] = 0 /\ \A i \in 1..Bits : v[i] = 2 * v[i - 1] + x[i - 1]
    <2>1. 0 \in 0..Bits /\ \A i \in 1..Bits : i \in 0..Bits /\ i # 0
      BY <1>1
    <2> QED BY <1>5, <2>1
  <1> DEFINE Bad == {i \in Nat : i =< Bits /\ v[i] \notin Nat}
  <1>7. Bad = {}
    <2> SUFFICES ASSUME Bad # {} PROVE FALSE
      OBVIOUS
    <2>1. PICK k \in Bad : \A m \in Bad : k =< m
      BY LeastNumber
    <2>2. k \in Nat /\ k =< Bits /\ v[k] \notin Nat /\ k # 0
      BY <1>6, <2>1
    <2>3. k - 1 \in Nat /\ k - 1 < k /\ k - 1 =< Bits /\ k \in 1..Bits /\ k - 1 \in 0..(Bits - 1)
      BY <1>1, <2>2
    <2>4. k - 1 \notin Bad
      <3> HIDE DEF Bad
      <3> QED BY <2>1, <2>2, <2>3
    <2>5. v[k - 1] \in Nat /\ x[k - 1] \in Nat
      BY <1>1, <2>3, <2>4
    <2> QED BY <1>6, <2>2, <2>3, <2>5
  <1>8. v \in [0..Bits -> Nat]
    BY <1>1, <1>5, <1>7
  <1> QED BY <1>2, <1>6, <1>8

\* CompareXORDistance compares distances as numbers.
LEMMA ComparesValues ==
    ASSUME NEW x \in ids, NEW y \in ids, CompareXORDistance(x, y)
    PROVE  Value(x) < Value(y)
  <1>1. PICK v \in [0..Bits -> Nat] :
              /\ v[0] = 0 /\ \A i \in 1..Bits : v[i] = 2 * v[i - 1] + x[i - 1]
              /\ Value(x) = v[Bits]
    BY ValueBits
  <1>2. PICK w \in [0..Bits -> Nat] :
              /\ w[0] = 0 /\ \A i \in 1..Bits : w[i] = 2 * w[i - 1] + y[i - 1]
              /\ Value(y) = w[Bits]
    BY ValueBits
  <1>3. PICK f \in Places : FirstAt(x, y, f) /\ x[f] = 0 /\ y[f] = 1
    BY ComparesFirst
  <1>4. Bits \in Nat /\ f \in Nat /\ f =< Bits - 1
    BY <1>3, DHTAssumption DEF Places
  <1>5. \A i \in 0..(Bits - 1) : x[i] \in 0..1 /\ y[i] \in 0..1
    BY DEF ids
  <1> DEFINE Equal == {i \in Nat : i =< f /\ v[i] # w[i]}
             Less == {i \in Nat : f < i /\ i =< Bits /\ ~(v[i] < w[i])}
  <1>6. Equal = {}
    <2> SUFFICES ASSUME Equal # {} PROVE FALSE
      OBVIOUS
    <2>1. PICK k \in Equal : \A m \in Equal : k =< m
      BY LeastNumber
    <2>2. k \in Nat /\ k =< f /\ v[k] # w[k] /\ k # 0
      BY <1>1, <1>2, <2>1
    <2>3. k - 1 \in Nat /\ k - 1 < k /\ k - 1 =< f /\ k \in 1..Bits /\ k - 1 \in 0..(f - 1)
      BY <1>4, <2>2
    <2>4. k - 1 \notin Equal
      <3> HIDE DEF Equal
      <3> QED BY <2>1, <2>2, <2>3
    <2>5. v[k - 1] = w[k - 1] /\ x[k - 1] = y[k - 1]
      BY <1>3, <2>3, <2>4 DEF FirstAt
    <2> QED BY <1>1, <1>2, <2>2, <2>3, <2>5
  <1>7. Less = {}
    <2> SUFFICES ASSUME Less # {} PROVE FALSE
      OBVIOUS
    <2>1. PICK k \in Less : \A m \in Less : k =< m
      BY LeastNumber
    <2>2. k \in Nat /\ f < k /\ k =< Bits /\ ~(v[k] < w[k])
      BY <2>1
    <2>3. k - 1 \in Nat /\ k - 1 < k /\ k - 1 =< Bits /\ k \in 1..Bits /\ k - 1 \in 0..(Bits - 1)
          /\ k - 1 \in 0..Bits
      BY <1>4, <2>2
    <2>4. v[k] = 2 * v[k - 1] + x[k - 1] /\ w[k] = 2 * w[k - 1] + y[k - 1]
          /\ v[k - 1] \in Nat /\ w[k - 1] \in Nat /\ x[k - 1] \in 0..1 /\ y[k - 1] \in 0..1
      BY <1>1, <1>2, <1>5, <2>3
    <2>5. CASE k - 1 = f
      <3>1. f \notin Equal /\ f =< f
        <4> HIDE DEF Equal
        <4> QED BY <1>4, <1>6
      <3>2. v[f] = w[f]
        BY <1>4, <3>1
      <3> QED BY <1>3, <2>2, <2>4, <2>5, <3>2
    <2>6. CASE k - 1 # f
      <3>1. f < k - 1
        BY <1>4, <2>2, <2>6
      <3>2. k - 1 \notin Less
        <4> HIDE DEF Less
        <4> QED BY <2>1, <2>2, <2>3
      <3>3. v[k - 1] < w[k - 1]
        BY <2>3, <3>1, <3>2
      <3> QED BY <2>2, <2>4, <3>3, SMTT(30)
    <2> QED BY <2>5, <2>6
  <1>8. v[Bits] < w[Bits]
    <2>1. Bits \notin Less
      <3> HIDE DEF Less
      <3> QED BY <1>7
    <2>2. Bits \in Nat /\ f < Bits /\ Bits =< Bits
      BY <1>4
    <2> QED BY <2>1, <2>2
  <1> QED BY <1>1, <1>2, <1>8

\* The distance to zero is the id itself.
LEMMA DistanceToZero ==
    ASSUME NEW x \in ids
    PROVE  XORDistance(x, Zero) = x
  <1>1. x = [i \in 0..(Bits - 1) |-> x[i]] /\ \A i \in 0..(Bits - 1) : x[i] \in {0, 1}
    BY DEF ids
  <1>2. ASSUME NEW i \in 0..(Bits - 1)
        PROVE  (IF x[i] = Zero[i] THEN 0 ELSE 1) = x[i]
    BY <1>1 DEF Zero
  <1> QED BY <1>1, <1>2 DEF XORDistance

\* An answer to FIND_NODE leaves out only nodes that are further away than all
\* those it lists, and only when it is full.
THEOREM AnswersListTheClosest == Spec => AnswersAreClosest
  <1>1. TablesInv /\ [Next]_vars =>
           [\A m \in net' \ net : m.type = "nodes" =>
               \A x \in Nodes(m_buckets[m.src]) \ ToSet(m.nodes) :
                  /\ Len(m.nodes) = DHT_K_BUCKET_SIZE
                  /\ \A y \in ToSet(m.nodes) : Value(NodeId[y]) < Value(NodeId[x])]_vars
    <2> SUFFICES ASSUME TablesInv, Next, NEW m \in net' \ net, m.type = "nodes",
                        NEW x \in Nodes(m_buckets[m.src]) \ ToSet(m.nodes)
                 PROVE  /\ Len(m.nodes) = DHT_K_BUCKET_SIZE
                        /\ \A y \in ToSet(m.nodes) : Value(NodeId[y]) < Value(NodeId[x])
      OBVIOUS
    <2>1. PICK p \in net : HandleFindNode(p) \/ HandleFindNodeRequest(p)
      <3>1. ~Tick
        BY DEF Tick
      <3>2. ~(\E c \in Clients : Discover(c))
        BY DEF Discover, FindNode
      <3>3. ~(\E c \in Clients : \E s \in Seeds : Handshake(c, s))
        <4> SUFFICES ASSUME NEW c \in Clients, NEW s \in Seeds, Handshake(c, s) PROVE FALSE
          OBVIOUS
        <4>1. PeerList(c, s, m_peers'[c]).type = "peer_list" /\ PeerList(s, c, m_peers'[s]).type = "peer_list"
          BY DEF PeerList
        <4>2. net' = net \cup {PeerList(c, s, m_peers'[c]), PeerList(s, c, m_peers'[s])}
          BY DEF Handshake
        <4> QED BY <4>1, <4>2
      <3>4. ~(\E n \in Node, k \in Keys : StoreValue(n, k))
        BY DEF StoreValue, StorePacket
      <3>5. ~(\E n \in Node, k \in Keys : GetValue(n, k))
        BY DEF GetValue, GetValuePacket
      <3>6. \A p \in net : ~HandlePeerList(p) /\ ~HandleFindNodeResponse(p) /\ ~HandleStore(p)
        BY DEF HandlePeerList, HandleFindNodeResponse, HandleStore
      <3>7. \A p \in net : ~HandleGetValueRequest(p) /\ ~HandleGetValueResponse(p)
        BY DEF HandleGetValueRequest, HandleGetValueResponse, GetValueResponse
      <3> QED BY <3>1, <3>2, <3>3, <3>4, <3>5, <3>6, <3>7 DEF Next, Receive
    <2> DEFINE list == GetClosestNodes(p.dst, p.id, DHT_K_BUCKET_SIZE)
    <2>2. p \in Packets /\ p.type = "find_node" /\ p.id = Zero
      BY <2>1 DEF TablesInv, TypeOK, HandleFindNode, HandleFindNodeRequest
    <2>3. p.dst \in Node /\ Zero \in ids
      BY <2>2, PacketTypes
    <2>4. m = FindNodeResponse(p.dst, p.src, list)
      BY <2>1 DEF HandleFindNode, HandleFindNodeRequest, FindNodes
    <2>5. m.src = p.dst /\ m.nodes = list
      BY <2>4 DEF FindNodeResponse
    <2>6. Nodes(m_buckets[p.dst]) \subseteq Node
      BY <2>3, FitsNodes DEF TablesInv
    <2> HIDE DEF list
    <2>7. /\ ToSet(list) \subseteq Nodes(m_buckets[p.dst])
          /\ Len(list) = DHT_K_BUCKET_SIZE
          /\ \A y \in ToSet(list) : Closer(Zero, y, x)
      BY <2>2, <2>3, <2>5, <2>6, ClosestProperties, DHTAssumption DEF list
    <2>8. ASSUME NEW y \in ToSet(list) PROVE Value(NodeId[y]) < Value(NodeId[x])
      <3>1. x \in Node /\ y \in Node
        BY <2>5, <2>6, <2>7
      <3>2. NodeId[x] \in ids /\ NodeId[y] \in ids
        BY <3>1, DHTAssumption
      <3>3. CompareXORDistance(NodeId[y], NodeId[x])
        BY <2>7, <3>2, DistanceToZero DEF Closer
      <3> QED BY <3>2, <3>3, ComparesValues
    <2> QED BY <2>5, <2>7, <2>8
  <1> QED BY <1>1, TablesWellKept, PTL DEF Spec, AnswersAreClosest

-----------------------------------------------------------------------------
(* Values *)

\* What is in a store was stored last at the time it says, and what was stored
\* last is there until it expires.
ValuesInv ==
    /\ \A n \in Node : \A k \in DOMAIN m_localStore[n] :
          \E t \in 0..now : /\ <<n, k, t>> \in stored
                           /\ m_localStore[n][k] = t + TTL
                           /\ \A u \in 0..Horizon : <<n, k, u>> \in stored => u =< t
    /\ \A n \in Node, k \in Keys, t \in 0..Horizon :
          <<n, k, t>> \in stored => t =< now /\ (now =< t + TTL => k \in DOMAIN m_localStore[n])

\* Before the clock wraps, times are what they say.
LEMMA TimesBeforeWrap ==
    ASSUME TypeOK, Horizon + TTL < TimeWrap
    PROVE  /\ GetCurrentTime = now /\ now \in Nat /\ TTL \in Nat /\ now =< Horizon
           /\ (GetCurrentTime + TTL) % TimeWrap = now + TTL
  <1>1. now \in Nat /\ now =< Horizon /\ Horizon \in Nat /\ TTL \in Nat /\ TimeWrap \in Nat \ {0}
    BY DHTAssumption DEF TypeOK
  <1>2. ASSUME NEW t \in Nat, t < TimeWrap PROVE t % TimeWrap = t
    BY <1>1, <1>2
  <1>3. now < TimeWrap /\ now + TTL < TimeWrap /\ now + TTL \in Nat
    BY <1>1
  <1>4. GetCurrentTime = now
    BY <1>1, <1>2, <1>3 DEF GetCurrentTime
  <1> QED BY <1>1, <1>2, <1>3, <1>4

\* Get takes only what has expired.
LEMMA ErasedValues ==
    ASSUME TypeOK, ValuesInv, Horizon + TTL < TimeWrap, NEW d \in Node, NEW k \in Keys,
           m_localStore' = [m_localStore EXCEPT ![d] = Erased(d, k)],
           UNCHANGED <<stored, now>>
    PROVE  ValuesInv'
  <1>1. now \in Nat /\ TTL \in Nat /\ GetCurrentTime = now
    BY TimesBeforeWrap
  <1>2. \A n \in Node : m_localStore'[n] = IF n = d THEN Erased(d, k) ELSE m_localStore[n]
    BY DEF TypeOK
  <1>3. \A n \in Node : \A x \in DOMAIN m_localStore'[n] :
           x \in DOMAIN m_localStore[n] /\ m_localStore'[n][x] = m_localStore[n][x]
    <2> SUFFICES ASSUME NEW n \in Node, NEW x \in DOMAIN m_localStore'[n]
                 PROVE  x \in DOMAIN m_localStore[n] /\ m_localStore'[n][x] = m_localStore[n][x]
      OBVIOUS
    <2>1. CASE n = d /\ ~Held(d, k)
      <3>1. m_localStore'[n] = [y \in DOMAIN m_localStore[d] \ {k} |-> m_localStore[d][y]]
        BY <1>2, <2>1 DEF Erased
      <3> QED BY <2>1, <3>1
    <2>2. CASE ~(n = d /\ ~Held(d, k))
      <3>1. m_localStore'[n] = m_localStore[n]
        BY <1>2, <2>2 DEF Erased
      <3> QED BY <3>1
    <2> QED BY <2>1, <2>2
  <1>4. ASSUME NEW n \in Node, NEW x \in Keys, NEW t \in 0..Horizon, <<n, x, t>> \in stored,
               now =< t + TTL
        PROVE  x \in DOMAIN m_localStore'[n]
    <2>1. x \in DOMAIN m_localStore[n]
      BY <1>4 DEF ValuesInv
    <2>2. CASE n = d /\ x = k
      <3>1. PICK u \in 0..now : m_localStore[n][x] = u + TTL /\ t =< u
        BY <1>4, <2>1 DEF ValuesInv
      <3>2. ~(now > m_localStore[n][x])
        <4>1. u \in Int /\ t \in Int
          BY <1>1
        <4> QED BY <1>1, <1>4, <3>1, <4>1
      <3>3. Held(d, k)
        BY <1>1, <2>1, <2>2, <3>2 DEF Held, IsExpired
      <3> QED BY <1>2, <2>1, <2>2, <3>3 DEF Erased
    <2>3. CASE n = d /\ x # k
      <3>1. CASE Held(d, k)
        BY <1>2, <2>1, <2>3, <3>1 DEF Erased
      <3>2. CASE ~Held(d, k)
        <4>1. m_localStore'[n] = [y \in DOMAIN m_localStore[d] \ {k} |-> m_localStore[d][y]]
          BY <1>2, <2>3, <3>2 DEF Erased
        <4> QED BY <2>1, <2>3, <4>1
      <3> QED BY <3>1, <3>2
    <2>4. CASE n # d
      BY <1>2, <2>1, <2>4
    <2> QED BY <2>2, <2>3, <2>4
  <1>5. \A n \in Node : \A x \in DOMAIN m_localStore'[n] :
          \E t \in 0..now : /\ <<n, x, t>> \in stored
                           /\ m_localStore'[n][x] = t + TTL
                           /\ \A u \in 0..Horizon : <<n, x, u>> \in stored => u =< t
    BY <1>3 DEF ValuesInv
  <1>6. \A n \in Node, x \in Keys, t \in 0..Horizon : <<n, x, t>> \in stored => t =< now
    BY DEF ValuesInv
  <1> QED BY <1>4, <1>5, <1>6 DEF ValuesInv

\* Store puts the value there, with the time it has from now.
LEMMA StoredValues ==
    ASSUME TypeOK, ValuesInv, Horizon + TTL < TimeWrap, NEW d \in Node, NEW k \in Keys,
           m_localStore' = [m_localStore EXCEPT ![d] = Stored(@, k)],
           stored' = stored \cup {<<d, k, now>>}, now' = now
    PROVE  ValuesInv'
  <1>1. now \in Nat /\ TTL \in Nat /\ (GetCurrentTime + TTL) % TimeWrap = now + TTL
    BY TimesBeforeWrap
  <1>2. /\ DOMAIN m_localStore'[d] = DOMAIN m_localStore[d] \cup {k}
        /\ m_localStore'[d][k] = now + TTL
        /\ \A x \in DOMAIN m_localStore[d] : x # k => m_localStore'[d][x] = m_localStore[d][x]
        /\ \A n \in Node : n # d => m_localStore'[n] = m_localStore[n]
    <2>1. \A n \in Node : n # d => m_localStore'[n] = m_localStore[n]
      BY DEF TypeOK
    <2>2. m_localStore'[d] = Stored(m_localStore[d], k)
      BY DEF TypeOK
    <2>3. m_localStore'[d] = [x \in DOMAIN m_localStore[d] \cup {k} |->
                                 IF x = k THEN now + TTL ELSE m_localStore[d][x]]
      BY <1>1, <2>2 DEF Stored
    <2> QED BY <2>1, <2>3
  <1>3. \A n \in Node : \A x, t : <<n, x, t>> \in stored' <=>
           <<n, x, t>> \in stored \/ (n = d /\ x = k /\ t = now)
    OBVIOUS
  <1>4. \A n \in Node, x \in Keys : \A t : <<n, x, t>> \in stored => t \in 0..Horizon /\ t =< now
    <2> SUFFICES ASSUME NEW n \in Node, NEW x \in Keys, NEW t, <<n, x, t>> \in stored
                 PROVE  t \in 0..Horizon /\ t =< now
      OBVIOUS
    <2>1. t \in 0..Horizon
      BY DEF TypeOK
    <2> QED BY <2>1 DEF ValuesInv
  <1>5. ASSUME NEW n \in Node, NEW x \in DOMAIN m_localStore'[n]
        PROVE  \E t \in 0..now : /\ <<n, x, t>> \in stored'
                                /\ m_localStore'[n][x] = t + TTL
                                /\ \A u \in 0..Horizon : <<n, x, u>> \in stored' => u =< t
    <2>1. CASE n = d /\ x = k
      <3>1. m_localStore'[n][x] = now + TTL
        BY <1>2, <2>1
      <3>2. now \in 0..now /\ <<n, x, now>> \in stored'
        BY <1>1, <1>3, <2>1
      <3>3. \A u \in 0..Horizon : <<n, x, u>> \in stored' => u =< now
        BY <1>1, <1>3, <1>4, <2>1
      <3> QED BY <3>1, <3>2, <3>3
    <2>2. CASE ~(n = d /\ x = k)
      <3>1. x \in DOMAIN m_localStore[n] /\ m_localStore'[n][x] = m_localStore[n][x]
        <4>1. CASE n = d
          BY <1>2, <1>5, <2>2, <4>1
        <4>2. CASE n # d
          BY <1>2, <1>5, <4>2
        <4> QED BY <4>1, <4>2
      <3>2. PICK t \in 0..now : /\ <<n, x, t>> \in stored /\ m_localStore[n][x] = t + TTL
                                /\ \A u \in 0..Horizon : <<n, x, u>> \in stored => u =< t
        BY <3>1 DEF ValuesInv
      <3>3. \A u \in 0..Horizon : <<n, x, u>> \in stored' => u =< t
        BY <1>3, <2>2, <3>2
      <3> QED BY <1>3, <3>1, <3>2, <3>3
    <2> QED BY <2>1, <2>2
  <1>6. ASSUME NEW n \in Node, NEW x \in Keys, NEW t \in 0..Horizon, <<n, x, t>> \in stored'
        PROVE  t =< now /\ (now =< t + TTL => x \in DOMAIN m_localStore'[n])
    <2>1. CASE n = d /\ x = k
      <3>1. x \in DOMAIN m_localStore'[n]
        BY <1>2, <2>1
      <3>2. t =< now
        BY <1>1, <1>3, <1>4, <1>6
      <3> QED BY <3>1, <3>2
    <2>2. CASE ~(n = d /\ x = k)
      <3>1. <<n, x, t>> \in stored
        BY <1>3, <1>6, <2>2
      <3>2. t =< now /\ (now =< t + TTL => x \in DOMAIN m_localStore[n])
        BY <3>1 DEF ValuesInv
      <3>3. x \in DOMAIN m_localStore[n] => x \in DOMAIN m_localStore'[n]
        BY <1>2
      <3> QED BY <3>2, <3>3
    <2> QED BY <2>1, <2>2
  <1> QED BY <1>5, <1>6 DEF ValuesInv

\* The invariant holds before anything is stored.
LEMMA ValuesInit == Init => ValuesInv
  <1> SUFFICES ASSUME Init PROVE ValuesInv
    OBVIOUS
  <1>1. \A n \in Node : DOMAIN m_localStore[n] = {}
    BY DEF Init
  <1> QED BY <1>1 DEF Init, ValuesInv

\* Every step keeps what is known of the values.
LEMMA ValuesStep ==
    ASSUME Horizon + TTL < TimeWrap
    PROVE  TablesInv /\ ValuesInv /\ [Next]_vars => ValuesInv'
  <1> SUFFICES ASSUME TablesInv, ValuesInv, [Next]_vars PROVE ValuesInv'
    OBVIOUS
  <1>1. TypeOK
    BY DEF TablesInv
  <1>2. CASE UNCHANGED <<m_localStore, stored, now>>
    BY <1>2 DEF ValuesInv
  <1>3. CASE Tick
    <2>1. now \in Nat /\ TTL \in Nat /\ now' = now + 1 /\ UNCHANGED <<m_localStore, stored>>
      BY <1>1, <1>3, TimesBeforeWrap DEF Tick
    <2>2. \A t \in 0..now : t \in 0..now'
      BY <2>1
    <2>3. \A n \in Node : \A k \in DOMAIN m_localStore[n] :
          \E t \in 0..now' : /\ <<n, k, t>> \in stored
                            /\ m_localStore[n][k] = t + TTL
                            /\ \A u \in 0..Horizon : <<n, k, u>> \in stored => u =< t
      BY <2>2 DEF ValuesInv
    <2>4. \A n \in Node, k \in Keys, t \in 0..Horizon :
          <<n, k, t>> \in stored => t =< now' /\ (now' =< t + TTL => k \in DOMAIN m_localStore[n])
      <3> SUFFICES ASSUME NEW n \in Node, NEW k \in Keys, NEW t \in 0..Horizon, <<n, k, t>> \in stored
                   PROVE  t =< now' /\ (now' =< t + TTL => k \in DOMAIN m_localStore[n])
        OBVIOUS
      <3>1. t =< now /\ (now =< t + TTL => k \in DOMAIN m_localStore[n])
        BY DEF ValuesInv
      <3> QED BY <2>1, <3>1
    <2> QED BY <2>1, <2>3, <2>4 DEF ValuesInv
  <1>4. ASSUME NEW n \in Node, NEW k \in Keys, GetValue(n, k)
        PROVE  ValuesInv'
    BY <1>1, <1>4, ErasedValues DEF GetValue
  <1>5. ASSUME NEW m \in net, HandleGetValueRequest(m)
        PROVE  ValuesInv'
    <2>1. m.dst \in Node /\ m.id \in Keys
      BY <1>1, <1>5, PacketTypes DEF HandleGetValueRequest, TypeOK
    <2> QED BY <1>1, <1>5, <2>1, ErasedValues DEF HandleGetValueRequest
  <1>6. ASSUME NEW m \in net, HandleStore(m)
        PROVE  ValuesInv'
    <2>1. m.dst \in Node /\ m.id \in Keys
      BY <1>1, <1>6, PacketTypes DEF HandleStore, TypeOK
    <2> QED BY <1>1, <1>6, <2>1, StoredValues DEF HandleStore
  <1>7. CASE \E c \in Clients : Discover(c) \/ \E s \in Seeds : Handshake(c, s)
    BY <1>2, <1>7 DEF Discover, Handshake
  <1>8. CASE \E n \in Node, k \in Keys : StoreValue(n, k)
    BY <1>2, <1>8 DEF StoreValue
  <1>9. ASSUME NEW m \in net,
               HandlePeerList(m) \/ HandleFindNode(m) \/ HandleFindNodeRequest(m)
                 \/ HandleFindNodeResponse(m) \/ HandleGetValueResponse(m)
        PROVE  ValuesInv'
    BY <1>2, <1>9 DEF HandlePeerList, HandleFindNode, HandleFindNodeRequest, HandleFindNodeResponse,
                      HandleGetValueResponse
  <1>10. CASE UNCHANGED vars
    BY <1>2, <1>10 DEF vars
  <1> QED BY <1>3, <1>4, <1>5, <1>6, <1>7, <1>8, <1>9, <1>10 DEF Next, Receive

\* As long as the clock, and the times that it gives to values, fit in 32 bits: a
\* value is kept until TTL seconds after it was stored last, whatever packets
\* arrive, and however late.
THEOREM ValuesAreKept == Horizon + TTL < TimeWrap => (Spec => []KeptWhileFresh)
  <1> SUFFICES ASSUME Horizon + TTL < TimeWrap PROVE Spec => []KeptWhileFresh
    OBVIOUS
  <1>1. TablesInv /\ ValuesInv => KeptWhileFresh
    <2> SUFFICES ASSUME TablesInv, ValuesInv, NEW s \in stored, now =< s[3] + TTL
                 PROVE  s[2] \in DOMAIN m_localStore[s[1]]
      BY DEF KeptWhileFresh
    <2>1. s[1] \in Node /\ s[2] \in Keys /\ s[3] \in 0..Horizon /\ s = <<s[1], s[2], s[3]>>
      BY DEF TablesInv, TypeOK
    <2> QED BY <2>1 DEF ValuesInv
  <1> QED BY <1>1, TablesInit, TablesStep, ValuesInit, ValuesStep, PTL DEF Spec

\* And it is served only until then.
THEOREM ValuesAreFresh == Horizon + TTL < TimeWrap => (Spec => FreshValues)
  <1> SUFFICES ASSUME Horizon + TTL < TimeWrap PROVE Spec => FreshValues
    OBVIOUS
  <1>1. TablesInv /\ ValuesInv /\ [Next]_vars =>
           [\A m \in net' \ net : m.type = "value" =>
               \E t \in 0..now : <<m.src, m.id, t>> \in stored /\ now =< t + TTL]_vars
    <2> SUFFICES ASSUME TablesInv, ValuesInv, Next, NEW m \in net' \ net, m.type = "value"
                 PROVE  \E t \in 0..now : <<m.src, m.id, t>> \in stored /\ now =< t + TTL
      OBVIOUS
    <2>1. PICK p \in net : HandleGetValueRequest(p)
      <3>1. ~Tick
        BY DEF Tick
      <3>2. ~(\E c \in Clients : Discover(c))
        BY DEF Discover, FindNode
      <3>3. ~(\E c \in Clients : \E s \in Seeds : Handshake(c, s))
        <4> SUFFICES ASSUME NEW c \in Clients, NEW s \in Seeds, Handshake(c, s) PROVE FALSE
          OBVIOUS
        <4>1. PeerList(c, s, m_peers'[c]).type = "peer_list" /\ PeerList(s, c, m_peers'[s]).type = "peer_list"
          BY DEF PeerList
        <4>2. net' = net \cup {PeerList(c, s, m_peers'[c]), PeerList(s, c, m_peers'[s])}
          BY DEF Handshake
        <4> QED BY <4>1, <4>2
      <3>4. ~(\E n \in Node, k \in Keys : StoreValue(n, k))
        BY DEF StoreValue, StorePacket
      <3>5. ~(\E n \in Node, k \in Keys : GetValue(n, k))
        BY DEF GetValue, GetValuePacket
      <3>6. \A p \in net : ~HandlePeerList(p) /\ ~HandleFindNodeResponse(p) /\ ~HandleStore(p)
        BY DEF HandlePeerList, HandleFindNodeResponse, HandleStore
      <3>7. \A p \in net : ~HandleFindNode(p) /\ ~HandleFindNodeRequest(p) /\ ~HandleGetValueResponse(p)
        BY DEF HandleFindNode, HandleFindNodeRequest, HandleGetValueResponse, FindNodeResponse
      <3> QED BY <3>1, <3>2, <3>3, <3>4, <3>5, <3>6, <3>7 DEF Next, Receive
    <2>2. m = GetValueResponse(p.dst, p.src, p.id) /\ Held(p.dst, p.id)
      BY <2>1 DEF HandleGetValueRequest
    <2>3. m.src = p.dst /\ m.id = p.id
      BY <2>2 DEF GetValueResponse
    <2>4. p.dst \in Node
      BY PacketTypes DEF TablesInv, TypeOK
    <2>5. p.id \in DOMAIN m_localStore[p.dst] /\ ~(now > m_localStore[p.dst][p.id])
      BY <2>2, TimesBeforeWrap DEF Held, IsExpired, TablesInv
    <2>6. PICK t \in 0..now : <<p.dst, p.id, t>> \in stored /\ m_localStore[p.dst][p.id] = t + TTL
      BY <2>4, <2>5 DEF ValuesInv
    <2>7. now =< t + TTL
      BY <2>5, <2>6, TimesBeforeWrap DEF TablesInv
    <2> QED BY <2>3, <2>6, <2>7
  <1> QED BY <1>1, TablesInit, TablesStep, ValuesInit, ValuesStep, PTL DEF Spec, FreshValues

-----------------------------------------------------------------------------
(* The strategy for the punches of a peer: PunchStrategy *)

-----------------------------------------------------------------------------
(* The inductive invariant *)

\* What a tracker has counted and flagged fits the phase it is in, until its
\* peer is reached.
Fits(t) ==
    /\ t \in Tracker
    /\ t.current_phase = "SinglePort" =>
          t.single_port_attempts < MAX_SINGLE_PORT_ATTEMPTS /\ ~t.single_port_failed
    /\ t.current_phase \in {"SwitchingToMulti", "MultiPort", "Failed"} =>
          t.single_port_attempts = MAX_SINGLE_PORT_ATTEMPTS /\ t.single_port_failed
    /\ t.current_phase \in {"SinglePort", "SwitchingToMulti", "MultiPort"} =>
          t.multi_port_attempts < MAX_MULTI_PORT_ATTEMPTS /\ ~t.multi_port_failed
    /\ t.current_phase = "Failed" =>
          t.multi_port_attempts = MAX_MULTI_PORT_ATTEMPTS /\ t.multi_port_failed

\* No tracker is ever left in the state in which the punch thread would be told
\* to switch, so that it never acts on an answer that is out of date.
StrategyInv ==
    /\ DOMAIN m_punchTrackers = Peer
    /\ m_punchTrackers = [p \in Peer |-> m_punchTrackers[p]]
    /\ \A p \in Peer : m_punchTrackers[p] = NoTracker \/ Fits(m_punchTrackers[p])
    /\ punching.switch = FALSE

\* What a step may do to a tracker.
Change(before, after) ==
    /\ Later(before.current_phase, after.current_phase)
    /\ after = NoTracker => before = NoTracker
    /\ after = NoTracker \/ Fits(after)

\* A peer without a tracker is in no phase.
LEMMA NoTrackerPhase == NoTracker.current_phase = "none" /\ ~Fits(NoTracker)
  BY DEF NoTracker, Fits, Tracker, Phases

\* A new tracker fits, and so does one that is reached.
LEMMA NewFits == Fits(NewTracker)
  BY PunchStrategyAssumption DEF Fits, NewTracker, Tracker, Phases

\* A tracker that is found fits.
LEMMA FoundFits ==
    ASSUME StrategyInv, NEW p \in Peer
    PROVE  /\ Fits(FindOrCreateTracker(p))
           /\ Later(m_punchTrackers[p].current_phase, FindOrCreateTracker(p).current_phase)
  <1>1. CASE m_punchTrackers[p] = NoTracker
    BY <1>1, NewFits, NoTrackerPhase DEF FindOrCreateTracker, NewTracker, Later
  <1>2. CASE m_punchTrackers[p] # NoTracker
    BY <1>2 DEF FindOrCreateTracker, StrategyInv, Later
  <1> QED BY <1>1, <1>2

\* A tracker fits when its phase becomes the last one.
LEMMA SuccessFits ==
    ASSUME NEW t, Fits(t)
    PROVE  /\ Fits([t EXCEPT !.current_phase = "Success"])
           /\ [t EXCEPT !.current_phase = "Success"].current_phase = "Success"
  BY DEF Fits, Tracker, Phases

\* A failed attempt counts, and ends its phase when it was the last one.
LEMMA FailureFits ==
    ASSUME NEW t, Fits(t)
    PROVE  /\ Fits(AfterFailure(t))
           /\ \/ AfterFailure(t).current_phase = t.current_phase
              \/ <<t.current_phase, AfterFailure(t).current_phase>> \in
                    {<<"SinglePort", "SwitchingToMulti">>, <<"MultiPort", "Failed">>}
  <1> USE PunchStrategyAssumption
  <1>a. t \in Tracker
    BY DEF Fits
  <1>1. CASE t.current_phase = "SinglePort"
    <2>1. CASE t.single_port_attempts + 1 >= MAX_SINGLE_PORT_ATTEMPTS
      <3> DEFINE v == [t EXCEPT !.single_port_attempts = @ + 1]
                 w == [v EXCEPT !.single_port_failed = TRUE]
                 u == [w EXCEPT !.current_phase = "SwitchingToMulti"]
      <3>1. AfterFailure(t) = u
        BY <1>1, <2>1, <1>a DEF AfterFailure, Tracker
      <3>2. v \in Tracker /\ v.single_port_attempts = MAX_SINGLE_PORT_ATTEMPTS
        BY <1>a, <1>1, <2>1 DEF Tracker, Fits
      <3>3. /\ v.multi_port_attempts = t.multi_port_attempts
            /\ v.multi_port_failed = t.multi_port_failed
        BY <1>a DEF Tracker
      <3> HIDE DEF v
      <3>4. /\ w \in Tracker /\ w.single_port_failed
            /\ w.single_port_attempts = v.single_port_attempts
            /\ w.multi_port_attempts = v.multi_port_attempts
            /\ w.multi_port_failed = v.multi_port_failed
        BY <3>2 DEF Tracker
      <3> HIDE DEF w
      <3>5. /\ u \in Tracker /\ u.current_phase = "SwitchingToMulti" /\ u.single_port_failed
            /\ u.single_port_attempts = w.single_port_attempts
            /\ u.multi_port_attempts = w.multi_port_attempts
            /\ u.multi_port_failed = w.multi_port_failed
        BY <3>4 DEF Tracker, Phases
      <3> HIDE DEF u
      <3>6. Fits(u)
        BY <1>1, <3>2, <3>3, <3>4, <3>5 DEF Fits
      <3> QED BY <1>1, <3>1, <3>5, <3>6
    <2>2. CASE ~(t.single_port_attempts + 1 >= MAX_SINGLE_PORT_ATTEMPTS)
      BY <1>1, <2>2 DEF Fits, AfterFailure, Tracker, Phases
    <2> QED BY <2>1, <2>2
  <1>2. CASE t.current_phase = "MultiPort"
    <2>1. CASE t.multi_port_attempts + 1 >= MAX_MULTI_PORT_ATTEMPTS
      <3> DEFINE v == [t EXCEPT !.multi_port_attempts = @ + 1]
                 w == [v EXCEPT !.multi_port_failed = TRUE]
                 u == [w EXCEPT !.current_phase = "Failed"]
      <3>1. AfterFailure(t) = u
        BY <1>2, <2>1, <1>a DEF AfterFailure, Tracker
      <3>2. v \in Tracker /\ v.multi_port_attempts = MAX_MULTI_PORT_ATTEMPTS
        BY <1>a, <1>2, <2>1 DEF Tracker, Fits
      <3>3. /\ v.single_port_attempts = t.single_port_attempts
            /\ v.single_port_failed = t.single_port_failed
        BY <1>a DEF Tracker
      <3> HIDE DEF v
      <3>4. /\ w \in Tracker /\ w.multi_port_failed
            /\ w.multi_port_attempts = v.multi_port_attempts
            /\ w.single_port_attempts = v.single_port_attempts
            /\ w.single_port_failed = v.single_port_failed
        BY <3>2 DEF Tracker
      <3> HIDE DEF w
      <3>5. /\ u \in Tracker /\ u.current_phase = "Failed" /\ u.multi_port_failed
            /\ u.multi_port_attempts = w.multi_port_attempts
            /\ u.single_port_attempts = w.single_port_attempts
            /\ u.single_port_failed = w.single_port_failed
        BY <3>4 DEF Tracker, Phases
      <3> HIDE DEF u
      <3>6. Fits(u)
        BY <1>2, <3>2, <3>3, <3>4, <3>5 DEF Fits
      <3> QED BY <1>2, <3>1, <3>5, <3>6
    <2>2. CASE ~(t.multi_port_attempts + 1 >= MAX_MULTI_PORT_ATTEMPTS)
      BY <1>2, <2>2 DEF Fits, AfterFailure, Tracker, Phases
    <2> QED BY <2>1, <2>2
  <1>3. CASE t.current_phase \notin {"SinglePort", "MultiPort"}
    BY <1>3 DEF AfterFailure
  <1> QED BY <1>1, <1>2, <1>3

\* The strategy goes on to several ports when it is told to switch.
LEMMA SwitchFits ==
    ASSUME NEW t, Fits(t), t.current_phase = "SwitchingToMulti"
    PROVE  /\ Fits([t EXCEPT !.current_phase = "MultiPort"])
           /\ [t EXCEPT !.current_phase = "MultiPort"].current_phase = "MultiPort"
  BY DEF Fits, Tracker, Phases

-----------------------------------------------------------------------------
(* Steps *)

\* The invariant holds before the first peer.
LEMMA InitInv == StrategyInit => StrategyInv
  BY DEF StrategyInit, StrategyInv, Idle

\* Setting one tracker to what it may become keeps the invariant.
LEMMA SetTrackerInv ==
    ASSUME StrategyInv, NEW p \in Peer, NEW t, SetTracker(p, t), Fits(t),
           Later(m_punchTrackers[p].current_phase, t.current_phase),
           punching'.switch = FALSE
    PROVE  StrategyInv' /\ \A q \in Peer : Change(m_punchTrackers[q], m_punchTrackers'[q])
  <1>1. m_punchTrackers' = [m_punchTrackers EXCEPT ![p] = t]
    BY DEF SetTracker
  <1>2. DOMAIN m_punchTrackers' = Peer
    BY <1>1 DEF StrategyInv
  <1>3. \A q \in Peer : m_punchTrackers'[q] = IF q = p THEN t ELSE m_punchTrackers[q]
    BY <1>1 DEF StrategyInv
  <1>4. m_punchTrackers' = [q \in Peer |-> m_punchTrackers'[q]]
    BY <1>1, <1>2
  <1>5. t # NoTracker
    BY NoTrackerPhase
  <1>6. ASSUME NEW q \in Peer PROVE Change(m_punchTrackers[q], m_punchTrackers'[q])
    <2>1. CASE q = p
      BY <2>1, <1>3, <1>5 DEF Change
    <2>2. CASE q # p
      <3>1. m_punchTrackers'[q] = m_punchTrackers[q]
        BY <2>2, <1>3
      <3> QED BY <3>1 DEF Change, Later, StrategyInv
    <2> QED BY <2>1, <2>2
  <1>7. \A q \in Peer : m_punchTrackers'[q] = NoTracker \/ Fits(m_punchTrackers'[q])
    BY <1>6 DEF Change
  <1>8. Fits(t)' <=> Fits(t)
    OBVIOUS
  <1>9. StrategyInv'
    BY <1>2, <1>4, <1>7 DEF StrategyInv, Fits, NoTracker
  <1> QED BY <1>6, <1>9

\* So does leaving them alone.
LEMMA SameTrackersInv ==
    ASSUME StrategyInv, UNCHANGED m_punchTrackers, punching'.switch = FALSE
    PROVE  StrategyInv' /\ \A q \in Peer : Change(m_punchTrackers[q], m_punchTrackers'[q])
  BY DEF StrategyInv, Change, Later, Fits, NoTracker

\* Every operation keeps the invariant, and changes each tracker as the phases allow.
LEMMA NextInv ==
    ASSUME StrategyInv, StrategyNext
    PROVE  StrategyInv' /\ \A q \in Peer : Change(m_punchTrackers[q], m_punchTrackers'[q])
  <1> DEFINE Goal == StrategyInv' /\ \A q \in Peer : Change(m_punchTrackers[q], m_punchTrackers'[q])
  <1>1. ASSUME NEW p \in Peer, NEW range \in 0..(MAX_PORT_RANGE + 1), StartPunchAuto(p, range)
        PROVE  Goal
    <2> DEFINE t == FindOrCreateTracker(p)
    <2>1. Fits(t) /\ Later(m_punchTrackers[p].current_phase, t.current_phase)
      BY FoundFits
    <2>2. punching'.switch = FALSE
      BY <1>1 DEF StartPunchAuto, StrategyInv
    <2>3. CASE t.current_phase = "SwitchingToMulti"
      <3> DEFINE u == [t EXCEPT !.current_phase = "MultiPort"]
      <3>1. SetTracker(p, u)
        BY <1>1, <2>3 DEF StartPunchAuto
      <3>2. Fits(u) /\ u.current_phase = "MultiPort"
        BY <2>1, <2>3, SwitchFits
      <3>3. m_punchTrackers[p].current_phase = "SwitchingToMulti"
        BY <2>3 DEF FindOrCreateTracker, NewTracker
      <3>4. Later(m_punchTrackers[p].current_phase, u.current_phase)
        BY <3>2, <3>3 DEF Later
      <3> HIDE DEF u
      <3> QED BY <2>2, <3>1, <3>2, <3>4, SetTrackerInv
    <2>4. CASE t.current_phase # "SwitchingToMulti"
      <3>1. SetTracker(p, t)
        BY <1>1, <2>4 DEF StartPunchAuto
      <3> HIDE DEF t
      <3> QED BY <2>1, <2>2, <3>1, SetTrackerInv
    <2> QED BY <2>3, <2>4
  <1>2. ASSUME NEW p \in Peer, NEW success \in BOOLEAN, AttemptMade(p, success)
        PROVE  Goal
    <2> DEFINE t == FindOrCreateTracker(p)
    <2>1. Fits(t) /\ Later(m_punchTrackers[p].current_phase, t.current_phase)
      BY FoundFits
    <2>2. punching'.switch = FALSE
      BY <1>2 DEF AttemptMade, StrategyInv
    <2>3. CASE success
      <3> DEFINE u == [t EXCEPT !.current_phase = "Success"]
      <3>1. SetTracker(p, u)
        BY <1>2, <2>3 DEF AttemptMade, UpdateTrackerAfterAttempt
      <3>2. Fits(u) /\ u.current_phase = "Success"
        BY <2>1, SuccessFits
      <3>3. Later(m_punchTrackers[p].current_phase, u.current_phase)
        BY <3>2 DEF Later
      <3> HIDE DEF u
      <3> QED BY <2>2, <3>1, <3>2, <3>3, SetTrackerInv
    <2>4. CASE ~success
      <3> DEFINE u == AfterFailure(t)
      <3>1. SetTracker(p, u)
        BY <1>2, <2>4 DEF AttemptMade, UpdateTrackerAfterAttempt
      <3>2. /\ Fits(u)
            /\ \/ u.current_phase = t.current_phase
               \/ <<t.current_phase, u.current_phase>> \in
                     {<<"SinglePort", "SwitchingToMulti">>, <<"MultiPort", "Failed">>}
        BY <2>1, FailureFits
      <3>3. Later(m_punchTrackers[p].current_phase, u.current_phase)
        <4>1. CASE m_punchTrackers[p] = NoTracker
          <5>1. t.current_phase = "SinglePort"
            BY <4>1 DEF FindOrCreateTracker, NewTracker
          <5>2. u.current_phase \in {"SinglePort", "SwitchingToMulti"}
            BY <3>2, <5>1
          <5> HIDE DEF u, t
          <5> QED BY <4>1, <5>2, NoTrackerPhase DEF Later
        <4>2. CASE m_punchTrackers[p] # NoTracker
          <5>1. t = m_punchTrackers[p]
            BY <4>2 DEF FindOrCreateTracker
          <5> HIDE DEF u, t
          <5> QED BY <3>2, <5>1 DEF Later
        <4> QED BY <4>1, <4>2
      <3> HIDE DEF u
      <3> QED BY <2>2, <3>1, <3>2, <3>3, SetTrackerInv
    <2> QED BY <2>3, <2>4
  <1>3. ASSUME NEW p \in Peer, NEW range \in 0..(MAX_PORT_RANGE + 1),
               HandleMultiPortHolePunchInfo(p, range)
        PROVE  Goal
    BY <1>3, SameTrackersInv DEF HandleMultiPortHolePunchInfo, StrategyInv
  <1>4. ASSUME NEW p \in Peer, NEW port \in 0..MAX_PORT_RANGE, RecordPunchSuccess(p, port)
        PROVE  Goal
    BY <1>4, SameTrackersInv DEF RecordPunchSuccess, StrategyInv
  <1>5. ASSUME NEW p \in Peer, CheckSwitch(p)
        PROVE  Goal
    <2>1. UNCHANGED m_punchTrackers
      BY <1>5 DEF CheckSwitch
    <2>2. ~ShouldSwitchToMultiPort(p)
      <3> SUFFICES ASSUME FindTracker(p), m_punchTrackers[p].current_phase = "SinglePort",
                          m_punchTrackers[p].single_port_attempts >= MAX_SINGLE_PORT_ATTEMPTS
                   PROVE  FALSE
        BY DEF ShouldSwitchToMultiPort
      <3>1. Fits(m_punchTrackers[p])
        BY DEF FindTracker, StrategyInv
      <3> QED BY <3>1, PunchStrategyAssumption DEF Fits, Tracker
    <2>3. punching'.switch = ShouldSwitchToMultiPort(p)
      BY <1>5, Zenon DEF CheckSwitch
    <2>4. punching'.switch = FALSE
      BY <2>2, <2>3, Zenon DEF ShouldSwitchToMultiPort
    <2> QED BY <2>1, <2>4, SameTrackersInv
  <1>6. ASSUME NEW p \in Peer, Expire(p)
        PROVE  Goal
    BY <1>6, SameTrackersInv DEF Expire, StrategyInv
  <1>7. CASE ActOnSwitch
    <2>1. UNCHANGED m_punchTrackers
      BY <1>7 DEF ActOnSwitch, StrategyInv
    <2>2. punching'.switch = FALSE
      BY <1>7 DEF ActOnSwitch, Idle
    <2> QED BY <2>1, <2>2, SameTrackersInv
  <1>8. CASE MarkSinglePortSuccess
    BY <1>8, SameTrackersInv DEF MarkSinglePortSuccess, StrategyInv
  <1>9. CASE TrackSuccess
    <2> DEFINE p == recording.peer
               u == [m_punchTrackers[p] EXCEPT !.current_phase = "Success"]
    <2>1. punching'.switch = FALSE
      BY <1>9 DEF TrackSuccess, StrategyInv
    <2>2. CASE p \in Peer /\ FindTracker(p)
      <3>1. SetTracker(p, u)
        BY <1>9, <2>2 DEF TrackSuccess
      <3>2. Fits(u) /\ u.current_phase = "Success"
        BY <2>2, SuccessFits DEF FindTracker, StrategyInv
      <3>3. Later(m_punchTrackers[p].current_phase, u.current_phase)
        BY <3>2 DEF Later
      <3> HIDE DEF u, p
      <3> QED BY <2>1, <2>2, <3>1, <3>2, <3>3, SetTrackerInv
    <2>3. CASE ~FindTracker(p)
      BY <1>9, <2>1, <2>3, SameTrackersInv DEF TrackSuccess
    <2>4. CASE p \notin Peer /\ FindTracker(p)
      <3>1. m_punchTrackers' = [m_punchTrackers EXCEPT ![p] = u]
        BY <1>9, <2>4 DEF TrackSuccess, SetTracker
      <3>2. UNCHANGED m_punchTrackers
        BY <3>1, <2>4 DEF StrategyInv
      <3> QED BY <2>1, <3>2, SameTrackersInv
    <2> QED BY <2>2, <2>3, <2>4
  <1>10. CASE CleanupMultiPortSessions
    BY <1>10, SameTrackersInv DEF CleanupMultiPortSessions, StrategyInv
  <1> QED
    BY <1>1, <1>2, <1>3, <1>4, <1>5, <1>6, <1>7, <1>8, <1>9, <1>10 DEF StrategyNext

\* Every step of the strategy keeps the invariant.
LEMMA StepInv == StrategyInv /\ [StrategyNext]_strategyVars => StrategyInv'
  <1> SUFFICES ASSUME StrategyInv, [StrategyNext]_strategyVars PROVE StrategyInv'
    OBVIOUS
  <1>1. CASE StrategyNext
    BY <1>1, NextInv
  <1>2. CASE UNCHANGED strategyVars
    BY <1>2 DEF strategyVars, StrategyInv, Fits, NoTracker
  <1> QED BY <1>1, <1>2

-----------------------------------------------------------------------------
(* Theorems *)

\* The counts and flags of every tracker fit its phase.
THEOREM TrackersFit == StrategySpec => []StrategyInv
  BY InitInv, StepInv, PTL DEF StrategySpec

\* The phases only advance, a success is final, and a peer is given up only
\* when every attempt has been made, however threads interleave.
THEOREM PhasesOnlyAdvance == StrategySpec => PhasesAdvance
  <1> DEFINE Advance ==
        \A p \in Peer :
          /\ Later(Phase(p), Phase(p)')
          /\ Phase(p)' = "Failed" =>
                /\ m_punchTrackers'[p].single_port_attempts = MAX_SINGLE_PORT_ATTEMPTS
                /\ m_punchTrackers'[p].multi_port_attempts = MAX_MULTI_PORT_ATTEMPTS
  <1>1. StrategyInv /\ [StrategyNext]_strategyVars => [Advance]_m_punchTrackers
    <2> SUFFICES ASSUME StrategyInv, StrategyNext PROVE Advance
      BY DEF strategyVars
    <2>1. \A q \in Peer : Change(m_punchTrackers[q], m_punchTrackers'[q])
      BY NextInv
    <2> QED BY <2>1, NoTrackerPhase DEF Change, Phase, Fits
  <1> QED BY <1>1, TrackersFit, PTL DEF StrategySpec, PhasesAdvance

\* The strategy by the phase is the strategy by the flags until the peer is
\* reached.
THEOREM StrategyViewsAgree == StrategySpec => []ViewsAgree
  <1>1. StrategyInv => ViewsAgree
    <2> SUFFICES ASSUME StrategyInv, NEW p \in Peer, Phase(p) # "Success"
                 PROVE  /\ ShouldUseMultiPortPunch(p) <=> GetPunchStrategy(p) = "MultiPort"
                        /\ p \in GetFailedTrackers <=> Phase(p) = "Failed"
      BY DEF ViewsAgree
    <2>1. CASE m_punchTrackers[p] = NoTracker
      BY <2>1, NoTrackerPhase
         DEF ShouldUseMultiPortPunch, GetPunchStrategy, GetFailedTrackers, FindTracker, Phase
    <2>2. CASE Fits(m_punchTrackers[p])
      BY <2>2, NoTrackerPhase
         DEF Fits, Tracker, Phases, ShouldUseMultiPortPunch, GetPunchStrategy,
             GetFailedTrackers, FindTracker, Phase
    <2> QED BY <2>1, <2>2 DEF StrategyInv
  <1> QED BY <1>1, TrackersFit, PTL

-----------------------------------------------------------------------------
(* The STUN client: no query ever discovers an address, since the parser looks for the *)
(* type of a response in bytes that it has just found to hold the magic cookie. *)

\* What begins with the four bytes of c has the third and the fourth of them.
LEMMA FirstFour ==
    ASSUME NEW m, NEW c, Len(c) = 4, SubSeq(m, 1, 4) = c
    PROVE  m[3] = c[3] /\ m[4] = c[4]
  <1> DEFINE S == {m[i] : i \in 1..4}
  <1>1. \A i \in 1..4 : m[i] \in S
    OBVIOUS
  <1> HIDE DEF S
  <1>2. \A i \in 1..(4 - 1 + 1) : SubSeq(m, 1, 4)[i] = m[1 + i - 1]
    BY <1>1, SubSeqProperties
  <1>3. SubSeq(m, 1, 4)[3] = m[1 + 3 - 1] /\ SubSeq(m, 1, 4)[4] = m[1 + 4 - 1]
    BY <1>2
  <1>4. 1 + 3 - 1 = 3 /\ 1 + 4 - 1 = 4
    OBVIOUS
  <1> QED BY <1>3, <1>4

\* IsValidBindingResponse takes nothing for a response, whatever the bytes:
\* bytes 2 and 3 would have to hold the low half of the cookie and 101 at once
\* (src/network/STUNParser.cpp:25-37).
THEOREM NoValidResponse == \A m : ~IsValidBindingResponse(m)
  <1> SUFFICES ASSUME NEW m, IsValidBindingResponse(m) PROVE FALSE
    OBVIOUS
  <1>1. SubSeq(m, 1, 4) = <<33, 18, 164, 66>> /\ U16(m, 3) = 101
    BY DEF IsValidBindingResponse, MAGIC_COOKIE, PT_STUN_BINDING_RESPONSE
  <1>2. m[3] = 164 /\ m[4] = 66
    <2> DEFINE c == <<33, 18, 164, 66>>
    <2>1. Len(c) = 4 /\ c[3] = 164 /\ c[4] = 66
      OBVIOUS
    <2>2. SubSeq(m, 1, 4) = c
      BY <1>1
    <2> HIDE DEF c
    <2> QED BY <2>1, <2>2, FirstFour
  <1>3. m[3] * 256 + m[4] = 101
    BY <1>1 DEF U16
  <1> QED BY <1>2, <1>3

\* Nothing is cached as discovered, and no hole punch is requested.
NothingDiscovered == m_stunCache.discovered = FALSE /\ requests = {}

\* Reading whatever has arrived changes no address.
LEMMA PollDiscoversNothing ==
    ASSUME NothingDiscovered, NEW t \in Thread, Poll(t)
    PROVE  NothingDiscovered'
  <1>1. ASSUME Return(t, NotDiscovered) PROVE NothingDiscovered'
    <2>1. NotDiscovered.discovered = FALSE
      BY DEF NotDiscovered
    <2>2. m_stunCache' = NotDiscovered \/ m_stunCache' = m_stunCache
      BY <1>1 DEF Return
    <2>3. requests' = requests
      BY <1>1, <2>1 DEF Return
    <2> QED BY <2>1, <2>2, <2>3 DEF NothingDiscovered
  <1>2. \A m : ~Discovers(t, m)
    BY NoValidResponse DEF Discovers
  <1>3. Return(t, NotDiscovered) \/ UNCHANGED <<m_stunCache, requests>>
    BY <1>2 DEF Poll
  <1> QED BY <1>1, <1>3 DEF NothingDiscovered

\* Whatever the servers answer, GetExternalAddress never returns an address and
\* RequestHolePunch never sends its request.
THEOREM QueriesDiscoverNothing == STUNSpec => []NothingDiscovered
  <1>1. STUNInit => NothingDiscovered
    BY DEF STUNInit, NothingDiscovered, NotDiscovered
  <1>2. NothingDiscovered /\ [STUNNext]_stunVars => NothingDiscovered'
    <2> SUFFICES ASSUME NothingDiscovered, [STUNNext]_stunVars PROVE NothingDiscovered'
      OBVIOUS
    <2> USE DEF NothingDiscovered
    <2>1. CASE InitializeSTUNServer
      BY <2>1 DEF InitializeSTUNServer, clientVars
    <2>2. CASE STUNServerLoop
      BY <2>2 DEF STUNServerLoop, clientVars
    <2>3. CASE StopSTUNServer
      BY <2>3 DEF StopSTUNServer, clientVars
    <2>4. CASE JoinSTUNServer
      BY <2>4 DEF JoinSTUNServer, clientVars
    <2>5. ASSUME NEW t \in Thread, GetExternalAddress(t) PROVE NothingDiscovered'
      BY <2>5 DEF GetExternalAddress, QuerySTUNServer
    <2>6. ASSUME NEW t \in Thread, AskCoordinator(t) PROVE NothingDiscovered'
      BY <2>6 DEF AskCoordinator, QuerySTUNServer
    <2>7. ASSUME NEW t \in Thread, Answer(t) PROVE NothingDiscovered'
      BY <2>7 DEF Answer
    <2>8. ASSUME NEW t \in Thread, PollQuery(t) PROVE NothingDiscovered'
      BY <2>8, PollDiscoversNothing DEF PollQuery
    <2>9. CASE UNCHANGED stunVars
      BY <2>9 DEF stunVars
    <2> QED BY <2>1, <2>2, <2>3, <2>4, <2>5, <2>6, <2>7, <2>8, <2>9 DEF STUNNext
  <1> QED BY <1>1, <1>2, PTL DEF STUNSpec
=============================================================================
