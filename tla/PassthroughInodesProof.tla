----------------------- MODULE PassthroughInodesProof -----------------------
(***************************************************************************)
(* Theorems about the inode table of crosvm's virtio-fs server, for any    *)
(* number of workers, names, objects and requests: the references that     *)
(* requests take and give back balance, and an entry is for one file.      *)
(*                                                                         *)
(* References are counted place by place, so that a step of one worker     *)
(* changes the sum by what its own record gains and loses; a request's     *)
(* record says what it has in hand at each step (Shapes).  That the file   *)
(* found by name is still the name's when it is entered rests on a request *)
(* that changes the directory being alone with it (Alone, Tracking).       *)
(***************************************************************************)
EXTENDS PassthroughInodes, FiniteSetTheorems, TLAPS

---------------------------------------------------------------------------
(* Counting.  The references in hand are counted place by place: a step of *)
(* one worker changes the count by what its own record gains and loses.    *)

\* The places of a reference in a sequence of them.
Has(s, i) == Cardinality({k \in DOMAIN s : s[k] = i})

\* A sequence holds finitely many references to an inode.
LEMMA HasNat ==
  ASSUME NEW s \in Seq(Nat), NEW i
  PROVE  IsFiniteSet({k \in DOMAIN s : s[k] = i}) /\ Has(s, i) \in Nat
  <1>1. IsFiniteSet(1 .. Len(s)) BY FS_Interval
  <1>2. {k \in DOMAIN s : s[k] = i} \in SUBSET (1 .. Len(s)) OBVIOUS
  <1>3. IsFiniteSet({k \in DOMAIN s : s[k] = i}) BY <1>1, <1>2, FS_Subset
  <1> QED BY <1>3, FS_CardinalityType DEF Has

\* The empty reply has none, a reply with one entry has that one (lookup).
LEMMA HasFew ==
  ASSUME NEW j \in Nat, NEW i
  PROVE  Has(<< >>, i) = 0 /\ Has(<<j>>, i) = IF j = i THEN 1 ELSE 0
  <1>1. {k \in DOMAIN << >> : << >>[k] = i} = {} OBVIOUS
  <1>2. CASE j = i
    <2>1. {k \in DOMAIN <<j>> : <<j>>[k] = i} = {1} BY <1>2
    <2> HIDE <1>2
    <2>2. Cardinality({1}) = 1 BY FS_Singleton
    <2> QED BY <1>1, <1>2, <2>1, <2>2, FS_EmptySet DEF Has
  <1>3. CASE j # i
    <2>1. {k \in DOMAIN <<j>> : <<j>>[k] = i} = {} BY <1>3
    <2> QED BY <1>1, <1>3, <2>1, FS_EmptySet DEF Has
  <1> QED BY <1>2, <1>3

\* An entry that readdirplus puts into its reply adds one (FillDirent).
LEMMA HasAppend ==
  ASSUME NEW s \in Seq(Nat), NEW j \in Nat, NEW i
  PROVE  Has(Append(s, j), i) = Has(s, i) + IF j = i THEN 1 ELSE 0
  <1> DEFINE old == {k \in DOMAIN s : s[k] = i}
             new == {k \in DOMAIN Append(s, j) : Append(s, j)[k] = i}
  <1>1. IsFiniteSet(old) /\ Cardinality(old) \in Nat BY Zenon, HasNat DEF Has
  <1>2. Len(s) + 1 \notin old OBVIOUS
  <1>3. CASE j = i
    <2>1. new = old \cup {Len(s) + 1} BY <1>3
    <2>2. Cardinality(new) = Cardinality(old) + 1
      <3> HIDE DEF old, new
      <3> QED BY Zenon, <1>1, <1>2, <2>1, FS_AddElement
    <2> QED BY Zenon, <1>3, <2>2 DEF Has
  <1>4. CASE j # i
    <2>1. new = old BY <1>4
    <2>2. Has(s, i) = Cardinality(old) /\ Has(Append(s, j), i) = Cardinality(new) BY DEF Has
    <2> HIDE DEF old, new
    <2> QED BY <1>1, <1>4, <2>1, <2>2
  <1> QED BY <1>3, <1>4

\* What a request has in hand: the entry it is at, and its reply so far.
LEMMA PlacesCount ==
  ASSUME NEW r, r.ent \in Nat, r.got \in Seq(Nat), NEW i
  PROVE  /\ IsFiniteSet(Places(r, i)) /\ Cardinality(Places(r, i)) \in Nat
         /\ Cardinality(Places(r, i)) = (IF r.ent = i THEN 1 ELSE 0) + Has(r.got, i)
  <1> DEFINE g == {k \in DOMAIN r.got : r.got[k] = i}
  <1>1. IsFiniteSet(g) /\ Cardinality(g) \in Nat BY Zenon, HasNat DEF Has
  <1>2. 0 \notin g OBVIOUS
  <1>3. CASE r.ent = i
    <2>1. Places(r, i) = g \cup {0} BY <1>3 DEF Places
    <2>2. IsFiniteSet(g \cup {0}) /\ Cardinality(g \cup {0}) = Cardinality(g) + 1
      <3> HIDE DEF g
      <3> QED BY <1>1, <1>2, FS_AddElement
    <2> QED BY <1>1, <1>3, <2>1, <2>2 DEF Has
  <1>4. CASE r.ent # i
    <2>1. Places(r, i) = g BY <1>4 DEF Places
    <2> QED BY <1>1, <1>4, <2>1 DEF Has
  <1> QED BY <1>3, <1>4

\* Records with finite places have finitely many tokens.
LEMMA UnionFinite ==
  ASSUME NEW V, IsFiniteSet(V), NEW P, \A w \in V : IsFiniteSet(P[w])
  PROVE  IsFiniteSet(UNION {{w} \X P[w] : w \in V})
  <1> DEFINE T == {{w} \X P[w] : w \in V}
             f == [w \in V |-> {w} \X P[w]]
  <1>1. f \in Surjection(V, T) BY Zenon DEF Surjection
  <1>2. IsFiniteSet(T)
    <2> HIDE DEF T, f
    <2> QED BY <1>1, FS_Surjection
  <1>3. \A t \in T : IsFiniteSet(t)
    <2> SUFFICES ASSUME NEW w \in V PROVE IsFiniteSet({w} \X P[w])
      OBVIOUS
    <2>1. IsFiniteSet({w}) BY Zenon, FS_Singleton
    <2>2. IsFiniteSet(P[w]) OBVIOUS
    <2> QED BY <2>1, <2>2, FS_Product
  <1> HIDE DEF T, f
  <1>4. IsFiniteSet(UNION T) BY <1>2, <1>3, FS_UNION
  <1> QED BY <1>4 DEF T

\* A set of tokens splits into one worker's and the others'.
LEMMA SplitCount ==
  ASSUME NEW V, IsFiniteSet(V), NEW P, \A w \in V : IsFiniteSet(P[w]), NEW w \in V
  PROVE  LET others == UNION {{v} \X P[v] : v \in V \ {w}} IN
         /\ IsFiniteSet(others) /\ Cardinality(others) \in Nat
         /\ Cardinality(P[w]) \in Nat
         /\ Cardinality(UNION {{v} \X P[v] : v \in V}) = Cardinality(others) + Cardinality(P[w])
  <1> DEFINE others == UNION {{v} \X P[v] : v \in V \ {w}}
             mine == {w} \X P[w]
             all == UNION {{v} \X P[v] : v \in V}
  <1>1. all = others \cup mine OBVIOUS
  <1>2. others \cap mine = {} OBVIOUS
  <1>3. IsFiniteSet(others)
    <2>1. IsFiniteSet(V \ {w}) BY FS_RemoveElement
    <2> QED BY <2>1, UnionFinite
  <1>4. IsFiniteSet({w}) /\ Cardinality({w}) = 1 BY Zenon, FS_Singleton
  <1>5. IsFiniteSet(P[w]) /\ Cardinality(P[w]) \in Nat BY FS_CardinalityType
  <1>6. IsFiniteSet(mine) /\ Cardinality(mine) = Cardinality(P[w])
    BY <1>4, <1>5, FS_Product
  <1> HIDE DEF others, mine, all
  <1>7. /\ Cardinality(others) \in Nat
        /\ Cardinality(all) = Cardinality(others) + Cardinality(mine) - Cardinality(others \cap mine)
    BY <1>1, <1>3, <1>6, FS_Union, FS_CardinalityType
  <1>8. Cardinality(others \cap mine) = 0 BY <1>2, FS_EmptySet
  <1>9. Cardinality(all) = Cardinality(others) + Cardinality(P[w])
    BY <1>5, <1>6, <1>7, <1>8
  <1> QED BY <1>3, <1>5, <1>7, <1>9 DEF others, all
---------------------------------------------------------------------------
(* The invariant.                                                          *)

PCs == {"idle", "stat", "check", "open", "add", "create", "addnew", "openat", "atomic", "fill",
        "undo"}

Ops == {"none", "lookup", "make", "link", "tmp", "create", "dirs", "atomic", "excl"}

Recs == [pc : PCs, op : Ops, n : Names \cup {None}, todo : SUBSET Names,
         st : Nat, f : Nat, ent : Nat, got : Seq(Nat)]

Entries == [key : Nat, file : Nat, refs : Nat]

\* The state has its type; an inode number is given to one entry only.
TypeOK ==
    /\ names \in [Names -> Nat]
    /\ DOMAIN inodes \subseteq Inodes /\ inodes \in [DOMAIN inodes -> Entries]
    /\ nextInode \in Nat /\ \A i \in DOMAIN inodes : i < nextInode
    /\ handles \subseteq [inode : Nat, file : Nat] /\ \A h \in handles : h.inode < nextInode
    /\ workers \in [Workers -> Recs]
    /\ held \in [Inodes -> Nat]
    /\ orphans \in [Inodes -> Nat]
    /\ raced \in BOOLEAN

\* What a request has in hand at each of its steps.
Shape(r) ==
    /\ r.pc = "idle" => r = Idle
    /\ r.pc # "idle" => r.n \in Names
    /\ r.pc \in {"stat", "check", "open", "add", "create", "addnew"} => r.ent = 0
    /\ r.pc \in {"create", "addnew", "openat"} => r.op \in {"create", "atomic", "excl"}
    /\ r.pc = "atomic" => r.op # "dirs"
    /\ r.pc = "fill" => r.op = "dirs"
    /\ r.op # "dirs" => r.got = << >>

Shapes == \A w \in Workers : Shape(workers[w]) /\ workers[w].ent < nextInode

\* While the guest locks its directories, a request that changes one has no
\* other beside it.
Alone ==
    ~raced => \A v, w \in Workers :
        v # w /\ workers[v].pc # "idle" /\ workers[w].pc # "idle" =>
            Shared(workers[v].op) /\ Shared(workers[w].op)

\* What a request found by name is still what the name has.
Tracks(r, dir, table) ==
    /\ r.pc \in {"check", "open", "addnew"} => r.st = dir[r.n]
    /\ r.pc \in {"add", "addnew"} => r.f = r.st
    /\ r.pc = "openat" /\ r.ent \in DOMAIN table => table[r.ent].key = dir[r.n]

Tracking == ~raced => \A w \in Workers : Tracks(workers[w], names, inodes)

Base == TypeOK /\ Shapes
IInv == Base /\ RefsAccounted /\ Alone /\ Tracking /\ EntryIsFile

---------------------------------------------------------------------------
(* References to an inode that the guest has or will get.                  *)
Live(i) == held[i] + InHand(i)
Refs(i) == IF i \in DOMAIN inodes THEN inodes[i].refs ELSE 0
Mine(r, i) == (IF r.ent = i THEN 1 ELSE 0) + Has(r.got, i)

\* The inode numbers are positive numbers.
LEMMA InodeNumbers == Inodes \subseteq Nat \ {0}
  <1>1. Cardinality(Names) \in Nat BY SizesAssumption, FS_CardinalityType
  <1>2. MaxInode \in Int BY <1>1, SizesAssumption DEF MaxInode
  <1> QED BY <1>2 DEF Inodes

\* The table has no entry under a number that is still to be given out.
LEMMA NumberedBelow ==
  ASSUME TypeOK
  PROVE  \A i \in DOMAIN inodes : ~(i >= nextInode)
  BY InodeNumbers DEF TypeOK

\* A step of one worker changes the references in hand by those of its own
\* record.
LEMMA InHandStep ==
  ASSUME Base, NEW w \in Workers, NEW q \in Recs, workers' = [workers EXCEPT ![w] = q], NEW i
  PROVE  /\ InHand(i) \in Nat /\ InHand(i)' \in Nat
         /\ Mine(workers[w], i) \in Nat /\ Mine(q, i) \in Nat
         /\ Mine(workers[w], i) <= InHand(i)
         /\ InHand(i)' = InHand(i) - Mine(workers[w], i) + Mine(q, i)
  <1> DEFINE P == [v \in Workers |-> Places(workers[v], i)]
             Q == [v \in Workers |-> Places(workers'[v], i)]
             rest == UNION {{v} \X P[v] : v \in Workers \ {w}}
             restq == UNION {{v} \X Q[v] : v \in Workers \ {w}}
  <1>1. /\ workers \in [Workers -> Recs] /\ workers' \in [Workers -> Recs]
        /\ workers'[w] = q /\ \A v \in Workers \ {w} : workers'[v] = workers[v]
    BY DEF Base, TypeOK
  <1>2. \A r \in Recs : /\ IsFiniteSet(Places(r, i)) /\ Cardinality(Places(r, i)) = Mine(r, i)
                        /\ Mine(r, i) \in Nat
    <2> SUFFICES ASSUME NEW r \in Recs
                 PROVE  /\ IsFiniteSet(Places(r, i)) /\ Cardinality(Places(r, i)) = Mine(r, i)
                        /\ Mine(r, i) \in Nat
      OBVIOUS
    <2>1. r.ent \in Nat /\ r.got \in Seq(Nat) BY DEF Recs
    <2> QED BY Zenon, <2>1, PlacesCount DEF Mine
  <1>3. (\A v \in Workers : IsFiniteSet(P[v])) /\ (\A v \in Workers : IsFiniteSet(Q[v]))
    BY <1>1, <1>2
  <1>4. P[w] = Places(workers[w], i) /\ Q[w] = Places(q, i) /\ rest = restq
    BY <1>1
  <1>5. /\ InHand(i) = Cardinality(UNION {{v} \X P[v] : v \in Workers})
        /\ InHand(i)' = Cardinality(UNION {{v} \X Q[v] : v \in Workers})
    BY Zenon DEF InHand
  <1> HIDE DEF P, Q
  <1>6. Cardinality(rest) \in Nat
    <2>1. IsFiniteSet(Workers \ {w}) BY SizesAssumption, FS_RemoveElement
    <2>2. IsFiniteSet(rest) BY <1>3, <2>1, UnionFinite
    <2> QED BY <2>2, FS_CardinalityType
  <1>6a. Cardinality(UNION {{v} \X P[v] : v \in Workers}) = Cardinality(rest) + Cardinality(P[w])
    BY Zenon, <1>3, SizesAssumption, SplitCount
  <1>7. Cardinality(UNION {{v} \X Q[v] : v \in Workers}) = Cardinality(restq) + Cardinality(Q[w])
    BY Zenon, <1>3, SizesAssumption, SplitCount
  <1>8. Cardinality(P[w]) = Mine(workers[w], i) /\ Cardinality(Q[w]) = Mine(q, i)
        /\ Mine(workers[w], i) \in Nat /\ Mine(q, i) \in Nat
    BY <1>1, <1>2, <1>4
  <1> HIDE DEF rest, restq
  <1> QED BY <1>4, <1>5, <1>6, <1>6a, <1>7, <1>8

\* References in hand are a number even when no worker steps.
LEMMA InHandNat == ASSUME Base, NEW i PROVE InHand(i) \in Nat
  <1> DEFINE P == [v \in Workers |-> Places(workers[v], i)]
  <1>1. \A v \in Workers : IsFiniteSet(P[v])
    <2> SUFFICES ASSUME NEW v \in Workers PROVE IsFiniteSet(Places(workers[v], i))
      OBVIOUS
    <2>1. workers[v].ent \in Nat /\ workers[v].got \in Seq(Nat) BY DEF Base, TypeOK, Recs
    <2> QED BY <2>1, PlacesCount
  <1>2. InHand(i) = Cardinality(UNION {{v} \X P[v] : v \in Workers}) BY DEF InHand
  <1> HIDE DEF P
  <1>3. IsFiniteSet(UNION {{v} \X P[v] : v \in Workers}) BY <1>1, SizesAssumption, UnionFinite
  <1> QED BY <1>2, <1>3, FS_CardinalityType

---------------------------------------------------------------------------
(* What a step of one worker keeps.                                        *)

\* An entry keeps its key and its file as long as it is in the table.
Kept ==
    /\ nextInode' \in Nat /\ nextInode <= nextInode'
    /\ \A i \in DOMAIN inodes' : i < nextInode =>
         /\ i \in DOMAIN inodes
         /\ inodes'[i].key = inodes[i].key /\ inodes'[i].file = inodes[i].file

\* The records of the workers stay well-formed.
LEMMA ShapesStep ==
  ASSUME Base, NEW w \in Workers, NEW q \in Recs, workers' = [workers EXCEPT ![w] = q],
         Shape(q), q.ent < nextInode', nextInode' \in Nat, nextInode <= nextInode'
  PROVE  workers' \in [Workers -> Recs] /\ Shapes'
  <1>1. /\ workers' \in [Workers -> Recs]
        /\ \A v \in Workers : workers'[v] = IF v = w THEN q ELSE workers[v]
    BY DEF Base, TypeOK
  <1>2. \A v \in Workers : Shape(workers'[v])
    BY <1>1 DEF Base, Shapes
  <1>3. \A v \in Workers : workers'[v].ent < nextInode'
    <2> SUFFICES ASSUME NEW v \in Workers, v # w PROVE workers[v].ent < nextInode'
      BY <1>1
    <2>1. workers[v].ent \in Nat /\ nextInode \in Nat /\ workers[v].ent < nextInode
      BY DEF Base, TypeOK, Recs, Shapes
    <2> QED BY <2>1
  <1>4. Shapes' <=> \A v \in Workers : Shape(workers'[v]) /\ workers'[v].ent < nextInode'
    BY DEF Shapes, Shape
  <1> QED BY <1>1, <1>2, <1>3, <1>4

\* A request that goes on or ends is beside no other than before.
LEMMA AloneStep ==
  ASSUME Base, Alone, NEW w \in Workers, NEW q \in Recs, workers' = [workers EXCEPT ![w] = q],
         raced' = raced, workers[w].pc # "idle", q.pc = "idle" \/ q.op = workers[w].op
  PROVE  Alone'
  <1>1. \A v \in Workers : workers'[v] = IF v = w THEN q ELSE workers[v]
    BY DEF Base, TypeOK
  <1> QED BY <1>1 DEF Alone

\* The other requests still have what they found: the directory changes only
\* under a request that is alone.
LEMMA TrackingStep ==
  ASSUME Base, Alone, Tracking, NEW w \in Workers, NEW q \in Recs,
         workers' = [workers EXCEPT ![w] = q], raced' = raced, workers[w].pc # "idle",
         names' = names \/ ~Shared(workers[w].op), Kept,
         ~raced => Tracks(q, names', inodes')
  PROVE  Tracking'
  <1>1. \A v \in Workers : workers'[v] = IF v = w THEN q ELSE workers[v]
    BY DEF Base, TypeOK
  <1> SUFFICES ASSUME ~raced, NEW v \in Workers, v # w
               PROVE  Tracks(workers[v], names', inodes')
    BY <1>1 DEF Tracking
  <1>2. Tracks(workers[v], names, inodes) BY DEF Tracking
  <1>3. CASE workers[v].pc = "idle" BY <1>3 DEF Tracks
  <1>4. CASE workers[v].pc # "idle"
    <2>1. names' = names BY <1>4 DEF Alone
    <2>2. workers[v].ent < nextInode BY DEF Base, Shapes
    <2> QED BY <1>2, <2>1, <2>2 DEF Tracks, Kept
  <1> QED BY <1>3, <1>4

\* RefsAccounted in terms of Live and Refs.
LEMMA Accounted == RefsAccounted <=> \A i \in Inodes : Live(i) + orphans[i] = Refs(i)
  BY DEF RefsAccounted, Live, Refs

\* The accounts balance again when both sides change by as much.
LEMMA AccountStep ==
  ASSUME Base, RefsAccounted,
         \A i \in Inodes : /\ Live(i) \in Nat /\ Live(i)' \in Nat /\ orphans'[i] \in Nat
                           /\ Refs(i)' \in Int
                           /\ Live(i)' + orphans'[i] - Refs(i)' = Live(i) + orphans[i] - Refs(i)
  PROVE  RefsAccounted'
  <1> SUFFICES ASSUME NEW i \in Inodes PROVE Live(i)' + orphans'[i] = Refs(i)'
    BY DEF RefsAccounted, Live, Refs
  <1>1. Live(i) + orphans[i] = Refs(i) BY Accounted
  <1>2. orphans[i] \in Nat /\ Refs(i) \in Nat
    BY DEF Base, TypeOK, Refs, Entries
  <1> QED BY <1>1, <1>2

---------------------------------------------------------------------------
(* Requests that start.                                                    *)

\* A request that starts has nothing in hand; it changes the directory only
\* if it is not one of those that share it.
LEMMA StartStep ==
  ASSUME IInv, NEW w \in Workers, NEW op, NEW n, NEW q \in Recs,
         Start(w, op, n), workers' = [workers EXCEPT ![w] = q],
         UNCHANGED <<inodes, nextInode, handles, held, orphans>>,
         names' \in [Names -> Nat], names' = names \/ ~Shared(op),
         q.op = op, q.pc # "idle", Shape(q), q.ent = 0, q.got = << >>, Tracks(q, names', inodes)
  PROVE  IInv'
  <1>0. Base /\ RefsAccounted /\ Alone /\ Tracking /\ EntryIsFile
    BY DEF IInv
  <1>1. /\ workers \in [Workers -> Recs]
        /\ \A v \in Workers : workers'[v] = IF v = w THEN q ELSE workers[v]
    BY <1>0 DEF Base, TypeOK
  <1>2. workers[w].pc = "idle" /\ workers[w] = Idle
    BY <1>0 DEF Start, Base, Shapes, Shape
  <1>3. raced' = (raced \/ \E b \in Busy : ~(Shared(op) /\ Shared(workers[b].op)))
    BY DEF Start
  <1>4. nextInode \in Nat /\ 0 < nextInode
    <2>1. workers[w].ent = 0 /\ workers[w].ent < nextInode /\ nextInode \in Nat
      BY <1>0, <1>2 DEF Base, Shapes, TypeOK, Idle
    <2> QED BY <2>1
  <1>5. workers' \in [Workers -> Recs] /\ Shapes'
    <2>1. q.ent < nextInode' /\ nextInode' \in Nat /\ nextInode <= nextInode' BY <1>4
    <2> QED BY Zenon, <1>0, <2>1, ShapesStep
  <1>6. TypeOK'
    BY <1>0, <1>3, <1>5 DEF Base, TypeOK
  <1>7. RefsAccounted'
    <2> SUFFICES ASSUME NEW i \in Inodes
                 PROVE  /\ Live(i) \in Nat /\ Live(i)' \in Nat /\ orphans'[i] \in Nat
                        /\ Refs(i)' \in Int
                        /\ Live(i)' + orphans'[i] - Refs(i)' = Live(i) + orphans[i] - Refs(i)
      BY <1>0, AccountStep
    <2>1. /\ InHand(i) \in Nat /\ InHand(i)' \in Nat /\ Mine(workers[w], i) \in Nat
          /\ Mine(q, i) \in Nat
          /\ InHand(i)' = InHand(i) - Mine(workers[w], i) + Mine(q, i)
      BY Zenon, <1>0, InHandStep
    <2>2. Mine(workers[w], i) = Mine(q, i)
      BY <1>2 DEF Mine, Idle
    <2>3. held[i] \in Nat /\ orphans[i] \in Nat /\ Refs(i) \in Nat /\ Refs(i)' = Refs(i)
      BY <1>0 DEF Base, TypeOK, Refs, Entries
    <2> QED BY <2>1, <2>2, <2>3 DEF Live
  <1>8. Alone'
    <2> SUFFICES ASSUME ~raced', NEW u \in Workers, NEW v \in Workers, u # v,
                        workers'[u].pc # "idle", workers'[v].pc # "idle"
                 PROVE  Shared(workers'[u].op) /\ Shared(workers'[v].op)
      BY DEF Alone
    <2>1. \A b \in Workers : workers[b].pc # "idle" => Shared(op) /\ Shared(workers[b].op)
      BY Zenon, <1>3 DEF Busy
    <2> QED BY <1>1, <2>1
  <1>9. Tracking'
    <2> SUFFICES ASSUME ~raced', NEW v \in Workers, v # w
                 PROVE  Tracks(workers[v], names', inodes)
      BY <1>1 DEF Tracking
    <2>1. CASE workers[v].pc = "idle"
      BY <2>1 DEF Tracks
    <2>2. CASE workers[v].pc # "idle"
      BY Zenon, <1>0, <1>3, <2>2 DEF Busy, Tracking
    <2> QED BY <2>1, <2>2
  <1>10. EntryIsFile'
    BY Zenon, <1>0, <1>3 DEF EntryIsFile
  <1> QED BY <1>5, <1>6, <1>7, <1>8, <1>9, <1>10 DEF IInv, Base


\* An idle worker has a record of the type, with nothing in hand.
LEMMA IdleRecord ==
  /\ Idle \in Recs /\ Idle.pc = "idle" /\ Idle.op = "none" /\ Idle.ent = 0 /\ Idle.got = << >>
  /\ Shape(Idle) /\ \A i \in Nat \ {0} : Mine(Idle, i) = 0
  <1>1. << >> \in Seq(Nat) /\ 0 \in Nat OBVIOUS
  <1>2. /\ Idle \in Recs /\ Idle.pc = "idle" /\ Idle.op = "none" /\ Idle.ent = 0
        /\ Idle.got = << >>
    BY <1>1 DEF Idle, Recs, PCs, Ops, None
  <1>3. Shape(Idle) BY <1>2 DEF Shape
  <1>4. \A i \in Nat \ {0} : Mine(Idle, i) = 0
    <2> SUFFICES ASSUME NEW i \in Nat \ {0} PROVE Mine(Idle, i) = 0
      OBVIOUS
    <2>1. Has(<< >>, i) = 0 BY Zenon, <1>1, HasFew
    <2> QED BY <1>2, <2>1 DEF Mine
  <1> QED BY <1>2, <1>3, <1>4

\* Lookup, atomic_open, readdirplus and create only start.
LEMMA QuietStarts ==
  ASSUME IInv, NEW w \in Workers, NEW n \in Names,
         \/ Lookup(w, n)
         \/ \E op \in {"atomic", "excl"} : AtomicOpen(w, op, n)
         \/ ReadDirPlus(w, n)
         \/ Create(w, n)
  PROVE  IInv'
  <1>0. names \in [Names -> Nat] BY DEF IInv, Base, TypeOK
  <1>1. CASE Lookup(w, n)
    <2> DEFINE q == [Idle EXCEPT !.pc = "stat", !.op = "lookup", !.n = n]
    <2>1. /\ Start(w, "lookup", n) /\ workers' = [workers EXCEPT ![w] = q]
          /\ UNCHANGED <<names, inodes, nextInode, handles, held, orphans>>
      BY <1>1 DEF Lookup, SetWorker
    <2>2. /\ q \in Recs /\ q.op = "lookup" /\ q.pc = "stat" /\ q.n = n
          /\ q.ent = 0 /\ q.got = << >>
      BY Zenon, IdleRecord DEF Recs, PCs, Ops
    <2>3. Shape(q) /\ Tracks(q, names', inodes)
      BY <2>2 DEF Shape, Tracks
    <2> HIDE DEF q
    <2> QED BY Zenon, <1>0, <2>1, <2>2, <2>3, StartStep
  <1>2. ASSUME NEW op \in {"atomic", "excl"}, AtomicOpen(w, op, n) PROVE IInv'
    <2> DEFINE q == [Idle EXCEPT !.pc = "stat", !.op = op, !.n = n]
    <2>1. /\ Start(w, op, n) /\ workers' = [workers EXCEPT ![w] = q]
          /\ UNCHANGED <<names, inodes, nextInode, handles, held, orphans>>
      BY <1>2 DEF AtomicOpen, SetWorker
    <2>2. /\ q \in Recs /\ q.op = op /\ q.pc = "stat" /\ q.n = n
          /\ q.ent = 0 /\ q.got = << >>
      BY Zenon, IdleRecord DEF Recs, PCs, Ops
    <2>3. Shape(q) /\ Tracks(q, names', inodes)
      BY <2>2 DEF Shape, Tracks
    <2> HIDE DEF q
    <2> QED BY Zenon, <1>0, <2>1, <2>2, <2>3, StartStep
  <1>3. CASE ReadDirPlus(w, n)
    <2> DEFINE q == [Idle EXCEPT !.pc = "stat", !.op = "dirs", !.n = n,
                                 !.todo = {m \in Names : names[m] # None} \ {n}]
    <2>1. /\ Start(w, "dirs", n) /\ workers' = [workers EXCEPT ![w] = q]
          /\ UNCHANGED <<names, inodes, nextInode, handles, held, orphans>>
      BY <1>3 DEF ReadDirPlus, SetWorker
    <2>2. /\ q \in Recs /\ q.op = "dirs" /\ q.pc = "stat" /\ q.n = n
          /\ q.ent = 0 /\ q.got = << >>
      BY Zenon, IdleRecord DEF Recs, PCs, Ops
    <2>3. Shape(q) /\ Tracks(q, names', inodes)
      BY <2>2 DEF Shape, Tracks
    <2> HIDE DEF q
    <2> QED BY Zenon, <1>0, <2>1, <2>2, <2>3, StartStep
  <1>4. CASE Create(w, n)
    <2> DEFINE q == [Idle EXCEPT !.pc = "create", !.op = "create", !.n = n]
    <2>1. /\ Start(w, "create", n) /\ workers' = [workers EXCEPT ![w] = q]
          /\ UNCHANGED <<names, inodes, nextInode, handles, held, orphans>>
      BY <1>4 DEF Create, SetWorker
    <2>2. /\ q \in Recs /\ q.op = "create" /\ q.pc = "create" /\ q.n = n
          /\ q.ent = 0 /\ q.got = << >>
      BY Zenon, IdleRecord DEF Recs, PCs, Ops
    <2>3. Shape(q) /\ Tracks(q, names', inodes)
      BY <2>2 DEF Shape, Tracks
    <2> HIDE DEF q
    <2> QED BY Zenon, <1>0, <2>1, <2>2, <2>3, StartStep
  <1> QED BY <1>1, <1>2, <1>3, <1>4

\* The objects of the file system are positive numbers.
LEMMA ObjectNumbers == Objs \subseteq Nat \ {0}
  BY SizesAssumption DEF Objs

\* mkdir, mknod, symlink, link and chromeos_tmpfile start with a change.
LEMMA ChangingStarts ==
  ASSUME IInv, NEW w \in Workers, NEW n \in Names,
         Make(w, n) \/ (\E i \in Inodes : Link(w, n, i)) \/ TmpFile(w, n)
  PROVE  IInv'
  <1>0. /\ names \in [Names -> Nat]
        /\ \A i \in DOMAIN inodes : inodes[i].file \in Nat
    BY DEF IInv, Base, TypeOK, Entries
  <1>1. CASE Make(w, n)
    <2> DEFINE q == [Idle EXCEPT !.pc = "stat", !.op = "make", !.n = n]
    <2>1. /\ Start(w, "make", n) /\ workers' = [workers EXCEPT ![w] = q]
          /\ UNCHANGED <<inodes, nextInode, handles, held, orphans>>
          /\ \E o \in Objs : names' = [names EXCEPT ![n] = o]
      BY Zenon, <1>1 DEF Make, SetWorker
    <2>2. /\ q \in Recs /\ q.op = "make" /\ q.pc = "stat" /\ q.n = n
          /\ q.ent = 0 /\ q.got = << >>
      BY Zenon, IdleRecord DEF Recs, PCs, Ops
    <2>3. Shape(q) /\ Tracks(q, names', inodes)
      BY <2>2 DEF Shape, Tracks
    <2>4. names' \in [Names -> Nat] /\ ~Shared("make")
      BY <1>0, <2>1, ObjectNumbers DEF Shared
    <2> HIDE DEF q
    <2> QED BY Zenon, <2>1, <2>2, <2>3, <2>4, StartStep
  <1>2. ASSUME NEW i \in Inodes, Link(w, n, i) PROVE IInv'
    <2> DEFINE q == [Idle EXCEPT !.pc = "stat", !.op = "link", !.n = n]
    <2>1. /\ Start(w, "link", n) /\ workers' = [workers EXCEPT ![w] = q]
          /\ UNCHANGED <<inodes, nextInode, handles, held, orphans>>
          /\ i \in DOMAIN inodes /\ names' = [names EXCEPT ![n] = inodes[i].file]
      BY <1>2 DEF Link, SetWorker
    <2>2. /\ q \in Recs /\ q.op = "link" /\ q.pc = "stat" /\ q.n = n
          /\ q.ent = 0 /\ q.got = << >>
      BY Zenon, IdleRecord DEF Recs, PCs, Ops
    <2>3. Shape(q) /\ Tracks(q, names', inodes)
      BY <2>2 DEF Shape, Tracks
    <2>4. names' \in [Names -> Nat] /\ ~Shared("link")
      BY <1>0, <2>1 DEF Shared
    <2> HIDE DEF q
    <2> QED BY Zenon, <2>1, <2>2, <2>3, <2>4, StartStep
  <1>3. CASE TmpFile(w, n)
    <2>0. PICK o \in Objs : SetWorker(w, [Idle EXCEPT !.pc = "add", !.op = "tmp", !.n = n,
                                                     !.st = o, !.f = o])
      BY Zenon, <1>3 DEF TmpFile
    <2> DEFINE q == [Idle EXCEPT !.pc = "add", !.op = "tmp", !.n = n, !.st = o, !.f = o]
    <2>1. /\ Start(w, "tmp", n) /\ workers' = [workers EXCEPT ![w] = q]
          /\ UNCHANGED <<names, inodes, nextInode, handles, held, orphans>>
      BY Zenon, <1>3, <2>0 DEF TmpFile, SetWorker
    <2>2. /\ q \in Recs /\ q.op = "tmp" /\ q.pc = "add" /\ q.n = n
          /\ q.ent = 0 /\ q.got = << >> /\ q.st = o /\ q.f = o
      BY Zenon, IdleRecord, ObjectNumbers DEF Recs, PCs, Ops
    <2>3. Shape(q) /\ Tracks(q, names', inodes)
      BY <2>2 DEF Shape, Tracks
    <2> HIDE DEF q
    <2> QED BY ZenonT(30), <1>0, <2>1, <2>2, <2>3, StartStep
  <1> QED BY <1>1, <1>2, <1>3

\* A step that changes no worker changes no reference in hand.
LEMMA StillInHand == workers' = workers => \A i : InHand(i)' = InHand(i)
  BY DEF InHand, Places

\* unlink, rmdir and rename: the directory changes, and nobody looks at it.
LEMMA DirectoryStep ==
  ASSUME IInv, NEW w \in Workers, NEW n \in Names,
         \/ Unlink(w, n)
         \/ \E op \in {"rename", "exchange"}, m \in Names \ {n} : Rename(w, op, n, m)
  PROVE  IInv'
  <1>0. Base /\ RefsAccounted /\ Alone /\ Tracking /\ EntryIsFile
    BY DEF IInv
  <1>1. PICK op \in {"unlink", "rename", "exchange"} : Start(w, op, n)
    BY DEF Unlink, Rename
  <1>2. UNCHANGED <<inodes, nextInode, handles, workers, held, orphans>>
    BY DEF Unlink, Rename
  <1>3. names' \in [Names -> Nat]
    <2>1. names \in [Names -> Nat] BY <1>0 DEF Base, TypeOK
    <2>2. CASE Unlink(w, n) BY <2>1, <2>2 DEF Unlink, None
    <2>3. ASSUME NEW o \in {"rename", "exchange"}, NEW m \in Names, Rename(w, o, n, m)
          PROVE  names' \in [Names -> Nat]
      BY <2>1, <2>3 DEF Rename, None
    <2> QED BY <2>2, <2>3
  <1>4. /\ raced' \in BOOLEAN
        /\ raced => raced'
        /\ ~raced' => \A v \in Workers : workers[v].pc = "idle"
    <2>1. raced' = (raced \/ \E b \in Busy : ~(Shared(op) /\ Shared(workers[b].op)))
      BY <1>1 DEF Start
    <2>2. ~Shared(op) BY DEF Shared
    <2>3. raced \in BOOLEAN BY <1>0 DEF Base, TypeOK
    <2> QED BY Zenon, <2>1, <2>2, <2>3 DEF Busy
  <1>5. Base'
    BY <1>0, <1>2, <1>3, <1>4 DEF Base, TypeOK, Shapes, Shape
  <1>6. RefsAccounted'
    <2>1. \A i : InHand(i)' = InHand(i) BY <1>2, StillInHand
    <2> QED BY <1>0, <1>2, <2>1 DEF RefsAccounted
  <1>7. Alone' /\ Tracking'
    BY <1>2, <1>4 DEF Alone, Tracking, Tracks
  <1>8. EntryIsFile'
    BY <1>0, <1>2, <1>4 DEF EntryIsFile
  <1> QED BY <1>5, <1>6, <1>7, <1>8 DEF IInv

---------------------------------------------------------------------------
(* Requests that go on.                                                    *)

\* The tables have their types.
Tables ==
    /\ DOMAIN inodes \subseteq Inodes /\ inodes \in [DOMAIN inodes -> Entries]
    /\ \A i \in DOMAIN inodes : i < nextInode
    /\ handles \subseteq [inode : Nat, file : Nat] /\ \A h \in handles : h.inode < nextInode
    /\ held \in [Inodes -> Nat]
    /\ orphans \in [Inodes -> Nat]

\* The references a request takes, gives back, replies and leaves behind.
Balanced(r, q) ==
    \A i \in Inodes : held'[i] + Mine(q, i) + orphans'[i] - Refs(i)'
                        = held[i] + Mine(r, i) + orphans[i] - Refs(i)

\* What it enters into the tables is for one file.
Entered ==
    /\ \A i \in DOMAIN inodes' : i >= nextInode /\ ~raced => inodes'[i].file = inodes'[i].key
    /\ \A h \in handles' : \/ h \in handles
                           \/ ~raced /\ h.inode \in DOMAIN inodes' => h.file = inodes'[h.inode].key

\* Its record is in order, and what it found is there.
InOrder(q) ==
    /\ Shape(q) /\ q.ent < nextInode'
    /\ ~raced => Tracks(q, names', inodes')

\* Entries and handles that are for one file stay so; a handle of an inode
\* that is not in the table may have any.
LEMMA FilesStep ==
  ASSUME Base, EntryIsFile, raced' = raced, Kept,
         Entered, \A i \in DOMAIN inodes' : i \in Nat
  PROVE  EntryIsFile'
  <1> SUFFICES ASSUME ~raced'
               PROVE  /\ \A i \in DOMAIN inodes' : inodes'[i].file = inodes'[i].key
                      /\ \A h \in handles' : h.inode \in DOMAIN inodes' => h.file = inodes'[h.inode].key
    BY DEF EntryIsFile
  <1>1. /\ \A i \in DOMAIN inodes : inodes[i].file = inodes[i].key
        /\ \A h \in handles : h.inode \in DOMAIN inodes => h.file = inodes[h.inode].key
    BY DEF EntryIsFile
  <1>2. nextInode \in Nat /\ \A h \in handles : h.inode < nextInode
    BY DEF Base, TypeOK
  <1> QED BY <1>1, <1>2 DEF Kept, Entered

\* A step of a request keeps the invariant if the references balance and if
\* what it enters into the tables is for the file its record says.
LEMMA RequestStep ==
  ASSUME IInv, NEW w \in Workers, NEW q \in Recs, workers' = [workers EXCEPT ![w] = q],
         workers[w].pc # "idle", q.pc = "idle" \/ q.op = workers[w].op, InOrder(q),
         raced' = raced, Kept, Tables',
         names' \in [Names -> Nat], names' = names \/ ~Shared(workers[w].op),
         Entered, Balanced(workers[w], q)
  PROVE  IInv'
  <1>0. Base /\ RefsAccounted /\ Alone /\ Tracking /\ EntryIsFile
    BY DEF IInv
  <1>1. nextInode' \in Nat /\ nextInode <= nextInode' BY DEF Kept
  <1>a. Shape(q) /\ q.ent < nextInode' /\ (~raced => Tracks(q, names', inodes'))
    BY DEF InOrder
  <1>2. workers' \in [Workers -> Recs] /\ Shapes'
    BY Zenon, <1>0, <1>1, <1>a, ShapesStep
  <1>3. TypeOK'
    BY <1>0, <1>1, <1>2 DEF Base, TypeOK, Tables
  <1>4. RefsAccounted'
    <2> SUFFICES ASSUME NEW i \in Inodes
                 PROVE  /\ Live(i) \in Nat /\ Live(i)' \in Nat /\ orphans'[i] \in Nat
                        /\ Refs(i)' \in Int
                        /\ Live(i)' + orphans'[i] - Refs(i)' = Live(i) + orphans[i] - Refs(i)
      BY <1>0, AccountStep
    <2>1. /\ InHand(i) \in Nat /\ InHand(i)' \in Nat /\ Mine(workers[w], i) \in Nat
          /\ Mine(q, i) \in Nat
          /\ InHand(i)' = InHand(i) - Mine(workers[w], i) + Mine(q, i)
      BY Zenon, <1>0, InHandStep
    <2>2. held[i] \in Nat /\ orphans[i] \in Nat /\ Refs(i) \in Nat
      BY <1>0 DEF Base, TypeOK, Refs, Entries
    <2>3. held'[i] \in Nat /\ orphans'[i] \in Nat /\ Refs(i)' \in Nat
      BY DEF Tables, Refs, Entries
    <2>4. held'[i] + Mine(q, i) + orphans'[i] - Refs(i)'
            = held[i] + Mine(workers[w], i) + orphans[i] - Refs(i)
      BY DEF Balanced
    <2>5. Live(i) = held[i] + InHand(i) /\ Live(i)' = held'[i] + InHand(i)'
      BY DEF Live
    <2> QED BY <2>1, <2>2, <2>3, <2>4, <2>5
  <1>5. Alone' BY Zenon, <1>0, AloneStep
  <1>6. Tracking' BY Zenon, <1>0, <1>a, TrackingStep
  <1>7. EntryIsFile'
    <2>1. \A i \in DOMAIN inodes' : i \in Nat BY InodeNumbers DEF Tables
    <2> QED BY <1>0, <2>1, FilesStep
  <1> QED BY <1>2, <1>3, <1>4, <1>5, <1>6, <1>7 DEF IInv, Base

\* The same for a step that leaves tables and directory alone.
LEMMA QuietStep ==
  ASSUME IInv, NEW w \in Workers, NEW q \in Recs, workers' = [workers EXCEPT ![w] = q],
         workers[w].pc # "idle", q.pc = "idle" \/ q.op = workers[w].op, InOrder(q),
         UNCHANGED <<names, inodes, nextInode, handles, orphans, raced>>,
         held' \in [Inodes -> Nat],
         \A i \in Inodes : held'[i] + Mine(q, i) = held[i] + Mine(workers[w], i)
  PROVE  IInv'
  <1>0. Base BY DEF IInv
  <1>1. Kept BY <1>0 DEF Kept, Base, TypeOK
  <1>2. Tables' BY <1>0 DEF Tables, Base, TypeOK
  <1>3. names' \in [Names -> Nat] BY <1>0 DEF Base, TypeOK
  <1>4. \A i \in DOMAIN inodes : ~(i >= nextInode)
    BY <1>0, InodeNumbers DEF Base, TypeOK
  <1>5. Balanced(workers[w], q)
    BY DEF Balanced, Refs
  <1>6. Entered
    BY <1>4 DEF Entered
  <1>7. names' = names /\ raced' = raced OBVIOUS
  <1> QED BY Zenon, <1>1, <1>2, <1>3, <1>5, <1>6, <1>7, RequestStep

\* Replying adds the reply's references to the guest's (Deliver).
LEMMA DeliverStep ==
  ASSUME TypeOK, NEW s \in Seq(Nat), Deliver(s)
  PROVE  held' \in [Inodes -> Nat] /\ \A i \in Inodes : held'[i] = held[i] + Has(s, i)
  <1>1. \A i \in Inodes : held'[i] = held[i] + Has(s, i) BY DEF Deliver, Has
  <1>2. \A i \in Inodes : held[i] \in Nat /\ Has(s, i) \in Nat BY Zenon, HasNat DEF TypeOK
  <1>3. held' = [i \in Inodes |-> held[i] + Has(s, i)] BY DEF Deliver, Has
  <1> QED BY <1>1, <1>2, <1>3

\* What the invariant says of a worker's record.
LEMMA OfRecord ==
  ASSUME IInv, NEW w \in Workers
  PROVE  /\ workers[w] \in Recs /\ Shape(workers[w])
         /\ workers[w].ent \in Nat /\ workers[w].got \in Seq(Nat)
         /\ workers[w].ent < nextInode /\ nextInode \in Nat /\ 0 < nextInode
         /\ ~raced => Tracks(workers[w], names, inodes)
  <1>1. workers[w] \in Recs /\ nextInode \in Nat BY DEF IInv, Base, TypeOK
  <1>2. workers[w].ent < nextInode /\ Shape(workers[w]) BY DEF IInv, Base, Shapes
  <1>3. workers[w].ent \in Nat /\ workers[w].got \in Seq(Nat) BY <1>1 DEF Recs
  <1> QED BY <1>1, <1>2, <1>3 DEF IInv, Tracking

\* A request ends with a reply that has what it had in hand.
LEMMA ReplyStep ==
  ASSUME IInv, NEW w \in Workers, NEW s \in Seq(Nat), Deliver(s), SetWorker(w, Idle),
         workers[w].pc # "idle",
         UNCHANGED <<names, inodes, nextInode, handles, orphans, raced>>,
         \A i \in Inodes : Has(s, i) = Mine(workers[w], i)
  PROVE  IInv'
  <1>1. held' \in [Inodes -> Nat] /\ \A i \in Inodes : held'[i] = held[i] + Has(s, i)
    BY DeliverStep DEF IInv, Base
  <1>2. workers' = [workers EXCEPT ![w] = Idle] BY DEF SetWorker
  <1>3. InOrder(Idle) BY IdleRecord, OfRecord DEF InOrder, Tracks
  <1>4. \A i \in Inodes : held'[i] + Mine(Idle, i) = held[i] + Mine(workers[w], i)
    <2> SUFFICES ASSUME NEW i \in Inodes
                 PROVE  held'[i] + Mine(Idle, i) = held[i] + Mine(workers[w], i)
      OBVIOUS
    <2>1. Mine(Idle, i) = 0 BY IdleRecord, InodeNumbers
    <2>2. held'[i] \in Nat BY <1>1
    <2> QED BY <1>1, <2>1, <2>2
  <1> QED BY Zenon, <1>1, <1>2, <1>3, <1>4, IdleRecord, QuietStep

\* A request goes on with what it had in hand.
LEMMA GoOnStep ==
  ASSUME IInv, NEW w \in Workers, NEW q \in Recs, SetWorker(w, q), UNCHANGED held,
         workers[w].pc # "idle", q.op = workers[w].op, InOrder(q),
         UNCHANGED <<names, inodes, nextInode, handles, orphans, raced>>,
         \A i \in Inodes : Mine(q, i) = Mine(workers[w], i)
  PROVE  IInv'
  <1>1. workers' = [workers EXCEPT ![w] = q] BY DEF SetWorker
  <1>2. held' \in [Inodes -> Nat] BY DEF IInv, Base, TypeOK
  <1>3. \A i \in Inodes : held'[i] + Mine(q, i) = held[i] + Mine(workers[w], i)
    OBVIOUS
  <1> QED BY Zenon, <1>1, <1>2, <1>3, QuietStep

\* The lookup ends with an error.
LEMMA FailedStep ==
  ASSUME IInv, NEW w \in Workers, workers[w].pc \in {"stat", "open"}, Failed(w),
         UNCHANGED <<names, inodes, nextInode, handles, orphans, raced>>
  PROVE  IInv'
  <1> DEFINE r == workers[w]
  <1>0. r.ent = 0 /\ r.got \in Seq(Nat)
    BY OfRecord DEF Shape
  <1>1. Deliver(r.got) /\ SetWorker(w, Idle) BY DEF Failed
  <1>2. \A i \in Inodes : Has(r.got, i) = Mine(r, i)
    <2> SUFFICES ASSUME NEW i \in Inodes PROVE Has(r.got, i) = Mine(r, i)
      OBVIOUS
    <2>1. r.ent # i /\ Has(r.got, i) \in Nat BY Zenon, <1>0, InodeNumbers, HasNat
    <2> QED BY <2>1 DEF Mine
  <1>3. r.pc # "idle" OBVIOUS
  <1> QED BY <1>0, <1>1, <1>2, <1>3, ReplyStep

\* The name is not there.
LEMMA NotFoundStep ==
  ASSUME IInv, NEW w \in Workers, workers[w].pc \in {"stat", "open"}, NotFound(w),
         UNCHANGED <<names, inodes, nextInode, handles, orphans, raced>>
  PROVE  IInv'
  <1> DEFINE r == workers[w]
  <1>0. /\ r \in Recs /\ Shape(r) /\ r.ent = 0 /\ r.got \in Seq(Nat) /\ r.n \in Names
        /\ 0 < nextInode
    BY OfRecord DEF Shape
  <1>1. CASE r.op \in {"atomic", "excl"}
    <2> DEFINE q == [r EXCEPT !.pc = "create"]
    <2>1. SetWorker(w, q) /\ UNCHANGED held BY <1>1 DEF NotFound
    <2>2. q \in Recs /\ q.pc = "create" /\ q.op = r.op /\ q.ent = r.ent /\ q.got = r.got /\ q.n = r.n
      BY Zenon, <1>0 DEF Recs, PCs
    <2>3. InOrder(q) BY <1>0, <1>1, <2>2 DEF InOrder, Shape, Tracks
    <2>4. \A i \in Inodes : Mine(q, i) = Mine(r, i) BY <2>2 DEF Mine
    <2>5. r.pc # "idle" BY ZenonT(30)
    <2> HIDE DEF q
    <2> QED BY <2>1, <2>2, <2>3, <2>4, <2>5, GoOnStep
  <1>2. CASE r.op \notin {"atomic", "excl"}
    BY Zenon, <1>2, FailedStep DEF NotFound
  <1> QED BY ZenonT(30), <1>1, <1>2

\* statat and openat, by name.
LEMMA ByNameStep ==
  ASSUME IInv, NEW w \in Workers, Stat(w) \/ OpenFound(w)
  PROVE  IInv'
  <1> DEFINE r == workers[w]
  <1>0. /\ r \in Recs /\ Shape(r) /\ r.pc \in {"stat", "open"} /\ r.ent = 0 /\ r.n \in Names
        /\ r.got \in Seq(Nat) /\ 0 < nextInode /\ (~raced => Tracks(r, names, inodes))
        /\ names[r.n] \in Nat
    <2>1. r.pc \in {"stat", "open"} BY DEF Stat, OpenFound
    <2>2. names \in [Names -> Nat] BY DEF IInv, Base, TypeOK
    <2> QED BY <2>1, <2>2, OfRecord DEF Shape
  <1>1. UNCHANGED <<names, inodes, nextInode, handles, orphans, raced>>
    BY DEF Stat, OpenFound
  <1>2. CASE names[r.n] = None
    <2>1. NotFound(w) BY <1>2 DEF Stat, OpenFound
    <2> QED BY <1>0, <1>1, <2>1, NotFoundStep
  <1>4. CASE Failed(w)
    BY ZenonT(30), <1>0, <1>1, <1>4, FailedStep
  <1>3. CASE names[r.n] # None /\ ~Failed(w)
    <2>1. PICK q \in Recs : /\ SetWorker(w, q) /\ UNCHANGED held
                            /\ q.op = r.op /\ q.ent = r.ent /\ q.got = r.got /\ q.n = r.n
                            /\ \/ r.pc = "stat" /\ q.pc = "check" /\ q.st = names[r.n]
                               \/ r.pc = "open" /\ q.pc = "add" /\ q.f = names[r.n] /\ q.st = r.st
      <3>1. CASE Stat(w)
        <4> DEFINE q == [r EXCEPT !.pc = "check", !.st = names[r.n]]
        <4>1. q \in Recs BY Zenon, <1>0 DEF Recs, PCs
        <4>2. /\ q.op = r.op /\ q.ent = r.ent /\ q.got = r.got /\ q.n = r.n
              /\ q.pc = "check" /\ q.st = names[r.n]
          BY <1>0 DEF Recs
        <4>3. SetWorker(w, q) /\ UNCHANGED held /\ r.pc = "stat" BY <1>3, <3>1 DEF Stat
        <4> QED BY Zenon, <4>1, <4>2, <4>3
      <3>2. CASE OpenFound(w)
        <4> DEFINE q == [r EXCEPT !.pc = "add", !.f = names[r.n]]
        <4>1. q \in Recs BY Zenon, <1>0 DEF Recs, PCs
        <4>2. /\ q.op = r.op /\ q.ent = r.ent /\ q.got = r.got /\ q.n = r.n
              /\ q.pc = "add" /\ q.f = names[r.n] /\ q.st = r.st
          BY <1>0 DEF Recs
        <4>3. SetWorker(w, q) /\ UNCHANGED held /\ r.pc = "open" BY <1>3, <3>2 DEF OpenFound
        <4> QED BY Zenon, <4>1, <4>2, <4>3
      <3> QED BY <3>1, <3>2
    <2>2. InOrder(q)
      <3>1. Shape(q) BY ZenonT(30), <1>0, <2>1 DEF Shape
      <3>2. q.ent < nextInode' BY ZenonT(30), <1>0, <1>1, <2>1
      <3>3. ~raced => Tracks(q, names', inodes') BY ZenonT(30), <1>0, <1>1, <2>1 DEF Tracks
      <3> QED BY ZenonT(30), <3>1, <3>2, <3>3 DEF InOrder
    <2>3. \A i \in Inodes : Mine(q, i) = Mine(r, i) BY <2>1 DEF Mine
    <2>4. r.pc # "idle" BY <1>0
    <2> QED BY ZenonT(30), <1>1, <2>1, <2>2, <2>3, <2>4, GoOnStep
  <1> QED BY ZenonT(30), <1>2, <1>3, <1>4

\* The inode table alone.
TableOK ==
    /\ DOMAIN inodes \subseteq Inodes /\ inodes \in [DOMAIN inodes -> Entries]
    /\ \A i \in DOMAIN inodes : i < nextInode

\* The table after one reference to inode i was taken: its count is one more,
\* and a new entry is for one file.
Taken(i) ==
    /\ \A j \in Inodes : Refs(j)' = Refs(j) + IF j = i THEN 1 ELSE 0
    /\ \A j \in DOMAIN inodes' : j >= nextInode /\ ~raced => inodes'[j].file = inodes'[j].key

\* A request that has taken a reference replies it, or keeps it in hand.
LEMMA GotEntryStep ==
  ASSUME IInv, NEW w \in Workers, NEW i \in Inodes, GotEntry(w, i),
         workers[w].pc \in {"check", "add", "addnew"},
         UNCHANGED <<names, handles, orphans, raced>>,
         Kept, TableOK', Taken(i), i < nextInode',
         ~raced => (i \in DOMAIN inodes' => inodes'[i].key = workers[w].st)
  PROVE  IInv'
  <1> DEFINE r == workers[w]
  <1>0. /\ r \in Recs /\ Shape(r) /\ r.ent = 0 /\ r.n \in Names /\ r.got \in Seq(Nat)
        /\ i \in Nat \ {0} /\ r.pc # "idle" /\ (~raced => Tracks(r, names, inodes))
    BY OfRecord, InodeNumbers DEF Shape
  <1>b. TypeOK BY DEF IInv, Base
  <1>1. names' \in [Names -> Nat] /\ names' = names /\ raced' = raced
    BY <1>b DEF TypeOK
  <1>2. \A h \in handles' : h \in handles OBVIOUS
  <1>3. Entered
    <2>1. \A j \in DOMAIN inodes' : j >= nextInode /\ ~raced => inodes'[j].file = inodes'[j].key
      BY DEF Taken
    <2> QED BY <1>2, <2>1 DEF Entered
  <1>4. held' \in [Inodes -> Nat] => Tables'
    <2>1. handles' \subseteq [inode : Nat, file : Nat] BY <1>b DEF TypeOK
    <2>2. \A h \in handles' : h.inode < nextInode'
      <3> SUFFICES ASSUME NEW h \in handles PROVE h.inode < nextInode'
        OBVIOUS
      <3>1. h.inode \in Nat /\ h.inode < nextInode /\ nextInode \in Nat BY <1>b DEF TypeOK
      <3> QED BY <3>1 DEF Kept
    <2>3. orphans' \in [Inodes -> Nat] BY <1>b DEF TypeOK
    <2> QED BY <2>1, <2>2, <2>3 DEF Tables, TableOK
  <1>5. ASSUME NEW j \in Inodes
        PROVE  /\ j \in Nat \ {0} /\ Refs(j)' = Refs(j) + (IF j = i THEN 1 ELSE 0)
               /\ Refs(j) \in Nat /\ orphans'[j] = orphans[j] /\ orphans[j] \in Nat
               /\ held[j] \in Nat /\ Mine(r, j) = Has(r.got, j) /\ Has(r.got, j) \in Nat
    <2>1. j \in Nat \ {0} BY InodeNumbers
    <2>2. Has(r.got, j) \in Nat BY Zenon, <1>0, HasNat
    <2>3. Mine(r, j) = Has(r.got, j) BY <1>0, <2>1, <2>2 DEF Mine
    <2>4. Refs(j) \in Nat BY <1>b DEF TypeOK, Refs, Entries
    <2> QED BY <1>b, <2>1, <2>2, <2>3, <2>4 DEF Taken, TypeOK
  <1>6. CASE r.op \in Plain
    <2>1. Deliver(<<i>>) /\ workers' = [workers EXCEPT ![w] = Idle]
      BY <1>6 DEF GotEntry, SetWorker
    <2>2. held' \in [Inodes -> Nat] /\ \A j \in Inodes : held'[j] = held[j] + Has(<<i>>, j)
      <3>1. <<i>> \in Seq(Nat) BY <1>0
      <3> QED BY Zenon, <1>b, <2>1, <3>1, DeliverStep
    <2>3. r.got = << >> BY ZenonT(30), <1>0, <1>6 DEF Shape, Plain
    <2>4. Balanced(r, Idle)
      <3> SUFFICES ASSUME NEW j \in Inodes
                   PROVE  held'[j] + Mine(Idle, j) + orphans'[j] - Refs(j)'
                            = held[j] + Mine(r, j) + orphans[j] - Refs(j)
        BY DEF Balanced
      <3>1. Mine(Idle, j) = 0 BY <1>5, IdleRecord
      <3>2. Has(<<i>>, j) = IF i = j THEN 1 ELSE 0 BY <1>0, HasFew
      <3>3. Mine(r, j) = 0
        <4>1. Has(<< >>, j) = 0 BY Zenon, <1>0, HasFew
        <4> QED BY <1>5, <2>3, <4>1
      <3>4. held'[j] = held[j] + Has(<<i>>, j) BY <2>2
      <3> QED BY SMTT(30), <1>5, <3>1, <3>2, <3>3, <3>4
    <2>5. InOrder(Idle)
      BY IdleRecord, OfRecord DEF InOrder, Tracks, Kept
    <2> QED BY Zenon, <1>0, <1>1, <1>3, <1>4, <2>1, <2>2, <2>4, <2>5, IdleRecord, RequestStep
  <1>7. CASE r.op \notin Plain
    <2> DEFINE pc == IF r.op = "dirs" THEN "fill" ELSE IF r.pc = "addnew" THEN "openat" ELSE "atomic"
               q == [r EXCEPT !.pc = pc, !.ent = i, !.st = None, !.f = None]
    <2>1. workers' = [workers EXCEPT ![w] = q] /\ held' = held
      BY <1>7 DEF GotEntry, SetWorker
    <2>2. /\ q \in Recs /\ q.pc = pc /\ q.op = r.op /\ q.n = r.n /\ q.ent = i /\ q.got = r.got
      BY Zenon, <1>0 DEF Recs, PCs, None
    <2>3. held' \in [Inodes -> Nat] BY <1>b, <2>1 DEF TypeOK
    <2>4. Balanced(r, q)
      <3> SUFFICES ASSUME NEW j \in Inodes
                   PROVE  held'[j] + Mine(q, j) + orphans'[j] - Refs(j)'
                            = held[j] + Mine(r, j) + orphans[j] - Refs(j)
        BY DEF Balanced
      <3>1. Mine(q, j) = (IF i = j THEN 1 ELSE 0) + Has(r.got, j) BY <2>2 DEF Mine
      <3>2. held'[j] = held[j] BY <2>1
      <3> QED BY <1>5, <3>1, <3>2
    <2>5. Shape(q) BY <1>0, <2>2 DEF Shape
    <2>6. ~raced => Tracks(q, names', inodes')
      BY <1>0, <1>1, <2>2 DEF Tracks
    <2>7. InOrder(q) BY <2>2, <2>5, <2>6 DEF InOrder
    <2> HIDE DEF q
    <2> QED BY Zenon, <1>0, <1>1, <1>3, <1>4, <2>1, <2>2, <2>3, <2>4, <2>7, RequestStep
  <1> QED BY ZenonT(30), <1>6, <1>7

\* One more reference to an entry that is there.
LEMMA BumpStep ==
  ASSUME IInv, NEW i \in DOMAIN inodes, inodes' = Bump(i), UNCHANGED <<nextInode, raced>>
  PROVE  /\ Kept /\ TableOK' /\ Taken(i) /\ i \in Inodes /\ i < nextInode'
         /\ i \in DOMAIN inodes' /\ inodes'[i].key = inodes[i].key
  <1>1. TypeOK BY DEF IInv, Base
  <1>2. /\ DOMAIN inodes' = DOMAIN inodes
        /\ \A j \in DOMAIN inodes : inodes'[j] = IF j = i THEN [inodes[i] EXCEPT !.refs = @ + 1]
                                                 ELSE inodes[j]
    BY <1>1 DEF Bump, TypeOK
  <1>3. \A j \in DOMAIN inodes : inodes[j] \in Entries BY <1>1 DEF TypeOK
  <1>4. \A j \in DOMAIN inodes : /\ inodes'[j] \in Entries
                                 /\ inodes'[j].key = inodes[j].key
                                 /\ inodes'[j].file = inodes[j].file
                                 /\ inodes'[j].refs = inodes[j].refs + IF j = i THEN 1 ELSE 0
    BY <1>2, <1>3 DEF Entries
  <1>5. inodes' \in [DOMAIN inodes' -> Entries]
    BY <1>1, <1>2, <1>4 DEF Bump, TypeOK
  <1>6. TableOK' BY <1>1, <1>2, <1>5 DEF TableOK, TypeOK
  <1>7. Kept BY <1>1, <1>2, <1>4 DEF Kept, TypeOK
  <1>8. Taken(i)
    <2>1. \A j \in Inodes : Refs(j)' = Refs(j) + IF j = i THEN 1 ELSE 0
      BY <1>2, <1>4 DEF Refs
    <2>2. \A j \in DOMAIN inodes' : ~(j >= nextInode)
      BY <1>1, <1>2, InodeNumbers DEF TypeOK
    <2> QED BY <2>1, <2>2 DEF Taken
  <1> QED BY <1>1, <1>2, <1>4, <1>6, <1>7, <1>8 DEF TypeOK

\* A new entry, under a number no entry or handle had before.
LEMMA InsertStep ==
  ASSUME IInv, NEW key \in Nat, NEW file \in Nat, GetAlt(key) = {}, nextInode \in Inodes,
         inodes' = Insert(key, file), nextInode' = nextInode + 1, raced' = raced,
         ~raced => file = key
  PROVE  /\ Kept /\ TableOK' /\ Taken(nextInode) /\ nextInode < nextInode'
         /\ inodes'[nextInode].key = key
  <1>1. TypeOK BY DEF IInv, Base
  <1>2. nextInode \in Nat /\ \A j \in DOMAIN inodes : j \in Nat /\ j < nextInode
    BY <1>1, InodeNumbers DEF TypeOK
  <1>3. nextInode \notin DOMAIN inodes BY <1>2
  <1>4. /\ DOMAIN inodes' = DOMAIN inodes \cup {nextInode}
        /\ \A j \in DOMAIN inodes : inodes'[j] = inodes[j]
        /\ inodes'[nextInode] = [key |-> key, file |-> file, refs |-> 1]
    BY <1>3 DEF Insert
  <1>5. /\ inodes'[nextInode].key = key /\ inodes'[nextInode].file = file
        /\ inodes'[nextInode].refs = 1 /\ inodes'[nextInode] \in Entries
    BY <1>4 DEF Entries
  <1>6. \A j \in DOMAIN inodes' : inodes'[j] \in Entries
    BY <1>1, <1>4, <1>5 DEF TypeOK
  <1>7. inodes' \in [DOMAIN inodes' -> Entries]
    <2>1. inodes' = [j \in DOMAIN inodes' |-> inodes'[j]] BY DEF Insert
    <2> QED BY <1>6, <2>1
  <1>8. TableOK'
    <2>1. DOMAIN inodes' \subseteq Inodes BY <1>1, <1>4 DEF TypeOK
    <2>2. \A j \in DOMAIN inodes' : j < nextInode' BY <1>2, <1>4
    <2> QED BY <1>7, <2>1, <2>2 DEF TableOK
  <1>9. Kept BY <1>2, <1>4 DEF Kept
  <1>10. Taken(nextInode)
    <2>1. \A j \in Inodes : Refs(j)' = Refs(j) + IF j = nextInode THEN 1 ELSE 0
      <3> SUFFICES ASSUME NEW j \in Inodes
                   PROVE  Refs(j)' = Refs(j) + IF j = nextInode THEN 1 ELSE 0
        OBVIOUS
      <3>1. CASE j = nextInode BY <3>1, <1>3, <1>4, <1>5 DEF Refs
      <3>2. CASE j # nextInode
        <4>1. Refs(j)' = Refs(j) BY <3>2, <1>4 DEF Refs
        <4>2. Refs(j) \in Nat BY <1>1 DEF TypeOK, Refs, Entries
        <4> QED BY SMTT(30), <3>2, <4>1, <4>2
      <3> QED BY <3>1, <3>2
    <2>2. \A j \in DOMAIN inodes' : j >= nextInode /\ ~raced => inodes'[j].file = inodes'[j].key
      BY <1>2, <1>4, <1>5
    <2> QED BY <2>1, <2>2 DEF Taken
  <1> QED BY <1>2, <1>5, <1>8, <1>9, <1>10

\* The lock's sections of do_lookup and of add_entry.
LEMMA EntryStep ==
  ASSUME IInv, NEW w \in Workers, Check(w) \/ AddEntry(w)
  PROVE  IInv'
  <1> DEFINE r == workers[w]
  <1>0. /\ r \in Recs /\ Shape(r) /\ r.pc \in {"check", "add", "addnew"} /\ r.ent = 0
        /\ r.n \in Names /\ r.got \in Seq(Nat) /\ r.st \in Nat /\ r.f \in Nat /\ 0 < nextInode
        /\ (~raced => Tracks(r, names, inodes))
    <2>1. r.pc \in {"check", "add", "addnew"} BY DEF Check, AddEntry
    <2>2. r \in Recs BY OfRecord
    <2> QED BY <2>1, <2>2, OfRecord DEF Shape, Recs
  <1>1. UNCHANGED <<names, handles, orphans, raced>> BY DEF Check, AddEntry
  <1>2. CASE GetAlt(r.st) # {}
    <2>1. PICK i \in GetAlt(r.st) : inodes' = Bump(i) /\ GotEntry(w, i) /\ UNCHANGED nextInode
      BY <1>2 DEF Check, AddEntry
    <2>2. i \in DOMAIN inodes /\ inodes[i].key = r.st BY ZenonT(30) DEF GetAlt
    <2>3. /\ Kept /\ TableOK' /\ Taken(i) /\ i \in Inodes /\ i < nextInode'
          /\ i \in DOMAIN inodes' /\ inodes'[i].key = inodes[i].key
      BY <1>1, <2>1, <2>2, BumpStep
    <2> QED BY Zenon, <1>0, <1>1, <2>1, <2>2, <2>3, GotEntryStep
  <1>3. CASE GetAlt(r.st) = {} /\ r.pc = "check"
    <2> DEFINE q == [r EXCEPT !.pc = "open"]
    <2>1. SetWorker(w, q) /\ UNCHANGED <<inodes, held, nextInode>>
      BY <1>3 DEF Check, AddEntry
    <2>2. /\ q \in Recs /\ q.pc = "open" /\ q.op = r.op /\ q.ent = r.ent /\ q.got = r.got
          /\ q.n = r.n /\ q.st = r.st
      BY <1>0 DEF Recs, PCs
    <2>3. Shape(q) BY <1>0, <2>2 DEF Shape
    <2>4. ~raced => Tracks(q, names', inodes') BY <1>0, <1>1, <1>3, <2>1, <2>2 DEF Tracks
    <2>5. InOrder(q) BY <1>0, <2>1, <2>2, <2>3, <2>4 DEF InOrder
    <2>6. \A i \in Inodes : Mine(q, i) = Mine(r, i) BY <2>2 DEF Mine
    <2>7. r.pc # "idle" BY ZenonT(30), <1>0
    <2> HIDE DEF q
    <2> QED BY Zenon, <1>1, <2>1, <2>2, <2>5, <2>6, <2>7, GoOnStep
  <1>4. CASE GetAlt(r.st) = {} /\ r.pc # "check"
    <2>1. /\ nextInode \in Inodes /\ inodes' = Insert(r.st, r.f) /\ nextInode' = nextInode + 1
          /\ GotEntry(w, nextInode)
      BY ZenonT(30), <1>4 DEF Check, AddEntry
    <2>2. ~raced => r.f = r.st BY ZenonT(30), <1>0, <1>4 DEF Tracks
    <2>3. /\ Kept /\ TableOK' /\ Taken(nextInode) /\ nextInode < nextInode'
          /\ inodes'[nextInode].key = r.st
      BY <1>0, <1>1, <1>4, <2>1, <2>2, InsertStep
    <2> QED BY <1>0, <1>1, <2>1, <2>3, GotEntryStep
  <1> QED BY ZenonT(30), <1>2, <1>3, <1>4

\* openat with O_CREAT.
LEMMA CreateFileStep ==
  ASSUME IInv, NEW w \in Workers, CreateFile(w)
  PROVE  IInv'
  <1> DEFINE r == workers[w]
  <1>0. /\ r \in Recs /\ Shape(r) /\ r.pc = "create" /\ r.ent = 0 /\ r.n \in Names
        /\ r.op \in {"create", "atomic", "excl"} /\ r.got = << >> /\ 0 < nextInode
        /\ nextInode \in Nat
    BY Zenon, OfRecord DEF CreateFile, Shape
  <1>b. TypeOK BY DEF IInv, Base
  <1>1. UNCHANGED <<inodes, nextInode, handles, held, orphans, raced>> BY Zenon DEF CreateFile
  <1>2. ~Shared(r.op) BY <1>0 DEF Shared
  <1>3. Kept /\ Tables' /\ Entered
    <2>1. Kept BY <1>b, <1>1 DEF Kept, TypeOK
    <2>2. Tables' BY <1>b, <1>1 DEF Tables, TypeOK
    <2>3. \A i \in DOMAIN inodes : ~(i >= nextInode) BY Zenon, <1>b, NumberedBelow
    <2>4. Entered BY <1>1, <2>3 DEF Entered
    <2> QED BY <2>1, <2>2, <2>4
  <1>4. ASSUME NEW q \in Recs, q.ent = 0, q.got = << >> PROVE Balanced(r, q)
    BY <1>0, <1>1, <1>4 DEF Balanced, Refs, Mine
  <1>5. ASSUME NEW o \in Nat, names' \in [Names -> Nat], names'[r.n] = o,
               SetWorker(w, [r EXCEPT !.pc = "addnew", !.st = o, !.f = o])
        PROVE  IInv'
    <2> DEFINE q == [r EXCEPT !.pc = "addnew", !.st = o, !.f = o]
    <2>1. workers' = [workers EXCEPT ![w] = q] BY <1>5 DEF SetWorker
    <2>2. /\ q \in Recs /\ q.pc = "addnew" /\ q.op = r.op /\ q.ent = 0 /\ q.got = << >>
          /\ q.n = r.n /\ q.st = o /\ q.f = o
      BY Zenon, <1>0 DEF Recs, PCs
    <2>3. Shape(q) BY <1>0, <2>2 DEF Shape
    <2>4. Tracks(q, names', inodes') BY <1>5, <2>2 DEF Tracks
    <2>5. InOrder(q) BY <1>0, <1>1, <2>2, <2>3, <2>4 DEF InOrder
    <2> HIDE DEF q
    <2>6. Balanced(r, q) BY <1>4, <2>2
    <2>7. raced' = raced /\ r.pc # "idle" BY <1>0, <1>1
    <2> QED BY Zenon, <1>2, <1>3, <1>5, <2>1, <2>2, <2>5, <2>6, <2>7, RequestStep
  <1>6. CASE SetWorker(w, Idle) /\ UNCHANGED names
    <2>1. workers' = [workers EXCEPT ![w] = Idle] /\ raced' = raced /\ r.pc # "idle"
      BY <1>0, <1>1, <1>6 DEF SetWorker
    <2>2. Balanced(r, Idle) BY ZenonT(30), <1>4, IdleRecord
    <2>3. InOrder(Idle) BY <1>0, <1>1, IdleRecord DEF InOrder, Tracks
    <2>4. names' \in [Names -> Nat] BY <1>b, <1>6 DEF TypeOK
    <2> QED BY ZenonT(30), <1>2, <1>3, <1>6, <2>1, <2>2, <2>3, <2>4, IdleRecord, RequestStep
  <1>7. CASE \E o \in Objs \ Used :
               /\ names' = [names EXCEPT ![r.n] = o]
               /\ SetWorker(w, [r EXCEPT !.pc = "addnew", !.st = o, !.f = o])
    <2>1. PICK o \in Objs : /\ names' = [names EXCEPT ![r.n] = o]
                            /\ SetWorker(w, [r EXCEPT !.pc = "addnew", !.st = o, !.f = o])
      BY Zenon, <1>7
    <2>2. o \in Nat /\ names' \in [Names -> Nat] /\ names'[r.n] = o
      BY <1>0, <1>b, <2>1, ObjectNumbers DEF TypeOK
    <2> QED BY ZenonT(30), <1>5, <2>1, <2>2
  <1>8. CASE /\ SetWorker(w, [r EXCEPT !.pc = "addnew", !.st = names[r.n], !.f = names[r.n]])
             /\ UNCHANGED names
    <2>1. names[r.n] \in Nat /\ names' \in [Names -> Nat] /\ names'[r.n] = names[r.n]
      BY <1>0, <1>b, <1>8 DEF TypeOK
    <2> QED BY Zenon, <1>5, <1>8, <2>1
  <1> QED BY ZenonT(30), <1>6, <1>7, <1>8 DEF CreateFile

\* A new handle of an inode in hand; the request replies the entry.
LEMMA HandleStep ==
  ASSUME IInv, NEW w \in Workers, workers[w].pc \in {"openat", "atomic"}, NEW o \in Nat,
         NewHandle(workers[w].ent, o), Deliver(<<workers[w].ent>>), SetWorker(w, Idle),
         UNCHANGED <<names, inodes, nextInode, orphans, raced>>,
         ~raced => (workers[w].ent \in DOMAIN inodes => o = inodes[workers[w].ent].key)
  PROVE  IInv'
  <1> DEFINE r == workers[w]
             h == [inode |-> r.ent, file |-> o]
  <1>0. /\ r \in Recs /\ Shape(r) /\ r.ent \in Nat /\ r.ent < nextInode /\ r.got = << >>
        /\ 0 < nextInode
    BY ZenonT(30), OfRecord DEF Shape
  <1>b. TypeOK BY DEF IInv, Base
  <1>1. handles' = handles \cup {h} /\ h.inode = r.ent /\ h.file = o /\ h \in [inode : Nat, file : Nat]
    BY <1>0 DEF NewHandle
  <1>2. held' \in [Inodes -> Nat] /\ \A j \in Inodes : held'[j] = held[j] + Has(<<r.ent>>, j)
    <2>1. <<r.ent>> \in Seq(Nat) BY <1>0
    <2> QED BY Zenon, <1>b, <2>1, DeliverStep
  <1>3. Kept BY <1>b DEF Kept, TypeOK
  <1>4. Tables'
    <2> HIDE DEF h
    <2> QED BY ZenonT(30), <1>0, <1>b, <1>1, <1>2 DEF Tables, TypeOK
  <1>5. Entered
    <2>1. \A i \in DOMAIN inodes : ~(i >= nextInode) BY Zenon, <1>b, NumberedBelow
    <2> HIDE DEF h
    <2> QED BY <1>1, <2>1 DEF Entered
  <1>6. Balanced(r, Idle)
    <2> SUFFICES ASSUME NEW j \in Inodes
                 PROVE  held'[j] + Mine(Idle, j) + orphans'[j] - Refs(j)'
                          = held[j] + Mine(r, j) + orphans[j] - Refs(j)
      BY DEF Balanced
    <2>1. j \in Nat \ {0} BY InodeNumbers
    <2>2. Mine(Idle, j) = 0 BY <2>1, IdleRecord
    <2>3. Has(<<r.ent>>, j) = (IF r.ent = j THEN 1 ELSE 0) /\ Has(<< >>, j) = 0
      BY ZenonT(30), <1>0, HasFew
    <2>4. Mine(r, j) = IF r.ent = j THEN 1 ELSE 0 BY <1>0, <2>3 DEF Mine
    <2>5. /\ held[j] \in Nat /\ orphans[j] \in Nat /\ Refs(j) \in Nat /\ Refs(j)' = Refs(j)
          /\ orphans'[j] = orphans[j]
      BY <1>b DEF TypeOK, Refs, Entries
    <2>6. held'[j] = held[j] + Has(<<r.ent>>, j) BY <1>2
    <2> QED BY SMTT(30), <2>2, <2>3, <2>4, <2>5, <2>6
  <1>7. workers' = [workers EXCEPT ![w] = Idle] /\ names' = names /\ raced' = raced
        /\ names' \in [Names -> Nat] /\ r.pc # "idle"
    BY ZenonT(30), <1>b DEF SetWorker, TypeOK
  <1>8. InOrder(Idle) BY <1>0, IdleRecord DEF InOrder, Tracks
  <1> QED BY ZenonT(30), <1>3, <1>4, <1>5, <1>6, <1>7, <1>8, IdleRecord, RequestStep

\* do_open_at by name.
LEMMA OpenAtStep ==
  ASSUME IInv, NEW w \in Workers, OpenAt(w)
  PROVE  IInv'
  <1> DEFINE r == workers[w]
  <1>0. /\ r \in Recs /\ Shape(r) /\ r.pc = "openat" /\ r.n \in Names /\ r.ent < nextInode
        /\ r.op \in {"create", "atomic", "excl"} /\ r.got = << >>
        /\ (~raced => Tracks(r, names, inodes))
    BY OfRecord DEF OpenAt, Shape
  <1>b. TypeOK BY DEF IInv, Base
  <1>1. UNCHANGED <<names, inodes, nextInode, orphans, raced>> BY DEF OpenAt
  <1>2. CASE NewHandle(r.ent, names[r.n]) /\ Deliver(<<r.ent>>) /\ SetWorker(w, Idle)
    <2>1. names[r.n] \in Nat BY ZenonT(30), <1>0, <1>b DEF TypeOK
    <2>2. ~raced => (r.ent \in DOMAIN inodes => names[r.n] = inodes[r.ent].key)
      BY <1>0 DEF Tracks
    <2> QED BY Zenon, <1>0, <1>1, <1>2, <2>1, <2>2, HandleStep
  <1>3. CASE SetWorker(w, [r EXCEPT !.pc = "undo"]) /\ UNCHANGED <<handles, held>>
    <2> DEFINE q == [r EXCEPT !.pc = "undo"]
    <2>1. /\ q \in Recs /\ q.pc = "undo" /\ q.op = r.op /\ q.ent = r.ent /\ q.got = r.got
          /\ q.n = r.n
      BY <1>0 DEF Recs, PCs
    <2>2. InOrder(q) BY <1>0, <1>1, <2>1 DEF InOrder, Shape, Tracks
    <2>3. \A i \in Inodes : Mine(q, i) = Mine(r, i) BY <2>1 DEF Mine
    <2>4. r.pc # "idle" /\ SetWorker(w, q) BY <1>0, <1>3
    <2> HIDE DEF q
    <2> QED BY <1>1, <1>3, <2>1, <2>2, <2>3, <2>4, GoOnStep
  <1> QED BY <1>2, <1>3 DEF OpenAt

\* References given back: the entry goes with its last one (forget_one).
LEMMA ForgetOneStep ==
  ASSUME IInv, NEW i, NEW c \in Nat, inodes' = ForgetOne(inodes, i, c), nextInode' = nextInode,
         i \in DOMAIN inodes => c <= inodes[i].refs
  PROVE  /\ Kept /\ TableOK' /\ DOMAIN inodes' \subseteq DOMAIN inodes
         /\ \A j \in Inodes : Refs(j)' = Refs(j) - IF j = i /\ i \in DOMAIN inodes THEN c ELSE 0
  <1>1. TypeOK BY DEF IInv, Base
  <1>2. \A j \in DOMAIN inodes : inodes[j] \in Entries BY <1>1 DEF TypeOK
  <1>a. \A j \in Inodes : Refs(j) \in Nat BY <1>1 DEF TypeOK, Refs, Entries
  <1>3. CASE i \notin DOMAIN inodes
    <2>1. inodes' = inodes BY <1>3 DEF ForgetOne
    <2>2. \A j \in Inodes : Refs(j)' = Refs(j) BY <2>1 DEF Refs
    <2> QED BY <1>1, <1>3, <1>a, <2>1, <2>2 DEF Kept, TableOK, TypeOK
  <1>4. CASE i \in DOMAIN inodes /\ inodes[i].refs <= c
    <2>0. inodes[i].refs = c BY <1>2, <1>4 DEF Entries
    <2>1. inodes' = [j \in DOMAIN inodes \ {i} |-> inodes[j]] BY <1>4 DEF ForgetOne
    <2>2. DOMAIN inodes' = DOMAIN inodes \ {i} /\ \A j \in DOMAIN inodes' : inodes'[j] = inodes[j]
      BY <2>1
    <2>3. inodes' \in [DOMAIN inodes' -> Entries] BY <1>2, <2>1
    <2>4. TableOK' BY <1>1, <2>2, <2>3 DEF TableOK, TypeOK
    <2>5. Kept BY <1>1, <2>2 DEF Kept, TypeOK
    <2>6. \A j \in Inodes : Refs(j)' = Refs(j) - IF j = i /\ i \in DOMAIN inodes THEN c ELSE 0
      BY <1>4, <1>a, <2>0, <2>2 DEF Refs
    <2> QED BY ZenonT(30), <2>2, <2>4, <2>5, <2>6
  <1>5. CASE i \in DOMAIN inodes /\ ~(inodes[i].refs <= c)
    <2>1. inodes' = [inodes EXCEPT ![i].refs = @ - c] BY <1>5 DEF ForgetOne
    <2>2. /\ DOMAIN inodes' = DOMAIN inodes
          /\ \A j \in DOMAIN inodes : inodes'[j] = IF j = i THEN [inodes[i] EXCEPT !.refs = @ - c]
                                                   ELSE inodes[j]
      BY <1>1, <2>1 DEF TypeOK
    <2>3. inodes[i].refs - c \in Nat BY <1>2, <1>5 DEF Entries
    <2>4. \A j \in DOMAIN inodes : /\ inodes'[j] \in Entries
                                   /\ inodes'[j].key = inodes[j].key
                                   /\ inodes'[j].file = inodes[j].file
                                   /\ inodes'[j].refs = inodes[j].refs - IF j = i THEN c ELSE 0
      BY <1>2, <2>2, <2>3 DEF Entries
    <2>5. inodes' \in [DOMAIN inodes' -> Entries] BY Zenon, <1>1, <2>1, <2>2, <2>4 DEF TypeOK
    <2>6. TableOK' BY <1>1, <2>2, <2>5 DEF TableOK, TypeOK
    <2>7. Kept BY <1>1, <2>2, <2>4 DEF Kept, TypeOK
    <2>8. \A j \in Inodes : Refs(j)' = Refs(j) - IF j = i /\ i \in DOMAIN inodes THEN c ELSE 0
      BY SMTT(30), <1>5, <1>a, <2>2, <2>4 DEF Refs
    <2> QED BY <2>2, <2>6, <2>7, <2>8
  <1> QED BY <1>3, <1>4, <1>5

\* A request that fails gives back the reference it has in hand, and the entry
\* is still in the table when it does.
LEMMA UndoStep ==
  ASSUME IInv, NEW w \in Workers, Undo(w)
  PROVE  IInv'
  <1> DEFINE r == workers[w]
  <1>0. /\ r \in Recs /\ Shape(r) /\ r.pc = "undo" /\ r.ent \in Nat /\ r.got \in Seq(Nat)
        /\ 0 < nextInode /\ nextInode \in Nat
    BY Zenon, OfRecord DEF Undo, Shape
  <1>b. TypeOK /\ Base BY DEF IInv, Base
  <1>1. /\ inodes' = ForgetOne(inodes, r.ent, 1) /\ Deliver(r.got)
        /\ workers' = [workers EXCEPT ![w] = Idle]
        /\ UNCHANGED <<names, nextInode, handles, orphans, raced>>
    BY ZenonT(30) DEF Undo, SetWorker
  <1>2. ASSUME NEW j \in Inodes
        PROVE  /\ j \in Nat \ {0} /\ held[j] \in Nat /\ orphans[j] \in Nat /\ Refs(j) \in Nat
               /\ held[j] + InHand(j) + orphans[j] = Refs(j) /\ Has(r.got, j) \in Nat
               /\ Mine(r, j) = (IF r.ent = j THEN 1 ELSE 0) + Has(r.got, j)
               /\ InHand(j) \in Nat /\ Mine(r, j) <= InHand(j) /\ Mine(Idle, j) = 0
    <2>1. j \in Nat \ {0} BY InodeNumbers
    <2>2. held[j] \in Nat /\ orphans[j] \in Nat /\ Refs(j) \in Nat
      BY <1>b DEF TypeOK, Refs, Entries
    <2>3. held[j] + InHand(j) + orphans[j] = Refs(j) BY DEF IInv, RefsAccounted, Refs
    <2>4. InHand(j) \in Nat /\ Mine(r, j) <= InHand(j)
      BY Zenon, <1>b, <1>1, IdleRecord, InHandStep
    <2>5. Has(r.got, j) \in Nat BY Zenon, <1>0, HasNat
    <2> QED BY <2>1, <2>2, <2>3, <2>4, <2>5, IdleRecord DEF Mine
  <1>3. ASSUME NEW j \in Inodes, j = r.ent PROVE j \in DOMAIN inodes /\ 1 <= inodes[j].refs
    <2>1. 1 <= Refs(j) BY <1>2, <1>3
    <2> QED BY <2>1 DEF Refs
  <1>4. r.ent \in DOMAIN inodes => 1 <= inodes[r.ent].refs
    BY ZenonT(30), <1>3, <1>b DEF TypeOK
  <1>5. /\ Kept /\ TableOK' /\ DOMAIN inodes' \subseteq DOMAIN inodes
        /\ \A j \in Inodes : Refs(j)' = Refs(j) - IF j = r.ent /\ r.ent \in DOMAIN inodes THEN 1 ELSE 0
    BY ZenonT(30), <1>1, <1>4, ForgetOneStep
  <1>6. held' \in [Inodes -> Nat] /\ \A j \in Inodes : held'[j] = held[j] + Has(r.got, j)
    BY <1>0, <1>b, <1>1, DeliverStep
  <1>7. Tables' BY ZenonT(30), <1>1, <1>5, <1>6, <1>b DEF Tables, TableOK, TypeOK
  <1>8. Entered
    <2>1. \A i \in DOMAIN inodes' : ~(i >= nextInode) BY Zenon, <1>b, <1>5, NumberedBelow
    <2> QED BY <1>1, <2>1 DEF Entered
  <1>9. Balanced(r, Idle)
    <2> SUFFICES ASSUME NEW j \in Inodes
                 PROVE  held'[j] + Mine(Idle, j) + orphans'[j] - Refs(j)'
                          = held[j] + Mine(r, j) + orphans[j] - Refs(j)
      BY DEF Balanced
    <2>1. Refs(j)' = Refs(j) - IF j = r.ent THEN 1 ELSE 0 BY ZenonT(30), <1>3, <1>5
    <2>2. held'[j] = held[j] + Has(r.got, j) /\ orphans'[j] = orphans[j] BY <1>1, <1>6
    <2>3. /\ held[j] \in Nat /\ orphans[j] \in Nat /\ Refs(j) \in Nat /\ Has(r.got, j) \in Nat
          /\ Mine(r, j) = (IF j = r.ent THEN 1 ELSE 0) + Has(r.got, j) /\ Mine(Idle, j) = 0
      BY ZenonT(30), <1>2
    <2>4. CASE j = r.ent BY SMTT(30), <2>1, <2>2, <2>3, <2>4
    <2>5. CASE j # r.ent BY <2>1, <2>2, <2>3, <2>5
    <2> QED BY <2>4, <2>5
  <1>10. names' = names /\ raced' = raced /\ names' \in [Names -> Nat] /\ r.pc # "idle"
    BY ZenonT(30), <1>0, <1>b, <1>1 DEF TypeOK
  <1>11. InOrder(Idle) BY ZenonT(30), <1>0, <1>1, IdleRecord DEF InOrder, Tracks
  <1> QED BY ZenonT(30), <1>1, <1>5, <1>7, <1>8, <1>9, <1>10, <1>11, IdleRecord, RequestStep

\* atomic_open of a file that exists.
LEMMA AtomicFoundStep ==
  ASSUME IInv, NEW w \in Workers, AtomicFound(w)
  PROVE  IInv'
  <1> DEFINE r == workers[w]
  <1>0. /\ r \in Recs /\ Shape(r) /\ r.pc = "atomic" /\ r.ent \in Nat /\ r.got = << >>
        /\ 0 < nextInode /\ nextInode \in Nat
    BY ZenonT(30), OfRecord DEF AtomicFound, Shape
  <1>b. TypeOK BY DEF IInv, Base
  <1>1. /\ SetWorker(w, Idle) /\ workers' = [workers EXCEPT ![w] = Idle]
        /\ UNCHANGED <<names, inodes, nextInode, raced>>
    BY DEF AtomicFound, SetWorker
  <1>2. CASE orphans' = [orphans EXCEPT ![r.ent] = @ + 1] /\ UNCHANGED <<handles, held>>
    <2>1. Kept BY <1>b, <1>1 DEF Kept, TypeOK
    <2>2. orphans' \in [Inodes -> Nat]
      <3>1. orphans \in [Inodes -> Nat] BY <1>b DEF TypeOK
      <3>2. CASE r.ent \in Inodes BY <1>2, <3>1, <3>2
      <3>3. CASE r.ent \notin Inodes BY Zenon, <1>2, <3>1, <3>3
      <3> QED BY <3>2, <3>3
    <2>3. Tables' BY <1>b, <1>1, <1>2, <2>2 DEF Tables, TypeOK
    <2>4. Entered
      <3>1. \A i \in DOMAIN inodes : ~(i >= nextInode) BY Zenon, <1>b, NumberedBelow
      <3> QED BY ZenonT(30), <1>1, <1>2, <3>1 DEF Entered
    <2>5. Balanced(r, Idle)
      <3> SUFFICES ASSUME NEW j \in Inodes
                   PROVE  held'[j] + Mine(Idle, j) + orphans'[j] - Refs(j)'
                            = held[j] + Mine(r, j) + orphans[j] - Refs(j)
        BY DEF Balanced
      <3>1. Mine(Idle, j) = 0 BY IdleRecord, InodeNumbers
      <3>2. Has(<< >>, j) = 0 BY ZenonT(30), <1>0, HasFew
      <3>3. Mine(r, j) = IF r.ent = j THEN 1 ELSE 0 BY <1>0, <3>2 DEF Mine
      <3>4. /\ orphans'[j] = orphans[j] + (IF r.ent = j THEN 1 ELSE 0) /\ held'[j] = held[j]
            /\ orphans[j] \in Nat /\ held[j] \in Nat /\ Refs(j) \in Nat /\ Refs(j)' = Refs(j)
        BY <1>b, <1>1, <1>2 DEF TypeOK, Refs, Entries
      <3> QED BY <3>1, <3>3, <3>4
    <2>6. names' = names /\ raced' = raced /\ names' \in [Names -> Nat] /\ r.pc # "idle"
      BY ZenonT(30), <1>0, <1>b, <1>1 DEF TypeOK
    <2>7. InOrder(Idle) BY ZenonT(30), <1>0, <1>1, IdleRecord DEF InOrder, Tracks
    <2> QED BY Zenon, <1>1, <2>1, <2>3, <2>4, <2>5, <2>6, <2>7, IdleRecord, RequestStep
  <1>3. CASE /\ \E i \in DOMAIN inodes : i = r.ent /\ NewHandle(i, inodes[i].file)
             /\ Deliver(<<r.ent>>) /\ UNCHANGED orphans
    <2>1. r.ent \in DOMAIN inodes /\ NewHandle(r.ent, inodes[r.ent].file) BY <1>3
    <2>2. inodes[r.ent].file \in Nat BY <1>b, <2>1 DEF TypeOK, Entries
    <2>3. ~raced => inodes[r.ent].file = inodes[r.ent].key
      BY <2>1 DEF IInv, EntryIsFile
    <2> QED BY ZenonT(30), <1>0, <1>1, <1>3, <2>1, <2>2, <2>3, HandleStep
  <1>4. CASE Deliver(<<r.ent>>) /\ UNCHANGED <<handles, orphans>>
    <2>1. <<r.ent>> \in Seq(Nat) BY <1>0
    <2>2. \A i \in Inodes : Has(<<r.ent>>, i) = Mine(r, i)
      <3> SUFFICES ASSUME NEW j \in Inodes PROVE Has(<<r.ent>>, j) = Mine(r, j)
        OBVIOUS
      <3>1. Has(<<r.ent>>, j) = (IF r.ent = j THEN 1 ELSE 0) /\ Has(<< >>, j) = 0
        BY ZenonT(30), <1>0, HasFew
      <3> QED BY <1>0, <3>1 DEF Mine
    <2>3. r.pc # "idle" BY <1>0
    <2> QED BY Zenon, <1>1, <1>4, <2>1, <2>2, <2>3, ReplyStep
  <1> QED BY ZenonT(30), <1>2, <1>3, <1>4 DEF AtomicFound

\* readdirplus moves the reference into its reply, or replies.
LEMMA FillDirentStep ==
  ASSUME IInv, NEW w \in Workers, FillDirent(w)
  PROVE  IInv'
  <1> DEFINE r == workers[w]
             got == Append(r.got, r.ent)
  <1>0. /\ r \in Recs /\ Shape(r) /\ r.pc = "fill" /\ r.op = "dirs" /\ r.ent \in Nat
        /\ r.got \in Seq(Nat) /\ r.ent < nextInode /\ 0 < nextInode /\ r.n \in Names
        /\ r.pc # "idle"
    BY ZenonT(30), OfRecord DEF FillDirent, Shape
  <1>1. UNCHANGED <<names, inodes, nextInode, handles, orphans, raced>> BY Zenon DEF FillDirent
  <1>2. got \in Seq(Nat) BY <1>0
  <1>3. ASSUME NEW i \in Inodes
        PROVE  /\ Has(got, i) = Has(r.got, i) + (IF r.ent = i THEN 1 ELSE 0)
               /\ Has(r.got, i) \in Nat /\ i # 0 /\ Has(got, i) = Mine(r, i)
    <2>1. Has(got, i) = Has(r.got, i) + IF r.ent = i THEN 1 ELSE 0 BY <1>0, HasAppend
    <2>2. Has(r.got, i) \in Nat BY Zenon, <1>0, HasNat
    <2>3. Mine(r, i) = (IF r.ent = i THEN 1 ELSE 0) + Has(r.got, i) BY DEF Mine
    <2> HIDE DEF got
    <2> QED BY SMTT(30), <2>1, <2>2, <2>3, InodeNumbers
  <1> HIDE DEF got
  <1>4. CASE SetWorker(w, [r EXCEPT !.pc = "undo"]) /\ UNCHANGED held
    <2> DEFINE q == [r EXCEPT !.pc = "undo"]
    <2>1. /\ q \in Recs /\ q.pc = "undo" /\ q.op = r.op /\ q.ent = r.ent /\ q.got = r.got
          /\ q.n = r.n
      BY ZenonT(30), <1>0 DEF Recs, PCs
    <2>2. InOrder(q) BY <1>0, <1>1, <2>1 DEF InOrder, Shape, Tracks
    <2>3. \A i \in Inodes : Mine(q, i) = Mine(r, i) BY <2>1 DEF Mine
    <2>4. SetWorker(w, q) BY <1>4
    <2> HIDE DEF q
    <2> QED BY ZenonT(30), <1>0, <1>1, <1>4, <2>1, <2>2, <2>3, <2>4, GoOnStep
  <1>5. ASSUME NEW m \in r.todo, UNCHANGED held,
               SetWorker(w, [r EXCEPT !.pc = "stat", !.n = m, !.todo = @ \ {m},
                                      !.got = got, !.ent = 0])
        PROVE  IInv'
    <2> DEFINE q == [r EXCEPT !.pc = "stat", !.n = m, !.todo = @ \ {m}, !.got = got, !.ent = 0]
    <2>0. m \in Names BY <1>0, <1>5 DEF Recs
    <2>1. /\ q \in Recs /\ q.pc = "stat" /\ q.op = r.op /\ q.ent = 0 /\ q.got = got /\ q.n = m
      BY Zenon, <1>0, <1>2, <2>0 DEF Recs, PCs
    <2>2. InOrder(q) BY <1>0, <1>1, <2>0, <2>1 DEF InOrder, Shape, Tracks
    <2>3. \A i \in Inodes : Mine(q, i) = Mine(r, i)
      <3> SUFFICES ASSUME NEW i \in Inodes PROVE Mine(q, i) = Mine(r, i)
        OBVIOUS
      <3>1. Mine(q, i) = (IF 0 = i THEN 1 ELSE 0) + Has(got, i) BY <2>1 DEF Mine
      <3>2. Has(got, i) \in Nat BY Zenon, <1>2, HasNat
      <3> QED BY <1>3, <3>1, <3>2
    <2>4. SetWorker(w, q) BY ZenonT(30), <1>5
    <2> HIDE DEF q
    <2> QED BY <1>0, <1>1, <1>5, <2>1, <2>2, <2>3, <2>4, GoOnStep
  <1>6. CASE Deliver(got) /\ SetWorker(w, Idle)
    <2>1. \A i \in Inodes : Has(got, i) = Mine(r, i) BY <1>3
    <2> QED BY ZenonT(30), <1>0, <1>1, <1>2, <1>6, <2>1, ReplyStep
  <1>7. \/ SetWorker(w, [r EXCEPT !.pc = "undo"]) /\ UNCHANGED held
        \/ \E m \in r.todo : /\ SetWorker(w, [r EXCEPT !.pc = "stat", !.n = m, !.todo = @ \ {m},
                                                       !.got = got, !.ent = 0])
                             /\ UNCHANGED held
        \/ Deliver(got) /\ SetWorker(w, Idle)
    BY Zenon DEF FillDirent, got
  <1> QED BY ZenonT(30), <1>4, <1>5, <1>6, <1>7

---------------------------------------------------------------------------
(* What the guest does with its references and handles.                    *)

\* No request steps: what the guest gives back leaves the table.
LEMMA GuestStep ==
  ASSUME IInv, UNCHANGED <<names, workers, raced>>, Kept, Tables', Entered,
         \A i \in Inodes : held'[i] + orphans'[i] - Refs(i)' = held[i] + orphans[i] - Refs(i)
  PROVE  IInv'
  <1>0. Base /\ RefsAccounted /\ Alone /\ Tracking /\ EntryIsFile
    BY DEF IInv
  <1>1. nextInode' \in Nat /\ nextInode <= nextInode' /\ nextInode \in Nat
    BY <1>0 DEF Kept, Base, TypeOK
  <1>2. TypeOK' BY <1>0, <1>1 DEF Base, TypeOK, Tables
  <1>3. Shapes'
    <2> SUFFICES ASSUME NEW v \in Workers PROVE Shape(workers[v]) /\ workers[v].ent < nextInode'
      BY ZenonT(30) DEF Shapes, Shape
    <2>1. workers[v].ent \in Nat /\ workers[v].ent < nextInode /\ Shape(workers[v])
      BY OfRecord
    <2> QED BY SMTT(30), <1>1, <2>1
  <1>4. RefsAccounted'
    <2> SUFFICES ASSUME NEW i \in Inodes
                 PROVE  /\ Live(i) \in Nat /\ Live(i)' \in Nat /\ orphans'[i] \in Nat
                        /\ Refs(i)' \in Int
                        /\ Live(i)' + orphans'[i] - Refs(i)' = Live(i) + orphans[i] - Refs(i)
      BY <1>0, AccountStep
    <2>1. InHand(i) \in Nat /\ InHand(i)' = InHand(i) BY <1>0, InHandNat, StillInHand
    <2>2. held[i] \in Nat /\ orphans[i] \in Nat /\ Refs(i) \in Nat
      BY <1>0 DEF Base, TypeOK, Refs, Entries
    <2>3. held'[i] \in Nat /\ orphans'[i] \in Nat /\ Refs(i)' \in Nat
      BY DEF Tables, Refs, Entries
    <2>4. held'[i] + orphans'[i] - Refs(i)' = held[i] + orphans[i] - Refs(i)
      OBVIOUS
    <2>5. Live(i) = held[i] + InHand(i) /\ Live(i)' = held'[i] + InHand(i)'
      BY DEF Live
    <2> QED BY SMTT(30), <2>1, <2>2, <2>3, <2>4, <2>5
  <1>5. Alone' BY <1>0 DEF Alone
  <1>6. Tracking'
    <2> SUFFICES ASSUME ~raced, NEW v \in Workers PROVE Tracks(workers[v], names, inodes')
      BY DEF Tracking
    <2>1. Tracks(workers[v], names, inodes) /\ workers[v].ent < nextInode BY OfRecord
    <2> QED BY <2>1 DEF Tracks, Kept
  <1>7. EntryIsFile'
    <2>1. \A i \in DOMAIN inodes' : i \in Nat BY InodeNumbers DEF Tables
    <2> QED BY <1>0, <2>1, FilesStep
  <1> QED BY <1>2, <1>3, <1>4, <1>5, <1>6, <1>7 DEF IInv, Base

\* forget and batch_forget: the guest gives back no more than the table counts.
LEMMA ForgetStep ==
  ASSUME IInv, (\E i \in Inodes : \E count \in 1 .. held[i] : Forget(i, count)) \/ BatchForget
  PROVE  IInv'
  <1>b. TypeOK /\ Base BY DEF IInv, Base
  <1>0. ASSUME NEW j \in Inodes
        PROVE  /\ held[j] \in Nat /\ orphans[j] \in Nat /\ Refs(j) \in Nat /\ held[j] <= Refs(j)
    <2>1. held[j] \in Nat /\ orphans[j] \in Nat /\ Refs(j) \in Nat
      BY <1>b DEF TypeOK, Refs, Entries
    <2>2. InHand(j) \in Nat BY <1>b, InHandNat
    <2>3. held[j] + InHand(j) + orphans[j] = Refs(j) BY DEF IInv, RefsAccounted, Refs
    <2> QED BY <2>1, <2>2, <2>3
  <1>e. ASSUME DOMAIN inodes' \subseteq DOMAIN inodes, handles' = handles PROVE Entered
    <2>1. \A i \in DOMAIN inodes' : ~(i >= nextInode) BY Zenon, <1>b, <1>e, NumberedBelow
    <2> QED BY <1>e, <2>1 DEF Entered
  <1>1. ASSUME NEW i \in Inodes, NEW count \in 1 .. held[i], Forget(i, count) PROVE IInv'
    <2>1. /\ held' = [held EXCEPT ![i] = @ - count] /\ inodes' = ForgetOne(inodes, i, count)
          /\ UNCHANGED <<names, nextInode, handles, workers, orphans, raced>>
      BY <1>1 DEF Forget
    <2>2. count \in Nat /\ 1 <= count /\ count <= held[i] /\ count <= Refs(i)
      BY <1>0
    <2>3. i \in DOMAIN inodes /\ count <= inodes[i].refs BY SMTT(30), <2>2 DEF Refs
    <2>4. /\ Kept /\ TableOK' /\ DOMAIN inodes' \subseteq DOMAIN inodes
          /\ \A j \in Inodes : Refs(j)' = Refs(j) - IF j = i /\ i \in DOMAIN inodes THEN count ELSE 0
      BY ZenonT(30), <2>1, <2>2, <2>3, ForgetOneStep
    <2>5. /\ held' \in [Inodes -> Nat]
          /\ \A j \in Inodes : held'[j] = held[j] - IF j = i THEN count ELSE 0
      <3>1. held[i] - count \in Nat BY <1>0, <2>2
      <3> QED BY SMTT(30), <1>b, <1>0, <2>1, <3>1 DEF TypeOK
    <2>6. Tables' BY ZenonT(30), <1>b, <2>1, <2>4, <2>5 DEF Tables, TableOK, TypeOK
    <2>7. Entered BY ZenonT(30), <1>e, <2>1, <2>4
    <2>8. \A j \in Inodes : held'[j] + orphans'[j] - Refs(j)' = held[j] + orphans[j] - Refs(j)
      <3> SUFFICES ASSUME NEW j \in Inodes
                   PROVE  held'[j] + orphans'[j] - Refs(j)' = held[j] + orphans[j] - Refs(j)
        OBVIOUS
      <3>1. held'[j] = held[j] - (IF j = i THEN count ELSE 0) /\ orphans'[j] = orphans[j]
        BY ZenonT(30), <2>1, <2>5
      <3>2. Refs(j)' = Refs(j) - IF j = i THEN count ELSE 0 BY ZenonT(30), <2>3, <2>4
      <3>3. held[j] \in Nat /\ orphans[j] \in Nat /\ Refs(j) \in Nat BY <1>0
      <3> QED BY SMTT(30), <2>2, <3>1, <3>2, <3>3
    <2>9. UNCHANGED <<names, workers, raced>> BY ZenonT(30), <2>1
    <2> QED BY ZenonT(30), <2>4, <2>6, <2>7, <2>8, <2>9, GuestStep
  <1>2. CASE BatchForget
    <2> DEFINE left == {j \in DOMAIN inodes : inodes[j].refs > held[j]}
    <2>1. /\ held' = [i \in Inodes |-> 0]
          /\ inodes' = [i \in left |-> [inodes[i] EXCEPT !.refs = @ - held[i]]]
          /\ UNCHANGED <<names, nextInode, handles, workers, orphans, raced>>
      BY <1>2 DEF BatchForget
    <2>2. \A j \in DOMAIN inodes : j \in Inodes /\ inodes[j] \in Entries /\ inodes[j].refs = Refs(j)
      BY <1>b DEF TypeOK, Refs
    <2>3. \A j \in left : inodes[j].refs - held[j] \in Nat /\ inodes[j].refs \in Nat
      BY <1>0, <2>2
    <2>4. DOMAIN inodes' = left /\ left \subseteq DOMAIN inodes BY <2>1
    <2>5. \A j \in left : /\ inodes'[j] \in Entries
                          /\ inodes'[j].key = inodes[j].key /\ inodes'[j].file = inodes[j].file
                          /\ inodes'[j].refs = inodes[j].refs - held[j]
      BY <2>1, <2>2, <2>3 DEF Entries
    <2>6. inodes' \in [DOMAIN inodes' -> Entries]
      <3>1. inodes' = [j \in left |-> inodes'[j]] BY <2>1
      <3> QED BY <2>4, <2>5, <3>1
    <2>7. held' \in [Inodes -> Nat] /\ \A j \in Inodes : held'[j] = 0 BY <2>1
    <2>8. Tables' BY <1>b, <2>1, <2>4, <2>6, <2>7 DEF Tables, TypeOK
    <2>9. Kept BY <1>b, <2>1, <2>4, <2>5 DEF Kept, TypeOK
    <2>10. Entered BY ZenonT(30), <1>e, <2>1, <2>4
    <2>11. \A j \in Inodes : Refs(j)' = Refs(j) - held[j]
      <3> SUFFICES ASSUME NEW j \in Inodes PROVE Refs(j)' = Refs(j) - held[j]
        BY ZenonT(30)
      <3>1. CASE j \in left
        BY ZenonT(30), <2>2, <2>4, <2>5, <3>1 DEF Refs
      <3>2. CASE j \notin left
        <4>1. Refs(j)' = 0 BY <2>4, <3>2 DEF Refs
        <4>2. Refs(j) = held[j]
          <5>1. CASE j \in DOMAIN inodes
            <6>1. ~(Refs(j) > held[j]) BY <2>2, <3>2, <5>1
            <6> QED BY <1>0, <6>1
          <5>2. CASE j \notin DOMAIN inodes
            <6>1. Refs(j) = 0 BY <5>2 DEF Refs
            <6> QED BY <1>0, <6>1
          <5> QED BY ZenonT(30), <5>1, <5>2
        <4> QED BY SMTT(30), <1>0, <4>1, <4>2
      <3> QED BY <3>1, <3>2
    <2>12. \A j \in Inodes : held'[j] + orphans'[j] - Refs(j)' = held[j] + orphans[j] - Refs(j)
      <3> SUFFICES ASSUME NEW j \in Inodes
                   PROVE  held'[j] + orphans'[j] - Refs(j)' = held[j] + orphans[j] - Refs(j)
        OBVIOUS
      <3>1. held'[j] = 0 /\ orphans'[j] = orphans[j] /\ Refs(j)' = Refs(j) - held[j]
        BY <2>1, <2>7, <2>11
      <3>2. held[j] \in Nat /\ orphans[j] \in Nat /\ Refs(j) \in Nat BY <1>0
      <3> QED BY <3>1, <3>2
    <2>13. UNCHANGED <<names, workers, raced>> BY ZenonT(30), <2>1
    <2> HIDE DEF left
    <2> QED BY <2>8, <2>9, <2>10, <2>12, <2>13, GuestStep
  <1> QED BY <1>1, <1>2

\* open and release change the handles only.
LEMMA HandlesStep ==
  ASSUME IInv, (\E i \in Inodes : Open(i)) \/ (\E h \in handles : Release(h))
  PROVE  IInv'
  <1>b. TypeOK BY DEF IInv, Base
  <1>1. UNCHANGED <<names, inodes, nextInode, workers, held, orphans, raced>>
    BY DEF Open, Release
  <1>2. \A h \in handles' : \/ h \in handles
                            \/ /\ h \in [inode : Nat, file : Nat] /\ h.inode \in DOMAIN inodes
                               /\ h.file = inodes[h.inode].file
    <2>1. ASSUME NEW i \in Inodes, Open(i)
          PROVE  \A h \in handles' : \/ h \in handles
                                     \/ /\ h \in [inode : Nat, file : Nat] /\ h.inode \in DOMAIN inodes
                                        /\ h.file = inodes[h.inode].file
      <3>1. i \in Nat /\ i \in DOMAIN inodes /\ inodes[i].file \in Nat
        BY <1>b, <2>1, InodeNumbers DEF Open, TypeOK, Entries
      <3> QED BY <2>1, <3>1 DEF Open, NewHandle
    <2>2. ASSUME NEW h \in handles, Release(h) PROVE handles' \subseteq handles
      BY <2>2 DEF Release
    <2> QED BY ZenonT(30), <2>1, <2>2
  <1>3. Kept BY <1>b, <1>1 DEF Kept, TypeOK
  <1>4. Tables' BY ZenonT(30), <1>b, <1>1, <1>2 DEF Tables, TypeOK
  <1>5. Entered
    <2>1. \A i \in DOMAIN inodes : ~(i >= nextInode) BY Zenon, <1>b, NumberedBelow
    <2>2. ~raced => \A i \in DOMAIN inodes : inodes[i].file = inodes[i].key
      BY DEF IInv, EntryIsFile
    <2> QED BY <1>1, <1>2, <2>1, <2>2 DEF Entered
  <1>6. \A i \in Inodes : held'[i] + orphans'[i] - Refs(i)' = held[i] + orphans[i] - Refs(i)
    BY <1>1 DEF Refs
  <1>7. UNCHANGED <<names, workers, raced>> BY <1>1
  <1> QED BY <1>3, <1>4, <1>5, <1>6, <1>7, GuestStep

\* No request under way, no reference in hand.
LEMMA NothingInHand ==
  ASSUME Busy = {}, Shapes, NEW i \in Inodes
  PROVE  InHand(i) = 0
  <1>1. \A w \in Workers : workers[w] = Idle BY DEF Busy, Shapes, Shape
  <1>2. i # 0 BY InodeNumbers
  <1>3. Places(Idle, i) = {} BY <1>2, IdleRecord DEF Places
  <1>4. UNION {{w} \X Places(workers[w], i) : w \in Workers} = {} BY <1>1, <1>3
  <1> QED BY ZenonT(30), <1>4, FS_EmptySet DEF InHand

\* FUSE_DESTROY empties the tables, a reset leaves the references behind.
LEMMA SessionStep ==
  ASSUME IInv, Destroy \/ Reset
  PROVE  IInv'
  <1>b. TypeOK /\ Base BY DEF IInv, Base
  <1>0. ASSUME NEW j \in Inodes
        PROVE  /\ held[j] \in Nat /\ orphans[j] \in Nat /\ Refs(j) \in Nat
               /\ held[j] + orphans[j] = Refs(j)
    <2>1. held[j] \in Nat /\ orphans[j] \in Nat /\ Refs(j) \in Nat
      BY <1>b DEF TypeOK, Refs, Entries
    <2>2. InHand(j) = 0
      <3>1. Busy = {} BY ZenonT(30) DEF Destroy, Reset
      <3> QED BY ZenonT(30), <1>b, <3>1, NothingInHand DEF Base
    <2>3. held[j] + InHand(j) + orphans[j] = Refs(j) BY DEF IInv, RefsAccounted, Refs
    <2> QED BY <2>1, <2>2, <2>3
  <1>1. CASE Destroy
    <2>1. /\ handles' = {} /\ inodes' = << >> /\ held' = [i \in Inodes |-> 0]
          /\ orphans' = [i \in Inodes |-> 0] /\ UNCHANGED <<names, nextInode, workers, raced>>
      BY <1>1 DEF Destroy
    <2>2. DOMAIN inodes' = {} /\ inodes' \in [DOMAIN inodes' -> Entries] BY <2>1
    <2>3. Kept BY <1>b, <2>1, <2>2 DEF Kept, TypeOK
    <2>4. Tables' BY <2>1, <2>2 DEF Tables
    <2>5. Entered BY ZenonT(30), <2>1, <2>2 DEF Entered
    <2>6. \A i \in Inodes : held'[i] + orphans'[i] - Refs(i)' = held[i] + orphans[i] - Refs(i)
      <3> SUFFICES ASSUME NEW i \in Inodes
                   PROVE  held'[i] + orphans'[i] - Refs(i)' = held[i] + orphans[i] - Refs(i)
        OBVIOUS
      <3>1. held'[i] = 0 /\ orphans'[i] = 0 BY <2>1
      <3>2. Refs(i)' = 0 BY <2>2 DEF Refs
      <3> QED BY SMTT(30), <1>0, <3>1, <3>2
    <2>7. UNCHANGED <<names, workers, raced>> BY ZenonT(30), <2>1
    <2> QED BY ZenonT(30), <2>3, <2>4, <2>5, <2>6, <2>7, GuestStep
  <1>2. CASE Reset
    <2>1. /\ orphans' = [i \in Inodes |-> orphans[i] + held[i]] /\ held' = [i \in Inodes |-> 0]
          /\ UNCHANGED <<names, inodes, nextInode, handles, workers, raced>>
      BY <1>2 DEF Reset
    <2>2. Kept BY <1>b, <2>1 DEF Kept, TypeOK
    <2>3. orphans' \in [Inodes -> Nat] /\ held' \in [Inodes -> Nat] BY <1>0, <2>1
    <2>4. Tables' BY ZenonT(30), <1>b, <2>1, <2>3 DEF Tables, TypeOK
    <2>5. Entered
      <3>1. \A i \in DOMAIN inodes : ~(i >= nextInode) BY Zenon, <1>b, NumberedBelow
      <3> QED BY <2>1, <3>1 DEF Entered
    <2>6. \A i \in Inodes : held'[i] + orphans'[i] - Refs(i)' = held[i] + orphans[i] - Refs(i)
      <3> SUFFICES ASSUME NEW i \in Inodes
                   PROVE  held'[i] + orphans'[i] - Refs(i)' = held[i] + orphans[i] - Refs(i)
        OBVIOUS
      <3>1. held'[i] = 0 /\ orphans'[i] = orphans[i] + held[i] BY <2>1
      <3>2. Refs(i)' = Refs(i) BY <2>1 DEF Refs
      <3> QED BY SMTT(30), <1>0, <3>1, <3>2
    <2>7. UNCHANGED <<names, workers, raced>> BY <2>1
    <2> QED BY <2>2, <2>4, <2>5, <2>6, <2>7, GuestStep
  <1> QED BY <1>1, <1>2

---------------------------------------------------------------------------
\* A server with empty tables satisfies the invariant.
LEMMA InitInv == Init => IInv
  <1> SUFFICES ASSUME Init PROVE IInv
    OBVIOUS
  <1>1. DOMAIN inodes = {} /\ inodes \in [DOMAIN inodes -> Entries] BY DEF Init
  <1>2. TypeOK BY Zenon, <1>1, IdleRecord DEF Init, TypeOK, None
  <1>3. Shapes BY IdleRecord DEF Init, Shapes
  <1>4. Busy = {} BY IdleRecord DEF Init, Busy
  <1>5. RefsAccounted
    <2> SUFFICES ASSUME NEW i \in Inodes PROVE held[i] + InHand(i) + orphans[i] = 0
      BY <1>1 DEF RefsAccounted
    <2>1. InHand(i) = 0 BY ZenonT(30), <1>3, <1>4, NothingInHand
    <2> QED BY <2>1 DEF Init
  <1>6. Alone /\ Tracking BY ZenonT(30), IdleRecord DEF Init, Alone, Tracking, Tracks
  <1>7. EntryIsFile BY ZenonT(30), <1>1 DEF Init, EntryIsFile
  <1> QED BY <1>2, <1>3, <1>5, <1>6, <1>7 DEF IInv, Base

\* Every step keeps it.
LEMMA NextInv == IInv /\ [Next]_vars => IInv'
  <1> SUFFICES ASSUME IInv, [Next]_vars PROVE IInv'
    BY ZenonT(30)
  <1>1. CASE UNCHANGED vars
    <2>1. UNCHANGED <<names, inodes, nextInode, handles, workers, held, orphans, raced>>
      BY <1>1 DEF vars
    <2>2. \A i : InHand(i)' = InHand(i) BY <2>1, StillInHand
    <2>3. RefsAccounted' BY Zenon, <2>1, <2>2 DEF IInv, RefsAccounted
    <2> QED BY <2>1, <2>3 DEF IInv, Base, TypeOK, Shapes, Shape, Alone, Tracking, Tracks, EntryIsFile
  <1>2. ASSUME NEW w \in Workers,
               Stat(w) \/ Check(w) \/ OpenFound(w) \/ AddEntry(w) \/ CreateFile(w)
        PROVE  IInv'
    BY ZenonT(30), <1>2, ByNameStep, EntryStep, CreateFileStep
  <1>3. ASSUME NEW w \in Workers, OpenAt(w) \/ Undo(w) \/ AtomicFound(w) \/ FillDirent(w)
        PROVE  IInv'
    BY ZenonT(30), <1>3, OpenAtStep, UndoStep, AtomicFoundStep, FillDirentStep
  <1> QED BY ZenonT(30), <1>1, <1>2, <1>3, QuietStarts, ChangingStarts, DirectoryStep, ForgetStep,
             HandlesStep, SessionStep DEF Next

(* For any number of workers and names, and whatever fails: an inode's     *)
(* refcount is the number of references the guest has, will get with a     *)
(* reply, or has lost (InodeData, do_lookup, add_entry, forget_one).       *)
THEOREM ReferencesCounted == Spec => []RefsAccounted
  <1>1. IInv => RefsAccounted BY DEF IInv
  <1> QED BY InitInv, NextInv, <1>1, PTL DEF Spec

(* For a guest that locks its directories, an entry and its handles are    *)
(* open on the file the entry is for (do_lookup, add_entry, do_open_at).   *)
THEOREM EntriesAreFiles == Spec => []EntryIsFile
  <1>1. IInv => EntryIsFile BY DEF IInv
  <1> QED BY InitInv, NextInv, <1>1, PTL DEF Spec
=============================================================================
