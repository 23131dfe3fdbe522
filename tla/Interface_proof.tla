---------------------------- MODULE Interface_proof ----------------------------
(***************************************************************************)
(* Theorems about Interface for any files, names, texts and volumes and any  *)
(* number of calls: calls that fail half way through lose nothing, and what  *)
(* was written is read back, through filters and links; and a table in the  *)
(* text of a pipeline survives the text.                                    *)
(***************************************************************************)
EXTENDS Interface, SequenceTheorems, FiniteSetTheorems, Sums

-----------------------------------------------------------------------------
(* The inductive invariant *)

\* What is in a file: a group, a link to a name there may be, or a dataset.
IsItem(x) ==
    \/ x = Group
    \/ x.kind = "link" /\ x = Link(x.rel, x.name) /\ x.name \in Names
    \/ /\ x.kind = "data"
       /\ x = [kind |-> "data", shape |-> x.shape, width |-> x.width,
               filter |-> x.filter, holds |-> x.holds]

\* Items lie in groups that are there, and a file that is not there has none.
Filed(items) ==
    /\ items = [n \in DOMAIN items |-> items[n]]
    /\ DOMAIN items \subseteq Seq(STRING) \ {<<>>}
    /\ \A n \in DOMAIN items : \A k \in 1 .. Len(n) - 1 : SubSeq(n, 1, k) \in DOMAIN items
    /\ \A n \in DOMAIN items : IsItem(items[n])

DiskInv ==
    /\ DOMAIN disk = Files /\ disk = [f \in Files |-> disk[f]]
    /\ \A f \in Files :
         /\ disk[f] = [exists |-> disk[f].exists, hdf5 |-> disk[f].hdf5, items |-> disk[f].items]
         /\ Filed(disk[f].items)
         /\ ~disk[f].exists => disk[f].items = <<>>
    /\ IsFiniteSet(linked)

\* The call at work, and what its steps so far have made sure of.
Working == pc # "idle"
CallInv ==
    /\ pc \in {"idle", "open", "group", "dataset", "data"}
    /\ Working =>
         /\ call.file \in Files /\ call.name \in Names
         /\ \/ /\ call.op = "link" /\ call.dest \in Names
               /\ call = [op |-> "link", file |-> call.file, name |-> call.name,
                          to |-> call.to, dest |-> call.dest]
            \/ /\ call.op # "link"
               /\ call = [op |-> call.op, file |-> call.file, name |-> call.name,
                          width |-> call.width, shape |-> call.shape, data |-> call.data,
                          vol |-> call.vol, filter |-> call.filter, fresh |-> call.fresh]
    /\ pc \in {"group", "dataset", "data"} => disk[call.file].exists
    /\ pc = "dataset" =>
         LET grp == ExtractGroupPath(call.name)
         IN  grp = <<>> \/ HasItem(call.file, grp)
    /\ pc = "data" =>
         \/ IsDataset(<<call.file, call.name>>)
         \/ Target(call.file, call.name) # Nowhere

IInv == DiskInv /\ CallInv

-----------------------------------------------------------------------------
(* Following links *)

\* A walk of N steps st from a to places of P.
IsWalk(w, P, st, a, N) ==
    w \in [0 .. N -> P] /\ w[0] = a /\ \A k \in 1 .. N : w[k] = st[w[k - 1]]

\* A walk of any length exists: there is no shortest one that does not.
LEMMA WalkExists ==
    ASSUME NEW P, NEW st \in [P -> P], NEW a \in P, NEW N \in Nat
    PROVE  \E w : IsWalk(w, P, st, a, N)
<1> DEFINE Walk(w, n) == w[0] = a /\ \A k \in 1 .. n : w[k] = st[w[k - 1]]
           S == {n \in Nat : ~\E w \in [0 .. n -> P] : Walk(w, n)}
<1>1. \E w \in [0 .. 0 -> P] : Walk(w, 0)
  <2> DEFINE w == [k \in 0 .. 0 |-> a]
  <2>1. w \in [0 .. 0 -> P] /\ Walk(w, 0)
    OBVIOUS
  <2> QED BY <2>1
<1>2. ASSUME NEW n \in Nat, NEW w \in [0 .. n -> P], Walk(w, n)
      PROVE  \E x \in [0 .. n + 1 -> P] : Walk(x, n + 1)
  <2> DEFINE x == [k \in 0 .. n + 1 |-> IF k = n + 1 THEN st[w[n]] ELSE w[k]]
  <2>1. x \in [0 .. n + 1 -> P]
    OBVIOUS
  <2>2. x[0] = a
    BY <1>2
  <2>3. ASSUME NEW k \in 1 .. n + 1  PROVE x[k] = st[x[k - 1]]
    <3>1. x[k - 1] = w[k - 1]
      OBVIOUS
    <3>2. CASE k = n + 1
      BY <3>1, <3>2
    <3>3. CASE k # n + 1
      <4>1. k \in 1 .. n /\ x[k] = w[k]
        BY <3>3
      <4> QED BY <1>2, <3>1, <4>1
    <3> QED BY <3>2, <3>3
  <2> QED BY <2>1, <2>2, <2>3
<1>3. S = {}
  <2> SUFFICES ASSUME S # {}  PROVE FALSE
    OBVIOUS
  <2>1. PICK n \in S : \A m \in S : n <= m
    BY NatMin
  <2>2. n \in Nat /\ n # 0
    BY <1>1
  <2>3. PICK m \in Nat : n = m + 1 /\ m \notin S
    BY <2>1, <2>2
  <2>4. PICK w \in [0 .. m -> P] : Walk(w, m)
    BY <2>3
  <2>5. \E x \in [0 .. n -> P] : Walk(x, n)
    BY <1>2, <2>3, <2>4
  <2> QED BY <2>5
<1> QED BY <1>3 DEF IsWalk

\* Places: a name in a file, or nowhere.
Places == {Nowhere} \cup (Files \X Names)

LEMMA HopStays ==
    ASSUME DiskInv, NEW t \in Places
    PROVE  Hop(t) \in Places
<1>1. CASE IsDataset(t) \/ t = Nowhere
  BY <1>1 DEF Hop, Places
<1>2. CASE t # Nowhere /\ ~IsDataset(t)
  <2>1. t \in Files \X Names
    BY <1>2 DEF Places
  <2>2. PICK f \in Files, n \in Names : t = <<f, n>>
    BY <2>1
  <2>3. CASE HasItem(f, n) /\ At(t).kind = "link" /\ Follow(f, At(t).rel) \in Files
    <3>1. n \in DOMAIN disk[f].items /\ IsItem(At(t))
      BY <2>2, <2>3 DEF DiskInv, Filed, HasItem, ItemsOf, At
    <3>2. At(t).name \in Names
      BY <3>1, <2>3 DEF IsItem, Group
    <3> QED BY <1>2, <2>2, <2>3, <3>2 DEF Hop, Places
  <2> QED BY <1>2, <2>2, <2>3 DEF Hop, Places
<1> QED BY <1>1, <1>2

\* The walk that Target takes.
LEMMA TargetWalk ==
    ASSUME DiskInv, NEW f \in Files, NEW n \in Names
    PROVE  \E N \in Nat : \E w \in [0 .. N -> Places] :
              /\ N = Cardinality(linked)
              /\ w[0] = <<f, n>>
              /\ \A k \in 1 .. N : w[k] = Hop(w[k - 1])
              /\ Target(f, n) = IF IsDataset(w[N]) THEN w[N] ELSE Nowhere
<1> DEFINE N == Cardinality(linked)
           st == [t \in Places |-> Hop(t)]
           Walks(w) == w = [k \in 0 .. N |-> IF k = 0 THEN <<f, n>> ELSE Hop(w[k - 1])]
           place == CHOOSE w : Walks(w)
<1>1. N \in Nat
  BY FS_CardinalityType DEF DiskInv
<1>2. st \in [Places -> Places] /\ <<f, n>> \in Places
  BY HopStays DEF Places
<1>3. PICK v \in [0 .. N -> Places] : v[0] = <<f, n>> /\ \A k \in 1 .. N : v[k] = st[v[k - 1]]
  <2> HIDE DEF N, st
  <2>1. \E w : IsWalk(w, Places, st, <<f, n>>, N)
    BY <1>1, <1>2, WalkExists
  <2> QED BY <2>1 DEF IsWalk
<1>4. Walks(v)
  <2>1. ASSUME NEW k \in 1 .. N  PROVE v[k] = Hop(v[k - 1])
    <3>1. k - 1 \in 0 .. N
      BY <1>1
    <3> QED BY <1>3, <3>1
  <2>2. \A k \in 0 .. N : v[k] = IF k = 0 THEN <<f, n>> ELSE Hop(v[k - 1])
    BY <1>1, <1>3, <2>1
  <2> QED BY <1>3, <2>2
<1>5. Walks(place)
  BY <1>4
<1>6. Target(f, n) = IF IsDataset(place[N]) THEN place[N] ELSE Nowhere
  BY DEF Target
<1> HIDE DEF N, place
<1>7. /\ place[0] = <<f, n>>
      /\ \A k \in 1 .. N : place[k] = Hop(place[k - 1])
  <2>1. \A k \in 0 .. N : place[k] = IF k = 0 THEN <<f, n>> ELSE Hop(place[k - 1])
    BY <1>5
  <2> QED BY <1>1, <2>1
<1>8. place \in [0 .. N -> Places]
  <2> DEFINE S == {k \in 0 .. N : place[k] # v[k]}
  <2>1. S = {}
    <3> SUFFICES ASSUME S # {}  PROVE FALSE
      OBVIOUS
    <3>a. S \subseteq Nat
      BY <1>1
    <3>1. PICK k \in S : \A m \in S : k <= m
      <4> HIDE DEF S
      <4> QED BY <3>a, NatMin
    <3>2. k # 0 /\ k \in 1 .. N
      BY <1>1, <1>3, <1>7
    <3>3. k - 1 \notin S /\ k - 1 \in 0 .. N
      BY <1>1, <3>1, <3>2
    <3> QED BY <1>4, <1>7, <3>2, <3>3
  <2>2. \A k \in 0 .. N : place[k] \in Places
    BY <1>3, <2>1
  <2> QED BY <1>5, <2>2
<1>9. N = Cardinality(linked)
  BY DEF N
<1> QED BY <1>1, <1>6, <1>7, <1>8, <1>9

LEMMA TargetPlace ==
    ASSUME DiskInv, NEW f \in Files, NEW n \in Names
    PROVE  \/ Target(f, n) = Nowhere
           \/ \E g \in Files, m \in Names : Target(f, n) = <<g, m>> /\ IsDataset(<<g, m>>)
<1>1. PICK N \in Nat : \E w \in [0 .. N -> Places] :
         Target(f, n) = IF IsDataset(w[N]) THEN w[N] ELSE Nowhere
  BY TargetWalk
<1>2. PICK t \in Places : Target(f, n) = IF IsDataset(t) THEN t ELSE Nowhere
  BY <1>1
<1> QED BY <1>2 DEF Places, IsDataset

LEMMA TargetSelf ==
    ASSUME DiskInv, NEW f \in Files, NEW n \in Names, IsDataset(<<f, n>>)
    PROVE  Target(f, n) = <<f, n>>
<1>1. PICK N \in Nat : \E w \in [0 .. N -> Places] :
         /\ w[0] = <<f, n>>
         /\ \A k \in 1 .. N : w[k] = Hop(w[k - 1])
         /\ Target(f, n) = IF IsDataset(w[N]) THEN w[N] ELSE Nowhere
  BY TargetWalk
<1>2. PICK w \in [0 .. N -> Places] :
         /\ w[0] = <<f, n>>
         /\ \A k \in 1 .. N : w[k] = Hop(w[k - 1])
         /\ Target(f, n) = IF IsDataset(w[N]) THEN w[N] ELSE Nowhere
  BY <1>1
<1> DEFINE S == {k \in 0 .. N : w[k] # <<f, n>>}
<1>3. S = {}
  <2> SUFFICES ASSUME S # {}  PROVE FALSE
    OBVIOUS
  <2>a. S \subseteq Nat
    OBVIOUS
  <2>1. PICK k \in S : \A m \in S : k <= m
    <3> HIDE DEF S
    <3> QED BY <2>a, NatMin
  <2>2. k \in 1 .. N
    BY <1>2
  <2>3. w[k - 1] = <<f, n>>
    BY <2>1, <2>2
  <2>4. Hop(<<f, n>>) = <<f, n>>
    BY DEF Hop
  <2> QED BY <1>2, <2>2, <2>3, <2>4
<1>4. w[N] = <<f, n>>
  BY <1>3
<1> QED BY <1>2, <1>4

-----------------------------------------------------------------------------
(* What the steps do to the files *)

\* Every item that was there is there and what it was.
Untouched ==
    \A f \in Files : \A n \in DOMAIN disk[f].items :
        n \in DOMAIN disk'[f].items /\ disk'[f].items[n] = disk[f].items[n]

LEMMA FrontPrefix ==
    ASSUME NEW s \in Seq(STRING), s # <<>>
    PROVE  /\ Front(s) \in Seq(STRING) /\ Len(Front(s)) = Len(s) - 1
           /\ Front(s) = SubSeq(s, 1, Len(s) - 1)
           /\ \A k \in 1 .. Len(s) - 1 : SubSeq(Front(s), 1, k) = SubSeq(s, 1, k)
<1> DEFINE n == Len(s) - 1
<1>1. n \in Nat /\ Len(s) = n + 1
  BY EmptySeq
<1>2. /\ Front(s) \in Seq(STRING) /\ Len(Front(s)) = n
      /\ \A i \in 1 .. n : Front(s)[i] = s[i]
  BY <1>1, SubSeqProperties DEF Front
<1>3. ASSUME NEW k \in 1 .. n  PROVE SubSeq(Front(s), 1, k) = SubSeq(s, 1, k)
  BY <1>1, <1>2, SubSeqProperties
<1> QED BY <1>1, <1>2, <1>3 DEF Front

LEMMA HasName ==
    ASSUME DiskInv, NEW f \in Files, NEW n
    PROVE  HasItem(f, n) <=> n \in DOMAIN disk[f].items
<1>2. ASSUME n \in DOMAIN disk[f].items
      PROVE  \A k \in 1 .. Len(n) - 1 : SubSeq(n, 1, k) \in DOMAIN disk[f].items
  BY <1>2 DEF DiskInv, Filed
<1> QED BY <1>2, Zenon DEF HasItem, ItemsOf

\* One more item, in groups that are there.
Grown(more, items, n, x) ==
    /\ Filed(items) /\ n \in Seq(STRING) \ {<<>>} /\ IsItem(x)
    /\ \A k \in 1 .. Len(n) - 1 : SubSeq(n, 1, k) \in DOMAIN items
    /\ more = With(items, n, x)

LEMMA FiledWith ==
    ASSUME NEW items, NEW n, NEW x, NEW more, Grown(more, items, n, x)
    PROVE  /\ Filed(more) /\ n \in DOMAIN more /\ more[n] = x
           /\ \A m \in DOMAIN items : m \in DOMAIN more /\ (m # n => more[m] = items[m])
<1> USE DEF Grown
<1>1. more = [m \in DOMAIN items \cup {n} |-> IF m = n THEN x ELSE items[m]]
  BY DEF With
<1>2. /\ DOMAIN more = DOMAIN items \cup {n} /\ more[n] = x
      /\ \A m \in DOMAIN items : m # n => more[m] = items[m]
  BY <1>1
<1>3. more = [m \in DOMAIN more |-> more[m]]
  BY <1>1
<1>4. Filed(more)
  BY <1>2, <1>3 DEF Filed
<1> QED BY <1>2, <1>4

LEMMA Opening ==
    ASSUME DiskInv, NEW f \in Files, OpenToWrite(f), linked' = linked
    PROVE  /\ DiskInv' /\ Untouched
           /\ disk'[f].exists
           /\ \A g \in Files : disk[g].exists \/ g # f => disk'[g] = disk[g]
           /\ ~disk[f].exists => disk'[f].hdf5 /\ disk'[f].items = <<>>
<1> DEFINE new == IF disk[f].exists THEN disk[f] ELSE [exists |-> TRUE, hdf5 |-> TRUE, items |-> <<>>]
<1>1. /\ DOMAIN disk' = Files /\ disk' = [g \in Files |-> disk'[g]]
      /\ disk'[f] = new /\ \A g \in Files \ {f} : disk'[g] = disk[g]
  BY DEF OpenToWrite, DiskInv
<1>2. Filed(<<>>)
  BY DEF Filed
<1>3. /\ new = [exists |-> new.exists, hdf5 |-> new.hdf5, items |-> new.items]
      /\ new.exists /\ new.items = disk[f].items /\ Filed(new.items)
      /\ disk[f].exists => new = disk[f]
      /\ ~disk[f].exists => new.hdf5 /\ new.items = <<>>
  BY <1>2 DEF DiskInv
<1> HIDE DEF new
<1>4. DiskInv'
  BY <1>1, <1>3 DEF DiskInv
<1> QED BY <1>1, <1>3, <1>4 DEF Untouched

LEMMA Adding ==
    ASSUME DiskInv, NEW f \in Files, disk[f].exists,
           NEW n \in Seq(STRING) \ {<<>>}, n \notin DOMAIN disk[f].items,
           \A k \in 1 .. Len(n) - 1 : SubSeq(n, 1, k) \in DOMAIN disk[f].items,
           NEW x, IsItem(x), AddItem(f, n, x), IsFiniteSet(linked')
    PROVE  /\ DiskInv' /\ Untouched
           /\ n \in DOMAIN disk'[f].items /\ disk'[f].items[n] = x
           /\ disk'[f].exists /\ disk'[f].hdf5 = disk[f].hdf5
           /\ DOMAIN disk'[f].items = DOMAIN disk[f].items \cup {n}
           /\ \A g \in Files \ {f} : disk'[g] = disk[g]
<1> DEFINE items == disk[f].items
           more == With(items, n, x)
<1>2. disk' = [disk EXCEPT ![f].items = more]
  BY DEF AddItem
<1>0. DOMAIN more = DOMAIN items \cup {n}
  BY DEF With
<1>1. /\ Filed(more) /\ more[n] = x
      /\ \A m \in DOMAIN items : m # n => more[m] = items[m]
  <2>1. PICK its : /\ its = items /\ Filed(its)
                   /\ \A k \in 1 .. Len(n) - 1 : SubSeq(n, 1, k) \in DOMAIN its
    BY DEF DiskInv
  <2>2. PICK z : z = With(its, n, x) /\ z = more
    BY <2>1
  <2> HIDE DEF items, more
  <2>3. Grown(z, its, n, x)
    BY <2>1, <2>2 DEF Grown
  <2>4. /\ Filed(z) /\ n \in DOMAIN z /\ z[n] = x
        /\ \A m \in DOMAIN its : m \in DOMAIN z /\ (m # n => z[m] = its[m])
    BY ONLY <2>3, FiledWith
  <2> QED BY <2>1, <2>2, <2>4
<1> HIDE DEF more
<1>3. /\ DOMAIN disk' = Files /\ disk' = [g \in Files |-> disk'[g]]
      /\ disk'[f] = [disk[f] EXCEPT !.items = more]
      /\ \A g \in Files \ {f} : disk'[g] = disk[g]
  BY <1>2 DEF DiskInv
<1>4. /\ disk'[f].items = more /\ disk'[f].exists /\ disk'[f].hdf5 = disk[f].hdf5
      /\ disk'[f] = [exists |-> disk'[f].exists, hdf5 |-> disk'[f].hdf5, items |-> disk'[f].items]
  BY <1>3 DEF DiskInv
<1>5. DiskInv'
  BY <1>1, <1>3, <1>4 DEF DiskInv
<1>6. Untouched
  BY <1>0, <1>1, <1>3, <1>4 DEF Untouched
<1>7. n \in DOMAIN disk'[f].items
  BY <1>0, <1>4
<1>8. /\ disk'[f].items[n] = x /\ disk'[f].exists /\ disk'[f].hdf5 = disk[f].hdf5
      /\ DOMAIN disk'[f].items = DOMAIN disk[f].items \cup {n}
      /\ \A g \in Files \ {f} : disk'[g] = disk[g]
  <2>1. items = disk[f].items
    OBVIOUS
  <2> HIDE DEF items
  <2>2. DOMAIN disk'[f].items = DOMAIN items \cup {n}
    BY <1>0, <1>4
  <2> QED BY <1>1, <1>3, <1>4, <2>1, <2>2
<1> QED BY <1>5, <1>6, <1>7, <1>8

LEMMA Writing ==
    ASSUME DiskInv, NEW g \in Files, NEW m \in Names, IsDataset(<<g, m>>), NEW h,
           disk' = [disk EXCEPT ![g].items[m].holds = h], linked' = linked
    PROVE  /\ DiskInv'
           /\ \A f \in Files : DOMAIN disk'[f].items = DOMAIN disk[f].items
           /\ \A f \in Files : \A n \in DOMAIN disk[f].items :
                <<f, n>> # <<g, m>> => disk'[f].items[n] = disk[f].items[n]
           /\ disk'[g].items[m] = [disk[g].items[m] EXCEPT !.holds = h]
           /\ \A f \in Files : disk'[f].exists = disk[f].exists /\ disk'[f].hdf5 = disk[f].hdf5
<1> DEFINE items == disk[g].items
           x == items[m]
           new == [items EXCEPT ![m] = [x EXCEPT !.holds = h]]
<1>1. m \in DOMAIN items /\ x.kind = "data" /\ IsItem(x) /\ Filed(items)
  BY DEF DiskInv, Filed, IsDataset, HasItem, ItemsOf, At
<1>2. x = [kind |-> "data", shape |-> x.shape, width |-> x.width,
           filter |-> x.filter, holds |-> x.holds]
  BY <1>1 DEF IsItem, Group
<1>3. IsItem([x EXCEPT !.holds = h])
  BY <1>2 DEF IsItem
<1>4. /\ DOMAIN new = DOMAIN items /\ new[m] = [x EXCEPT !.holds = h]
      /\ \A n \in DOMAIN items : n # m => new[n] = items[n]
      /\ new = [n \in DOMAIN new |-> new[n]]
  BY <1>1 DEF Filed
<1>5. Filed(new)
  BY <1>1, <1>3, <1>4 DEF Filed
<1>6. disk' = [disk EXCEPT ![g] = [disk[g] EXCEPT !.items = new]]
  OBVIOUS
<1> HIDE DEF new
<1>7. /\ DOMAIN disk' = Files /\ disk' = [f \in Files |-> disk'[f]]
      /\ disk'[g] = [disk[g] EXCEPT !.items = new]
      /\ \A f \in Files \ {g} : disk'[f] = disk[f]
  BY <1>6 DEF DiskInv
<1>8. /\ disk'[g].items = new /\ disk'[g].exists = disk[g].exists /\ disk'[g].hdf5 = disk[g].hdf5
      /\ disk'[g] = [exists |-> disk'[g].exists, hdf5 |-> disk'[g].hdf5, items |-> disk'[g].items]
  BY <1>7 DEF DiskInv
<1>9. disk[g].exists
  BY <1>1 DEF DiskInv
<1>10. DiskInv'
  BY <1>5, <1>7, <1>8, <1>9 DEF DiskInv
<1>11. \A f \in Files : DOMAIN disk'[f].items = DOMAIN disk[f].items
  BY <1>4, <1>7, <1>8
<1>12. ASSUME NEW f \in Files, NEW n \in DOMAIN disk[f].items, <<f, n>> # <<g, m>>
       PROVE  disk'[f].items[n] = disk[f].items[n]
  BY <1>4, <1>7, <1>8, <1>12
<1>13. \A f \in Files : disk'[f].exists = disk[f].exists /\ disk'[f].hdf5 = disk[f].hdf5
  BY <1>7, <1>8
<1> QED BY <1>4, <1>8, <1>10, <1>11, <1>12, <1>13

-----------------------------------------------------------------------------
(* One step *)

\* What a step does to items, and that it keeps the invariant; only WriteData
\* changes one.
LostNothing ==
    \A f \in Files : \A name \in DOMAIN ItemsOf(f) :
      /\ name \in DOMAIN disk'[f].items
      /\ disk'[f].items[name] # ItemsOf(f)[name] =>
           last'.value = 0 /\ Target(call.file, call.name) = <<f, name>>

LEMMA UntouchedLoses == ASSUME Untouched  PROVE LostNothing
  BY DEF Untouched, LostNothing, ItemsOf

LEMMA SameFiles ==
    ASSUME DiskInv, disk' = disk, linked' = linked
    PROVE  DiskInv' /\ LostNothing
  BY DEF DiskInv, LostNothing, ItemsOf

\* A call that has returned, and one that has not begun.
LEMMA Idle ==
    ASSUME pc' = "idle"
    PROVE  CallInv'
  BY DEF CallInv, Working

LEMMA EncodeStep ==
    ASSUME IInv, PipelineEncode
    PROVE  IInv' /\ LostNothing
<1>1. disk' = disk /\ linked' = linked /\ pc' = "idle"
  BY DEF PipelineEncode
<1> QED BY <1>1, SameFiles, Idle DEF IInv

LEMMA StartWriteStep ==
    ASSUME IInv, StartWrite
    PROVE  IInv' /\ LostNothing
<1>1. disk' = disk /\ linked' = linked /\ pc' = "open"
  BY DEF StartWrite
<1>2. PICK f \in Files, name \in Names :
         \/ \E vol \in Volumes, text \in Filters \cup {<<>>} :
              call' = SQY_h5_write_UI16(f, name, vol, text)
         \/ \E s \in streams : call' = SQY_h5_write(f, name, s)
  BY DEF StartWrite
<1>3. PICK op, width, shp, data, vol, filter :
         op # "link" /\
         call' = [op |-> op, file |-> f, name |-> name, width |-> width, shape |-> shp,
                  data |-> data, vol |-> vol, filter |-> filter, fresh |-> TRUE]
  <2>1. CASE \E vol \in Volumes, text \in Filters \cup {<<>>} :
               call' = SQY_h5_write_UI16(f, name, vol, text)
    <3>1. PICK vol \in Volumes, text \in Filters \cup {<<>>} :
               call' = SQY_h5_write_UI16(f, name, vol, text)
      BY <2>1
    <3>2. CASE text = <<>>
      <4>1. call' = WriteNdDataset(f, name, vol)
        BY <3>1, <3>2 DEF SQY_h5_write_UI16
      <4> QED BY <4>1, Zenon DEF WriteNdDataset
    <3>3. CASE text # <<>>
      <4>1. PICK filter : call' = [WriteNdDataset(f, name, vol) EXCEPT !.filter = filter]
        BY <3>1, <3>3 DEF SQY_h5_write_UI16, WriteFiltered
      <4>2. call' = [op |-> "write", file |-> f, name |-> name, width |-> 2, shape |-> ShapeOf[vol],
                     data |-> Raw(vol, ShapeOf[vol]), vol |-> vol, filter |-> filter, fresh |-> TRUE]
        BY <4>1 DEF WriteNdDataset
      <4> QED BY <4>2, Zenon
    <3> QED BY <3>2, <3>3
  <2>2. CASE \E s \in streams : call' = SQY_h5_write(f, name, s)
    <3>1. PICK s : call' = WriteCompressedBuffer(f, name, s)
      BY <2>2 DEF SQY_h5_write
    <3> QED BY <3>1, Zenon DEF WriteCompressedBuffer
  <2> QED BY <1>2, <2>1, <2>2
<1>4. CallInv'
  BY <1>1, <1>3 DEF CallInv, Working
<1> QED BY <1>1, <1>4, SameFiles DEF IInv

LEMMA OpenStep ==
    ASSUME IInv, Open
    PROVE  IInv' /\ LostNothing
<1>1. pc = "open" /\ linked' = linked /\ call.file \in Files
  BY DEF Open, IInv, CallInv, Working
<1>2. CASE ~CanOpen(call.file)
  <2>1. disk' = disk /\ pc' = "idle"
    BY <1>2 DEF Open, Return
  <2> QED BY <1>1, <2>1, SameFiles, Idle DEF IInv
<1>3. CASE CanOpen(call.file)
  <2>1. OpenToWrite(call.file)
    BY <1>3 DEF Open
  <2>2. DiskInv' /\ Untouched /\ disk'[call.file].exists
    BY <1>1, <2>1, Opening DEF IInv
  <2>3. pc' = "idle" \/ (pc' = "group" /\ call' = call)
    BY <1>3 DEF Open, Return, Goto
  <2>4. ASSUME pc' = "group", call' = call  PROVE CallInv'
    BY <1>1, <2>2, <2>4 DEF IInv, CallInv, Working
  <2> QED BY <2>2, <2>3, <2>4, UntouchedLoses, Idle DEF IInv
<1> QED BY <1>2, <1>3

LEMMA TopLevel ==
    ASSUME NEW n \in Seq(STRING) \ {<<>>}, Front(n) = <<>>
    PROVE  Len(n) = 1
<1>a. n \in Seq(STRING) /\ n # <<>>
  OBVIOUS
<1>1. Len(Front(n)) = Len(n) - 1 /\ Len(n) \in Nat
  BY ONLY <1>a, FrontPrefix
<1> QED BY <1>1

LEMMA GroupsAbove ==
    ASSUME NEW f \in Files, NEW n \in Seq(STRING) \ {<<>>},
           Len(n) = 1 \/ HasItem(f, Front(n))
    PROVE  \A k \in 1 .. Len(n) - 1 : SubSeq(n, 1, k) \in DOMAIN disk[f].items
<1> SUFFICES ASSUME NEW k \in 1 .. Len(n) - 1
             PROVE  SubSeq(n, 1, k) \in DOMAIN disk[f].items
  OBVIOUS
<1>1. /\ Front(n) \in Seq(STRING) /\ Len(Front(n)) = Len(n) - 1
      /\ Front(n) = SubSeq(n, 1, Len(n) - 1)
      /\ SubSeq(Front(n), 1, k) = SubSeq(n, 1, k)
  BY FrontPrefix
<1>a. Len(n) \in Nat
  OBVIOUS
<1>2. HasItem(f, Front(n)) /\ Len(n) # 1
  BY <1>a
<1>3. CASE k = Len(n) - 1
  BY <1>1, <1>2, <1>3 DEF HasItem, ItemsOf
<1>4. CASE k # Len(n) - 1
  <2>1. k \in 1 .. Len(Front(n)) - 1
    BY <1>1, <1>4
  <2> QED BY <1>1, <1>2, <2>1 DEF HasItem, ItemsOf
<1> QED BY <1>3, <1>4

LEMMA EnterGroupStep ==
    ASSUME InterfaceAssumption, IInv, EnterGroup
    PROVE  IInv' /\ LostNothing
<1> DEFINE f == call.file
           grp == ExtractGroupPath(call.name)
<1>1. /\ pc = "group" /\ linked' = linked /\ f \in Files /\ disk[f].exists
      /\ call.name \in Seq(STRING) \ {<<>>} /\ grp \in Seq(STRING)
  BY FrontPrefix DEF EnterGroup, IInv, CallInv, Working, InterfaceAssumption, ExtractGroupPath
<1>2. CASE grp = <<>> \/ (HasItem(f, grp) /\ ItemsOf(f)[grp] = Group)
  <2>1. disk' = disk /\ call' = call /\ pc' = "dataset"
    BY <1>2 DEF EnterGroup, Goto
  <2>2. grp = <<>> \/ HasItem(f, grp)'
    BY <1>2, <2>1 DEF HasItem, ItemsOf
  <2>3. CallInv'
    BY <1>1, <2>1, <2>2 DEF IInv, CallInv, Working
  <2> QED BY <1>1, <2>1, <2>3, SameFiles DEF IInv
<1>3. CASE /\ ~(grp = <<>> \/ (HasItem(f, grp) /\ ItemsOf(f)[grp] = Group))
           /\ HasItem(f, grp) \/ ~(Len(grp) = 1 \/ HasItem(f, Front(grp)))
  <2>1. disk' = disk /\ pc' = "idle"
    BY <1>3 DEF EnterGroup, Return
  <2> QED BY <1>1, <2>1, SameFiles, Idle DEF IInv
<1>4. CASE /\ grp # <<>> /\ ~HasItem(f, grp)
           /\ Len(grp) = 1 \/ HasItem(f, Front(grp))
  <2>1. AddItem(f, grp, Group) /\ call' = call /\ pc' = "dataset"
    BY <1>4 DEF EnterGroup, Goto
  <2>2. grp \notin DOMAIN disk[f].items
    BY <1>1, <1>4, HasName DEF IInv
  <2>3. \A k \in 1 .. Len(grp) - 1 : SubSeq(grp, 1, k) \in DOMAIN disk[f].items
    BY <1>1, <1>4, GroupsAbove
  <2>4. /\ DiskInv' /\ Untouched /\ disk'[f].exists
        /\ grp \in DOMAIN disk'[f].items
    <3>1. IsItem(Group) /\ IsFiniteSet(linked') /\ DiskInv
      BY <1>1 DEF IsItem, IInv, DiskInv
    <3> HIDE DEF f, grp
    <3> QED BY <1>1, <1>4, <2>1, <2>2, <2>3, <3>1, Adding
  <2>5. HasItem(f, grp)'
    BY <1>1, <2>1, <2>3, <2>4 DEF HasItem, ItemsOf, Untouched
  <2>6. CallInv'
    BY <1>1, <2>1, <2>4, <2>5 DEF IInv, CallInv, Working
  <2> QED BY <2>4, <2>6, UntouchedLoses DEF IInv
<1> QED BY <1>2, <1>3, <1>4

LEMMA SameTarget ==
    ASSUME disk' = disk, linked' = linked, NEW f, NEW n
    PROVE  Target(f, n)' = Target(f, n)
  BY DEF Target, IsDataset, Hop, HasItem, At, ItemsOf

LEMMA EnterDatasetStep ==
    ASSUME InterfaceAssumption, IInv, EnterDataset
    PROVE  IInv' /\ LostNothing
<1> DEFINE f == call.file
           n == call.name
           new == Dataset(call.shape, call.width, call.filter)
<1>1. /\ pc = "dataset" /\ linked' = linked /\ f \in Files /\ disk[f].exists
      /\ call.op # "link" /\ n \in Names /\ n \in Seq(STRING) \ {<<>>}
      /\ Front(n) = <<>> \/ HasItem(f, Front(n))
  BY DEF EnterDataset, IInv, CallInv, Working, InterfaceAssumption, ExtractGroupPath
<1>2. CASE HasItem(f, n)
  <2>1. disk' = disk
    BY <1>2 DEF EnterDataset
  <2>2. CASE pc' = "idle"
    BY <1>1, <2>1, <2>2, SameFiles, Idle DEF IInv
  <2>3. CASE pc' # "idle"
    <3>1. Target(f, n) # Nowhere /\ pc' = "data" /\ call' = [call EXCEPT !.fresh = FALSE]
      BY <1>2, <2>3 DEF EnterDataset, Goto, Return
    <3>2. /\ call'.file = f /\ call'.name = n
          /\ call' = [op |-> call'.op, file |-> call'.file, name |-> call'.name,
                      width |-> call'.width, shape |-> call'.shape, data |-> call'.data,
                      vol |-> call'.vol, filter |-> call'.filter, fresh |-> call'.fresh]
      <4>1. call = [op |-> call.op, file |-> call.file, name |-> call.name,
                    width |-> call.width, shape |-> call.shape, data |-> call.data,
                    vol |-> call.vol, filter |-> call.filter, fresh |-> call.fresh]
        BY <1>1 DEF IInv, CallInv, Working
      <4>2. call' = [op |-> call.op, file |-> f, name |-> n,
                     width |-> call.width, shape |-> call.shape, data |-> call.data,
                     vol |-> call.vol, filter |-> call.filter, fresh |-> FALSE]
        BY <3>1, <4>1
      <4> QED BY <4>2
    <3>3. \A g, m : Target(g, m)' = Target(g, m)
      BY <1>1, <2>1, SameTarget
    <3>4. (Target(call.file, call.name) # Nowhere)'
      <4>1. \A g, m : g = call'.file /\ m = call'.name => Target(g, m) # Nowhere
        BY <3>1, <3>2
      <4> QED BY <3>3, <4>1
    <3>5. CallInv'
      BY <1>1, <2>1, <3>1, <3>2, <3>4 DEF CallInv, Working
    <3> QED BY <1>1, <2>1, <3>5, SameFiles DEF IInv
  <2> QED BY <2>2, <2>3
<1>3. CASE ~HasItem(f, n)
  <2>1. AddItem(f, n, new) /\ call' = call /\ pc' = "data"
    BY <1>3 DEF EnterDataset, Goto
  <2>2. n \notin DOMAIN disk[f].items
    BY <1>1, <1>3, HasName DEF IInv
  <2>3. \A k \in 1 .. Len(n) - 1 : SubSeq(n, 1, k) \in DOMAIN disk[f].items
    <3> HIDE DEF f, n
    <3>1. Len(n) = 1 \/ HasItem(f, Front(n))
      BY <1>1, TopLevel
    <3> QED BY <1>1, <3>1, GroupsAbove
  <2>4. /\ DiskInv' /\ Untouched /\ disk'[f].exists
        /\ n \in DOMAIN disk'[f].items /\ disk'[f].items[n] = new
    <3>1. IsItem(new) /\ IsFiniteSet(linked') /\ DiskInv
      BY <1>1 DEF IsItem, IInv, DiskInv, Dataset
    <3> HIDE DEF f, n, new
    <3> QED BY <1>1, <2>1, <2>2, <2>3, <3>1, Adding
  <2>5. HasItem(f, n)'
    BY <1>1, <2>1, <2>3, <2>4 DEF HasItem, ItemsOf, Untouched
  <2>6. IsDataset(<<call.file, call.name>>)'
    BY <2>1, <2>4, <2>5 DEF IsDataset, At, ItemsOf, Nowhere, Dataset
  <2>7. CallInv'
    BY <1>1, <2>1, <2>4, <2>6 DEF IInv, CallInv, Working
  <2> QED BY <2>4, <2>7, UntouchedLoses DEF IInv
<1> QED BY <1>2, <1>3

LEMMA WriteDataStep ==
    ASSUME IInv, WriteData
    PROVE  IInv' /\ LostNothing
<1>1. /\ pc = "data" /\ linked' = linked /\ pc' = "idle"
      /\ call.file \in Files /\ call.name \in Names
  BY DEF WriteData, Return, IInv, CallInv, Working
<1>2. CASE disk' = disk
  BY <1>1, <1>2, SameFiles, Idle DEF IInv
<1>3. CASE disk' # disk
  <2>1. PICK g \in Files, m \in Names :
           Target(call.file, call.name) = <<g, m>> /\ IsDataset(<<g, m>>)
    <3>1. Target(call.file, call.name) # Nowhere
      <4>1. CASE IsDataset(<<call.file, call.name>>)
        <5>1. Target(call.file, call.name) = <<call.file, call.name>>
          BY <1>1, <4>1, TargetSelf DEF IInv
        <5> QED BY <5>1 DEF Nowhere
      <4> QED BY <1>1, <4>1 DEF IInv, CallInv
    <3> QED BY <1>1, <3>1, TargetPlace DEF IInv
  <2>2. PICK h : /\ disk' = [disk EXCEPT ![g].items[m].holds = h]
                 /\ last'.value = 0
    BY <1>3, <2>1 DEF WriteData, Return, Ended
  <2>3. /\ DiskInv'
        /\ \A f \in Files : DOMAIN disk'[f].items = DOMAIN disk[f].items
        /\ \A f \in Files : \A n \in DOMAIN disk[f].items :
             <<f, n>> # <<g, m>> => disk'[f].items[n] = disk[f].items[n]
    BY <1>1, <2>1, <2>2, Writing DEF IInv
  <2>4. LostNothing
    BY <2>1, <2>2, <2>3 DEF LostNothing, ItemsOf
  <2> QED BY <1>1, <2>3, <2>4, Idle DEF IInv
<1> QED BY <1>2, <1>3

LEMMA FilterFailsStep ==
    ASSUME IInv, FilterFails
    PROVE  IInv' /\ LostNothing
<1>1. disk' = disk /\ linked' = linked /\ pc' = "idle"
  BY DEF FilterFails, Return
<1> QED BY <1>1, SameFiles, Idle DEF IInv

LEMMA StartLinkStep ==
    ASSUME IInv, StartLink
    PROVE  IInv' /\ LostNothing
<1>1. linked' = linked /\ pc = "idle"
  BY DEF StartLink
<1>2. PICK f \in Files, name \in Names, g \in Files, dest \in Names :
         \/ OpenToWrite(f) /\ pc' = pc
         \/ disk' = disk /\ pc' = pc
         \/ /\ OpenToWrite(f) /\ pc' = "group"
            /\ call' = [op |-> "link", file |-> f, name |-> name, to |-> g, dest |-> dest]
  BY DEF StartLink
<1>3. CASE disk' = disk /\ pc' = pc
  BY <1>1, <1>3, SameFiles, Idle DEF IInv
<1>4. CASE OpenToWrite(f)
  <2>1. DiskInv' /\ Untouched /\ disk'[f].exists
    BY <1>1, <1>4, Opening DEF IInv
  <2>2. CASE pc' = pc
    BY <1>1, <2>1, <2>2, UntouchedLoses, Idle DEF IInv
  <2>3. CASE pc' # pc
    <3>1. /\ pc' = "group"
          /\ call' = [op |-> "link", file |-> f, name |-> name, to |-> g, dest |-> dest]
      BY <1>2, <2>3
    <3>2. CallInv'
      BY <2>1, <3>1 DEF CallInv, Working
    <3> QED BY <2>1, <3>2, UntouchedLoses DEF IInv
  <2> QED BY <2>2, <2>3
<1> QED BY <1>2, <1>3, <1>4

LEMMA CreateExternalStep ==
    ASSUME InterfaceAssumption, IInv, CreateExternal
    PROVE  IInv' /\ LostNothing
<1> DEFINE f == call.file
           n == call.name
           new == Link(MakeRelative(f, call.to), call.dest)
<1>1. /\ pc = "dataset" /\ pc' = "idle" /\ f \in Files /\ disk[f].exists
      /\ n \in Seq(STRING) \ {<<>>}
      /\ Front(n) = <<>> \/ HasItem(f, Front(n))
  BY DEF CreateExternal, Return, IInv, CallInv, Working, InterfaceAssumption, ExtractGroupPath
<1>2. call.dest \in Names
  <2>1. call.op = "link"
    BY DEF CreateExternal
  <2> QED BY <1>1, <2>1 DEF IInv, CallInv, Working
<1>3. CASE HasItem(f, n)
  <2>1. disk' = disk /\ linked' = linked
    BY <1>3 DEF CreateExternal
  <2> QED BY <1>1, <2>1, SameFiles, Idle DEF IInv
<1>4. CASE ~HasItem(f, n)
  <2>1. AddItem(f, n, new) /\ linked' = linked \cup {<<f, n, call.to, call.dest>>}
    BY <1>4 DEF CreateExternal
  <2>2. n \notin DOMAIN disk[f].items
    BY <1>1, <1>4, HasName DEF IInv
  <2>3. \A k \in 1 .. Len(n) - 1 : SubSeq(n, 1, k) \in DOMAIN disk[f].items
    <3> HIDE DEF f, n
    <3>1. Len(n) = 1 \/ HasItem(f, Front(n))
      BY <1>1, TopLevel
    <3> QED BY <1>1, <3>1, GroupsAbove
  <2>4. DiskInv' /\ Untouched
    <3>1. IsItem(new)
      BY <1>2 DEF IsItem, Link
    <3>2. DiskInv /\ IsFiniteSet(linked')
      BY <2>1, FS_AddElement DEF IInv, DiskInv
    <3> HIDE DEF f, n, new
    <3> QED BY <1>1, <2>1, <2>2, <2>3, <3>1, <3>2, Adding
  <2> QED BY <1>1, <2>4, UntouchedLoses, Idle DEF IInv
<1> QED BY <1>3, <1>4

LEMMA InterfaceStep ==
    ASSUME InterfaceAssumption, IInv, [Next]_vars
    PROVE  IInv' /\ LostNothing
<1>1. CASE UNCHANGED vars
  <2>1. /\ disk' = disk /\ linked' = linked /\ call' = call /\ pc' = pc
    BY <1>1 DEF vars
  <2>2. \A f, n : Target(f, n)' = Target(f, n)
    BY <2>1, SameTarget
  <2>3. \A f, n : HasItem(f, n)' = HasItem(f, n)
    BY <2>1 DEF HasItem, ItemsOf
  <2>4. \A t : IsDataset(t)' = IsDataset(t)
    BY <2>1 DEF IsDataset, HasItem, At, ItemsOf
  <2>5. CallInv'
    BY <2>1, <2>2, <2>3, <2>4 DEF IInv, CallInv, Working
  <2> QED BY <2>1, <2>5, SameFiles DEF IInv
<1> QED BY <1>1, EncodeStep, StartWriteStep, OpenStep, EnterGroupStep, EnterDatasetStep,
           WriteDataStep, FilterFailsStep, StartLinkStep, CreateExternalStep DEF Next

LEMMA InterfaceInit == ASSUME Init  PROVE IInv
<1>1. Filed(<<>>)
  BY DEF Filed
<1>2. DiskInv
  BY <1>1, FS_EmptySet DEF Init, DiskInv, NoFile
<1>3. CallInv
  BY DEF Init, CallInv, Working
<1> QED BY <1>2, <1>3 DEF IInv

\* Whatever calls are made in whatever order, through whatever links and with
\* whatever texts of filters: a call that fails half way through, and one that
\* writes something else, leaves every dataset with what it held.
THEOREM CallsLoseNothing == Spec => NothingLost
<1>1. Init => IInv
  BY InterfaceInit
<1>2. IInv /\ [Next]_vars => IInv'
  BY InterfaceAssumption, InterfaceStep
<1>3. IInv /\ [Next]_vars => [LostNothing]_vars
  BY InterfaceAssumption, InterfaceStep
<1>4. LostNothing <=> \A f \in Files : \A name \in DOMAIN ItemsOf(f) :
         /\ name \in DOMAIN disk'[f].items
         /\ disk'[f].items[name] # ItemsOf(f)[name] =>
              last'.value = 0 /\ Target(call.file, call.name) = <<f, name>>
  BY DEF LostNothing
<1> QED BY <1>1, <1>2, <1>3, <1>4, PTL DEF Spec, NothingLost

-----------------------------------------------------------------------------
(* Folding a sequence *)

LEMMA MaxIs ==
    ASSUME NEW S, S \subseteq Int, NEW m \in S, \A x \in S : x <= m
    PROVE  Max(S) = m
<1>1. \A y \in S : m >= y
  OBVIOUS
<1>2. \E x \in S : \A y \in S : x >= y
  BY <1>1
<1>3. Max(S) \in S /\ \A y \in S : Max(S) >= y
  BY <1>2 DEF Max
<1>4. Max(S) \in Int /\ m \in Int /\ Max(S) >= m /\ m >= Max(S)
  BY <1>1, <1>3
<1> QED BY ONLY <1>4

\* h folds every part of a sequence, as FoldLeft does.
FoldsTo(h, st, base, seq, n) ==
    h = [s \in SUBSET (1 .. n) |-> IF s = {} THEN base
                                   ELSE st[<<h[s \ {Max(s)}], seq[Max(s)]>>]]

LEMMA TopOf ==
    ASSUME NEW n \in Nat, NEW s \in SUBSET (1 .. n + 1)
    PROVE  /\ n + 1 \in s => Max(s) = n + 1
           /\ n + 1 \notin s => s \in SUBSET (1 .. n)
           /\ s \ {n + 1} \in SUBSET (1 .. n)
<1>1. s \subseteq Int /\ \A x \in s : x <= n + 1
  OBVIOUS
<1>2. n + 1 \in s => Max(s) = n + 1
  BY <1>1, MaxIs
<1>3. \A x \in 1 .. n + 1 : x # n + 1 => x \in 1 .. n
  OBVIOUS
<1> QED BY <1>2, <1>3

LEMMA MaxIn ==
    ASSUME NEW n \in Nat, NEW s \in SUBSET (1 .. n), s # {}
    PROVE  Max(s) \in s /\ \A x \in s : x <= Max(s)
<1>0. s \subseteq Nat
  OBVIOUS
<1> DEFINE G == {k \in Nat : \A x \in s : x <= k}
<1>1. n \in G /\ G \subseteq Nat
  OBVIOUS
<1> HIDE DEF G
<1>2. PICK k \in G : \A j \in G : k <= j
  BY <1>1, NatMin
<1>3. k \in Nat /\ \A x \in s : x <= k
  BY <1>2 DEF G
<1>4. k \in s
  <2>1. SUFFICES ASSUME k \notin s PROVE FALSE
    OBVIOUS
  <2>2. k # 0
    <3>1. PICK x \in s : TRUE
      OBVIOUS
    <3>2. x \in 1 .. n /\ x <= k
      BY <1>3
    <3> QED BY <1>3, <3>2
  <2>3. \A x \in s : x <= k - 1
    BY <1>0, <1>3, <2>1
  <2>4. k - 1 \in G
    BY <1>3, <2>2, <2>3 DEF G
  <2> QED BY <1>2, <1>3, <2>4
<1>5. Max(s) = k
  <2>1. s \subseteq Int
    BY <1>0
  <2> QED BY ONLY <1>3, <1>4, <2>1, MaxIs
<1> QED BY <1>3, <1>4, <1>5

CanFold(X, Y, st, base, seq, N) ==
    /\ st \in [X \X Y -> X] /\ base \in X /\ N \in Nat
    /\ \A i \in 1 .. N : seq[i] \in Y

\* There is such an h, and it stays among the values of the steps.
LEMMA FoldExists ==
    ASSUME NEW X, NEW Y, NEW st, NEW base, NEW seq, NEW N, CanFold(X, Y, st, base, seq, N)
    PROVE  \E h \in [SUBSET (1 .. N) -> X] : FoldsTo(h, st, base, seq, N)
<1>0. st \in [X \X Y -> X] /\ base \in X /\ N \in Nat /\ \A i \in 1 .. N : seq[i] \in Y
  BY DEF CanFold
<1> USE <1>0
<1> DEFINE Folds(n) == \E h \in [SUBSET (1 .. n) -> X] : FoldsTo(h, st, base, seq, n)
           B == {n \in 0 .. N : ~Folds(n)}
<1>1. Folds(0)
  <2> DEFINE h == [s \in SUBSET (1 .. 0) |-> base]
  <2>1. \A s \in SUBSET (1 .. 0) : s = {}
    OBVIOUS
  <2>2. h \in [SUBSET (1 .. 0) -> X] /\ FoldsTo(h, st, base, seq, 0)
    BY <2>1 DEF FoldsTo
  <2> QED BY <2>2
<1>2. ASSUME NEW n \in Nat, n + 1 <= N, Folds(n)  PROVE Folds(n + 1)
  <2>1. PICK g \in [SUBSET (1 .. n) -> X] : FoldsTo(g, st, base, seq, n)
    BY <1>2
  <2> DEFINE h == [s \in SUBSET (1 .. n + 1) |->
                     IF n + 1 \in s THEN st[<<g[s \ {n + 1}], seq[n + 1]>>] ELSE g[s]]
  <2>2. ASSUME NEW s \in SUBSET (1 .. n + 1)  PROVE h[s] \in X
    <3>1. n + 1 \in 1 .. N
      BY <1>2
    <3>2. seq[n + 1] \in Y
      BY <3>1
    <3>3. CASE n + 1 \in s
      <4>1. g[s \ {n + 1}] \in X
        BY TopOf
      <4> QED BY <3>2, <3>3, <4>1
    <3>4. CASE n + 1 \notin s
      BY <3>4, TopOf
    <3> QED BY <3>3, <3>4
  <2>3. ASSUME NEW s \in SUBSET (1 .. n)  PROVE h[s] = g[s]
    <3>1. n + 1 \notin s /\ s \in SUBSET (1 .. n + 1)
      OBVIOUS
    <3> QED BY <3>1
  <2>4. ASSUME NEW s \in SUBSET (1 .. n + 1)
        PROVE  h[s] = IF s = {} THEN base ELSE st[<<h[s \ {Max(s)}], seq[Max(s)]>>]
    <3>1. CASE n + 1 \in s
      <4>1. Max(s) = n + 1 /\ s \ {n + 1} \in SUBSET (1 .. n)
        BY <3>1, TopOf
      <4>2. h[s \ {n + 1}] = g[s \ {n + 1}]
        BY <2>3, <4>1
      <4>3. h[s] = st[<<g[s \ {n + 1}], seq[n + 1]>>]
        BY <3>1
      <4> HIDE DEF h
      <4> QED BY <3>1, <4>1, <4>2, <4>3
    <3>2. CASE n + 1 \notin s
      <4>1. s \in SUBSET (1 .. n)
        BY <3>2, TopOf
      <4>2. h[s] = g[s] /\ h[s \ {Max(s)}] = g[s \ {Max(s)}]
        BY <2>3, <4>1
      <4>3. g[s] = IF s = {} THEN base ELSE st[<<g[s \ {Max(s)}], seq[Max(s)]>>]
        BY <2>1, <4>1 DEF FoldsTo
      <4> HIDE DEF h
      <4> QED BY <4>2, <4>3
    <3> QED BY <3>1, <3>2
  <2>5. h \in [SUBSET (1 .. n + 1) -> X] /\ FoldsTo(h, st, base, seq, n + 1)
    <3>1. h = [s \in SUBSET (1 .. n + 1) |-> h[s]]
      OBVIOUS
    <3> HIDE DEF h
    <3> QED BY <2>2, <2>4, <3>1 DEF FoldsTo
  <2> HIDE DEF h
  <2> QED BY <2>5
<1>3. B = {}
  <2>1. SUFFICES ASSUME B # {} PROVE FALSE
    OBVIOUS
  <2>2. B \subseteq Nat
    OBVIOUS
  <2> HIDE DEF Folds
  <2>3. PICK n \in B : \A m \in B : n <= m
    BY <2>1, <2>2, NatMin
  <2>4. n \in 0 .. N /\ n # 0 /\ ~Folds(n)
    BY <1>1, <2>3
  <2>5. PICK m \in Nat : n = m + 1
    <3>1. n - 1 \in Nat /\ n = (n - 1) + 1
      BY <2>4
    <3> QED BY <3>1
  <2>6. m \notin B /\ m \in 0 .. N
    BY <2>3, <2>4, <2>5
  <2> QED BY <1>2, <2>4, <2>5, <2>6
<1>4. N \in 0 .. N
  OBVIOUS
<1> HIDE DEF Folds
<1>5. Folds(N)
  BY <1>3, <1>4
<1> QED BY <1>5 DEF Folds

Comes(c, w, N) ==
    /\ c[{}] = w[0]
    /\ \A k \in 1 .. N : \A s \in SUBSET (1 .. N) :
         s # {} /\ Max(s) = k /\ c[s \ {k}] = w[k - 1] => c[s] = w[k]

\* What folds every part in these steps comes, part by part, to w.
LEMMA FoldSteps ==
    ASSUME NEW N \in Nat, NEW c, NEW w, Comes(c, w, N)
    PROVE  c[1 .. N] = w[N]
<1> USE DEF Comes
<1> DEFINE B == {k \in 0 .. N : c[1 .. k] # w[k]}
<1>1. 1 .. 0 = {}
  OBVIOUS
<1>2. B = {}
  <2>1. SUFFICES ASSUME B # {} PROVE FALSE
    OBVIOUS
  <2>2. B \subseteq Nat
    OBVIOUS
  <2>3. PICK k \in B : \A m \in B : k <= m
    <3> HIDE DEF B
    <3> QED BY <2>1, <2>2, NatMin
  <2>4. k \in 1 .. N
    BY <1>1, <2>3
  <2>5. k - 1 \in 0 .. N /\ k - 1 \notin B
    BY <2>3, <2>4
  <2>6. c[1 .. (k - 1)] = w[k - 1]
    BY <2>5
  <2>7. /\ 1 .. k \in SUBSET (1 .. N) /\ 1 .. k # {} /\ (1 .. k) \ {k} = 1 .. (k - 1)
    <3>1. k \in Nat /\ 1 <= k /\ k <= N
      BY <2>4
    <3>2. 1 .. k \subseteq 1 .. N /\ k \in 1 .. k
      BY ONLY <3>1, N \in Nat
    <3>3. ASSUME NEW x  PROVE x \in (1 .. k) \ {k} <=> x \in 1 .. (k - 1)
      BY ONLY <3>1
    <3> QED BY <3>2, <3>3
  <2>8. Max(1 .. k) = k
    <3>1. 1 .. k \subseteq Int /\ k \in 1 .. k /\ \A x \in 1 .. k : x <= k
      BY <2>4
    <3> QED BY <3>1, MaxIs
  <2>9. c[1 .. k] = w[k]
    BY <2>4, <2>6, <2>7, <2>8
  <2> QED BY <2>3, <2>9
<1> QED BY <1>2

-----------------------------------------------------------------------------
(* A relative name leads from one file to the other *)

\* One component of a relative name.
Up(at, c) == IF c # ".." THEN Append(at, c) ELSE IF at = <<>> THEN at ELSE Front(at)

\* What a relative name is made of (that ".." is in STRING no prover knows).
Component == STRING \cup {".."}

LEMMA UpType ==
    ASSUME NEW at \in Seq(STRING), NEW c \in Component
    PROVE  Up(at, c) \in Seq(STRING)
<1>1. c # ".." => Append(at, c) \in Seq(STRING)
  BY AppendProperties DEF Component
<1>2. at # <<>> => Front(at) \in Seq(STRING)
  BY FrontPrefix
<1> QED BY <1>1, <1>2 DEF Up

LEMMA FollowWalk ==
    ASSUME NEW f, NEW rel \in Seq(Component), NEW N \in Nat, N = Len(rel),
           NEW w \in [0 .. N -> Seq(STRING)], w[0] = Front(f),
           \A k \in 1 .. N : w[k] = Up(w[k - 1], rel[k])
    PROVE  Follow(f, rel) = w[N]
<1> DEFINE X == Seq(STRING)
           D == DOMAIN rel
           st == [p \in X \X Component |-> Up(p[1], p[2])]
           Folds(h) == h = [s \in SUBSET D |->
                              IF s = {} THEN Front(f)
                              ELSE IF rel[Max(s)] # ".." THEN Append(h[s \ {Max(s)}], rel[Max(s)])
                              ELSE IF h[s \ {Max(s)}] = <<>> THEN h[s \ {Max(s)}]
                              ELSE Front(h[s \ {Max(s)}])]
           c == CHOOSE h : Folds(h)
<1>1. D = 1 .. N /\ \A i \in 1 .. N : rel[i] \in Component
  BY LenProperties
<1>2. Follow(f, rel) = c[D]
  BY Zenon DEF Follow, FoldLeft, MapThenFoldSet
<1>3. \E h : Folds(h)
  <2>0. Front(f) \in X
    <3>1. 0 \in 0 .. N
      OBVIOUS
    <3> QED BY <3>1
  <2>1. st \in [X \X Component -> X]
    <3>1. ASSUME NEW p \in X \X Component  PROVE Up(p[1], p[2]) \in X
      <4>1. p[1] \in Seq(STRING) /\ p[2] \in Component
        OBVIOUS
      <4> QED BY <4>1, UpType
    <3> HIDE DEF X
    <3> QED BY <3>1
  <2>2. PICK h \in [SUBSET (1 .. N) -> X] : FoldsTo(h, st, Front(f), rel, N)
    <3>1. PICK base : base = Front(f)
      OBVIOUS
    <3>2. base \in X /\ \A i \in 1 .. N : rel[i] \in Component
      BY <1>1, <2>0, <3>1
    <3> HIDE DEF st, X, D
    <3>3. CanFold(X, Component, st, base, rel, N)
      BY <2>1, <3>2 DEF CanFold
    <3>4. PICK step : step = st
      OBVIOUS
    <3>5. \E h \in [SUBSET (1 .. N) -> X] : FoldsTo(h, step, base, rel, N)
      <4>1. CanFold(X, Component, step, base, rel, N)
        BY <3>3, <3>4
      <4> QED BY ONLY <4>1, FoldExists
    <3> QED BY <3>1, <3>4, <3>5
  <2>3. h = [s \in SUBSET (1 .. N) |-> IF s = {} THEN Front(f)
                                       ELSE st[<<h[s \ {Max(s)}], rel[Max(s)]>>]]
    BY <2>2 DEF FoldsTo
  <2>4. ASSUME NEW s \in SUBSET (1 .. N), s # {}
        PROVE  st[<<h[s \ {Max(s)}], rel[Max(s)]>>] = Up(h[s \ {Max(s)}], rel[Max(s)])
    <3>1. Max(s) \in 1 .. N /\ s \ {Max(s)} \in SUBSET (1 .. N)
      BY <2>4, MaxIn
    <3>2. h[s \ {Max(s)}] \in X /\ rel[Max(s)] \in Component
      BY <1>1, <2>2, <3>1
    <3> QED BY <3>2
  <2>5. h = [s \in SUBSET D |-> IF s = {} THEN Front(f) ELSE Up(h[s \ {Max(s)}], rel[Max(s)])]
    <3> HIDE DEF st, D
    <3> QED BY <1>1, <2>3, <2>4
  <2>6. Folds(h)
    <3> HIDE DEF D
    <3> QED BY <2>5 DEF Up
  <2> QED BY <2>6
<1>4. Folds(c)
  BY <1>3
<1>5. c[{}] = w[0]
  <2> HIDE DEF c, D
  <2> QED BY <1>4
<1>6. ASSUME NEW k \in 1 .. N, NEW s \in SUBSET (1 .. N), s # {}, Max(s) = k, c[s \ {k}] = w[k - 1]
      PROVE  c[s] = w[k]
  <2>1. c[s] = Up(c[s \ {Max(s)}], rel[Max(s)])
    <3> HIDE DEF c, D
    <3> QED BY <1>1, <1>4, <1>6 DEF Up
  <2> HIDE DEF c
  <2> QED BY <1>6, <2>1
<1>7. c[1 .. N] = w[N]
  <2>1. PICK d : d = c
    OBVIOUS
  <2>2. Comes(d, w, N)
    <3> HIDE DEF c
    <3> QED BY <1>5, <1>6, <2>1 DEF Comes
  <2>3. d[1 .. N] = w[N]
    BY ONLY <2>2, N \in Nat, FoldSteps
  <2> QED BY <2>1, <2>3
<1> QED BY <1>1, <1>2, <1>7

\* make_relative: a link into a file leads to this file.
LEMMA RelativeLeads ==
    ASSUME InterfaceAssumption, NEW f \in Files, NEW g \in Files
    PROVE  Follow(f, MakeRelative(f, g)) = g
<1> DEFINE dir == Front(f)
           Common(k) == /\ k <= Len(g) /\ SubSeq(dir, 1, k) = SubSeq(g, 1, k)
                        /\ \A j \in k + 1 .. Len(dir) :
                             j > Len(g) \/ SubSeq(dir, 1, j) # SubSeq(g, 1, j)
           common == CHOOSE k \in 0 .. Len(dir) : Common(k)
<1>1. /\ g \in Seq(STRING) /\ dir \in Seq(STRING) /\ Len(g) \in Nat /\ Len(dir) \in Nat
      /\ \A i \in 1 .. Len(g) : g[i] \in STRING /\ g[i] # ".."
      /\ \A i \in 1 .. Len(dir) : dir[i] \in STRING
  <2>1. f \in Seq(STRING) /\ f # <<>> /\ g \in Seq(STRING)
        /\ \A i \in 1 .. Len(g) : g[i] \in STRING \ {".."}
    BY SeqMonotonic, ElementOfSeq DEF InterfaceAssumption
  <2>2. dir \in Seq(STRING)
    BY <2>1, FrontPrefix
  <2> HIDE DEF dir
  <2> QED BY <2>1, <2>2, LenProperties, ElementOfSeq
<1> HIDE DEF dir
<1>2. \E k \in 0 .. Len(dir) : Common(k)
  <2> DEFINE K == {k \in 0 .. Len(dir) : k <= Len(g) /\ SubSeq(dir, 1, k) = SubSeq(g, 1, k)}
             L == {Len(dir) - k : k \in K}
  <2>1. 0 \in K
    <3>1. SubSeq(dir, 1, 0) = <<>> /\ SubSeq(g, 1, 0) = <<>>
      BY SubSeqEmpty
    <3> QED BY <1>1, <3>1
  <2>2. L \subseteq Nat /\ L # {}
    BY <1>1, <2>1
  <2>3. PICK l \in L : \A m \in L : l <= m
    <3> HIDE DEF L
    <3> QED BY <2>2, NatMin
  <2>4. PICK k \in K : l = Len(dir) - k
    BY <2>3
  <2>5. ASSUME NEW j \in k + 1 .. Len(dir), j <= Len(g), SubSeq(dir, 1, j) = SubSeq(g, 1, j)
        PROVE  FALSE
    <3>0. k \in Nat /\ j \in Nat /\ j > k /\ j <= Len(dir)
      BY <1>1, <2>4, <2>5
    <3>1. j \in K
      BY <1>1, <2>5, <3>0
    <3>2. Len(dir) - j \in L
      BY <3>1
    <3>3. l <= Len(dir) - j
      BY <2>3, <3>2
    <3> QED BY ONLY <1>1, <2>4, <3>0, <3>3
  <2>6. \A j \in k + 1 .. Len(dir) : j > Len(g) \/ SubSeq(dir, 1, j) # SubSeq(g, 1, j)
    <3>1. ASSUME NEW j \in k + 1 .. Len(dir)
          PROVE  j > Len(g) \/ SubSeq(dir, 1, j) # SubSeq(g, 1, j)
      <4>1. j \in Int
        BY <1>1, <2>4
      <4> QED BY <1>1, <2>5, <4>1
    <3> QED BY <3>1
  <2>7. k \in 0 .. Len(dir) /\ k <= Len(g) /\ SubSeq(dir, 1, k) = SubSeq(g, 1, k)
    BY <2>4
  <2> HIDE DEF K, L
  <2> QED BY <2>6, <2>7
<1>3. common \in 0 .. Len(dir) /\ Common(common)
  <2> HIDE DEF Common
  <2> QED BY <1>2
<1> DEFINE ups == [i \in 1 .. Len(dir) - common |-> ".."]
           rest == SubSeq(g, common + 1, Len(g))
<1>4. MakeRelative(f, g) = ups \o rest
  BY DEF MakeRelative, dir
<1>5. PICK a \in Nat, u \in Nat, r \in Nat :
         a = common /\ Len(dir) = a + u /\ Len(g) = a + r
  <2> HIDE DEF common
  <2>0. common \in 0 .. Len(dir) /\ common <= Len(g)
    BY <1>3
  <2>1. PICK d \in Nat, e \in Nat : d = Len(dir) /\ e = Len(g)
    BY <1>1
  <2>2. PICK a \in Nat : a = common /\ a <= d /\ a <= e
    BY <2>0, <2>1
  <2>3. d - a \in Nat /\ e - a \in Nat /\ d = a + (d - a) /\ e = a + (e - a)
    BY ONLY <2>2, d \in Nat, e \in Nat, a \in Nat
  <2> QED BY ONLY <2>1, <2>2, <2>3, a \in Nat
<1>6. SubSeq(dir, 1, a) = SubSeq(g, 1, a)
  BY <1>3, <1>5
<1> HIDE DEF common
<1>7. /\ ups \in Seq(Component) /\ Len(ups) = u /\ \A i \in 1 .. u : ups[i] = ".."
  <2>1. Len(dir) - common = u
    BY <1>1, <1>5
  <2>2. ups = [i \in 1 .. u |-> ".."]
    BY <2>1
  <2> HIDE DEF ups
  <2>3. ups \in [1 .. u -> Component]
    BY ONLY <2>2 DEF Component
  <2>4. ups \in Seq(Component) /\ Len(ups) = u
    BY ONLY <2>3, u \in Nat
  <2> QED BY ONLY <2>2, <2>4
<1>8. /\ rest \in Seq(STRING) /\ Len(rest) = r /\ \A i \in 1 .. r : rest[i] = g[a + i]
  <2>1. \A i \in a + 1 .. a + r : g[i] \in STRING
    BY <1>1, <1>5
  <2>2. /\ SubSeq(g, a + 1, a + r) \in Seq(STRING)
        /\ Len(SubSeq(g, a + 1, a + r)) = IF a + 1 <= a + r THEN (a + r) - (a + 1) + 1 ELSE 0
        /\ \A i \in 1 .. (a + r) - (a + 1) + 1 : SubSeq(g, a + 1, a + r)[i] = g[(a + 1) + i - 1]
    <3>1. a + 1 \in Int /\ a + r \in Int
      BY <1>5
    <3> QED BY ONLY <2>1, <3>1, SubSeqProperties
  <2>3. rest = SubSeq(g, a + 1, a + r)
    BY <1>5
  <2>4. (a + r) - (a + 1) + 1 = r /\ (a + 1 <= a + r <=> r # 0)
    BY ONLY a \in Nat, r \in Nat
  <2>5. \A i \in 1 .. r : (a + 1) + i - 1 = a + i
    BY ONLY a \in Nat, r \in Nat
  <2> HIDE DEF rest
  <2> QED BY <2>2, <2>3, <2>4, <2>5
<1> HIDE DEF ups, rest
<1> DEFINE rel == ups \o rest
           w == [k \in 0 .. u + r |-> IF k <= u THEN SubSeq(dir, 1, (a + u) - k)
                                      ELSE SubSeq(g, 1, (a + k) - u)]
<1>9. /\ rel \in Seq(Component) /\ Len(rel) = u + r
      /\ \A i \in 1 .. u + r : rel[i] = IF i <= u THEN ".." ELSE g[(a + i) - u]
  <2>1. /\ rel \in Seq(Component) /\ Len(rel) = u + r
        /\ \A i \in 1 .. u + r : rel[i] = IF i <= u THEN ups[i] ELSE rest[i - u]
    <3>1. rest \in Seq(Component)
      <4>1. \A i \in 1 .. r : rest[i] \in Component
        <5>1. \A i \in 1 .. r : a + i \in 1 .. Len(g) /\ rest[i] = g[a + i]
          BY <1>5, <1>8
        <5> QED BY <1>1, <5>1 DEF Component
      <4>2. rest = [i \in 1 .. r |-> rest[i]]
        BY <1>8
      <4> QED BY ONLY <4>1, <4>2, r \in Nat
    <3>2. Len(rest) = r
      BY <1>8
    <3> QED BY ONLY <1>7, <3>1, <3>2, u \in Nat, r \in Nat, ConcatProperties
  <2>2. ASSUME NEW i \in 1 .. u + r, ~(i <= u)  PROVE rest[i - u] = g[(a + i) - u]
    <3>1. i - u \in 1 .. r /\ a + (i - u) = (a + i) - u
      BY <2>2
    <3> QED BY <1>8, <3>1
  <2>3. \A i \in 1 .. u + r : i <= u => i \in 1 .. u
    OBVIOUS
  <2> HIDE DEF rel
  <2> QED BY ONLY <1>7, <2>1, <2>2, <2>3
<1>10. ASSUME NEW s \in Seq(STRING), NEW k \in 0 .. Len(s)
       PROVE  /\ SubSeq(s, 1, k) \in Seq(STRING) /\ Len(SubSeq(s, 1, k)) = k
              /\ \A i \in 1 .. k : SubSeq(s, 1, k)[i] = s[i]
  <2>1. Len(s) \in Nat /\ \A i \in 1 .. k : s[i] \in STRING
    BY ElementOfSeq
  <2> QED BY <2>1, SubSeqProperties
<1>11. w \in [0 .. u + r -> Seq(STRING)]
  <2>1. ASSUME NEW k \in 0 .. u + r  PROVE w[k] \in Seq(STRING)
    <3>1. CASE k <= u
      <4>1. (a + u) - k \in 0 .. Len(dir)
        BY <1>5, <3>1
      <4> QED BY <1>1, <1>10, <3>1, <4>1
    <3>2. CASE ~(k <= u)
      <4>1. (a + k) - u \in 0 .. Len(g)
        BY <1>5, <3>2
      <4> QED BY <1>1, <1>10, <3>2, <4>1
    <3> QED BY <3>1, <3>2
  <2> QED BY <2>1
<1>12. w[0] = Front(f)
  <2>1. SubSeq(dir, 1, a + u) = dir
    BY <1>1, <1>5, SubSeqFull
  <2>2. w[0] = SubSeq(dir, 1, (a + u) - 0) /\ (a + u) - 0 = a + u
    OBVIOUS
  <2> QED BY <2>1, <2>2 DEF dir
<1>13. ASSUME NEW k \in 1 .. u + r  PROVE w[k] = Up(w[k - 1], rel[k])
  <2>0. k - 1 \in 0 .. u + r /\ k \in 0 .. u + r
    OBVIOUS
  <2>1. CASE k <= u
    <3>1. PICK n \in Nat : n = (a + u) - k /\ n + 1 = (a + u) - (k - 1) /\ n + 1 <= Len(dir)
      <4>1. (a + u) - k \in Nat /\ ((a + u) - k) + 1 = (a + u) - (k - 1) /\ ((a + u) - k) + 1 <= Len(dir)
        BY <1>5, <2>1
      <4> QED BY <4>1
    <3>2. w[k - 1] = SubSeq(dir, 1, n + 1) /\ w[k] = SubSeq(dir, 1, n) /\ rel[k] = ".."
      BY <1>9, <2>0, <2>1, <3>1
    <3>3. /\ SubSeq(dir, 1, n + 1) \in Seq(STRING) /\ Len(SubSeq(dir, 1, n + 1)) = n + 1
          /\ SubSeq(dir, 1, n + 1) # <<>>
          /\ SubSeq(dir, 1, n) \in Seq(STRING) /\ Len(SubSeq(dir, 1, n)) = n
          /\ \A i \in 1 .. n + 1 : SubSeq(dir, 1, n + 1)[i] = dir[i]
          /\ \A i \in 1 .. n : SubSeq(dir, 1, n)[i] = dir[i]
      <4>1. n + 1 \in 0 .. Len(dir) /\ n \in 0 .. Len(dir)
        BY <1>1, <3>1
      <4>2. /\ SubSeq(dir, 1, n + 1) \in Seq(STRING) /\ Len(SubSeq(dir, 1, n + 1)) = n + 1
            /\ \A i \in 1 .. n + 1 : SubSeq(dir, 1, n + 1)[i] = dir[i]
        BY ONLY <1>1, <1>10, <4>1
      <4>3. /\ SubSeq(dir, 1, n) \in Seq(STRING) /\ Len(SubSeq(dir, 1, n)) = n
            /\ \A i \in 1 .. n : SubSeq(dir, 1, n)[i] = dir[i]
        BY ONLY <1>1, <1>10, <4>1
      <4>4. SubSeq(dir, 1, n + 1) # <<>>
        <5>1. n + 1 # 0 /\ Len(<<>>) = 0
          OBVIOUS
        <5> QED BY ONLY <4>2, <5>1
      <4> QED BY ONLY <4>2, <4>3, <4>4
    <3>4. Front(SubSeq(dir, 1, n + 1)) = SubSeq(dir, 1, n)
      <4> DEFINE p == SubSeq(dir, 1, n + 1)
                 q == SubSeq(dir, 1, n)
      <4>1. Front(p) = SubSeq(p, 1, n) /\ n \in 0 .. Len(p)
        BY <3>3 DEF Front
      <4>2. /\ SubSeq(p, 1, n) \in Seq(STRING) /\ Len(SubSeq(p, 1, n)) = n
            /\ \A i \in 1 .. n : SubSeq(p, 1, n)[i] = p[i]
        <5> HIDE DEF p
        <5> QED BY <1>10, <3>3, <4>1 DEF p
      <4>3. \A i \in 1 .. n : p[i] = q[i]
        BY <3>3
      <4> HIDE DEF p, q
      <4> QED BY <3>3, <4>1, <4>2, <4>3, SeqEqual DEF p, q
    <3> HIDE DEF w, rel
    <3> QED BY <3>2, <3>3, <3>4 DEF Up
  <2>2. CASE ~(k <= u)
    <3>1. PICK n \in Nat : n = (a + (k - 1)) - u /\ n + 1 = (a + k) - u /\ n + 1 <= Len(g) /\ n >= a
      <4>1. (a + (k - 1)) - u \in Nat /\ ((a + (k - 1)) - u) + 1 = (a + k) - u
            /\ ((a + (k - 1)) - u) + 1 <= Len(g) /\ ((a + (k - 1)) - u) >= a
        BY <1>5, <2>2
      <4> QED BY <4>1
    <3>2. w[k - 1] = SubSeq(g, 1, n)
      <4>1. CASE k - 1 <= u
        <5>1. k - 1 = u /\ n = a /\ (a + u) - (k - 1) = a
          BY <2>2, <3>1, <4>1
        <5>2. w[k - 1] = SubSeq(dir, 1, (a + u) - (k - 1))
          BY <2>0, <4>1
        <5> HIDE DEF w
        <5> QED BY <1>6, <5>1, <5>2
      <4>2. CASE ~(k - 1 <= u)
        BY <2>0, <3>1, <4>2
      <4> QED BY <4>1, <4>2
    <3>3. w[k] = SubSeq(g, 1, n + 1) /\ rel[k] = g[n + 1]
      BY <1>9, <2>0, <2>2, <3>1
    <3>4. g[n + 1] \in STRING /\ g[n + 1] # ".." /\ n + 1 \in 0 .. Len(g) /\ n \in 0 .. Len(g)
      BY <1>1, <3>1
    <3>5. SubSeq(g, 1, n + 1) = Append(SubSeq(g, 1, n), g[n + 1])
      <4>1. /\ SubSeq(g, 1, n) \in Seq(STRING) /\ Len(SubSeq(g, 1, n)) = n
            /\ \A i \in 1 .. n : SubSeq(g, 1, n)[i] = g[i]
            /\ SubSeq(g, 1, n + 1) \in Seq(STRING) /\ Len(SubSeq(g, 1, n + 1)) = n + 1
            /\ \A i \in 1 .. n + 1 : SubSeq(g, 1, n + 1)[i] = g[i]
        BY <1>1, <1>10, <3>4
      <4> DEFINE p == SubSeq(g, 1, n)
                 q == SubSeq(g, 1, n + 1)
                 z == Append(p, g[n + 1])
      <4>2. /\ z \in Seq(STRING) /\ Len(z) = n + 1
            /\ \A i \in 1 .. n : z[i] = p[i]
            /\ z[n + 1] = g[n + 1]
        BY <3>4, <4>1, AppendProperties
      <4>3. \A i \in 1 .. n + 1 : i \in 1 .. n \/ i = n + 1
        OBVIOUS
      <4> HIDE DEF p, q, z
      <4>4. \A i \in 1 .. n + 1 : q[i] = z[i]
        BY <4>1, <4>2, <4>3 DEF p, q
      <4>5. q \in Seq(STRING) /\ Len(q) = n + 1
        BY <4>1 DEF q
      <4> QED BY <4>2, <4>4, <4>5, SeqEqual DEF p, q, z
    <3> HIDE DEF w, rel
    <3> QED BY <3>2, <3>3, <3>4, <3>5 DEF Up
  <2> QED BY <2>1, <2>2
<1>14. w[u + r] = g
  <2>1. SubSeq(g, 1, a + r) = g
    BY <1>1, <1>5, SubSeqFull
  <2>2. CASE r = 0
    <3>1. w[u + r] = SubSeq(dir, 1, (a + u) - u) /\ (a + u) - u = a /\ a + r = a
      BY <2>2
    <3> HIDE DEF w
    <3> QED BY <1>6, <2>1, <3>1
  <2>3. CASE r # 0
    <3>1. w[u + r] = SubSeq(g, 1, (a + (u + r)) - u) /\ (a + (u + r)) - u = a + r
      BY <2>3
    <3> HIDE DEF w
    <3> QED BY <2>1, <3>1
  <2> QED BY <2>2, <2>3
<1> HIDE DEF w, rel
<1>15. Follow(f, rel) = w[u + r]
  <2>1. u + r \in Nat /\ u + r = Len(rel)
    BY <1>9
  <2> QED BY ONLY <1>9, <1>11, <1>12, <1>13, <2>1, FollowWalk
<1> QED BY <1>4, <1>14, <1>15 DEF rel

-----------------------------------------------------------------------------
(* What the datasets hold *)

\* A buffer that encoding returned.
IsStream(s) ==
    \E text \in Texts, vol \in Volumes :
        /\ Built(text)
        /\ s = [text |-> Printed(text, vol), vol |-> vol, shape |-> ShapeOf[vol],
                width |-> s.width, whole |-> s.whole]

\* A link that was made leads to a name in a file.
IsLink(l) ==
    \E f, g \in Files, n, m \in Names :
        /\ l = <<f, n, g, m>> /\ n \in DOMAIN disk[f].items
        /\ disk[f].items[n] = Link(MakeRelative(f, g), m)

\* The call at work asks for what a caller may ask for.
IsWrite(c) ==
    /\ c.op = "write" /\ c.vol \in Volumes
    /\ c.shape = ShapeOf[c.vol] /\ c.width = 2 /\ c.data = Raw(c.vol, c.shape)
    /\ c.filter = <<>> \/ \E text \in Filters : c.filter = <<Stream(text, 0, c.shape, 2)>>
IsStreamed(c) ==
    /\ c.op = "stream" /\ IsStream(c.data) /\ c.vol = c.data.vol
    /\ c.shape = c.data.shape /\ c.width = c.data.width
    /\ c.data.whole => c.filter = <<c.data>>
IsLinking(c) == c.op = "link" /\ c.to \in Files /\ c.dest \in Names

WorkInv ==
    /\ Working => IsWrite(call) \/ IsStreamed(call) \/ IsLinking(call)
    /\ pc \in {"group", "dataset", "data"} =>
         disk[call.file].hdf5 /\ (call.op = "stream" => call.data.whole)
    /\ pc = "data" => call.op # "link"
    /\ pc = "data" /\ call.fresh =>
         /\ call.name \in DOMAIN disk[call.file].items
         /\ disk[call.file].items[call.name] = Dataset(call.shape, call.width, call.filter)

\* The filter of a dataset has the width of its items and, for 16 bits, a text
\* a caller passed or one that encoding has put into a header.
GoodFilter(x) ==
    x.kind = "data" =>
        \/ x.filter = <<>>
        \/ /\ x.filter[1].width = x.width
           /\ x.width = 2 => x.filter[1].text \in Filters \cup Learned
DataInv ==
    \A f \in Files : \A n \in DOMAIN disk[f].items :
        disk[f].exists /\ disk[f].hdf5 /\ GoodFilter(disk[f].items[n])

\* A dataset that should hold a volume has its shape, and reading gives it.
ReadsAs(x, vol) ==
    /\ vol \in Volumes /\ x.kind = "data" /\ x.shape = ShapeOf[vol]
    /\ x.width = 2 => ReadDataset(x) # Failed /\ ReadDataset(x).vol = vol
KeptInv ==
    /\ DOMAIN kept = Files
    /\ \A f \in Files : DOMAIN kept[f] = Names
    /\ \A f \in Files, n \in Names : kept[f][n] # Unknown =>
         n \in DOMAIN disk[f].items /\ ReadsAs(disk[f].items[n], kept[f][n])

StreamInv == \A s \in streams : IsStream(s)
LinkInv == \A l \in linked : IsLink(l)
RInv == StreamInv /\ LinkInv /\ WorkInv /\ DataInv /\ KeptInv

LEMMA Kept ==
    ASSUME RInv, Untouched, kept' = kept, linked' = linked, streams' = streams
    PROVE  StreamInv' /\ LinkInv' /\ KeptInv'
<1>1. StreamInv'
  BY DEF RInv, StreamInv
<1>2. LinkInv'
  <2>1. ASSUME NEW l \in linked  PROVE IsLink(l)'
    <3>1. PICK f \in Files, g \in Files, n \in Names, m \in Names :
             /\ l = <<f, n, g, m>> /\ n \in DOMAIN disk[f].items
             /\ disk[f].items[n] = Link(MakeRelative(f, g), m)
      BY DEF RInv, LinkInv, IsLink
    <3>2. n \in DOMAIN disk'[f].items /\ disk'[f].items[n] = Link(MakeRelative(f, g), m)
      BY <3>1 DEF Untouched
    <3> QED BY <3>1, <3>2 DEF IsLink
  <2> QED BY <2>1 DEF LinkInv
<1>3. KeptInv'
  BY DEF RInv, KeptInv, Untouched, ReadsAs
<1> QED BY <1>1, <1>2, <1>3

\* At rest, and as long as the files are what they are.
LEMMA AtRest ==
    ASSUME RInv, pc' = "idle"
    PROVE  WorkInv'
  BY DEF WorkInv, Working

LEMMA SameData ==
    ASSUME RInv, disk' = disk
    PROVE  Untouched /\ DataInv'
  BY DEF RInv, DataInv, Untouched, GoodFilter

LEMMA OpenedData ==
    ASSUME IInv, RInv, NEW f \in Files, OpenToWrite(f), linked' = linked
    PROVE  Untouched /\ DataInv' /\ (CanOpen(f) => disk'[f].hdf5)
<1>1. /\ Untouched
      /\ \A g \in Files : disk[g].exists \/ g # f => disk'[g] = disk[g]
      /\ disk'[f].exists
      /\ ~disk[f].exists => disk'[f].hdf5 /\ disk'[f].items = <<>>
  BY Opening DEF IInv
<1>2. ASSUME NEW g \in Files, NEW n \in DOMAIN disk'[g].items
      PROVE  disk'[g].exists /\ disk'[g].hdf5 /\ GoodFilter(disk'[g].items[n])
  <2>1. CASE disk[g].exists \/ g # f
    <3>1. disk'[g] = disk[g]
      BY <1>1, <2>1
    <3> QED BY <3>1 DEF RInv, DataInv
  <2>2. CASE ~disk[g].exists /\ g = f
    BY <1>1, <2>2
  <2> QED BY <2>1, <2>2
<1>3. DataInv'
  BY <1>2 DEF DataInv, GoodFilter
<1>4. CanOpen(f) => disk'[f].hdf5
  BY <1>1 DEF CanOpen
<1> QED BY <1>1, <1>3, <1>4

LEMMA AddedData ==
    ASSUME RInv, Untouched, NEW f \in Files, disk[f].exists, disk[f].hdf5, NEW n,
           DOMAIN disk'[f].items = DOMAIN disk[f].items \cup {n},
           disk'[f].exists, disk'[f].hdf5 = disk[f].hdf5,
           GoodFilter(disk'[f].items[n]),
           \A g \in Files \ {f} : disk'[g] = disk[g]
    PROVE  DataInv'
<1>1. ASSUME NEW g \in Files, NEW m \in DOMAIN disk'[g].items
      PROVE  disk'[g].exists /\ disk'[g].hdf5 /\ GoodFilter(disk'[g].items[m])
  <2>1. CASE g # f
    <3>1. disk'[g] = disk[g]
      BY <2>1
    <3> QED BY <3>1 DEF RInv, DataInv
  <2>2. CASE g = f /\ m # n
    <3>1. m \in DOMAIN disk[f].items /\ disk'[f].items[m] = disk[f].items[m]
      BY <2>2 DEF Untouched
    <3> QED BY <2>2, <3>1 DEF RInv, DataInv
  <2>3. CASE g = f /\ m = n
    BY <2>3
  <2> QED BY <2>1, <2>2, <2>3
<1> QED BY <1>1 DEF DataInv, GoodFilter

-----------------------------------------------------------------------------
(* The steps keep this *)

LEMMA EncodeKeeps ==
    ASSUME InterfaceAssumption, IInv, RInv, PipelineEncode
    PROVE  RInv'
<1>1. /\ disk' = disk /\ linked' = linked /\ kept' = kept /\ pc' = "idle"
  BY DEF PipelineEncode
<1>2. PICK text \in Texts, vol \in Volumes, width \in {1, 2}, works \in BOOLEAN :
         LET result == EncodeBy(text, vol, width, works) IN
         IF result.value # 0 THEN UNCHANGED streams
         ELSE \E whole \in BOOLEAN : streams' = {[result.stream EXCEPT !.whole = whole]}
  <2>1. PICK text \in Texts, vol \in Volumes, works \in BOOLEAN :
           \E result \in {EncodeBy(text, vol, 1, works), EncodeBy(text, vol, 2, works)} :
             IF result.value # 0 THEN UNCHANGED streams
             ELSE \E whole \in BOOLEAN : streams' = {[result.stream EXCEPT !.whole = whole]}
    BY DEF PipelineEncode, SQY_PipelineEncode_UI8, SQY_PipelineEncode_UI16
  <2>2. PICK result \in {EncodeBy(text, vol, 1, works), EncodeBy(text, vol, 2, works)} :
             IF result.value # 0 THEN UNCHANGED streams
             ELSE \E whole \in BOOLEAN : streams' = {[result.stream EXCEPT !.whole = whole]}
    BY <2>1
  <2>3. PICK width \in {1, 2} : result = EncodeBy(text, vol, width, works)
    OBVIOUS
  <2> QED BY <2>2, <2>3
<1>3. StreamInv'
  <2>1. CASE EncodeBy(text, vol, width, works).value # 0
    BY <1>2, <2>1 DEF RInv, StreamInv
  <2>2. CASE EncodeBy(text, vol, width, works).value = 0
    <3>1. /\ Built(text)
          /\ EncodeBy(text, vol, width, works).stream = Stream(Printed(text, vol), vol, ShapeOf[vol], width)
      BY <2>2 DEF EncodeBy, EncodeWith, Built, Printed, Threw
    <3>2. PICK whole \in BOOLEAN :
             streams' = {[EncodeBy(text, vol, width, works).stream EXCEPT !.whole = whole]}
      BY <1>2, <2>2
    <3>3. streams' = {[text |-> Printed(text, vol), vol |-> vol, shape |-> ShapeOf[vol],
                       width |-> width, whole |-> whole]}
      BY <3>1, <3>2 DEF Stream
    <3>4. \A s \in streams' : IsStream(s)
      BY <3>1, <3>3 DEF IsStream
    <3> QED BY <3>4 DEF StreamInv, IsStream
  <2> QED BY <2>1, <2>2
<1>4. Untouched /\ DataInv'
  BY <1>1, SameData
<1>5. LinkInv' /\ KeptInv'
  BY <1>1, <1>4 DEF RInv, LinkInv, KeptInv, IsLink, ReadsAs
<1> QED BY <1>1, <1>3, <1>4, <1>5, AtRest DEF RInv

LEMMA StartWriteKeeps ==
    ASSUME InterfaceAssumption, IInv, RInv, StartWrite
    PROVE  RInv'
<1>1. /\ disk' = disk /\ linked' = linked /\ kept' = kept /\ streams' = streams
      /\ pc' = "open"
  BY DEF StartWrite
<1>2. PICK f \in Files, name \in Names :
         \/ \E vol \in Volumes, text \in Filters \cup {<<>>} :
              call' = SQY_h5_write_UI16(f, name, vol, text)
         \/ \E s \in streams : call' = SQY_h5_write(f, name, s)
  BY DEF StartWrite
<1>3. IsWrite(call') \/ IsStreamed(call')
  <2>1. CASE \E vol \in Volumes, text \in Filters \cup {<<>>} :
               call' = SQY_h5_write_UI16(f, name, vol, text)
    <3>1. PICK vol \in Volumes, text \in Filters \cup {<<>>} :
               call' = SQY_h5_write_UI16(f, name, vol, text)
      BY <2>1
    <3>2. CASE text = <<>>
      <4>1. call' = WriteNdDataset(f, name, vol)
        BY <3>1, <3>2 DEF SQY_h5_write_UI16
      <4> QED BY <4>1 DEF WriteNdDataset, IsWrite
    <3>3. CASE text # <<>>
      <4>1. call' = [WriteNdDataset(f, name, vol) EXCEPT
                       !.filter = <<Stream(text, 0, ShapeOf[vol], 2)>>]
        BY <3>1, <3>3 DEF SQY_h5_write_UI16, WriteFiltered
      <4>2. text \in Filters
        BY <3>3
      <4>3. /\ call'.op = "write" /\ call'.vol = vol /\ call'.shape = ShapeOf[vol]
            /\ call'.width = 2 /\ call'.data = Raw(vol, ShapeOf[vol])
            /\ call'.filter = <<Stream(text, 0, ShapeOf[vol], 2)>>
        BY <4>1 DEF WriteNdDataset
      <4> QED BY <4>2, <4>3 DEF IsWrite
    <3> QED BY <3>2, <3>3
  <2>2. CASE \E s \in streams : call' = SQY_h5_write(f, name, s)
    <3>1. PICK s \in streams : call' = WriteCompressedBuffer(f, name, s)
      BY <2>2 DEF SQY_h5_write
    <3>2. IsStream(s)
      BY DEF RInv, StreamInv
    <3>3. /\ call'.op = "stream" /\ call'.data = s /\ call'.vol = s.vol
          /\ call'.shape = s.shape /\ call'.width = s.width /\ call'.filter = <<HeaderOf(s)>>
      BY <3>1 DEF WriteCompressedBuffer
    <3>4. s.whole => HeaderOf(s) = s
      BY DEF HeaderOf, Contained
    <3> QED BY <3>2, <3>3, <3>4 DEF IsStreamed
  <2> QED BY <1>2, <2>1, <2>2
<1>4. WorkInv'
  BY <1>1, <1>3 DEF WorkInv, Working, IsWrite, IsStreamed, IsStream
<1> QED BY <1>1, <1>4, SameData, Kept DEF RInv

LEMMA OpenKeeps ==
    ASSUME InterfaceAssumption, IInv, RInv, Open
    PROVE  RInv'
<1>1. /\ pc = "open" /\ call.file \in Files
      /\ linked' = linked /\ kept' = kept /\ streams' = streams
  BY DEF Open, Return, Goto, IInv, CallInv, Working
<1>2. CASE ~CanOpen(call.file)
  <2>1. disk' = disk /\ pc' = "idle"
    BY <1>2 DEF Open, Return
  <2> QED BY <1>1, <2>1, SameData, Kept, AtRest DEF RInv
<1>3. CASE CanOpen(call.file)
  <2>1. Untouched /\ DataInv' /\ disk'[call.file].hdf5
    <3>1. OpenToWrite(call.file)
      BY <1>3 DEF Open
    <3> QED BY <1>1, <1>3, <3>1, OpenedData
  <2>2. \/ pc' = "idle"
        \/ /\ pc' = "group" /\ call' = call
           /\ call.op = "stream" => call.data.whole
    BY <1>3 DEF Open, Return, Goto, Contained
  <2>3. ASSUME pc' = "group", call' = call, call.op = "stream" => call.data.whole
        PROVE  WorkInv'
    BY <1>1, <2>1, <2>3 DEF RInv, WorkInv, Working, IsWrite, IsStreamed, IsStream, IsLinking
  <2>4. WorkInv'
    BY <2>2, <2>3, AtRest
  <2> QED BY <1>1, <2>1, <2>4, Kept DEF RInv
<1> QED BY <1>2, <1>3

LEMMA EnterGroupKeeps ==
    ASSUME InterfaceAssumption, IInv, RInv, EnterGroup
    PROVE  RInv'
<1> DEFINE f == call.file
           grp == ExtractGroupPath(call.name)
<1>1. /\ pc = "group" /\ f \in Files /\ disk[f].exists /\ disk[f].hdf5
      /\ linked' = linked /\ kept' = kept /\ streams' = streams
      /\ call.op = "stream" => call.data.whole
      /\ call.name \in Seq(STRING) \ {<<>>} /\ grp \in Seq(STRING)
  BY FrontPrefix DEF EnterGroup, Return, Goto, IInv, CallInv, RInv, WorkInv, Working,
                     InterfaceAssumption, ExtractGroupPath
<1>2. ASSUME pc' = "dataset", call' = call, disk'[f].hdf5  PROVE WorkInv'
  BY <1>1, <1>2 DEF RInv, WorkInv, Working, IsWrite, IsStreamed, IsStream, IsLinking
<1>3. CASE grp = <<>> \/ (HasItem(f, grp) /\ ItemsOf(f)[grp] = Group)
  <2>1. disk' = disk /\ call' = call /\ pc' = "dataset"
    BY <1>3 DEF EnterGroup, Goto
  <2> HIDE DEF f, grp
  <2> QED BY <1>1, <1>2, <2>1, SameData, Kept DEF RInv
<1>4. CASE /\ ~(grp = <<>> \/ (HasItem(f, grp) /\ ItemsOf(f)[grp] = Group))
           /\ HasItem(f, grp) \/ ~(Len(grp) = 1 \/ HasItem(f, Front(grp)))
  <2>1. disk' = disk /\ pc' = "idle"
    BY <1>4 DEF EnterGroup, Return
  <2> HIDE DEF f, grp
  <2> QED BY <1>1, <2>1, SameData, Kept, AtRest DEF RInv
<1>5. CASE /\ grp # <<>> /\ ~HasItem(f, grp)
           /\ Len(grp) = 1 \/ HasItem(f, Front(grp))
  <2>1. AddItem(f, grp, Group) /\ call' = call /\ pc' = "dataset"
    BY <1>5 DEF EnterGroup, Goto
  <2>2. grp \notin DOMAIN disk[f].items
    BY <1>1, <1>5, HasName DEF IInv
  <2>3. \A k \in 1 .. Len(grp) - 1 : SubSeq(grp, 1, k) \in DOMAIN disk[f].items
    BY <1>1, <1>5, GroupsAbove
  <2> HIDE DEF f, grp
  <2>4. /\ Untouched /\ disk'[f].items[grp] = Group
        /\ disk'[f].exists /\ disk'[f].hdf5 = disk[f].hdf5
        /\ DOMAIN disk'[f].items = DOMAIN disk[f].items \cup {grp}
        /\ \A g \in Files \ {f} : disk'[g] = disk[g]
    <3>1. IsItem(Group) /\ IsFiniteSet(linked') /\ DiskInv
      BY <1>1 DEF IsItem, IInv, DiskInv
    <3> QED BY <1>1, <1>5, <2>1, <2>2, <2>3, <3>1, Adding
  <2>5. GoodFilter(disk'[f].items[grp])
    BY <2>4 DEF GoodFilter, Group
  <2>6. DataInv'
    BY <1>1, <2>4, <2>5, AddedData
  <2> QED BY <1>1, <1>2, <2>1, <2>4, <2>6, Kept DEF RInv
<1> QED BY <1>3, <1>4, <1>5

LEMMA EnterDatasetKeeps ==
    ASSUME InterfaceAssumption, IInv, RInv, EnterDataset
    PROVE  RInv'
<1> DEFINE f == call.file
           n == call.name
           new == Dataset(call.shape, call.width, call.filter)
<1>1. /\ pc = "dataset" /\ f \in Files /\ disk[f].exists /\ disk[f].hdf5
      /\ linked' = linked /\ kept' = kept /\ streams' = streams
      /\ call.op # "link" /\ n \in Names /\ n \in Seq(STRING) \ {<<>>}
      /\ Front(n) = <<>> \/ HasItem(f, Front(n))
  BY DEF EnterDataset, Return, Goto, IInv, CallInv, RInv, WorkInv, Working,
         InterfaceAssumption, ExtractGroupPath
<1>2. /\ IsWrite(call) \/ IsStreamed(call)
      /\ call.op = "stream" => call.data.whole
  BY <1>1 DEF RInv, WorkInv, Working, IsLinking
<1>3. CASE HasItem(f, n)
  <2>1. disk' = disk
    BY <1>3 DEF EnterDataset
  <2>2. CASE pc' = "idle"
    BY <1>1, <2>1, <2>2, SameData, Kept, AtRest DEF RInv
  <2>3. CASE pc' # "idle"
    <3>1. pc' = "data" /\ call' = [call EXCEPT !.fresh = FALSE]
      BY <1>3, <2>3 DEF EnterDataset, Goto, Return
    <3>2. /\ call'.op = call.op /\ call'.vol = call.vol /\ call'.shape = call.shape
          /\ call'.width = call.width /\ call'.data = call.data /\ call'.filter = call.filter
          /\ call'.file = call.file /\ call'.fresh = FALSE
      <4>1. call = [op |-> call.op, file |-> call.file, name |-> call.name,
                    width |-> call.width, shape |-> call.shape, data |-> call.data,
                    vol |-> call.vol, filter |-> call.filter, fresh |-> call.fresh]
        BY <1>1 DEF IInv, CallInv, Working
      <4>2. call' = [op |-> call.op, file |-> call.file, name |-> call.name,
                     width |-> call.width, shape |-> call.shape, data |-> call.data,
                     vol |-> call.vol, filter |-> call.filter, fresh |-> FALSE]
        BY <3>1, <4>1
      <4> QED BY <4>2
    <3>3. IsWrite(call') \/ IsStreamed(call')
      BY <1>2, <3>2 DEF IsWrite, IsStreamed
    <3>4. WorkInv'
      <4>1. disk'[call'.file].hdf5 /\ call'.op # "link"
        BY <1>1, <2>1, <3>2
      <4>2. call'.op = "stream" => call'.data.whole
        BY <1>2, <3>2
      <4> QED BY <3>1, <3>2, <3>3, <4>1, <4>2
                 DEF WorkInv, Working, IsWrite, IsStreamed, IsStream
    <3> QED BY <1>1, <2>1, <3>4, SameData, Kept DEF RInv
  <2> QED BY <2>2, <2>3
<1>4. CASE ~HasItem(f, n)
  <2>1. AddItem(f, n, new) /\ call' = call /\ pc' = "data"
    BY <1>4 DEF EnterDataset, Goto
  <2>2. n \notin DOMAIN disk[f].items
    BY <1>1, <1>4, HasName DEF IInv
  <2>3. \A k \in 1 .. Len(n) - 1 : SubSeq(n, 1, k) \in DOMAIN disk[f].items
    <3> HIDE DEF f, n
    <3>1. Len(n) = 1 \/ HasItem(f, Front(n))
      BY <1>1, TopLevel
    <3> QED BY <1>1, <3>1, GroupsAbove
  <2>4. /\ Untouched /\ disk'[f].items[n] = new
        /\ disk'[f].exists /\ disk'[f].hdf5 = disk[f].hdf5
        /\ DOMAIN disk'[f].items = DOMAIN disk[f].items \cup {n}
        /\ \A g \in Files \ {f} : disk'[g] = disk[g]
    <3>1. IsItem(new) /\ IsFiniteSet(linked') /\ DiskInv
      BY <1>1 DEF IsItem, IInv, DiskInv, Dataset
    <3> HIDE DEF f, n, new
    <3> QED BY <1>1, <2>1, <2>2, <2>3, <3>1, Adding
  <2>5. GoodFilter(new)
    <3>0. new.kind = "data" /\ new.filter = call.filter /\ new.width = call.width
      BY DEF Dataset
    <3> HIDE DEF new
    <3>1. CASE IsWrite(call)
      <4>1. CASE call.filter = <<>>
        BY <3>0, <4>1 DEF GoodFilter
      <4>2. CASE call.filter # <<>>
        <5>1. PICK text \in Filters : call.filter = <<Stream(text, 0, call.shape, 2)>>
          BY <3>1, <4>2 DEF IsWrite
        <5>2. new.filter[1].width = 2 /\ new.filter[1].text \in Filters
          BY <3>0, <5>1 DEF Stream
        <5> QED BY <3>0, <3>1, <5>2 DEF GoodFilter, IsWrite
      <4> QED BY <4>1, <4>2
    <3>2. CASE IsStreamed(call)
      <4>1. new.filter[1] = call.data /\ call.width = call.data.width
        BY <1>2, <3>0, <3>2 DEF IsStreamed
      <4>2. call.data.text \in Learned
        BY <3>2 DEF IsStreamed, IsStream, Learned
      <4> QED BY <3>0, <4>1, <4>2 DEF GoodFilter
    <3> QED BY <1>2, <3>1, <3>2
  <2>6. DataInv'
    <3> HIDE DEF f, n, new
    <3> QED BY <1>1, <2>4, <2>5, AddedData
  <2>7. WorkInv'
    <3>1. /\ disk'[call'.file].hdf5 /\ call'.op # "link"
          /\ call'.name \in DOMAIN disk'[call'.file].items
          /\ disk'[call'.file].items[call'.name] = Dataset(call'.shape, call'.width, call'.filter)
      BY <1>1, <2>1, <2>4
    <3>2. IsWrite(call') \/ IsStreamed(call')
      BY <1>2, <2>1
    <3>3. call'.op = "stream" => call'.data.whole
      BY <1>2, <2>1
    <3> QED BY <2>1, <3>1, <3>2, <3>3 DEF WorkInv, Working, IsWrite, IsStreamed, IsStream, Dataset
  <2> QED BY <1>1, <2>4, <2>6, <2>7, Kept DEF RInv
<1> QED BY <1>3, <1>4

LEMMA StartLinkKeeps ==
    ASSUME InterfaceAssumption, IInv, RInv, StartLink
    PROVE  RInv'
<1>1. linked' = linked /\ kept' = kept /\ streams' = streams /\ pc = "idle"
  BY DEF StartLink
<1>2. PICK f \in Files, name \in Names, g \in Files, dest \in Names :
         \/ CanOpen(f) /\ OpenToWrite(f) /\ pc' = pc
         \/ disk' = disk /\ pc' = pc
         \/ /\ CanOpen(f) /\ OpenToWrite(f) /\ pc' = "group"
            /\ call' = [op |-> "link", file |-> f, name |-> name, to |-> g, dest |-> dest]
  BY DEF StartLink
<1>3. CASE disk' = disk /\ pc' = pc
  BY <1>1, <1>3, SameData, Kept, AtRest DEF RInv
<1>4. CASE CanOpen(f) /\ OpenToWrite(f)
  <2>1. Untouched /\ DataInv' /\ disk'[f].hdf5
    BY <1>1, <1>4, OpenedData
  <2>2. CASE pc' = pc
    BY <1>1, <2>1, <2>2, Kept, AtRest DEF RInv
  <2>3. CASE pc' # pc
    <3>1. /\ pc' = "group"
          /\ call' = [op |-> "link", file |-> f, name |-> name, to |-> g, dest |-> dest]
      BY <1>2, <2>3
    <3>2. IsLinking(call') /\ disk'[call'.file].hdf5 /\ call'.op = "link"
      BY <2>1, <3>1 DEF IsLinking
    <3>3. WorkInv'
      BY <3>1, <3>2 DEF WorkInv, Working, IsLinking
    <3> QED BY <1>1, <2>1, <3>3, Kept DEF RInv
  <2> QED BY <2>2, <2>3
<1> QED BY <1>2, <1>3, <1>4

LEMMA CreateExternalKeeps ==
    ASSUME InterfaceAssumption, IInv, RInv, CreateExternal
    PROVE  RInv'
<1> DEFINE f == call.file
           n == call.name
           new == Link(MakeRelative(f, call.to), call.dest)
<1>1. /\ pc = "dataset" /\ pc' = "idle" /\ f \in Files /\ disk[f].exists /\ disk[f].hdf5
      /\ kept' = kept /\ streams' = streams
      /\ n \in Names /\ n \in Seq(STRING) \ {<<>>}
      /\ Front(n) = <<>> \/ HasItem(f, Front(n))
  BY DEF CreateExternal, Return, IInv, CallInv, RInv, WorkInv, Working,
         InterfaceAssumption, ExtractGroupPath
<1>2. call.dest \in Names /\ call.to \in Files
  <2>1. call.op = "link"
    BY DEF CreateExternal
  <2> QED BY <1>1, <2>1 DEF RInv, WorkInv, Working, IsWrite, IsStreamed, IsLinking
<1>3. CASE HasItem(f, n)
  <2>1. disk' = disk /\ linked' = linked
    BY <1>3 DEF CreateExternal
  <2> QED BY <1>1, <2>1, SameData, Kept, AtRest DEF RInv
<1>4. CASE ~HasItem(f, n)
  <2>1. AddItem(f, n, new) /\ linked' = linked \cup {<<f, n, call.to, call.dest>>}
    BY <1>4 DEF CreateExternal
  <2>2. n \notin DOMAIN disk[f].items
    BY <1>1, <1>4, HasName DEF IInv
  <2>3. \A k \in 1 .. Len(n) - 1 : SubSeq(n, 1, k) \in DOMAIN disk[f].items
    <3> HIDE DEF f, n
    <3>1. Len(n) = 1 \/ HasItem(f, Front(n))
      BY <1>1, TopLevel
    <3> QED BY <1>1, <3>1, GroupsAbove
  <2>4. /\ Untouched /\ disk'[f].items[n] = new
        /\ disk'[f].exists /\ disk'[f].hdf5 = disk[f].hdf5
        /\ DOMAIN disk'[f].items = DOMAIN disk[f].items \cup {n}
        /\ \A g \in Files \ {f} : disk'[g] = disk[g]
    <3>1. IsItem(new)
      BY <1>2 DEF IsItem, Link
    <3>2. DiskInv /\ IsFiniteSet(linked')
      BY <2>1, FS_AddElement DEF IInv, DiskInv
    <3> HIDE DEF f, n, new
    <3> QED BY <1>1, <2>1, <2>2, <2>3, <3>1, <3>2, Adding
  <2>5. GoodFilter(disk'[f].items[n])
    BY <2>4 DEF GoodFilter, Link
  <2>6. DataInv'
    <3> HIDE DEF f, n, new
    <3> QED BY <1>1, <2>4, <2>5, AddedData
  <2>7. LinkInv'
    <3>1. ASSUME NEW l \in linked  PROVE IsLink(l)'
      <4>1. PICK g \in Files, h \in Files, m \in Names, d \in Names :
               /\ l = <<g, m, h, d>> /\ m \in DOMAIN disk[g].items
               /\ disk[g].items[m] = Link(MakeRelative(g, h), d)
        BY DEF RInv, LinkInv, IsLink
      <4>2. m \in DOMAIN disk'[g].items /\ disk'[g].items[m] = Link(MakeRelative(g, h), d)
        BY <2>4, <4>1 DEF Untouched
      <4> QED BY <4>1, <4>2 DEF IsLink
    <3>2. ASSUME NEW l, l = <<f, n, call.to, call.dest>>  PROVE IsLink(l)'
      BY <1>1, <1>2, <2>4, <3>2 DEF IsLink
    <3>3. \A l \in linked' : l \in linked \/ l = <<f, n, call.to, call.dest>>
      BY <2>1
    <3> QED BY <3>1, <3>2, <3>3 DEF LinkInv
  <2>8. StreamInv' /\ KeptInv'
    BY <1>1, <2>4 DEF RInv, StreamInv, KeptInv, Untouched, ReadsAs
  <2> QED BY <1>1, <2>6, <2>7, <2>8, AtRest DEF RInv
<1> QED BY <1>3, <1>4

-----------------------------------------------------------------------------
(* A write returned 0 *)

LEMMA RawHolds ==
    ASSUME NEW vol, NEW n
    PROVE  Raw(vol, n) # Failed /\ Raw(vol, n).vol = vol /\ "text" \notin DOMAIN Raw(vol, n)
  BY DEF Raw, Failed

\* What the filter makes of a volume, and reads from it.
LEMMA FilterHolds ==
    ASSUME InterfaceAssumption, TextsRebuild, NEW cd, NEW vol \in Volumes, NEW shp, NEW n,
           cd.width = 2, cd.text \in Filters \cup Learned,
           NEW s, s = FilterEncode(cd, Raw(vol, n)), s # Failed
    PROVE  FilterDecode(s) # Failed /\ FilterDecode(s).vol = vol
<1> DEFINE new == Printed(cd.text, vol)
<1>1. "text" \notin DOMAIN Raw(vol, n) /\ Raw(vol, n).vol = vol
  BY DEF Raw
<1>2. vol # Garbage
  BY DEF InterfaceAssumption, Garbage
<1>3. TypesOf(cd.width) = Dypeline
  BY DEF TypesOf
<1>4. /\ Built(cd.text)
      /\ s = Stream(new, vol, cd.shape, 2)
  BY <1>1, <1>2, <1>3 DEF FilterEncode, Found, Built, Printed
<1>5. /\ CanBeBuiltFrom(Dypeline, new)
      /\ Restores(FromString(Dypeline, new), Stream(new, vol, ShapeOf[vol], 2))
  BY <1>4 DEF TextsRebuild, Rebuilds
<1> HIDE DEF new
<1>6. s.text = new /\ s.vol = vol /\ s.width = 2
  BY <1>4 DEF Stream
<1>7. Restores(FromString(Dypeline, new), s)
  BY <1>5, <1>6 DEF Restores, Stream
<1>8. FilterDecode(s) = Raw(vol, s.shape)
  BY <1>5, <1>6, <1>7 DEF FilterDecode, TypesOf
<1>9. FilterDecode(s) # Failed /\ FilterDecode(s).vol = vol
  BY <1>8 DEF Raw, Failed
<1> QED BY <1>9

\* A stream of items of 16 bits is found by the filter, and read back.
LEMMA StreamHolds ==
    ASSUME InterfaceAssumption, TextsRebuild, NEW s, IsStream(s)
    PROVE  /\ FilterEncode(s, s) = s /\ "text" \in DOMAIN s /\ s.vol \in Volumes
           /\ s.width = 2 => FilterDecode(s) # Failed /\ FilterDecode(s).vol = s.vol
<1>1. PICK text \in Texts, vol \in Volumes :
         /\ Built(text)
         /\ s = [text |-> Printed(text, vol), vol |-> vol, shape |-> ShapeOf[vol],
                 width |-> s.width, whole |-> s.whole]
  BY DEF IsStream
<1>2. s.text = Printed(text, vol) /\ s.vol = vol /\ "text" \in DOMAIN s
  BY <1>1
<1>3. HeaderSize(s) <= Window * HeaderSize(s)
  <2>1. PICK h : h = Len(s.text) /\ h \in Nat
    <3>1. Len(s.text) \in Nat
      OBVIOUS
    <3> QED BY <3>1
  <2>2. PICK n \in Nat : n = Fixed + h
    BY <2>1 DEF InterfaceAssumption
  <2>3. PICK k \in Nat : Window = k + 1
    <3>1. Window - 1 \in Nat /\ Window = (Window - 1) + 1
      BY DEF InterfaceAssumption
    <3> QED BY <3>1
  <2>4. (k + 1) * n = k * n + n /\ k * n \in Nat
    BY ONLY n \in Nat, k \in Nat
  <2> QED BY ONLY <2>1, <2>2, <2>3, <2>4 DEF HeaderSize
<1>4. FilterEncode(s, s) = s
  BY <1>2, <1>3 DEF FilterEncode, Found
<1>5. ASSUME s.width = 2  PROVE FilterDecode(s) # Failed /\ FilterDecode(s).vol = s.vol
  <2> DEFINE new == Printed(text, vol)
  <2>1. /\ CanBeBuiltFrom(Dypeline, new)
        /\ Restores(FromString(Dypeline, new), Stream(new, vol, ShapeOf[vol], 2))
    BY <1>1 DEF TextsRebuild, Rebuilds
  <2>2. s.text = new /\ s.vol = vol
    BY <1>2
  <2> HIDE DEF new
  <2>3. Restores(FromString(Dypeline, new), s)
    BY <2>1, <2>2 DEF Restores, Stream
  <2>4. FilterDecode(s) = Raw(vol, s.shape)
    BY <1>5, <2>1, <2>2, <2>3 DEF FilterDecode, TypesOf
  <2>5. PICK n : n = s.shape
    OBVIOUS
  <2>6. FilterDecode(s) = Raw(vol, n)
    BY <2>4, <2>5
  <2>7. Raw(vol, n) # Failed /\ Raw(vol, n).vol = vol
    BY RawHolds
  <2> QED BY <2>2, <2>6, <2>7
<1> QED BY <1>2, <1>4, <1>5

\* What a write leaves behind that returned 0 and that a caller counts on.
LEMMA WrittenReads ==
    ASSUME InterfaceAssumption, TextsRebuild, NEW c, IsWrite(c), NEW x, NEW chunk, NEW holding,
           x.kind = "data", x.shape = c.shape, x.width = 2, GoodFilter(x),
           chunk = IF x.filter = <<>> THEN c.data ELSE FilterEncode(x.filter[1], c.data),
           chunk # Failed,
           holding.kind = x.kind, holding.shape = x.shape, holding.width = x.width,
           holding.filter = x.filter, holding.holds = <<chunk>>
    PROVE  ReadsAs(holding, c.vol)
<1>1. /\ c.vol \in Volumes /\ c.shape = ShapeOf[c.vol] /\ c.data = Raw(c.vol, c.shape)
  BY DEF IsWrite
<1>2. holding.holds # <<>> /\ holding.holds[1] = chunk
  OBVIOUS
<1>3. CASE x.filter = <<>>
  <2>1. chunk = Raw(c.vol, c.shape)
    BY <1>1, <1>3
  <2>2. ReadDataset(holding) = chunk
    BY <1>2, <1>3, <2>1, RawHolds DEF ReadDataset
  <2> QED BY <1>1, <2>1, <2>2, RawHolds DEF ReadsAs
<1>4. CASE x.filter # <<>>
  <2>1. x.filter[1].width = 2 /\ x.filter[1].text \in Filters \cup Learned
    BY <1>4 DEF GoodFilter
  <2>2. PICK cd : cd = x.filter[1]
    OBVIOUS
  <2>3. chunk = FilterEncode(cd, Raw(c.vol, c.shape))
    BY <1>1, <1>4, <2>2
  <2>4. FilterDecode(chunk) # Failed /\ FilterDecode(chunk).vol = c.vol
    <3>1. PICK vol \in Volumes : vol = c.vol
      BY <1>1
    <3>2. PICK n : n = c.shape
      OBVIOUS
    <3>3. cd.width = 2 /\ cd.text \in Filters \cup Learned
      BY <2>1, <2>2
    <3>4. chunk = FilterEncode(cd, Raw(vol, n)) /\ chunk # Failed
      BY <2>3, <3>1, <3>2
    <3>5. FilterDecode(chunk) # Failed /\ FilterDecode(chunk).vol = vol
      BY ONLY InterfaceAssumption, TextsRebuild, <3>3, <3>4, vol \in Volumes, FilterHolds
    <3> QED BY <3>1, <3>5
  <2>5. ReadDataset(holding) = FilterDecode(chunk)
    BY <1>2, <1>4 DEF ReadDataset
  <2> QED BY <1>1, <2>4, <2>5 DEF ReadsAs
<1> QED BY <1>3, <1>4

LEMMA StreamedReads ==
    ASSUME InterfaceAssumption, TextsRebuild, NEW c, IsStreamed(c), c.data.whole,
           NEW x, NEW chunk, NEW holding,
           x = Dataset(c.shape, c.width, c.filter),
           chunk = IF x.filter = <<>> THEN c.data ELSE FilterEncode(x.filter[1], c.data),
           holding = [x EXCEPT !.holds = <<chunk>>]
    PROVE  ReadsAs(holding, c.vol)
<1>1. PICK s : s = c.data /\ IsStream(s)
  BY DEF IsStreamed
<1>a. c.filter = <<s>> /\ c.shape = s.shape /\ c.width = s.width /\ c.vol = s.vol
  BY <1>1 DEF IsStreamed
<1>b. x.filter = c.filter /\ x.shape = c.shape /\ x.width = c.width /\ x.kind = "data"
  BY DEF Dataset
<1>2. /\ x.filter = <<s>> /\ x.filter # <<>> /\ x.filter[1] = s
      /\ x.shape = s.shape /\ x.width = s.width /\ x.kind = "data" /\ c.vol = s.vol
  <2>1. <<s>> # <<>> /\ <<s>>[1] = s
    OBVIOUS
  <2> QED BY ONLY <1>a, <1>b, <2>1
<1>3. /\ FilterEncode(s, s) = s /\ s.vol \in Volumes
      /\ s.width = 2 => FilterDecode(s) # Failed /\ FilterDecode(s).vol = s.vol
  BY <1>1, StreamHolds
<1>4. chunk = s
  BY <1>1, <1>2, <1>3
<1>5. /\ holding.filter = x.filter /\ holding.shape = x.shape /\ holding.width = x.width
      /\ holding.kind = x.kind /\ holding.holds = <<s>>
  BY <1>4 DEF Dataset
<1>6. ReadDataset(holding) = FilterDecode(s)
  BY <1>2, <1>5 DEF ReadDataset
<1>7. s.shape = ShapeOf[s.vol]
  BY <1>1 DEF IsStream
<1> QED BY <1>2, <1>3, <1>5, <1>6, <1>7 DEF ReadsAs

LEMMA WriteDataKeeps ==
    ASSUME InterfaceAssumption, TextsRebuild, IInv, RInv, WriteData
    PROVE  RInv'
<1>1. /\ pc = "data" /\ linked' = linked /\ pc' = "idle" /\ streams' = streams
      /\ call.file \in Files /\ call.name \in Names
  BY DEF WriteData, Return, IInv, CallInv, Working
<1>2. /\ IsWrite(call) \/ (IsStreamed(call) /\ call.data.whole)
      /\ call.fresh => /\ call.name \in DOMAIN disk[call.file].items
                       /\ disk[call.file].items[call.name]
                            = Dataset(call.shape, call.width, call.filter)
  BY <1>1 DEF RInv, WorkInv, Working, IsLinking, IsWrite, IsStreamed
<1>3. PICK g \in Files, m \in Names :
         Target(call.file, call.name) = <<g, m>> /\ IsDataset(<<g, m>>)
  <2>1. Target(call.file, call.name) # Nowhere
    <3>1. CASE IsDataset(<<call.file, call.name>>)
      <4>1. Target(call.file, call.name) = <<call.file, call.name>>
        BY <1>1, <3>1, TargetSelf DEF IInv
      <4> QED BY <4>1 DEF Nowhere
    <3> QED BY <1>1, <3>1 DEF IInv, CallInv
  <2> QED BY <1>1, <2>1, TargetPlace DEF IInv
<1>4. call.fresh => g = call.file /\ m = call.name
  <2> SUFFICES ASSUME call.fresh  PROVE g = call.file /\ m = call.name
    OBVIOUS
  <2>1. HasItem(call.file, call.name)
    BY <1>1, <1>2, HasName DEF IInv
  <2>2. IsDataset(<<call.file, call.name>>)
    BY <1>2, <2>1 DEF IsDataset, At, ItemsOf, Nowhere, Dataset
  <2>3. Target(call.file, call.name) = <<call.file, call.name>>
    BY <1>1, <2>2, TargetSelf DEF IInv
  <2> QED BY <1>3, <2>3
<1> DEFINE x == disk[g].items[m]
           chunk == IF x.filter = <<>> THEN call.data ELSE FilterEncode(x.filter[1], call.data)
           holding == [x EXCEPT !.holds = <<chunk>>]
<1>5. m \in DOMAIN disk[g].items /\ x.kind = "data" /\ IsItem(x) /\ GoodFilter(x)
  BY <1>3 DEF IInv, DiskInv, Filed, IsDataset, HasItem, ItemsOf, At, RInv, DataInv
<1>6. CASE chunk = Failed
  <2>1. disk' = disk /\ kept' = kept
    BY <1>3, <1>6 DEF WriteData, At, ItemsOf
  <2> HIDE DEF x, chunk
  <2> QED BY <1>1, <2>1, SameData, Kept, AtRest DEF RInv
<1>7. CASE chunk # Failed
  <2>1. /\ disk' = [disk EXCEPT ![g].items[m].holds = <<chunk>>]
        /\ kept' = [kept EXCEPT ![g][m] = Counted(<<g, m>>)]
    BY <1>3, <1>7 DEF WriteData, At, ItemsOf
  <2>2. /\ \A f \in Files : DOMAIN disk'[f].items = DOMAIN disk[f].items
        /\ \A f \in Files : \A n \in DOMAIN disk[f].items :
             <<f, n>> # <<g, m>> => disk'[f].items[n] = disk[f].items[n]
        /\ disk'[g].items[m] = holding
        /\ \A f \in Files : disk'[f].exists = disk[f].exists /\ disk'[f].hdf5 = disk[f].hdf5
    <3>1. PICK h : h = <<chunk>>
      OBVIOUS
    <3>2. disk' = [disk EXCEPT ![g].items[m].holds = h]
      BY <2>1, <3>1
    <3>3. DiskInv /\ linked' = linked
      BY <1>1 DEF IInv
    <3>4. /\ \A f \in Files : DOMAIN disk'[f].items = DOMAIN disk[f].items
          /\ \A f \in Files : \A n \in DOMAIN disk[f].items :
               <<f, n>> # <<g, m>> => disk'[f].items[n] = disk[f].items[n]
          /\ disk'[g].items[m] = [disk[g].items[m] EXCEPT !.holds = h]
          /\ \A f \in Files : disk'[f].exists = disk[f].exists /\ disk'[f].hdf5 = disk[f].hdf5
      BY ONLY <1>3, <3>2, <3>3, g \in Files, m \in Names, Writing
    <3> QED BY <3>1, <3>4
  <2> HIDE DEF chunk
  <2>3. /\ holding.kind = x.kind /\ holding.shape = x.shape /\ holding.width = x.width
        /\ holding.filter = x.filter /\ holding.holds = <<chunk>>
    <3>1. x = [kind |-> "data", shape |-> x.shape, width |-> x.width,
               filter |-> x.filter, holds |-> x.holds]
      BY <1>5 DEF IsItem, Group
    <3>2. holding = [kind |-> "data", shape |-> x.shape, width |-> x.width,
                     filter |-> x.filter, holds |-> <<chunk>>]
      BY <3>1
    <3> HIDE DEF x, holding
    <3> QED BY <1>5, <3>2
  <2>4. DataInv'
    <3>1. ASSUME NEW f \in Files, NEW n \in DOMAIN disk'[f].items
          PROVE  disk'[f].exists /\ disk'[f].hdf5 /\ GoodFilter(disk'[f].items[n])
      <4>1. disk'[f].exists /\ disk'[f].hdf5 /\ n \in DOMAIN disk[f].items
        BY <2>2 DEF RInv, DataInv
      <4>2. CASE <<f, n>> # <<g, m>>
        BY <2>2, <4>1, <4>2 DEF RInv, DataInv
      <4>3. CASE <<f, n>> = <<g, m>>
        <5>1. disk'[f].items[n] = holding
          BY <2>2, <4>3
        <5>2. GoodFilter(holding)
          <6> HIDE DEF x, holding
          <6> QED BY <1>5, <2>3 DEF GoodFilter
        <5> QED BY <4>1, <5>1, <5>2
      <4> QED BY <4>2, <4>3
    <3> QED BY <3>1 DEF DataInv, GoodFilter
  <2>5. LinkInv'
    <3>1. ASSUME NEW l \in linked  PROVE IsLink(l)'
      <4>1. PICK f \in Files, h \in Files, n \in Names, d \in Names :
               /\ l = <<f, n, h, d>> /\ n \in DOMAIN disk[f].items
               /\ disk[f].items[n] = Link(MakeRelative(f, h), d)
        BY DEF RInv, LinkInv, IsLink
      <4>2. <<f, n>> # <<g, m>>
        BY <1>5, <4>1 DEF Link
      <4>3. n \in DOMAIN disk'[f].items /\ disk'[f].items[n] = Link(MakeRelative(f, h), d)
        BY <2>2, <4>1, <4>2
      <4> QED BY <4>1, <4>3 DEF IsLink
    <3> QED BY <1>1, <3>1 DEF LinkInv
  <2>6. Counted(<<g, m>>) # Unknown =>
           Counted(<<g, m>>) \in Volumes /\ ReadsAs(holding, Counted(<<g, m>>))
    <3> SUFFICES ASSUME Counted(<<g, m>>) # Unknown
                 PROVE  Counted(<<g, m>>) \in Volumes /\ ReadsAs(holding, Counted(<<g, m>>))
      OBVIOUS
    <3>1. /\ Counted(<<g, m>>) = call.vol
          /\ call.fresh \/ (call.op = "write" /\ x.shape = call.shape /\ x.width = 2)
      BY DEF Counted, At, ItemsOf
    <3>2. call.fresh => x = Dataset(call.shape, call.width, call.filter)
      BY <1>2, <1>4
    <3>3. chunk = IF x.filter = <<>> THEN call.data ELSE FilterEncode(x.filter[1], call.data)
      BY DEF chunk
    <3>4. CASE IsWrite(call)
      <4>1. x.shape = call.shape /\ x.width = 2
        BY <3>1, <3>2, <3>4 DEF Dataset, IsWrite
      <4>2. ReadsAs(holding, call.vol)
        <5> HIDE DEF x, holding
        <5> QED BY <1>5, <1>7, <2>3, <3>3, <3>4, <4>1, WrittenReads
      <4> QED BY <3>1, <3>4, <4>2 DEF IsWrite
    <3>5. CASE IsStreamed(call) /\ call.data.whole /\ ~IsWrite(call)
      <4>1. call.fresh
        BY <3>1, <3>5 DEF IsStreamed
      <4>2. ReadsAs(holding, call.vol)
        <5>1. PICK y : y = x
          OBVIOUS
        <5>2. PICK z : z = holding /\ z = [y EXCEPT !.holds = <<chunk>>]
          BY <5>1
        <5>3. PICK c : c = call
          OBVIOUS
        <5>4. /\ y = Dataset(c.shape, c.width, c.filter)
              /\ chunk = IF y.filter = <<>> THEN c.data ELSE FilterEncode(y.filter[1], c.data)
              /\ IsStreamed(c) /\ c.data.whole
          BY <3>2, <3>3, <3>5, <4>1, <5>1, <5>3
        <5>5. PICK h : h = chunk
          OBVIOUS
        <5> HIDE DEF x, holding
        <5>6. ReadsAs(z, c.vol)
          <6>1. /\ z = [y EXCEPT !.holds = <<h>>]
                /\ h = IF y.filter = <<>> THEN c.data ELSE FilterEncode(y.filter[1], c.data)
            BY <5>2, <5>4, <5>5
          <6> QED BY ONLY InterfaceAssumption, TextsRebuild, <5>4, <6>1, StreamedReads
        <5> QED BY <5>2, <5>3, <5>6
      <4> QED BY <3>1, <4>2 DEF ReadsAs
    <3> QED BY <1>2, <3>4, <3>5
  <2>7. KeptInv'
    <3>1. /\ DOMAIN kept' = Files /\ \A f \in Files : DOMAIN kept'[f] = Names
          /\ kept'[g][m] = Counted(<<g, m>>)
          /\ \A f \in Files, n \in Names : <<f, n>> # <<g, m>> => kept'[f][n] = kept[f][n]
      BY <2>1 DEF RInv, KeptInv
    <3>2. ASSUME NEW f \in Files, NEW n \in Names, kept'[f][n] # Unknown
          PROVE  n \in DOMAIN disk'[f].items /\ ReadsAs(disk'[f].items[n], kept'[f][n])
      <4>1. CASE <<f, n>> # <<g, m>>
        <5>1. kept'[f][n] = kept[f][n]
          BY <3>1, <4>1
        <5>2. n \in DOMAIN disk[f].items /\ ReadsAs(disk[f].items[n], kept[f][n])
          BY <3>2, <5>1 DEF RInv, KeptInv
        <5> QED BY <2>2, <4>1, <5>1, <5>2
      <4>2. CASE <<f, n>> = <<g, m>>
        <5>1. f = g /\ n = m
          BY <4>2
        <5> HIDE DEF x, holding
        <5> QED BY <1>5, <2>2, <2>6, <3>1, <3>2, <5>1
      <4> QED BY <4>1, <4>2
    <3> QED BY <3>1, <3>2 DEF KeptInv, ReadsAs
  <2>8. StreamInv'
    BY <1>1 DEF RInv, StreamInv
  <2> QED BY <1>1, <2>4, <2>5, <2>7, <2>8, AtRest DEF RInv
<1> QED BY <1>6, <1>7

LEMMA FilterFailsKeeps ==
    ASSUME RInv, FilterFails
    PROVE  RInv'
<1>1. /\ disk' = disk /\ linked' = linked /\ kept' = kept /\ streams' = streams
      /\ pc' = "idle"
  BY DEF FilterFails, Return
<1> QED BY <1>1, SameData, Kept, AtRest DEF RInv

LEMMA ReadStep ==
    ASSUME InterfaceAssumption, TextsRebuild, IInv, RInv, [Next]_vars
    PROVE  RInv'
<1>1. CASE UNCHANGED vars
  <2>1. /\ disk' = disk /\ linked' = linked /\ call' = call /\ pc' = pc
        /\ kept' = kept /\ streams' = streams
    BY <1>1 DEF vars
  <2>2. WorkInv'
    BY <2>1 DEF RInv, WorkInv, Working, IsWrite, IsStreamed, IsStream, IsLinking
  <2> QED BY <2>1, <2>2, SameData, Kept DEF RInv
<1> QED BY <1>1, EncodeKeeps, StartWriteKeeps, OpenKeeps, EnterGroupKeeps, EnterDatasetKeeps,
           WriteDataKeeps, FilterFailsKeeps, StartLinkKeeps, CreateExternalKeeps DEF Next

LEMMA ReadInit == ASSUME Init  PROVE RInv
<1>1. StreamInv /\ LinkInv /\ WorkInv
  BY DEF Init, StreamInv, LinkInv, WorkInv, Working
<1>2. DataInv
  BY DEF Init, DataInv, NoFile
<1>3. KeptInv
  BY DEF Init, KeptInv
<1> QED BY <1>1, <1>2, <1>3 DEF RInv

-----------------------------------------------------------------------------
(* What a read finds *)

\* The walk that Expected takes.
LEMMA ExpectedWalk ==
    ASSUME IInv, RInv, NEW f \in Files, NEW n \in Names
    PROVE  \E N \in Nat : \E v \in [0 .. N -> Files \X Names] :
              /\ N = Cardinality(linked)
              /\ v[0] = <<f, n>>
              /\ \A k \in 1 .. N : v[k] = Along(v[k - 1])
              /\ Expected(f, n) = kept[v[N][1]][v[N][2]]
<1> DEFINE N == Cardinality(linked)
           P == Files \X Names
           st == [p \in P |-> Along(p)]
           Walks(w) == w = [k \in 0 .. N |-> IF k = 0 THEN <<f, n>> ELSE Along(w[k - 1])]
           place == CHOOSE w : Walks(w)
<1>1. N \in Nat
  BY FS_CardinalityType DEF IInv, DiskInv
<1>2. st \in [P -> P] /\ <<f, n>> \in P
  <2>1. ASSUME NEW p \in P  PROVE Along(p) \in P
    <3>1. CASE {l \in linked : <<l[1], l[2]>> = p} = {}
      BY <3>1 DEF Along
    <3>2. CASE {l \in linked : <<l[1], l[2]>> = p} # {}
      <4>1. PICK l \in linked : Along(p) = <<l[3], l[4]>>
        BY <3>2 DEF Along
      <4>2. l[3] \in Files /\ l[4] \in Names
        BY DEF RInv, LinkInv, IsLink
      <4> QED BY <4>1, <4>2
    <3> QED BY <3>1, <3>2
  <2> QED BY <2>1
<1>3. PICK v \in [0 .. N -> P] : v[0] = <<f, n>> /\ \A k \in 1 .. N : v[k] = st[v[k - 1]]
  <2> HIDE DEF N, st, P
  <2>1. \E w : IsWalk(w, P, st, <<f, n>>, N)
    BY <1>1, <1>2, WalkExists
  <2> QED BY <2>1 DEF IsWalk
<1>4. Walks(v)
  <2>1. ASSUME NEW k \in 1 .. N  PROVE v[k] = Along(v[k - 1])
    <3>1. k - 1 \in 0 .. N
      BY <1>1
    <3> QED BY <1>3, <3>1
  <2>2. \A k \in 0 .. N : v[k] = IF k = 0 THEN <<f, n>> ELSE Along(v[k - 1])
    BY <1>1, <1>3, <2>1
  <2> QED BY <1>3, <2>2
<1>5. Walks(place)
  BY <1>4
<1>6. Expected(f, n) = kept[place[N][1]][place[N][2]]
  BY DEF Expected
<1> HIDE DEF N, place
<1>7. /\ place[0] = <<f, n>>
      /\ \A k \in 1 .. N : place[k] = Along(place[k - 1])
  <2>1. \A k \in 0 .. N : place[k] = IF k = 0 THEN <<f, n>> ELSE Along(place[k - 1])
    BY <1>5
  <2> QED BY <1>1, <2>1
<1>8. place \in [0 .. N -> P]
  <2> DEFINE S == {k \in 0 .. N : place[k] # v[k]}
  <2>1. S = {}
    <3> SUFFICES ASSUME S # {}  PROVE FALSE
      OBVIOUS
    <3>a. S \subseteq Nat
      BY <1>1
    <3>1. PICK k \in S : \A m \in S : k <= m
      <4> HIDE DEF S
      <4> QED BY <3>a, NatMin
    <3>2. k # 0 /\ k \in 1 .. N
      <4>1. k \in 0 .. N /\ place[k] # v[k] /\ place[0] = v[0]
        BY <1>3, <1>7
      <4> QED BY ONLY <1>1, <4>1
    <3>3. k - 1 \notin S /\ k - 1 \in 0 .. N
      BY <1>1, <3>1, <3>2
    <3> QED BY <1>4, <1>7, <3>2, <3>3
  <2>2. \A k \in 0 .. N : place[k] \in P
    BY <1>3, <2>1
  <2> QED BY <1>5, <2>2
<1>9. N = Cardinality(linked)
  BY DEF N
<1> QED BY <1>1, <1>6, <1>7, <1>8, <1>9

\* One step along a link is one hop of the library.
LEMMA AlongHops ==
    ASSUME InterfaceAssumption, IInv, RInv, NEW p \in Files \X Names
    PROVE  \/ Along(p) = p
           \/ Hop(p) = Along(p)
<1>1. CASE {l \in linked : <<l[1], l[2]>> = p} = {}
  BY <1>1 DEF Along
<1>2. CASE {l \in linked : <<l[1], l[2]>> = p} # {}
  <2>1. PICK l \in linked : Along(p) = <<l[3], l[4]>> /\ <<l[1], l[2]>> = p
    BY <1>2 DEF Along
  <2>2. PICK f \in Files, g \in Files, n \in Names, m \in Names :
           /\ l = <<f, n, g, m>> /\ n \in DOMAIN disk[f].items
           /\ disk[f].items[n] = Link(MakeRelative(f, g), m)
    BY DEF RInv, LinkInv, IsLink
  <2>3. p = <<f, n>> /\ Along(p) = <<g, m>>
    BY <2>1, <2>2
  <2>4. HasItem(f, n)
    BY <2>2, HasName DEF IInv
  <2>5. /\ At(p).kind = "link" /\ At(p).rel = MakeRelative(f, g) /\ At(p).name = m
    BY <2>2, <2>3 DEF At, ItemsOf, Link
  <2>6. Follow(f, At(p).rel) = g
    BY <2>5, RelativeLeads
  <2>7. ~IsDataset(p) /\ p # Nowhere
    BY <2>3, <2>5 DEF IsDataset, Nowhere
  <2>8. Hop(p) = <<g, m>>
    BY <2>3, <2>4, <2>5, <2>6, <2>7 DEF Hop
  <2> QED BY <2>3, <2>8
<1> QED BY <1>1, <1>2

\* A name leads the library to the dataset that it should lead to.
LEMMA LeadsThere ==
    ASSUME InterfaceAssumption, IInv, RInv, NEW f \in Files, NEW n \in Names,
           Expected(f, n) # Unknown
    PROVE  \E g \in Files, m \in Names :
              /\ Target(f, n) = <<g, m>> /\ kept[g][m] = Expected(f, n)
              /\ m \in DOMAIN disk[g].items /\ disk[g].items[m].kind = "data"
              /\ n \in DOMAIN disk[f].items
<1>1. PICK N \in Nat : \E v \in [0 .. N -> Files \X Names] :
         /\ N = Cardinality(linked)
         /\ v[0] = <<f, n>>
         /\ \A k \in 1 .. N : v[k] = Along(v[k - 1])
         /\ Expected(f, n) = kept[v[N][1]][v[N][2]]
  BY ExpectedWalk
<1>2. PICK v \in [0 .. N -> Files \X Names] :
         /\ N = Cardinality(linked)
         /\ v[0] = <<f, n>>
         /\ \A k \in 1 .. N : v[k] = Along(v[k - 1])
         /\ Expected(f, n) = kept[v[N][1]][v[N][2]]
  BY <1>1
<1>3. PICK M \in Nat : \E w \in [0 .. M -> Places] :
         /\ M = Cardinality(linked)
         /\ w[0] = <<f, n>>
         /\ \A k \in 1 .. M : w[k] = Hop(w[k - 1])
         /\ Target(f, n) = IF IsDataset(w[M]) THEN w[M] ELSE Nowhere
  BY TargetWalk DEF IInv
<1>4. PICK w \in [0 .. N -> Places] :
         /\ w[0] = <<f, n>>
         /\ \A k \in 1 .. N : w[k] = Hop(w[k - 1])
         /\ Target(f, n) = IF IsDataset(w[N]) THEN w[N] ELSE Nowhere
  BY <1>2, <1>3
<1>5. PICK g \in Files, m \in Names : v[N] = <<g, m>>
  <2>1. v[N] \in Files \X Names
    BY <1>2
  <2> QED BY <2>1
<1>6. /\ kept[g][m] = Expected(f, n) /\ m \in DOMAIN disk[g].items
      /\ disk[g].items[m].kind = "data"
  BY <1>2, <1>5 DEF RInv, KeptInv, ReadsAs
<1>7. IsDataset(<<g, m>>) /\ Hop(<<g, m>>) = <<g, m>>
  <2>1. HasItem(g, m)
    BY <1>6, HasName DEF IInv
  <2> QED BY <1>6, <2>1 DEF IsDataset, Nowhere, At, ItemsOf, Hop
<1>8. ASSUME NEW k \in 0 .. N, Along(v[k]) = v[k]
      PROVE  v[N] = v[k]
  <2> DEFINE S == {j \in k .. N : v[j] # v[k]}
  <2>1. S = {}
    <3> SUFFICES ASSUME S # {}  PROVE FALSE
      OBVIOUS
    <3>1. S \subseteq Nat
      OBVIOUS
    <3>2. PICK j \in S : \A i \in S : j <= i
      <4> HIDE DEF S
      <4> QED BY <3>1, NatMin
    <3>3. j \in k + 1 .. N
      BY <3>2
    <3>4. j - 1 \in k .. N /\ j - 1 \notin S /\ j \in 1 .. N
      BY <3>2, <3>3
    <3> QED BY <1>2, <1>8, <3>2, <3>4
  <2>2. N \in k .. N
    OBVIOUS
  <2> QED BY <2>1, <2>2
<1>9. w[N] = v[N]
  <2> DEFINE S == {k \in 0 .. N : w[k] # v[k]}
  <2>1. S = {}
    <3> SUFFICES ASSUME S # {}  PROVE FALSE
      OBVIOUS
    <3>1. S \subseteq Nat
      OBVIOUS
    <3>2. PICK k \in S : \A i \in S : k <= i
      <4> HIDE DEF S
      <4> QED BY <3>1, NatMin
    <3>3. k \in 1 .. N
      <4>1. k \in 0 .. N /\ w[k] # v[k] /\ w[0] = v[0]
        BY <1>2, <1>4
      <4> QED BY ONLY <4>1, N \in Nat
    <3>4. k - 1 \in 0 .. N /\ k - 1 \notin S
      BY <3>2, <3>3
    <3>5. w[k - 1] = v[k - 1] /\ v[k - 1] \in Files \X Names
      BY <1>2, <3>4
    <3>6. Hop(v[k - 1]) = Along(v[k - 1])
      <4>1. CASE Along(v[k - 1]) = v[k - 1]
        <5>1. v[k - 1] = <<g, m>>
          BY <1>5, <1>8, <3>4, <4>1
        <5> QED BY <1>7, <4>1, <5>1
      <4> QED BY <3>5, <4>1, AlongHops
    <3> QED BY <1>2, <1>4, <3>2, <3>3, <3>5, <3>6
  <2>2. N \in 0 .. N
    OBVIOUS
  <2> HIDE DEF S
  <2>3. N \notin S
    BY <2>1
  <2> QED BY <2>2, <2>3 DEF S
<1>10. Target(f, n) = <<g, m>>
  BY <1>4, <1>5, <1>7, <1>9
<1>11. n \in DOMAIN disk[f].items
  <2>1. CASE Along(<<f, n>>) = <<f, n>>
    <3>1. v[N] = v[0]
      <4>1. 0 \in 0 .. N /\ Along(v[0]) = v[0]
        BY <1>2, <2>1
      <4> QED BY <1>8, <4>1
    <3> QED BY <1>2, <1>5, <1>6, <3>1
  <2>2. CASE Along(<<f, n>>) # <<f, n>>
    <3>1. {l \in linked : <<l[1], l[2]>> = <<f, n>>} # {}
      BY <2>2 DEF Along
    <3>2. PICK l \in linked : l[1] = f /\ l[2] = n
      BY <3>1
    <3> QED BY <3>2 DEF RInv, LinkInv, IsLink
  <2> QED BY <2>1, <2>2
<1> QED BY <1>6, <1>10, <1>11

LEMMA ReadsBack ==
    ASSUME InterfaceAssumption, IInv, RInv
    PROVE  ReadBack
<1> SUFFICES ASSUME NEW f \in Files, NEW n \in Names, Expected(f, n) # Unknown
             PROVE  LET vol == Expected(f, n)
                        t   == DatasetOf(f, n)
                    IN  /\ SQY_h5_query_shape(t) = <<ShapeOf[vol]>>
                        /\ SQY_h5_query_ndims(t) = 1 /\ SQY_h5_query_dtype(t) = 1
                        /\ \/ SQY_h5_read_UI16(t) = [value |-> 0, vol |-> vol]
                           \/ SQY_h5_query_sizeof(t) # 2
  BY DEF ReadBack
<1>1. PICK g \in Files, m \in Names :
         /\ Target(f, n) = <<g, m>> /\ kept[g][m] = Expected(f, n)
         /\ m \in DOMAIN disk[g].items /\ disk[g].items[m].kind = "data"
         /\ n \in DOMAIN disk[f].items
  BY LeadsThere
<1>2. PICK vol : vol = Expected(f, n)
  OBVIOUS
<1>3. PICK t : t = <<g, m>> /\ t = DatasetOf(f, n)
  BY <1>1 DEF DatasetOf, Ready, RInv, DataInv
<1>4. PICK x : x = disk[g].items[m] /\ x = At(t) /\ ReadsAs(x, vol)
  BY <1>1, <1>2, <1>3 DEF At, ItemsOf, RInv, KeptInv
<1>5. t # Nowhere
  BY <1>3 DEF Nowhere
<1>6. shape(t) = <<ShapeOf[vol]>>
  BY <1>4, <1>5 DEF shape, ReadsAs
<1>7. SQY_h5_query_ndims(t) = 1
  <2>1. PICK k : k = ShapeOf[vol]
    OBVIOUS
  <2>2. Len(<<k>>) = 1
    OBVIOUS
  <2> QED BY <1>6, <2>1, <2>2 DEF SQY_h5_query_ndims
<1>8. SQY_h5_query_dtype(t) = 1
  BY <1>5 DEF SQY_h5_query_dtype, is_integer, is_signed
<1>9. ASSUME SQY_h5_query_sizeof(t) = 2
      PROVE  SQY_h5_read_UI16(t) = [value |-> 0, vol |-> vol]
  <2>1. x.width = 2
    BY <1>4, <1>5, <1>9 DEF SQY_h5_query_sizeof, type_size_in_byte
  <2>2. ReadDataset(x) # Failed /\ ReadDataset(x).vol = vol
    BY <1>4, <2>1 DEF ReadsAs
  <2> QED BY <1>4, <1>5, <2>1, <2>2 DEF SQY_h5_read_UI16, ReadNdDataset, TypeMatches
<1> QED BY <1>2, <1>3, <1>6, <1>7, <1>8, <1>9 DEF SQY_h5_query_shape

\* For any files and names, any volumes, any texts of filters and any sequence
\* of calls, failing ones among them, if the texts build the stages again that
\* printed them (what Rebuilt says of them): a read gives the volume of the
\* last write that returned 0, through a filter that encodes it or finds it
\* encoded, and through any chain of links.
THEOREM FilesReadBack == TextsRebuild => (Spec => []ReadBack)
<1> SUFFICES ASSUME TextsRebuild  PROVE Spec => []ReadBack
  OBVIOUS
<1>1. Init => IInv /\ RInv
  BY InterfaceInit, ReadInit
<1>2. IInv /\ RInv /\ [Next]_vars => (IInv /\ RInv)'
  BY InterfaceAssumption, InterfaceStep, ReadStep
<1>3. IInv /\ RInv => ReadBack
  BY InterfaceAssumption, ReadsBack
<1> QED BY <1>1, <1>2, <1>3, PTL DEF Spec

-----------------------------------------------------------------------------
(* Tables in the text *)

Byte == 0 .. 255
Letter == {Code(k) : k \in 0 .. 64}

LEMMA Letters ==
    /\ \A j, k \in 0 .. 64 : Code(j) = Code(k) => j = k
    /\ \A k \in 0 .. 64 : Code(k) # VClose
    /\ Code(64) = "=" /\ \A k \in 0 .. 63 : Code(k) # "="
<1>1. \A j, k \in 0 .. 64 : Code(j) = Code(k) => j = k
  BY DEF Code, codes
<1>2. \A k \in 0 .. 64 : Code(k) # VClose
  BY DEF Code, codes, VClose
<1>3. Code(64) = "=" /\ \A k \in 0 .. 63 : Code(k) # "="
  BY DEF Code, codes
<1> QED BY <1>1, <1>2, <1>3

LEMMA SextetOf ==
    ASSUME NEW k \in 0 .. 63
    PROVE  Sextet[Code(k)] = k
<1>1. Code(k) \in {Code(j) : j \in 0 .. 64} /\ Code(k) # "="
  BY Letters
<1>2. Sextet[Code(k)] = CHOOSE j \in 0 .. 63 : Code(j) = Code(k)
  BY <1>1 DEF Sextet
<1>3. \A j \in 0 .. 63 : Code(j) = Code(k) => j = k
  BY Letters
<1>4. (CHOOSE j \in 0 .. 63 : Code(j) = Code(k)) \in 0 .. 63
      /\ Code(CHOOSE j \in 0 .. 63 : Code(j) = Code(k)) = Code(k)
  OBVIOUS
<1> QED BY <1>2, <1>3, <1>4

\* Three bytes are four sextets, and back.
First(a) == a \div 4
Second(a, b) == (a % 4) * 16 + (b \div 16)
Third(b, c) == (b % 16) * 4 + (c \div 64)
Fourth(c) == c % 64

LEMMA Sextets ==
    ASSUME NEW a \in Byte, NEW b \in Byte, NEW c \in Byte
    PROVE  /\ First(a) \in 0 .. 63 /\ Second(a, b) \in 0 .. 63
           /\ Third(b, c) \in 0 .. 63 /\ Fourth(c) \in 0 .. 63
           /\ First(a) * 4 + (Second(a, b) \div 16) = a
           /\ (Second(a, b) % 16) * 16 + (Third(b, c) \div 4) = b
           /\ (Third(b, c) % 4) * 64 + Fourth(c) = c
<1>1. a \in Int /\ b \in Int /\ c \in Int /\ 0 <= a /\ a <= 255 /\ 0 <= b /\ b <= 255
      /\ 0 <= c /\ c <= 255
  BY DEF Byte
<1>2. First(a) \in 0 .. 63 /\ Second(a, b) \in 0 .. 63
  BY ONLY <1>1 DEF First, Second
<1>3. Third(b, c) \in 0 .. 63 /\ Fourth(c) \in 0 .. 63
  BY ONLY <1>1 DEF Third, Fourth
<1>4. First(a) * 4 + (Second(a, b) \div 16) = a
  BY ONLY <1>1 DEF First, Second
<1>5. (Second(a, b) % 16) * 16 + (Third(b, c) \div 4) = b
  BY ONLY <1>1 DEF Second, Third
<1>6. (Third(b, c) % 4) * 64 + Fourth(c) = c
  BY ONLY <1>1 DEF Third, Fourth
<1> QED BY <1>2, <1>3, <1>4, <1>5, <1>6

\* A place in groups of three, and of four.
LEMMA InGroups ==
    ASSUME NEW g \in Nat, NEW k \in 1 .. 4
    PROVE  /\ (4 * g + k - 1) \div 4 = g /\ (4 * g + k) % 4 = k % 4
           /\ k # 4 => (3 * g + k - 1) \div 3 = g /\ (3 * g + k) % 3 = k % 3
<1>1. CASE k = 1
  BY <1>1
<1>2. CASE k = 2
  BY <1>2
<1>3. CASE k = 3
  BY <1>3
<1>4. CASE k = 4
  BY <1>4
<1> QED BY <1>1, <1>2, <1>3, <1>4

LEMMA ByThree ==
    ASSUME NEW i \in Nat \ {0}
    PROVE  \E g \in Nat, k \in 1 .. 3 : i = 3 * g + k
<1>1. (i - 1) \div 3 \in Nat /\ i - 3 * ((i - 1) \div 3) \in 1 .. 3
  OBVIOUS
<1>2. i = 3 * ((i - 1) \div 3) + (i - 3 * ((i - 1) \div 3))
  BY <1>1
<1> QED BY <1>1, <1>2

LEMMA ByFour ==
    ASSUME NEW i \in Nat \ {0}
    PROVE  \E g \in Nat, k \in 1 .. 4 : i = 4 * g + k
<1>1. (i - 1) \div 4 \in Nat /\ i - 4 * ((i - 1) \div 4) \in 1 .. 4
  OBVIOUS
<1>2. i = 4 * ((i - 1) \div 4) + (i - 4 * ((i - 1) \div 4))
  BY <1>1
<1> QED BY <1>1, <1>2

\* The groups of a sequence of bytes, zeros behind its end.
ByteOr0(bytes, i) == IF i <= Len(bytes) THEN bytes[i] ELSE 0

LEMMA GroupEncodes ==
    ASSUME NEW bytes \in Seq(Byte), NEW g \in Nat, 4 * g + 4 <= EncodedBytes(Len(bytes))
    PROVE  LET a == ByteOr0(bytes, 3 * g + 1)
               b == ByteOr0(bytes, 3 * g + 2)
               c == ByteOr0(bytes, 3 * g + 3)
               code == FastEncode(bytes)
           IN  /\ code[4 * g + 1] = Code(First(a))
               /\ code[4 * g + 2] = Code(Second(a, b))
               /\ code[4 * g + 3] = Code(IF 3 * g + 2 > Len(bytes) THEN 64 ELSE Third(b, c))
               /\ code[4 * g + 4] = Code(IF 3 * g + 3 > Len(bytes) THEN 64 ELSE Fourth(c))
<1> DEFINE n == Len(bytes)
           m == EncodedBytes(n)
           B(i) == ByteOr0(bytes, i)
           At4(i) == LET h == 3 * ((i - 1) \div 4)
                     IN  Code(CASE i % 4 = 1 -> B(h + 1) \div 4
                                [] i % 4 = 2 -> (B(h + 1) % 4) * 16 + B(h + 2) \div 16
                                [] i % 4 = 3 -> IF h + 2 > n THEN 64
                                                ELSE (B(h + 2) % 16) * 4 + B(h + 3) \div 64
                                [] i % 4 = 0 -> IF h + 3 > n THEN 64 ELSE B(h + 3) % 64)
<1>1. FastEncode(bytes) = [i \in 1 .. m |-> At4(i)]
  BY Zenon DEF FastEncode, ByteOr0
<1>2. n \in Nat /\ m \in Int
  BY DEF EncodedBytes
<1>3. \A k \in 1 .. 4 : 4 * g + k \in 1 .. m
  <2> HIDE DEF m, n
  <2> QED BY <1>2 DEF m, n
<1>4. \A k \in 1 .. 4 : FastEncode(bytes)[4 * g + k] = At4(4 * g + k)
  <2> HIDE DEF m, At4
  <2> QED BY <1>1, <1>3
<1>5. /\ 3 * ((4 * g + 1 - 1) \div 4) = 3 * g /\ (4 * g + 1) % 4 = 1
      /\ 3 * ((4 * g + 2 - 1) \div 4) = 3 * g /\ (4 * g + 2) % 4 = 2
      /\ 3 * ((4 * g + 3 - 1) \div 4) = 3 * g /\ (4 * g + 3) % 4 = 3
      /\ 3 * ((4 * g + 4 - 1) \div 4) = 3 * g /\ (4 * g + 4) % 4 = 0
  BY ONLY g \in Nat
<1>6. At4(4 * g + 1) = Code(First(B(3 * g + 1)))
  <2>1. PICK h : h = 3 * ((4 * g + 1 - 1) \div 4) /\ h = 3 * g
    BY <1>5
  <2>2. PICK e : e = (4 * g + 1) % 4 /\ e = 1
    BY <1>5
  <2> QED BY <2>1, <2>2 DEF First
<1>7. At4(4 * g + 2) = Code(Second(B(3 * g + 1), B(3 * g + 2)))
  <2>1. PICK h : h = 3 * ((4 * g + 2 - 1) \div 4) /\ h = 3 * g
    BY <1>5
  <2>2. PICK e : e = (4 * g + 2) % 4 /\ e = 2
    BY <1>5
  <2> QED BY <2>1, <2>2 DEF Second
<1>8. At4(4 * g + 3) = Code(IF 3 * g + 2 > n THEN 64 ELSE Third(B(3 * g + 2), B(3 * g + 3)))
  <2>1. PICK h : h = 3 * ((4 * g + 3 - 1) \div 4) /\ h = 3 * g
    BY <1>5
  <2>2. PICK e : e = (4 * g + 3) % 4 /\ e = 3
    BY <1>5
  <2> QED BY <2>1, <2>2 DEF Third
<1>9. At4(4 * g + 4) = Code(IF 3 * g + 3 > n THEN 64 ELSE Fourth(B(3 * g + 3)))
  BY <1>5 DEF Fourth
<1>10. 1 \in 1 .. 4 /\ 2 \in 1 .. 4 /\ 3 \in 1 .. 4 /\ 4 \in 1 .. 4
  OBVIOUS
<1> HIDE DEF At4
<1> QED BY <1>4, <1>6, <1>7, <1>8, <1>9, <1>10

LEMMA BytesOr0 ==
    ASSUME NEW bytes \in Seq(Byte), NEW i \in Nat \ {0}
    PROVE  /\ ByteOr0(bytes, i) \in Byte
           /\ i <= Len(bytes) => ByteOr0(bytes, i) = bytes[i]
<1>1. CASE i <= Len(bytes)
  <2>1. i \in 1 .. Len(bytes) /\ bytes[i] \in Byte
    BY <1>1
  <2> QED BY <1>1, <2>1 DEF ByteOr0
<1>2. CASE ~(i <= Len(bytes))
  BY <1>2 DEF ByteOr0, Byte
<1> QED BY <1>1, <1>2

LEMMA EncodedLength ==
    ASSUME NEW bytes \in Seq(Byte)
    PROVE  /\ EncodedBytes(Len(bytes)) \in Nat
           /\ Len(FastEncode(bytes)) = EncodedBytes(Len(bytes))
           /\ DOMAIN FastEncode(bytes) = 1 .. EncodedBytes(Len(bytes))
<1> DEFINE n == Len(bytes)
           Here(i) == LET g == 3 * ((i - 1) \div 4)
                        B(k) == IF g + k <= n THEN bytes[g + k] ELSE 0
                    IN  Code(CASE i % 4 = 1 -> B(1) \div 4
                               [] i % 4 = 2 -> (B(1) % 4) * 16 + B(2) \div 16
                               [] i % 4 = 3 -> IF g + 2 > n THEN 64
                                               ELSE (B(2) % 16) * 4 + B(3) \div 64
                               [] i % 4 = 0 -> IF g + 3 > n THEN 64 ELSE B(3) % 64)
<1>1. EncodedBytes(n) \in Nat
  BY DEF EncodedBytes
<1>2. FastEncode(bytes) = [i \in 1 .. EncodedBytes(n) |-> Here(i)]
  BY Zenon DEF FastEncode
<1> HIDE DEF Here
<1> QED BY <1>1, <1>2

LEMMA Padding ==
    ASSUME NEW bytes \in Seq(Byte), NEW q \in Nat, NEW r \in 1 .. 3, Len(bytes) = 3 * q + r
    PROVE  /\ EncodedBytes(Len(bytes)) = 4 * q + 4
           /\ Cardinality(Where(FastEncode(bytes), "=") \cap (4 * q + 1 .. 4 * q + 4)) = 3 - r
<1> DEFINE code == FastEncode(bytes)
           ends == Where(code, "=") \cap (4 * q + 1 .. 4 * q + 4)
           a == ByteOr0(bytes, 3 * q + 1)
           b == ByteOr0(bytes, 3 * q + 2)
           c == ByteOr0(bytes, 3 * q + 3)
<1>1. EncodedBytes(Len(bytes)) = 4 * q + 4
  <2>1. (3 * q + r + 2) \div 3 = q + 1
    BY ONLY q \in Nat, r \in 1 .. 3
  <2> QED BY <2>1 DEF EncodedBytes
<1>2. DOMAIN code = 1 .. 4 * q + 4
  BY <1>1, EncodedLength
<1>3. a \in Byte /\ b \in Byte /\ c \in Byte
  BY BytesOr0
<1>4. /\ First(a) \in 0 .. 63 /\ Second(a, b) \in 0 .. 63
      /\ Third(b, c) \in 0 .. 63 /\ Fourth(c) \in 0 .. 63
  BY <1>3, Sextets
<1>5. /\ code[4 * q + 1] = Code(First(a))
      /\ code[4 * q + 2] = Code(Second(a, b))
      /\ code[4 * q + 3] = Code(IF r = 1 THEN 64 ELSE Third(b, c))
      /\ code[4 * q + 4] = Code(IF r < 3 THEN 64 ELSE Fourth(c))
  <2>1. 4 * q + 4 <= EncodedBytes(Len(bytes))
    BY <1>1
  <2>2. (3 * q + 2 > Len(bytes)) = (r = 1) /\ (3 * q + 3 > Len(bytes)) = (r < 3)
    BY ONLY q \in Nat, r \in 1 .. 3, Len(bytes) = 3 * q + r
  <2> QED BY <2>1, <2>2, GroupEncodes
<1>6. /\ code[4 * q + 1] # "=" /\ code[4 * q + 2] # "="
      /\ code[4 * q + 3] = "=" <=> r = 1
      /\ code[4 * q + 4] = "=" <=> r < 3
  <2> HIDE DEF code, a, b, c
  <2>1. code[4 * q + 1] # "=" /\ code[4 * q + 2] # "="
    BY <1>4, <1>5, Letters
  <2>2. code[4 * q + 3] = "=" <=> r = 1
    BY <1>4, <1>5, Letters
  <2>3. code[4 * q + 4] = "=" <=> r < 3
    BY <1>4, <1>5, Letters
  <2> QED BY <2>1, <2>2, <2>3
<1>7. \A i : i \in ends <=> \/ i = 4 * q + 3 /\ r = 1
                            \/ i = 4 * q + 4 /\ r < 3
  <2>1. \A i : i \in ends <=> /\ i \in 4 * q + 1 .. 4 * q + 4 /\ code[i] = "="
    <3> HIDE DEF code
    <3> QED BY <1>2 DEF Where
  <2>2. \A i \in 4 * q + 1 .. 4 * q + 4 : \/ i = 4 * q + 1 \/ i = 4 * q + 2
                                          \/ i = 4 * q + 3 \/ i = 4 * q + 4
    OBVIOUS
  <2>3. /\ 4 * q + 3 \in 4 * q + 1 .. 4 * q + 4
        /\ 4 * q + 4 \in 4 * q + 1 .. 4 * q + 4
    OBVIOUS
  <2> HIDE DEF code, ends
  <2> QED BY <1>6, <2>1, <2>2, <2>3
<1> HIDE DEF code, ends
<1>8. r = 1 => Cardinality(ends) = 2
  <2> SUFFICES ASSUME r = 1 PROVE Cardinality(ends) = 2
    OBVIOUS
  <2>1. ends = {4 * q + 3, 4 * q + 4}
    BY <1>7
  <2>2. Cardinality({4 * q + 3, 4 * q + 4}) = 2
    <3>1. IsFiniteSet({4 * q + 3}) /\ Cardinality({4 * q + 3}) = 1
      BY FS_Singleton
    <3>2. 4 * q + 4 \notin {4 * q + 3}
      OBVIOUS
    <3>3. Cardinality({4 * q + 3} \cup {4 * q + 4}) = 1 + 1
      BY <3>1, <3>2, FS_AddElement
    <3>4. {4 * q + 3} \cup {4 * q + 4} = {4 * q + 3, 4 * q + 4}
      OBVIOUS
    <3> QED BY <3>3, <3>4
  <2> QED BY <2>1, <2>2
<1>9. r = 2 => Cardinality(ends) = 1
  <2> SUFFICES ASSUME r = 2 PROVE Cardinality(ends) = 1
    OBVIOUS
  <2>1. ends = {4 * q + 4}
    BY <1>7
  <2> QED BY <2>1, FS_Singleton
<1>10. r = 3 => Cardinality(ends) = 0
  <2> SUFFICES ASSUME r = 3 PROVE Cardinality(ends) = 0
    OBVIOUS
  <2>1. ends = {}
    BY <1>7
  <2> QED BY <2>1, FS_EmptySet
<1>11. Cardinality(ends) = 3 - r
  BY <1>8, <1>9, <1>10
<1> QED BY <1>1, <1>11 DEF ends, code

LEMMA DecodedLength ==
    ASSUME NEW bytes \in Seq(Byte), bytes # <<>>
    PROVE  DecodedBytes(FastEncode(bytes)) = Len(bytes)
<1>1. Len(bytes) \in Nat \ {0}
  OBVIOUS
<1>2. PICK q \in Nat, r \in 1 .. 3 : Len(bytes) = 3 * q + r
  BY <1>1, ByThree
<1>3. PICK m : m = EncodedBytes(Len(bytes)) /\ m = 4 * q + 4 /\ m = Len(FastEncode(bytes))
  BY <1>2, Padding, EncodedLength
<1>4. Cardinality(Where(FastEncode(bytes), "=") \cap (4 * q + 1 .. 4 * q + 4)) = 3 - r
  BY <1>2, Padding
<1>5. m > 3 /\ m - 3 = 4 * q + 1 /\ (3 * m) \div 4 = 3 * q + 3
  BY <1>3
<1>6. DecodedBytes(FastEncode(bytes))
      = (3 * m) \div 4 - Cardinality(Where(FastEncode(bytes), "=") \cap (m - 3 .. m))
  BY <1>3, <1>5 DEF DecodedBytes
<1>7. m - 3 .. m = 4 * q + 1 .. 4 * q + 4
  BY <1>3
<1>8. DecodedBytes(FastEncode(bytes)) = (3 * q + 3) - (3 - r)
  BY <1>4, <1>5, <1>6, <1>7
<1> QED BY <1>2, <1>8

LEMMA CodeGivesBack ==
    ASSUME NEW bytes \in Seq(Byte), bytes # <<>>
    PROVE  Decode64(FastEncode(bytes)) = bytes
<1> DEFINE code == FastEncode(bytes)
           n == Len(bytes)
           S(g, k) == Sextet[code[g + k]]
           Three(i) == LET g == 4 * ((i - 1) \div 3)
                       IN  CASE i % 3 = 1 -> S(g, 1) * 4 + S(g, 2) \div 16
                             [] i % 3 = 2 -> (S(g, 2) % 16) * 16 + S(g, 3) \div 4
                             [] i % 3 = 0 -> (S(g, 3) % 4) * 64 + S(g, 4)
<1>1. Decode64(code) = [i \in 1 .. DecodedBytes(code) |-> Three(i)]
  BY Zenon DEF Decode64
<1>2. DecodedBytes(code) = n /\ n \in Nat \ {0}
  BY DecodedLength
<1>3. ASSUME NEW i \in 1 .. n PROVE Three(i) = bytes[i]
  <2>1. PICK g \in Nat, k \in 1 .. 3 : i = 3 * g + k
    <3>1. i \in Nat \ {0}
      <4> HIDE DEF n
      <4> QED BY <1>2, <1>3
    <3> QED BY <3>1, ByThree
  <2>2. 3 * g + k <= n /\ 4 * g + 4 <= EncodedBytes(n)
    <3>1. 3 * g + k <= n
      BY <1>2, <1>3, <2>1
    <3>2. (n + 2) \div 3 >= g + 1
      <4> HIDE DEF n
      <4> QED BY ONLY <1>2, <3>1, g \in Nat, k \in 1 .. 3
    <3> HIDE DEF n
    <3> QED BY <1>2, <3>1, <3>2 DEF EncodedBytes
  <2>3. PICK a, b, c : /\ a = ByteOr0(bytes, 3 * g + 1) /\ b = ByteOr0(bytes, 3 * g + 2)
                       /\ c = ByteOr0(bytes, 3 * g + 3)
    OBVIOUS
  <2>4. a \in Byte /\ b \in Byte /\ c \in Byte
    BY <2>3, BytesOr0
  <2>5. /\ code[4 * g + 1] = Code(First(a))
        /\ code[4 * g + 2] = Code(Second(a, b))
        /\ code[4 * g + 3] = Code(IF 3 * g + 2 > n THEN 64 ELSE Third(b, c))
        /\ code[4 * g + 4] = Code(IF 3 * g + 3 > n THEN 64 ELSE Fourth(c))
    BY <2>2, <2>3, GroupEncodes
  <2>6. /\ First(a) \in 0 .. 63 /\ Second(a, b) \in 0 .. 63
        /\ Third(b, c) \in 0 .. 63 /\ Fourth(c) \in 0 .. 63
        /\ First(a) * 4 + (Second(a, b) \div 16) = a
        /\ (Second(a, b) % 16) * 16 + (Third(b, c) \div 4) = b
        /\ (Third(b, c) % 4) * 64 + Fourth(c) = c
    BY <2>4, Sextets
  <2>7. S(4 * g, 1) = First(a) /\ S(4 * g, 2) = Second(a, b)
    BY <2>5, <2>6, SextetOf
  <2>8. k # 1 => S(4 * g, 3) = Third(b, c)
    <3>1. k # 1 => ~(3 * g + 2 > n)
      BY <1>2, <2>2
    <3> QED BY <3>1, <2>5, <2>6, SextetOf
  <2>9. k = 3 => S(4 * g, 4) = Fourth(c)
    <3>1. k = 3 => ~(3 * g + 3 > n)
      BY <1>2, <2>2
    <3> QED BY <3>1, <2>5, <2>6, SextetOf
  <2>10. PICK h, e : h = (i - 1) \div 3 /\ e = i % 3 /\ h = g /\ e = k % 3
    <3>1. (3 * g + k - 1) \div 3 = g /\ (3 * g + k) % 3 = k % 3
      BY ONLY g \in Nat, k \in 1 .. 3
    <3> QED BY <2>1, <3>1
  <2>11. Three(i) = LET y == 4 * g
                    IN  CASE e = 1 -> S(y, 1) * 4 + S(y, 2) \div 16
                          [] e = 2 -> (S(y, 2) % 16) * 16 + S(y, 3) \div 4
                          [] e = 0 -> (S(y, 3) % 4) * 64 + S(y, 4)
    <3> HIDE DEF S, n, code
    <3> QED BY <2>10
  <2>12. bytes[i] = ByteOr0(bytes, 3 * g + k)
    BY <2>1, <2>2, BytesOr0
  <2> HIDE DEF Three, S, n, code
  <2>13. CASE k = 1
    BY <2>13, <2>3, <2>6, <2>7, <2>10, <2>11, <2>12
  <2>14. CASE k = 2
    BY <2>14, <2>3, <2>6, <2>7, <2>8, <2>10, <2>11, <2>12
  <2>15. CASE k = 3
    BY <2>15, <2>3, <2>6, <2>8, <2>9, <2>10, <2>11, <2>12
  <2> QED BY <2>13, <2>14, <2>15
<1> HIDE DEF Three, n, code
<1>4. Decode64(code) = [i \in 1 .. n |-> bytes[i]]
  BY <1>1, <1>2, <1>3
<1>5. bytes = [i \in 1 .. n |-> bytes[i]]
  BY DEF n
<1> QED BY <1>4, <1>5 DEF code

LEMMA Spelled ==
    ASSUME NEW bytes \in Seq(Byte)
    PROVE  FastEncode(bytes) \in Seq(Letter)
<1> DEFINE code == FastEncode(bytes)
           m == EncodedBytes(Len(bytes))
<1>1. m \in Nat /\ Len(code) = m /\ DOMAIN code = 1 .. m
  BY EncodedLength
<1>2. ASSUME NEW i \in 1 .. m PROVE code[i] \in Letter
  <2>1. i \in Nat \ {0} /\ i <= m
    <3> HIDE DEF m
    <3> QED BY <1>1, <1>2
  <2>2. PICK g \in Nat, k \in 1 .. 4 : i = 4 * g + k
    BY <2>1, ByFour
  <2>3. 4 * g + 4 <= m
    <3>1. PICK t \in Int : m = 4 * t
      BY DEF EncodedBytes
    <3> HIDE DEF m
    <3> QED BY <2>1, <2>2, <3>1
  <2>4. PICK a, b, c : /\ a = ByteOr0(bytes, 3 * g + 1) /\ b = ByteOr0(bytes, 3 * g + 2)
                       /\ c = ByteOr0(bytes, 3 * g + 3)
    OBVIOUS
  <2>5. a \in Byte /\ b \in Byte /\ c \in Byte
    BY <2>4, BytesOr0
  <2>6. /\ First(a) \in 0 .. 64 /\ Second(a, b) \in 0 .. 64
        /\ (IF 3 * g + 2 > Len(bytes) THEN 64 ELSE Third(b, c)) \in 0 .. 64
        /\ (IF 3 * g + 3 > Len(bytes) THEN 64 ELSE Fourth(c)) \in 0 .. 64
    <3>1. /\ First(a) \in 0 .. 63 /\ Second(a, b) \in 0 .. 63
          /\ Third(b, c) \in 0 .. 63 /\ Fourth(c) \in 0 .. 63
      BY <2>5, Sextets
    <3> QED BY <3>1
  <2>7. /\ code[4 * g + 1] \in Letter /\ code[4 * g + 2] \in Letter
        /\ code[4 * g + 3] \in Letter /\ code[4 * g + 4] \in Letter
    <3>1. /\ code[4 * g + 1] = Code(First(a))
          /\ code[4 * g + 2] = Code(Second(a, b))
          /\ code[4 * g + 3] = Code(IF 3 * g + 2 > Len(bytes) THEN 64 ELSE Third(b, c))
          /\ code[4 * g + 4] = Code(IF 3 * g + 3 > Len(bytes) THEN 64 ELSE Fourth(c))
      BY <2>3, <2>4, GroupEncodes
    <3> HIDE DEF code
    <3> QED BY <2>6, <3>1 DEF Letter
  <2> HIDE DEF code, m
  <2> QED BY <2>2, <2>7
<1>3. code = [i \in 1 .. m |-> code[i]]
  <2> DEFINE Here(i) == LET g == 3 * ((i - 1) \div 4)
                        B(k) == IF g + k <= Len(bytes) THEN bytes[g + k] ELSE 0
                    IN  Code(CASE i % 4 = 1 -> B(1) \div 4
                               [] i % 4 = 2 -> (B(1) % 4) * 16 + B(2) \div 16
                               [] i % 4 = 3 -> IF g + 2 > Len(bytes) THEN 64
                                               ELSE (B(2) % 16) * 4 + B(3) \div 64
                               [] i % 4 = 0 -> IF g + 3 > Len(bytes) THEN 64 ELSE B(3) % 64)
  <2>1. code = [i \in 1 .. m |-> Here(i)]
    BY Zenon DEF FastEncode
  <2> HIDE DEF Here, code, m
  <2> QED BY <2>1
<1> HIDE DEF code, m
<1>4. [i \in 1 .. m |-> code[i]] \in Seq(Letter)
  BY <1>1, <1>2
<1> QED BY <1>3, <1>4 DEF code

\* Between its marks a verbatim text is the code and nothing else.
LEMMA BetweenMarks ==
    ASSUME NEW code \in Seq(Letter)
    PROVE  LET text == <<VOpen>> \o code \o <<VClose>>
           IN  /\ Len(text) = Len(code) + 2
               /\ Where(text, VClose) = {Len(text)}
               /\ SubSeq(text, 2, Len(text) - 1) = code
<1> DEFINE text == <<VOpen>> \o code \o <<VClose>>
           Token == Letter \cup {VOpen, VClose}
<1>1. /\ text \in Seq(Token) /\ Len(text) = Len(code) + 2
      /\ text[1] = VOpen /\ text[Len(text)] = VClose
      /\ \A i \in 1 .. Len(code) : text[i + 1] = code[i]
  <2>1. code \in Seq(Token) /\ VOpen \in Token /\ VClose \in Token
    OBVIOUS
  <2> HIDE DEF Token
  <2> QED BY <2>1
<1>2. ASSUME NEW i \in 1 .. Len(text), i # Len(text) PROVE text[i] # VClose
  <2>1. CASE i = 1
    BY <1>1, <2>1 DEF VOpen, VClose
  <2>2. CASE i # 1
    <3>1. i - 1 \in 1 .. Len(code)
      <4> HIDE DEF text
      <4> QED BY <1>1, <1>2, <2>2
    <3>2. text[i] = code[i - 1] /\ code[i - 1] \in Letter
      <4> HIDE DEF text
      <4> QED BY <1>1, <3>1
    <3> HIDE DEF text
    <3> QED BY <3>2, Letters DEF Letter
  <2> QED BY <2>1, <2>2
<1> HIDE DEF text
<1>3. Where(text, VClose) = {Len(text)}
  BY <1>1, <1>2 DEF Where
<1>4. SubSeq(text, 2, Len(text) - 1) = code
  <2> DEFINE part == SubSeq(text, 2, Len(text) - 1)
  <2>1. Len(part) = Len(code) /\ \A i \in 1 .. Len(code) : part[i] = text[i + 1]
    BY <1>1
  <2>2. part \in Seq(Token)
    BY <1>1
  <2> HIDE DEF part, Token
  <2>3. part = code
    BY <1>1, <2>1, <2>2, SeqEqual
  <2> QED BY <2>3 DEF part
<1> QED BY <1>1, <1>3, <1>4 DEF text

Short == 0 .. 65535

LEMMA TwoBytes ==
    ASSUME NEW x \in Short
    PROVE  /\ x % 256 \in Byte /\ (x \div 256) % 256 \in Byte
           /\ (x % 256) + 256 * ((x \div 256) % 256) = x
<1>1. x \in Int /\ 0 <= x /\ x <= 65535
  BY DEF Short
<1>2. PICK y \in Int : y = x \div 256 /\ 0 <= y /\ y <= 255 /\ x % 256 = x - 256 * y
  BY ONLY <1>1
<1>3. y % 256 = y
  BY ONLY <1>2
<1>4. x % 256 \in 0 .. 255
  BY ONLY <1>1
<1> QED BY <1>1, <1>2, <1>3, <1>4 DEF Byte

LEMMA OneByte ==
    ASSUME NEW x \in Byte
    PROVE  x % 256 = x
<1>1. x \in Int /\ 0 <= x /\ x <= 255
  BY DEF Byte
<1> QED BY ONLY <1>1

Word(w) == IF w = 1 THEN Byte ELSE Short

LEMMA BytesGiveBack ==
    ASSUME NEW items \in Seq(Byte)
    PROVE  /\ Memory(items, 1) \in Seq(Byte)
           /\ Len(Memory(items, 1)) = Len(items)
           /\ Items(Memory(items, 1), 1) = items
<1>2. \A i \in 1 .. Len(items) : items[i] \in Byte
  OBVIOUS
<1>3. Memory(items, 1) = [i \in 1 .. Len(items) |-> items[i]]
  <2>1. \A i \in 1 .. Len(items) :
           (IF (i - 1) % 1 = 0 THEN items[(i - 1) \div 1 + 1] % 256
            ELSE (items[(i - 1) \div 1 + 1] \div 256) % 256) = items[i]
    <3> SUFFICES ASSUME NEW i \in 1 .. Len(items)
                 PROVE  (IF (i - 1) % 1 = 0 THEN items[(i - 1) \div 1 + 1] % 256
                         ELSE (items[(i - 1) \div 1 + 1] \div 256) % 256) = items[i]
      OBVIOUS
    <3>1. (i - 1) % 1 = 0 /\ (i - 1) \div 1 + 1 = i
      OBVIOUS
    <3>2. items[i] % 256 = items[i]
      BY <1>2, OneByte
    <3> QED BY <3>1, <3>2
  <2>2. Len(items) * 1 = Len(items)
    OBVIOUS
  <2> QED BY <2>1, <2>2 DEF Memory
<1>4. Memory(items, 1) = items
  BY <1>3
<1>5. Items(items, 1) = items
  <2>1. Len(items) \div 1 = Len(items)
    OBVIOUS
  <2> QED BY <2>1 DEF Items
<1> QED BY <1>4, <1>5

LEMMA PairsGiveBack ==
    ASSUME NEW items \in Seq(Short)
    PROVE  /\ Memory(items, 2) \in Seq(Byte)
           /\ Len(Memory(items, 2)) = Len(items) * 2
           /\ Items(Memory(items, 2), 2) = items
<1> DEFINE n == Len(items)
           Here(i) == LET item == items[(i - 1) \div 2 + 1] IN
                    IF (i - 1) % 2 = 0 THEN item % 256 ELSE (item \div 256) % 256
           bytes == Memory(items, 2)
<1>1. n \in Nat /\ \A i \in 1 .. n : items[i] \in Short
  OBVIOUS
<1>2. bytes = [i \in 1 .. n * 2 |-> Here(i)]
  BY DEF Memory
<1>3. ASSUME NEW i \in 1 .. n * 2 PROVE Here(i) \in Byte
  <2>1. (i - 1) \div 2 + 1 \in 1 .. n
    <3> HIDE DEF n
    <3> QED BY <1>1
  <2>2. PICK item \in Short : item = items[(i - 1) \div 2 + 1]
    BY <1>1, <2>1
  <2>3. item % 256 \in Byte /\ (item \div 256) % 256 \in Byte
    BY TwoBytes
  <2> QED BY <2>2, <2>3
<1>4. ASSUME NEW i \in 1 .. n
      PROVE  /\ 2 * i - 1 \in 1 .. n * 2 /\ 2 * i \in 1 .. n * 2
             /\ Here(2 * i - 1) + 256 * Here(2 * i) = items[i]
  <2>1. 2 * i - 1 \in 1 .. n * 2 /\ 2 * i \in 1 .. n * 2
    BY <1>1
  <2>2. /\ (2 * i - 1 - 1) \div 2 + 1 = i /\ (2 * i - 1 - 1) % 2 = 0
        /\ (2 * i - 1) \div 2 + 1 = i /\ (2 * i - 1) % 2 = 1
    OBVIOUS
  <2>3. PICK item \in Short : item = items[i]
    BY <1>1
  <2>4. Here(2 * i - 1) = item % 256
    BY <2>2, <2>3
  <2>5. Here(2 * i) = (item \div 256) % 256
    BY <2>2, <2>3
  <2>6. (item % 256) + 256 * ((item \div 256) % 256) = item
    BY TwoBytes
  <2> HIDE DEF Here
  <2> QED BY <2>1, <2>3, <2>4, <2>5, <2>6
<1> HIDE DEF Here
<1>5. n * 2 \in Nat /\ bytes \in Seq(Byte) /\ Len(bytes) = n * 2
  <2> HIDE DEF n, bytes
  <2> QED BY <1>1, <1>2, <1>3
<1>6. Items(bytes, 2) = [i \in 1 .. n |-> items[i]]
  <2>1. Items(bytes, 2) = [i \in 1 .. Len(bytes) \div 2 |-> bytes[2 * i - 1] + 256 * bytes[2 * i]]
    <3> HIDE DEF bytes
    <3> QED BY DEF Items
  <2>2. Len(bytes) \div 2 = n
    <3> HIDE DEF n, bytes
    <3> QED BY <1>1, <1>5
  <2>3. \A i \in 1 .. n : bytes[2 * i - 1] + 256 * bytes[2 * i] = items[i]
    <3> HIDE DEF n, bytes
    <3> QED BY <1>2, <1>4
  <2> HIDE DEF n, bytes
  <2> QED BY <2>1, <2>2, <2>3
<1>7. Items(bytes, 2) = items
  BY <1>6
<1> QED BY <1>5, <1>7

LEMMA MemoryGivesBack ==
    ASSUME NEW w \in {1, 2}, NEW items \in Seq(Word(w))
    PROVE  /\ Memory(items, w) \in Seq(Byte)
           /\ Len(Memory(items, w)) = Len(items) * w
           /\ Items(Memory(items, w), w) = items
<1>1. CASE w = 1
  <2>1. items \in Seq(Byte) /\ Len(items) * 1 = Len(items)
    BY <1>1 DEF Word
  <2> QED BY <1>1, <2>1, BytesGiveBack
<1>2. CASE w = 2
  <2>1. items \in Seq(Short)
    BY <1>2 DEF Word
  <2> QED BY <1>2, <2>1, PairsGiveBack
<1> QED BY <1>1, <1>2

\* A table of items of one or two bytes, as the quantiser and the frame shuffle
\* print it into their options (range_to_verbatim), is what verbatim_to_range
\* reads into a range of its length, whatever was in the range, and
\* verbatim_yields_n_items_of says how long to make it: no padding of the
\* base64 code loses or adds an item.
THEOREM TablesSurvive ==
    ASSUME NEW w \in {1, 2}, NEW items \in Seq(Word(w)), items # <<>>,
           NEW into \in Seq(Word(w)), Len(into) = Len(items)
    PROVE  /\ VerbatimYields(RangeToVerbatim(items, w), w) = Len(items)
           /\ VerbatimToRange(RangeToVerbatim(items, w), into, w) = items
<1> DEFINE bytes == Memory(items, w)
           text == <<VOpen>> \o FastEncode(bytes) \o <<VClose>>
<1>1. /\ bytes \in Seq(Byte) /\ Len(bytes) = Len(items) * w
      /\ Items(bytes, w) = items
  BY MemoryGivesBack
<1>2. Len(items) \in Nat \ {0} /\ w \in Nat \ {0}
  OBVIOUS
<1>3. bytes # <<>> /\ Len(bytes) \div w = Len(items) /\ Len(bytes) \in Nat
  <2>1. (Len(items) * w) \div w = Len(items) /\ Len(items) * w # 0
    BY <1>2
  <2> HIDE DEF bytes
  <2> QED BY <1>1, <2>1
<1>4. RangeToVerbatim(items, w) = text
  BY DEF RangeToVerbatim
<1>5. PICK code : code = FastEncode(bytes)
  OBVIOUS
<1>6. code \in Seq(Letter) /\ DecodedBytes(code) = Len(bytes) /\ Decode64(code) = bytes
  <2> HIDE DEF bytes
  <2> QED BY <1>1, <1>3, <1>5, Spelled, DecodedLength, CodeGivesBack
<1>7. /\ Where(text, VClose) = {Len(text)} /\ Len(text) \in Nat
      /\ SubSeq(text, 2, Len(text) - 1) = code
  <2>1. text = <<VOpen>> \o code \o <<VClose>>
    BY <1>5
  <2> HIDE DEF text
  <2> QED BY <1>6, <2>1, BetweenMarks
<1> HIDE DEF bytes, text
<1>8. VerbatimYields(text, w) = Len(items)
  BY <1>3, <1>6, <1>7 DEF VerbatimYields
<1>9. (IF Where(text, VClose) = {} THEN Len(text)
       ELSE (CHOOSE i \in Where(text, VClose) : \A j \in Where(text, VClose) : j <= i) - 1)
      = Len(text) - 1
  <2>1. (CHOOSE i \in {Len(text)} : \A j \in {Len(text)} : j <= i) = Len(text)
    BY <1>7
  <2> QED BY <1>7, <2>1
<1>10. VerbatimToRange(text, into, w)
       = IF DecodedBytes(code) > Len(into) * w THEN into
         ELSE items \o SubSeq(into, Len(items) + 1, Len(into))
  <2> DEFINE end == LET S == Where(text, VClose) IN
                    IF S = {} THEN Len(text)
                    ELSE (CHOOSE i \in S : \A j \in S : j <= i) - 1
  <2>1. end = Len(text) - 1
    BY <1>9
  <2>2. VerbatimToRange(text, into, w)
        = LET read == Items(Decode64(SubSeq(text, 2, end)), w)
          IN  IF DecodedBytes(SubSeq(text, 2, end)) > Len(into) * w THEN into
              ELSE read \o SubSeq(into, Len(read) + 1, Len(into))
    BY ONLY Zenon DEF VerbatimToRange
  <2> HIDE DEF end
  <2>3. SubSeq(text, 2, end) = code /\ Items(Decode64(code), w) = items
    BY <1>1, <1>6, <1>7, <2>1
  <2> QED BY <2>2, <2>3
<1>11. ~(DecodedBytes(code) > Len(into) * w)
  <2>1. PICK m : m = Len(items) * w /\ m = DecodedBytes(code) /\ m = Len(into) * w /\ m \in Nat
    BY <1>1, <1>2, <1>6
  <2> QED BY <2>1
<1>12. SubSeq(into, Len(items) + 1, Len(into)) = <<>>
  BY <1>2
<1>13. items \o <<>> = items
  OBVIOUS
<1> QED BY <1>4, <1>8, <1>10, <1>11, <1>12, <1>13
=============================================================================
