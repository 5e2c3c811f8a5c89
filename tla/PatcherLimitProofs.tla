------------------------- MODULE PatcherLimitProofs -------------------------
(***************************************************************************)
(* Proof that a memory limit is set where it belongs: that the search of   *)
(* applyMemoryLimit finds the limit, its block, the resources or the end   *)
(* of the container that Manifest gives, that the lines it inserts become  *)
(* part of that limit and of nothing else, and that the file still parses. *)
(***************************************************************************)
EXTENDS PatcherSearchProofs

(***************************************************************************)
(* Blocks and entries around lines that are inserted.                      *)
(***************************************************************************)

\* The lines after line i that are all in X.
Run(f, i, X) ==
    {j \in (i + 1)..Len(f) : \A k \in (i + 1)..j : f[k] \in X}

\* The lines B are the lines A, moved, and n lines inserted after line e.
Gains(A, B, e, n) ==
    /\ \A j \in A : Moved(e, n, j) \in B
    /\ \A j \in (e + 1)..(e + n) : j \in B
    /\ \A y \in B : \/ y \in (e + 1)..(e + n)
                   \/ \E j \in A : y = Moved(e, n, j)

\* A run grows by lines that belong to it.
LEMMA RunGrows ==
    ASSUME NEW f \in Seq(Lines), NEW g \in Seq(Lines), NEW e \in DOMAIN f,
           NEW n \in Nat, NEW i \in 1 .. e, NEW X, Len(g) = Len(f) + n,
           \A j \in (i + 1) .. e : f[j] \in X /\ g[j] \in X,
           \A j \in (e + 1) .. (e + n) : g[j] \in X,
           \A j \in (e + 1) .. Len(f) : g[j + n] = f[j]
    PROVE  Gains(Run(f, i, X), Run(g, i, X), e, n)
<1>0. Len(f) \in Nat /\ DOMAIN f = 1 .. Len(f) /\ e \in 1 .. Len(f)
      /\ Len(g) \in Nat /\ DOMAIN g = 1 .. Len(g)
  OBVIOUS
<1>1. ASSUME NEW j \in Run(f, i, X) PROVE Moved(e, n, j) \in Run(g, i, X)
  <2>1. j \in (i + 1) .. Len(f) /\ \A k \in (i + 1) .. j : f[k] \in X
    BY DEF Run
  <2> DEFINE m == Moved(e, n, j)
  <2>2. m \in (i + 1) .. Len(g)
    BY <1>0, <2>1 DEF Moved
  <2>3. ASSUME NEW k \in (i + 1) .. m PROVE g[k] \in X
    <3>0. k \in Int
      BY <1>0, <2>2
    <3>1. CASE k <= e
      <4>1. k \in (i + 1) .. e
        BY <1>0, <3>0, <3>1
      <4> QED BY <4>1
    <3>2. CASE k > e /\ k <= e + n
      <4>1. k \in (e + 1) .. (e + n)
        BY <1>0, <3>0, <3>2
      <4> QED BY <4>1
    <3>3. CASE k > e + n
      <4>1. k - n \in (e + 1) .. Len(f) /\ k - n \in (i + 1) .. j
            /\ (k - n) + n = k
        BY <1>0, <2>1, <3>0, <3>3 DEF Moved
      <4>2. g[k] = f[k - n]
        BY <4>1
      <4> QED BY <2>1, <4>1, <4>2
    <3> QED BY <1>0, <3>0, <3>1, <3>2, <3>3
  <2> HIDE DEF m
  <2>4. m \in Run(g, i, X)
    BY <2>2, <2>3 DEF Run
  <2> QED BY <2>4 DEF m
<1>2. ASSUME NEW j \in (e + 1) .. (e + n) PROVE j \in Run(g, i, X)
  <2>1. j \in (i + 1) .. Len(g)
    BY <1>0
  <2>2. ASSUME NEW k \in (i + 1) .. j PROVE g[k] \in X
    <3>1. k \in (i + 1) .. e \/ k \in (e + 1) .. (e + n)
      BY <1>0
    <3> QED BY <3>1
  <2> QED BY <2>1, <2>2 DEF Run
<1>3. ASSUME NEW y \in Run(g, i, X), y \notin (e + 1) .. (e + n)
      PROVE  \E j \in Run(f, i, X) : y = Moved(e, n, j)
  <2>1. y \in (i + 1) .. Len(g) /\ \A k \in (i + 1) .. y : g[k] \in X
    BY DEF Run
  <2>2. CASE y <= e
    <3>1. y \in (i + 1) .. Len(f) /\ \A k \in (i + 1) .. y : k \in (i + 1) .. e
      BY <1>0, <2>1, <2>2
    <3>2. y \in Run(f, i, X)
      BY <3>1 DEF Run
    <3>3. y = Moved(e, n, y)
      BY <2>2 DEF Moved
    <3> QED BY <3>2, <3>3
  <2>3. CASE y > e
    <3>1. y > e + n
      BY <1>0, <1>3, <2>1, <2>3
    <3>2. y - n \in (i + 1) .. Len(f) /\ y - n > e /\ (y - n) + n = y
      BY <1>0, <2>1, <3>1
    <3>3. ASSUME NEW k \in (i + 1) .. (y - n) PROVE f[k] \in X
      <4>1. CASE k <= e
        <5>1. k \in (i + 1) .. e
          BY <1>0, <4>1
        <5> QED BY <5>1
      <4>2. CASE k > e
        <5>1. k \in (e + 1) .. Len(f) /\ k + n \in (i + 1) .. y
          BY <1>0, <2>1, <3>2, <4>2
        <5> QED BY <2>1, <5>1
      <4> QED BY <1>0, <3>2, <4>1, <4>2
    <3>4. y - n \in Run(f, i, X)
      BY <3>2, <3>3 DEF Run
    <3>5. y = Moved(e, n, y - n)
      BY <1>0, <2>1, <3>2 DEF Moved
    <3> QED BY <3>4, <3>5
  <2>4. y \in Int /\ e \in Int
    BY <1>0, <2>1
  <2>5. y <= e \/ y > e
    BY <2>4
  <2> QED BY <2>2, <2>3, <2>5
<1> QED BY <1>1, <1>2, <1>3 DEF Gains

LimitKeys == {"resources", "limits", "memory"}

\* g is f with n lines of a limit inserted after line e; settings up to there
\* may have another value.
Grown(f, g, e, n) ==
    /\ g \in Seq(Lines) /\ Len(g) = Len(f) + n
    /\ \A j \in 1..e :
        /\ SameShape(f[j], g[j])
        /\ f[j].key \notin Settings => g[j] = f[j]
    /\ \A j \in (e + 1)..(e + n) : ~g[j].dash /\ g[j].key \in LimitKeys
    /\ \A j \in (e + 1)..Len(f) : g[j + n] = f[j]

\* An entry grows by lines that are indented further than its dash.
LEMMA ItemGrows ==
    ASSUME NEW f \in Seq(Lines), NEW g, NEW e \in DOMAIN f, NEW n \in Nat,
           Grown(f, g, e, n), NEW o \in DOMAIN f, e \in Item(f, o),
           \A j \in (e + 1) .. (e + n) : g[j].indent > f[o].indent
    PROVE  Gains(Item(f, o), Item(g, o), e, n)
<1>0. Len(f) \in Nat /\ DOMAIN f = 1 .. Len(f) /\ e \in 1 .. Len(f)
      /\ g \in Seq(Lines) /\ Len(g) = Len(f) + n /\ DOMAIN g = 1 .. Len(g)
  BY DEF Grown
<1> DEFINE X == {l \in Lines : l.indent > f[o].indent}
<1>1. o <= e /\ o \in 1 .. e
      /\ \A k \in o .. e : k # o => f[k].indent > f[o].indent
  <2>1. o <= e /\ \A k \in o .. e : k \in DOMAIN f /\ k \in Item(f, o)
    BY ItemInFile
  <2> QED BY <1>0, <2>1, ItemInFile
<1>2. /\ \A j \in 1 .. Len(f) : f[j] \in Lines
      /\ \A j \in 1 .. Len(g) : g[j] \in Lines
  BY <1>0
<1>3. \A j \in (o + 1) .. e : f[j] \in X /\ g[j] \in X
  <2>1. ASSUME NEW j \in (o + 1) .. e PROVE f[j] \in X /\ g[j] \in X
    <3>1. j \in o .. e /\ j # o /\ j \in 1 .. e /\ j \in 1 .. Len(f)
          /\ j \in 1 .. Len(g)
      BY <1>0, <1>1
    <3>2. f[j].indent > f[o].indent /\ g[j].indent = f[j].indent
      BY <1>1, <3>1 DEF Grown, SameShape
    <3> QED BY <1>2, <3>1, <3>2
  <2> QED BY <2>1
<1>4. \A j \in (e + 1) .. (e + n) : g[j] \in X
  <2>1. \A j \in (e + 1) .. (e + n) : j \in 1 .. Len(g)
    BY <1>0
  <2> QED BY <1>2, <2>1
<1>5. \A j \in (e + 1) .. Len(f) : g[j + n] = f[j]
  BY DEF Grown
<1>6. g[o].indent = f[o].indent
  BY <1>1 DEF Grown, SameShape
<1>7. Item(f, o) = {o} \cup Run(f, o, X)
  <2>1. \A k \in (o + 1) .. Len(f) : f[k] \in X <=> f[k].indent > f[o].indent
    BY <1>0, <1>1, <1>2
  <2>2. \A j \in (o + 1) .. Len(f) : \A k \in (o + 1) .. j :
            k \in (o + 1) .. Len(f)
    BY <1>0, <1>1
  <2> HIDE DEF X
  <2> QED BY <2>1, <2>2 DEF Item, Run
<1>8. Item(g, o) = {o} \cup Run(g, o, X)
  <2>1. \A k \in (o + 1) .. Len(g) : g[k] \in X <=> g[k].indent > g[o].indent
    BY <1>0, <1>1, <1>2, <1>6
  <2>2. \A j \in (o + 1) .. Len(g) : \A k \in (o + 1) .. j :
            k \in (o + 1) .. Len(g)
    BY <1>0, <1>1
  <2> HIDE DEF X
  <2> QED BY <2>1, <2>2 DEF Item, Run
<1> HIDE DEF X
<1>9. Gains(Run(f, o, X), Run(g, o, X), e, n)
  <2>1. o \in 1 .. e
    BY <1>1
  <2>2. g \in Seq(Lines) /\ Len(g) = Len(f) + n
    BY <1>0
  <2> QED BY <2>1, <2>2, <1>3, <1>4, <1>5, RunGrows, Zenon
<1>10. Moved(e, n, o) = o
  BY <1>1 DEF Moved
<1> QED BY <1>7, <1>8, <1>9, <1>10 DEF Gains

\* A block grows by lines that are indented further than its head.
LEMMA BlockGrows ==
    ASSUME NEW f \in Seq(Lines), NEW g, NEW e \in DOMAIN f, NEW n \in Nat,
           Grown(f, g, e, n), NEW r \in DOMAIN f, e = r \/ e \in Block(f, r),
           \A j \in (e + 1) .. (e + n) : g[j].indent > Column(f[r])
    PROVE  Gains(Block(f, r), Block(g, r), e, n)
<1>0. Len(f) \in Nat /\ DOMAIN f = 1 .. Len(f) /\ e \in 1 .. Len(f)
      /\ g \in Seq(Lines) /\ Len(g) = Len(f) + n /\ DOMAIN g = 1 .. Len(g)
  BY DEF Grown
<1> DEFINE C == Column(f[r])
           X == {l \in Lines : l.indent > C \/ (l.dash /\ l.indent = C)}
<1>1. /\ r \in 1 .. e
      /\ \A k \in (r + 1) .. e : k \in Block(f, r)
      /\ \A k \in Block(f, r) : /\ k \in (r + 1) .. Len(f)
                                /\ \/ f[k].indent > C
                                   \/ f[k].dash /\ f[k].indent = C
  <2>1. \A k \in Block(f, r) : /\ k \in (r + 1) .. Len(f)
                               /\ \/ f[k].indent > C
                                  \/ f[k].dash /\ f[k].indent = C
    <3>1. ASSUME NEW k \in Block(f, r) PROVE k \in (r + 1) .. k
      BY <1>0 DEF Block
    <3> QED BY <3>1 DEF Block
  <2>2. e \in Block(f, r) => \A k \in (r + 1) .. e : k \in Block(f, r)
    BY BlockInFile
  <2> QED BY <1>0, <2>1, <2>2
<1>2. /\ \A j \in 1 .. Len(f) : f[j] \in Lines
      /\ \A j \in 1 .. Len(g) : g[j] \in Lines
  BY <1>0
<1>3. \A j \in (r + 1) .. e : f[j] \in X /\ g[j] \in X
  <2>1. ASSUME NEW j \in (r + 1) .. e PROVE f[j] \in X /\ g[j] \in X
    <3>1. j \in 1 .. e /\ j \in 1 .. Len(f) /\ j \in 1 .. Len(g)
      BY <1>0, <1>1
    <3>2. SameShape(f[j], g[j]) /\ j \in Block(f, r)
      BY <1>1, <3>1 DEF Grown
    <3>3. f[j].indent > C \/ (f[j].dash /\ f[j].indent = C)
      BY <1>1, <3>2
    <3>4. g[j].indent > C \/ (g[j].dash /\ g[j].indent = C)
      BY <3>2, <3>3 DEF SameShape
    <3> HIDE DEF C
    <3> QED BY <1>2, <3>1, <3>3, <3>4
  <2> QED BY <2>1
<1>4. \A j \in (e + 1) .. (e + n) : g[j] \in X
  <2>1. \A j \in (e + 1) .. (e + n) : j \in 1 .. Len(g)
    BY <1>0
  <2> QED BY <1>2, <2>1
<1>5. \A j \in (e + 1) .. Len(f) : g[j + n] = f[j]
  BY DEF Grown
<1>6. Column(g[r]) = C
  BY <1>1 DEF Grown, SameShape, Column
<1>7. Block(f, r) = Run(f, r, X)
  <2>1. \A k \in (r + 1) .. Len(f) :
            f[k] \in X <=> \/ f[k].indent > Column(f[r])
                           \/ f[k].dash /\ f[k].indent = Column(f[r])
    BY <1>0, <1>1, <1>2
  <2>2. \A j \in (r + 1) .. Len(f) : \A k \in (r + 1) .. j :
            k \in (r + 1) .. Len(f)
    BY <1>0, <1>1
  <2> HIDE DEF X, C
  <2> QED BY <2>1, <2>2 DEF Block, Run
<1>8. Block(g, r) = Run(g, r, X)
  <2>1. \A k \in (r + 1) .. Len(g) :
            g[k] \in X <=> \/ g[k].indent > Column(g[r])
                           \/ g[k].dash /\ g[k].indent = Column(g[r])
    <3> HIDE DEF C
    <3> QED BY <1>0, <1>1, <1>2, <1>6
  <2>2. \A j \in (r + 1) .. Len(g) : \A k \in (r + 1) .. j :
            k \in (r + 1) .. Len(g)
    BY <1>0, <1>1
  <2> HIDE DEF X, C
  <2> QED BY <2>1, <2>2 DEF Block, Run
<1> HIDE DEF X, C
<1>9. Gains(Run(f, r, X), Run(g, r, X), e, n)
  <2>1. r \in 1 .. e
    BY <1>1
  <2>2. g \in Seq(Lines) /\ Len(g) = Len(f) + n
    BY <1>0
  <2> QED BY <2>1, <2>2, <1>3, <1>4, <1>5, RunGrows, Zenon
<1> QED BY <1>7, <1>8, <1>9

\* Where the lines of f are in g.
Carried(f, g, e, n) ==
    /\ \A j \in DOMAIN f :
        /\ Moved(e, n, j) \in DOMAIN g
        /\ Moved(e, n, j) \notin (e + 1)..(e + n)
        /\ SameShape(f[j], g[Moved(e, n, j)])
        /\ f[j].key \notin Settings => g[Moved(e, n, j)] = f[j]
    /\ \A i \in DOMAIN g :
        \/ i \in (e + 1)..(e + n)
        \/ \E j \in DOMAIN f : i = Moved(e, n, j)
    /\ \A i, j \in DOMAIN f : i < j <=> Moved(e, n, i) < Moved(e, n, j)

\* Every other line is still there, in its order.
LEMMA MovedLines ==
    ASSUME NEW f \in Seq(Lines), NEW e \in DOMAIN f, NEW n \in Nat, NEW g,
           Grown(f, g, e, n)
    PROVE  Carried(f, g, e, n)
<1>0. Len(f) \in Nat /\ DOMAIN f = 1 .. Len(f) /\ e \in 1 .. Len(f)
      /\ g \in Seq(Lines) /\ Len(g) = Len(f) + n /\ DOMAIN g = 1 .. Len(g)
  BY DEF Grown
<1>1. ASSUME NEW j \in DOMAIN f
      PROVE  /\ Moved(e, n, j) \in DOMAIN g
             /\ Moved(e, n, j) \notin (e + 1) .. (e + n)
             /\ SameShape(f[j], g[Moved(e, n, j)])
             /\ f[j].key \notin Settings => g[Moved(e, n, j)] = f[j]
  <2>1. /\ Moved(e, n, j) \in DOMAIN g
        /\ Moved(e, n, j) \notin (e + 1) .. (e + n)
    BY <1>0 DEF Moved
  <2>2. CASE j <= e
    <3>1. j \in 1 .. e /\ Moved(e, n, j) = j
      BY <1>0, <2>2 DEF Moved
    <3> QED BY <2>1, <3>1 DEF Grown
  <2>3. CASE ~(j <= e)
    <3>1. j \in (e + 1) .. Len(f) /\ Moved(e, n, j) = j + n
      BY <1>0, <2>3 DEF Moved
    <3>2. g[Moved(e, n, j)] = f[j]
      BY <3>1 DEF Grown
    <3> QED BY <2>1, <3>2 DEF SameShape
  <2> QED BY <2>2, <2>3
<1>2. ASSUME NEW i \in DOMAIN g, i \notin (e + 1) .. (e + n)
      PROVE  \E j \in DOMAIN f : i = Moved(e, n, j)
  <2>1. CASE i <= e
    <3>1. i \in DOMAIN f /\ i = Moved(e, n, i)
      BY <1>0, <2>1 DEF Moved
    <3> QED BY <3>1
  <2>2. CASE ~(i <= e)
    <3>1. i - n \in DOMAIN f /\ i = Moved(e, n, i - n)
      BY <1>0, <1>2, <2>2 DEF Moved
    <3> QED BY <3>1
  <2> QED BY <2>1, <2>2
<1>3. \A i, j \in DOMAIN f : i < j <=> Moved(e, n, i) < Moved(e, n, j)
  BY <1>0 DEF Moved
<1> QED BY <1>1, <1>2, <1>3 DEF Carried

\* A plain file stays plain.
LEMMA PlainGrows ==
    ASSUME NEW f \in Seq(Lines), NEW e \in DOMAIN f, NEW n \in Nat, NEW g,
           Grown(f, g, e, n), NEW c, Plain(f, c)
    PROVE  Plain(g, c)
<1> DEFINE new == (e + 1) .. (e + n)
           M(j) == Moved(e, n, j)
<1>0. Len(f) \in Nat /\ DOMAIN f = 1 .. Len(f) /\ e \in 1 .. Len(f)
  OBVIOUS
<1>1. /\ g \in Seq(Lines) /\ Len(g) = Len(f) + n
      /\ \A j \in DOMAIN f : /\ M(j) \in DOMAIN g /\ M(j) \notin new
                             /\ SameShape(f[j], g[M(j)])
                             /\ f[j].key \notin Settings => g[M(j)] = f[j]
      /\ \A i \in DOMAIN g : i \in new \/ \E j \in DOMAIN f : i = M(j)
      /\ \A i, j \in DOMAIN f : i < j <=> M(i) < M(j)
  <2>1. Carried(f, g, e, n)
    BY MovedLines
  <2> QED BY <2>1 DEF Carried, Grown
<1>2. \A i \in new : ~g[i].dash /\ g[i].key # "name"
  BY DEF Grown, LimitKeys
<1>3. "name" \notin Settings
  BY DEF Settings
<1> HIDE DEF new, M
<1>4. ASSUME NEW i \in DOMAIN g, g[i].dash
      PROVE  \E j \in DOMAIN f : /\ i = M(j) /\ f[j].dash /\ f[j].key = "name"
                                 /\ g[i] = f[j]
  <2>1. PICK j \in DOMAIN f : i = M(j)
    BY <1>1, <1>2, <1>4
  <2>2. SameShape(f[j], g[i])
    BY <1>1, <2>1
  <2>3. f[j].dash
    BY <1>4, <2>2 DEF SameShape
  <2>4. f[j].key = "name"
    BY <2>3 DEF Plain
  <2>5. g[i] = f[j]
    BY <1>1, <1>3, <2>1, <2>4
  <2> QED BY <2>1, <2>3, <2>4, <2>5
<1>5. ASSUME NEW i \in DOMAIN g, g[i].dash, NEW y \in Item(g, i) \ {i},
             g[y].key = "name", Column(g[y]) = g[i].indent + 2
      PROVE  FALSE
  <2>1. PICK j \in DOMAIN f : /\ i = M(j) /\ f[j].dash /\ g[i] = f[j]
    BY <1>4, <1>5
  <2>2. y \in DOMAIN g /\ i < y
        /\ \A k \in i .. y : k # i => g[k].indent > g[i].indent
    <3>1. y \in DOMAIN g /\ i <= y /\ \A k \in i .. y :
            k \in DOMAIN g /\ k \in Item(g, i)
      BY <1>1, ItemInFile
    <3>2. i < y
      BY <1>0, <1>1, <3>1
    <3> QED BY <1>1, <3>1, <3>2, ItemInFile
  <2>3. PICK k \in DOMAIN f : y = M(k)
    BY <1>1, <1>2, <1>5, <2>2
  <2>4. SameShape(f[k], g[y])
    BY <1>1, <2>3
  <2>5. f[k].key = "name" /\ Column(f[k]) = f[j].indent + 2
    BY <1>5, <2>1, <2>4 DEF SameShape, Column
  <2>6. j < k
    BY <1>1, <2>1, <2>2, <2>3
  <2>7. ASSUME NEW x \in (j + 1) .. k PROVE f[x].indent > f[j].indent
    <3>1. x \in DOMAIN f /\ j < x /\ (x < k \/ x = k)
      BY <1>0, <2>6
    <3>2. M(j) < M(x) /\ (M(x) < M(k) \/ M(x) = M(k)) /\ M(x) \in DOMAIN g
      BY <1>1, <3>1
    <3>3. M(x) \in i .. y /\ M(x) # i
      BY <1>0, <1>1, <2>1, <2>2, <2>3, <3>2
    <3>4. g[M(x)].indent > g[i].indent
      BY <2>2, <3>3
    <3>5. g[M(x)].indent = f[x].indent
      BY <1>1, <3>1 DEF SameShape
    <3> QED BY <2>1, <3>4, <3>5
  <2>8. k \in Item(f, j) \ {j}
    <3>1. k \in (j + 1) .. Len(f)
      BY <1>0, <2>6
    <3> QED BY <1>0, <2>6, <2>7, <3>1 DEF Item
  <2> QED BY <2>1, <2>5, <2>8 DEF Plain
<1>6. ASSUME NEW i \in DOMAIN g, NEW j \in DOMAIN g, g[i].dash, g[j].dash,
             g[i].value = c, g[j].value = c
      PROVE  i = j
  <2>1. PICK x \in DOMAIN f : i = M(x) /\ f[x].dash /\ g[i] = f[x]
    BY <1>4, <1>6
  <2>2. PICK y \in DOMAIN f : j = M(y) /\ f[y].dash /\ g[j] = f[y]
    BY <1>4, <1>6
  <2>3. x = y
    BY <1>6, <2>1, <2>2 DEF Plain
  <2> QED BY <2>1, <2>2, <2>3
<1>7. \A i \in DOMAIN g : g[i].dash => g[i].key = "name"
  BY <1>4
<1> QED BY <1>5, <1>6, <1>7 DEF Plain

\* The entry of the container stays where it is.
LEMMA EntryGrows ==
    ASSUME NEW f \in Seq(Lines), NEW e \in DOMAIN f, NEW n \in Nat, NEW g,
           Grown(f, g, e, n), NEW c, Plain(f, c),
           Entry(f, "containers", c) # {},
           NEW o \in DOMAIN f, o <= e, f[o].dash, f[o].value = c
    PROVE  Entry(g, "containers", c) = Item(g, o)
<1>0. Len(f) \in Nat /\ DOMAIN f = 1 .. Len(f) /\ e \in 1 .. Len(f)
      /\ o \in 1 .. e
  OBVIOUS
<1>1. /\ g \in Seq(Lines) /\ Len(g) = Len(f) + n
      /\ \A j \in 1 .. e : /\ SameShape(f[j], g[j])
                           /\ f[j].key \notin Settings => g[j] = f[j]
  BY DEF Grown
<1>2. Plain(g, c)
  BY PlainGrows
<1>3. "name" \notin Settings /\ "containers" \notin Settings
  BY DEF Settings
<1>4. f[o].key = "name" /\ g[o] = f[o]
  <2>1. f[o].key = "name"
    BY DEF Plain
  <2> QED BY <1>0, <1>1, <1>3, <2>1
<1>5. PICK h \in Items(f, "containers") : Named(f, h, c)
  BY DEF Entry
<1>6. h = o
  <2>1. h \in DOMAIN f /\ f[h].dash /\ f[h].key = "name"
    BY <1>5 DEF Items, Plain
  <2>2. PICK j \in Item(f, h) : /\ f[j].key = "name" /\ f[j].value = c
                                /\ Column(f[j]) = f[h].indent + 2
    BY <1>5 DEF Named
  <2>3. j = h
    BY <2>1, <2>2 DEF Plain
  <2> QED BY <2>1, <2>2, <2>3 DEF Plain
<1>7. PICK k \in DOMAIN f :
        /\ f[k].key = "containers" /\ Blank(f[k]) /\ o \in Block(f, k)
        /\ f[o].indent = f[k + 1].indent
  BY <1>5, <1>6 DEF Items, Blank
<1>8. k < o /\ k + 1 <= o /\ k \in 1 .. e /\ k + 1 \in 1 .. e
  BY <1>0, <1>7, BlockInFile
<1>9. g[k] = f[k] /\ g[k + 1].indent = f[k + 1].indent
  BY <1>1, <1>3, <1>7, <1>8 DEF SameShape
<1>10. o \in Block(g, k)
  <2>1. \A x \in (k + 1) .. o : /\ x \in 1 .. e /\ x \in DOMAIN f
                                /\ x \in Block(f, k)
    BY <1>0, <1>7, <1>8, BlockInFile
  <2>2. ASSUME NEW x \in (k + 1) .. o
        PROVE  \/ g[x].indent > Column(g[k])
               \/ g[x].dash /\ g[x].indent = Column(g[k])
    <3>1. x \in (k + 1) .. x
      BY <1>0, <1>8
    <3>2. \/ f[x].indent > Column(f[k])
          \/ f[x].dash /\ f[x].indent = Column(f[k])
      BY <2>1, <3>1 DEF Block
    <3> QED BY <1>1, <1>9, <2>1, <3>2 DEF SameShape
  <2>3. o \in (k + 1) .. Len(g)
    BY <1>0, <1>1, <1>8
  <2> QED BY <2>2, <2>3 DEF Block
<1>11. o \in DOMAIN g /\ k \in DOMAIN g
  BY <1>0, <1>1, <1>8
<1>12. o \in Items(g, "containers")
  <2>1. /\ g[k].key = "containers" /\ Blank(g[k])
        /\ g[o].indent = g[k + 1].indent /\ g[o].dash
    BY <1>4, <1>7, <1>9
  <2> QED BY <1>10, <1>11, <2>1 DEF Items, Blank
<1>13. Named(g, o, c)
  <2>1. o \in Item(g, o)
    BY DEF Item
  <2>2. Column(g[o]) = g[o].indent + 2
    BY <1>4 DEF Column
  <2> QED BY <1>4, <2>1, <2>2 DEF Named
<1>14. Entry(g, "containers", c) # {}
  <2>1. o \in Item(g, o)
    BY DEF Item
  <2> QED BY <1>12, <1>13, <2>1 DEF Entry
<1>15. PICK p \in DOMAIN g :
        /\ Entry(g, "containers", c) = Item(g, p)
        /\ \A j \in DOMAIN g : g[j].dash /\ g[j].value = c => j = p
  <2>1. g \in Seq(Lines)
    BY <1>1
  <2> QED BY <2>1, <1>2, <1>14, PlainEntry
<1>16. o = p
  BY <1>4, <1>11, <1>15
<1> QED BY <1>15, <1>16

(***************************************************************************)
(* What is known of the container before the edit.                         *)
(***************************************************************************)

\* Container c is the entry that starts at line o.
Framed(f, c, o) ==
    /\ Plain(f, c) /\ OwnResources(f, c)
    /\ o \in DOMAIN f
    /\ f[o].dash /\ f[o].key = "name" /\ f[o].value = c
    /\ Entry(f, "containers", c) = Item(f, o)
    /\ \A j \in DOMAIN f : f[j].dash /\ f[j].value = c => j = o

\* A container with resources of its own has one entry, under its name.
LEMMA FramedExists ==
    ASSUME NEW f \in Seq(Lines), NEW c, Plain(f, c), OwnResources(f, c)
    PROVE  \E o \in DOMAIN f : Framed(f, c, o)
<1>1. Entry(f, "containers", c) # {}
  BY DEF OwnResources
<1>2. PICK o \in DOMAIN f :
        /\ f[o].dash /\ f[o].key = "name" /\ f[o].value = c
        /\ Entry(f, "containers", c) = Item(f, o)
        /\ \A j \in DOMAIN f : f[j].dash /\ f[j].value = c => j = o
  BY <1>1, PlainEntry
<1> QED BY <1>2 DEF Framed

\* OwnResources, of the entry at line o.
OneEach(f, o) ==
    /\ \A i, j \in Item(f, o) :
        f[i].key = "resources" /\ f[j].key = "resources" => i = j
    /\ \A i, j \in Item(f, o) :
        f[i].key = "limits" /\ f[j].key = "limits" => i = j

BlockOfResources(f, o) ==
    \A i \in Item(f, o) : f[i].key = "resources" =>
        /\ Blank(f[i]) \/ f[i].value = "{}"
        /\ \A j \in Block(f, i) : ~f[j].dash
        /\ i + 1 \in Block(f, i) => f[i + 1].indent = f[i].indent + 2

BlockOfLimits(f, o) ==
    \A i \in Item(f, o) : f[i].key = "limits" =>
        /\ Blank(f[i])
        /\ \E r \in Item(f, o) : f[r].key = "resources" /\ i \in Block(f, r)
        /\ \A j \in Block(f, i) : f[j].indent = f[i].indent + 2
        /\ \A j, k \in Block(f, i) :
            f[j].key = "memory" /\ f[k].key = "memory" => j = k

OthersLater(f, o) ==
    \A i \in DOMAIN f \ Item(f, o) :
        o < i /\ f[i].key \in {"resources", "limits"} =>
            \E j \in DOMAIN f \ Item(f, o) : f[j].dash /\ o < j /\ j <= i

\* What OwnResources says, for the lines of the entry.
LEMMA OwnParts ==
    ASSUME NEW f \in Seq(Lines), NEW c, NEW o, Framed(f, c, o)
    PROVE  /\ OneEach(f, o) /\ BlockOfResources(f, o)
           /\ BlockOfLimits(f, o) /\ OthersLater(f, o)
<1> DEFINE entry == Entry(f, "containers", c)
           known == Resources(f, c)
           limits == {i \in entry : f[i].key = "limits"}
<1>1. OwnResources(f, c) /\ entry = Item(f, o)
  BY DEF Framed
<1>2. /\ \A i, j \in known : i = j
      /\ \A i, j \in limits : i = j
  BY <1>1 DEF OwnResources
<1>3. \A i \in known :
        /\ f[i].value \in {"", "{}"}
        /\ \A j \in Block(f, i) : ~f[j].dash
        /\ i + 1 \in Block(f, i) => f[i + 1].indent = f[i].indent + 2
  BY <1>1, Zenon DEF OwnResources
<1>4. \A i \in limits :
        /\ f[i].value = ""
        /\ \E r \in known : i \in Block(f, r)
        /\ \A j \in Block(f, i) : f[j].indent = f[i].indent + 2
        /\ \A j, k \in Block(f, i) :
            f[j].key = "memory" /\ f[k].key = "memory" => j = k
  BY <1>1, Zenon DEF OwnResources
<1>5. \A h \in entry, i \in DOMAIN f \ entry :
        h < i /\ f[i].key \in {"resources", "limits"} =>
            \E j \in DOMAIN f \ entry : f[j].dash /\ h < j /\ j <= i
  BY <1>1 DEF OwnResources
<1>6. \A i : i \in known <=> i \in Item(f, o) /\ f[i].key = "resources"
  BY <1>1 DEF Resources
<1>7. \A i : i \in limits <=> i \in Item(f, o) /\ f[i].key = "limits"
  BY <1>1
<1>8. o \in Item(f, o)
  BY DEF Item
<1>9. \A i \in known : Blank(f[i]) \/ f[i].value = "{}"
  BY <1>3, Zenon DEF Blank
<1>10. \A i \in limits : Blank(f[i])
  BY <1>4, Zenon DEF Blank
<1>11. \A i \in limits :
        /\ \E r \in known : i \in Block(f, r)
        /\ \A j \in Block(f, i) : f[j].indent = f[i].indent + 2
        /\ \A j, k \in Block(f, i) :
            f[j].key = "memory" /\ f[k].key = "memory" => j = k
  BY <1>4, Zenon
<1>12. \A i \in known :
        /\ \A j \in Block(f, i) : ~f[j].dash
        /\ i + 1 \in Block(f, i) => f[i + 1].indent = f[i].indent + 2
  BY <1>3, Zenon
<1> HIDE DEF known, limits
<1>13. OneEach(f, o)
  BY <1>2, <1>6, <1>7 DEF OneEach
<1>14. BlockOfResources(f, o)
  BY <1>6, <1>9, <1>12 DEF BlockOfResources
<1>15. BlockOfLimits(f, o)
  <2>1. ASSUME NEW i \in Item(f, o), f[i].key = "limits"
        PROVE  \E r \in Item(f, o) :
                    f[r].key = "resources" /\ i \in Block(f, r)
    BY <1>6, <1>7, <1>11, <2>1
  <2> QED BY <1>7, <1>10, <1>11, <2>1 DEF BlockOfLimits
<1>16. OthersLater(f, o)
  BY <1>1, <1>5, <1>8 DEF OthersLater
<1> QED BY <1>13, <1>14, <1>15, <1>16

\* The lines of the container's limit.
LEMMA LimitIs ==
    ASSUME NEW f, NEW c, NEW r \in Entry(f, "containers", c),
           NEW L \in Block(f, r),
           \A i \in Entry(f, "containers", c) :
                f[i].key = "resources" <=> i = r,
           \A i \in Block(f, r) : f[i].key = "limits" <=> i = L
    PROVE  /\ Memory(f, c) = {j \in Block(f, L) : f[j].key = "memory"}
           /\ Limit(f, c) = {r, L} \cup Memory(f, c)
<1>1. Resources(f, c) = {r}
  BY DEF Resources
<1>2. Below(f, {r}, "limits") = {L}
  BY DEF Below
<1>3. Below(f, {L}, "memory") = {j \in Block(f, L) : f[j].key = "memory"}
  BY DEF Below
<1>4. Memory(f, c) = Below(f, {L}, "memory")
  BY <1>1, <1>2 DEF Memory
<1>5. Limit(f, c) = {r} \cup {L} \cup Memory(f, c)
  BY <1>1, <1>2 DEF Limit
<1> QED BY <1>3, <1>4, <1>5

\* Resources without limits: only they lead to a limit.
LEMMA NoLimitIs ==
    ASSUME NEW f, NEW c, NEW r \in Entry(f, "containers", c),
           \A i \in Entry(f, "containers", c) :
                f[i].key = "resources" <=> i = r,
           \A i \in Block(f, r) : f[i].key # "limits"
    PROVE  Limit(f, c) = {r}
<1>1. Resources(f, c) = {r}
  BY DEF Resources
<1>2. Below(f, {r}, "limits") = {}
  BY DEF Below
<1>3. Below(f, {}, "memory") = {}
  BY DEF Below
<1>4. Memory(f, c) = {}
  BY <1>1, <1>2, <1>3 DEF Memory
<1> QED BY <1>1, <1>2, <1>4 DEF Limit

\* Without resources nothing leads to a limit.
LEMMA NoResourcesIs ==
    ASSUME NEW f, NEW c,
           \A i \in Entry(f, "containers", c) : f[i].key # "resources"
    PROVE  Limit(f, c) = {}
<1>1. Resources(f, c) = {}
  BY DEF Resources
<1>2. Below(f, {}, "limits") = {} /\ Below(f, {}, "memory") = {}
  BY DEF Below
<1> QED BY <1>1, <1>2 DEF Limit, Memory

(***************************************************************************)
(* The lines that are searched: from the container's name to the next      *)
(* entry, of whatever list.                                                *)
(***************************************************************************)
LEMMA RegionIs ==
    ASSUME NEW f \in Seq(Lines), NEW c, NEW o, Framed(f, c, o), ~Unnamed(c)
    PROVE  \E x \in (o + 1) .. (Len(f) + 1) :
            /\ Region(f, c) = o .. (x - 1)
            /\ \A k \in (o + 1) .. (x - 1) : ~f[k].dash
            /\ x \in DOMAIN f => f[x].dash
<1> DEFINE own == Where(f, LAMBDA l : StartsEntry(l) /\ l.value = c)
           next == {j \in Where(f, StartsEntry) :
                        f[j].value # c /\ \E i \in own : i < j}
           end == IF next = {} THEN Len(f) ELSE Min(next) - 1
<1>0. Len(f) \in Nat /\ DOMAIN f = 1 .. Len(f) /\ o \in 1 .. Len(f)
  BY DEF Framed
<1>1. /\ f[o].dash /\ f[o].key = "name" /\ f[o].value = c
      /\ \A j \in DOMAIN f : f[j].dash /\ f[j].value = c => j = o
      /\ \A j \in DOMAIN f : f[j].dash => f[j].key = "name"
  BY DEF Framed, Plain
<1>2. own = {o}
  BY <1>0, <1>1 DEF Where, StartsEntry
<1>3. \A j : j \in next <=> j \in DOMAIN f /\ f[j].dash /\ o < j
  <2>1. \A j : j \in next <=>
            /\ j \in DOMAIN f /\ StartsEntry(f[j]) /\ f[j].value # c
            /\ \E i \in own : i < j
    BY DEF Where
  <2> HIDE DEF next, own
  <2>2. \A j : j \in next <=>
            j \in DOMAIN f /\ StartsEntry(f[j]) /\ f[j].value # c /\ o < j
    BY <1>2, <2>1
  <2>3. \A j \in DOMAIN f : StartsEntry(f[j]) <=> f[j].dash
    BY <1>1 DEF StartsEntry
  <2>4. \A j \in DOMAIN f : f[j].dash /\ o < j => f[j].value # c
    BY <1>0, <1>1
  <2> QED BY <2>2, <2>3, <2>4
<1>4. Region(f, c) = Max({i \in own : i <= end})..end
  <2>1. c # "" /\ own # {}
    BY <1>2, Zenon DEF Unnamed
  <2> QED BY <2>1 DEF Region
<1> HIDE DEF own, next
<1>5. next # {} => Min(next) \in next /\ \A y \in next : Min(next) <= y
  <2>1. next \subseteq Nat
    BY <1>0, <1>3
  <2> QED BY <2>1, MinIsFirst
<1> DEFINE x == end + 1
<1>6. x \in (o + 1) .. (Len(f) + 1) /\ end = x - 1 /\ o <= end
  BY <1>0, <1>3, <1>5
<1>7. \A k \in (o + 1) .. (x - 1) : ~f[k].dash
  BY <1>0, <1>3, <1>5
<1>8. x \in DOMAIN f => f[x].dash
  <2>1. CASE next = {}
    BY <1>0, <2>1
  <2>2. CASE next # {}
    <3>1. x = Min(next)
      BY <1>0, <1>3, <1>5, <2>2
    <3> QED BY <1>3, <1>5, <2>2, <3>1
  <2> QED BY <2>1, <2>2
<1> HIDE DEF end
<1>9. Max({i \in own : i <= end}) = o
  <2>1. {i \in own : i <= end} = {o}
    BY <1>2, <1>6
  <2>2. Max({o}) \in {o}
    <3>1. {o} \subseteq DOMAIN f /\ {o} # {}
      BY <1>0
    <3> QED BY <3>1, MaxOfLines
  <2> QED BY <2>1, <2>2
<1>10. Region(f, c) = o .. (x - 1)
  BY <1>4, <1>6, <1>9
<1> QED BY <1>6, <1>7, <1>8, <1>10

\* The lines from the container's name to before line x are searched.
Searched(f, c, o, x) ==
    /\ x \in (o + 1)..(Len(f) + 1)
    /\ Region(f, c) = o..(x - 1)
    /\ \A k \in (o + 1)..(x - 1) : ~f[k].dash
    /\ x \in DOMAIN f => f[x].dash

\* What has resources or limits in these lines belongs to the container.
LEMMA RegionKeys ==
    ASSUME NEW f \in Seq(Lines), NEW c, NEW o, Framed(f, c, o),
           NEW x, Searched(f, c, o, x),
           NEW i \in o .. (x - 1),
           f[i].key = "resources" \/ f[i].key = "limits"
    PROVE  i \in DOMAIN f /\ i \in Item(f, o) /\ o < i /\ ~f[i].dash
<1>0. Len(f) \in Nat /\ DOMAIN f = 1 .. Len(f) /\ o \in 1 .. Len(f)
      /\ f[o].key = "name"
      /\ x \in (o + 1) .. (Len(f) + 1)
      /\ \A k \in (o + 1) .. (x - 1) : ~f[k].dash
  BY DEF Framed, Searched
<1>1. i \in DOMAIN f /\ i # o /\ o < i
  BY <1>0
<1>2. ~f[i].dash
  BY <1>0, <1>1
<1>3. i \in Item(f, o)
  <2>1. SUFFICES ASSUME i \notin Item(f, o) PROVE FALSE
    OBVIOUS
  <2>2. PICK j \in DOMAIN f : f[j].dash /\ o < j /\ j <= i
    BY <1>1, <2>1, OwnParts DEF OthersLater
  <2>3. j \in (o + 1) .. (x - 1)
    BY <1>0, <2>2
  <2> QED BY <1>0, <2>2, <2>3
<1> QED BY <1>1, <1>2, <1>3

\* A block without lists ends before the next entry.
LEMMA BlockInRegion ==
    ASSUME NEW f \in Seq(Lines), NEW x \in Nat, NEW r \in DOMAIN f, r < x,
           \A j \in Block(f, r) : ~f[j].dash, x \in DOMAIN f => f[x].dash
    PROVE  \A j \in Block(f, r) : j < x
<1>1. Len(f) \in Nat /\ DOMAIN f = 1 .. Len(f)
  OBVIOUS
<1>2. ASSUME NEW j \in Block(f, r), ~(j < x) PROVE FALSE
  <2>1. j \in DOMAIN f /\ \A k \in (r + 1) .. j : k \in DOMAIN f
                                             /\ k \in Block(f, r)
    BY BlockInFile
  <2>2. x \in (r + 1) .. j
    BY <1>1, <1>2, <2>1
  <2> QED BY <2>1, <2>2
<1> QED BY <1>2

\* The block of a key belongs to the blocks around it.
LEMMA InnerBlock ==
    ASSUME NEW f \in Seq(Lines), NEW r \in DOMAIN f, NEW L \in Block(f, r),
           ~f[L].dash
    PROVE  Block(f, L) \subseteq Block(f, r)
<1>0. Len(f) \in Nat /\ DOMAIN f = 1 .. Len(f)
  OBVIOUS
<1>1. L \in DOMAIN f /\ r < L
  BY BlockInFile
<1>2. f[L].indent > Column(f[r]) /\ Column(f[L]) = f[L].indent
  <2>1. L \in (r + 1) .. L
    BY <1>0, <1>1
  <2> QED BY <2>1 DEF Block, Column
<1>3. f[L].indent \in Nat /\ Column(f[r]) \in Nat
  BY <1>1, LinesTyped
<1>4. ASSUME NEW j \in Block(f, L) PROVE j \in Block(f, r)
  <2>1. j \in DOMAIN f /\ L < j
    BY <1>1, BlockInFile
  <2>2. ASSUME NEW k \in (r + 1) .. j
        PROVE  \/ f[k].indent > Column(f[r])
               \/ f[k].dash /\ f[k].indent = Column(f[r])
    <3>1. CASE k <= L
      <4>1. k \in (r + 1) .. L
        BY <1>0, <1>1, <3>1
      <4> QED BY <4>1 DEF Block
    <3>2. CASE ~(k <= L)
      <4>1. k \in (L + 1) .. j /\ k \in DOMAIN f
        BY <1>0, <1>1, <2>1, <3>2
      <4>2. f[k].indent > Column(f[L]) \/ f[k].indent = Column(f[L])
        BY <4>1 DEF Block
      <4>3. f[k].indent \in Nat
        BY <4>1, LinesTyped
      <4> QED BY <1>2, <1>3, <4>2, <4>3
    <3> QED BY <3>1, <3>2
  <2>3. j \in (r + 1) .. Len(f)
    BY <1>0, <1>1, <2>1
  <2> QED BY <2>2, <2>3 DEF Block
<1> QED BY <1>4

\* Heads, without the empty string.
LEMMA HeadsBlank ==
    ASSUME NEW l, NEW k
    PROVE  Heads(l, k) <=> ~l.dash /\ l.key = k /\ Blank(l)
BY Zenon DEF Heads, Blank

\* g is f with the memory line of the limits at line L updated, or with a new
\* one at the end of their block.
LimitFound(f, L, v, g) ==
    \E e \in DOMAIN f :
        \/ /\ e \in Block(f, L) /\ f[e].key = "memory"
           /\ g = [f EXCEPT ![e].value = v]
        \/ /\ e = L \/ e \in Block(f, L)
           /\ e + 1 \notin Block(f, L)
           /\ \A j \in Block(f, L) : f[j].key # "memory"
           /\ g = InsertAfter(f, e,
                    <<Line(f[L].indent + 2, FALSE, "memory", v)>>)

\* The search in the block of the limits.
LEMMA WithLimitsSearch ==
    ASSUME NEW f \in Seq(Lines), NEW o \in DOMAIN f,
           NEW x \in (o + 1) .. (Len(f) + 1),
           \A k \in (o + 1) .. (x - 1) : ~f[k].dash,
           NEW L \in (o + 1) .. (x - 1), NEW v,
           \A j \in Block(f, L) : j < x,
           x \notin Block(f, L),
           \A j, k \in Block(f, L) :
                f[j].key = "memory" /\ f[k].key = "memory" => j = k
    PROVE  LimitFound(f, L, v, WithLimits(f, o .. (x - 1), {L}, v))
<1> DEFINE R == o .. (x - 1)
           open(j) == Max({i \in {L} : i < j})
           leaves(j) == f[j].indent <= f[open(j)].indent
           stops == {j \in R \ {L} :
                        /\ \E i \in {L} : i < j
                        /\ leaves(j) \/ Field(f[j], "memory")}
           stop == Min(stops)
           memory(i) == <<Line(f[i].indent + 2, FALSE, "memory", v)>>
<1>0. Len(f) \in Nat /\ DOMAIN f = 1 .. Len(f) /\ o \in 1 .. Len(f)
      /\ L \in DOMAIN f /\ L \in Nat /\ x \in Nat
  OBVIOUS
<1>1. WithLimits(f, R, {L}, v) =
        IF stops = {} THEN InsertAfter(f, Max(R), memory(Max({L})))
        ELSE IF leaves(stop) THEN InsertAfter(f, stop - 1, memory(open(stop)))
        ELSE [f EXCEPT ![stop].value = v]
  BY DEF WithLimits
<1>2. Max({L}) = L
  BY <1>0, MinOfOne
<1>3. ASSUME NEW j, L < j PROVE open(j) = L
  <2>1. {i \in {L} : i < j} = {L}
    BY <1>3
  <2> QED BY <1>2, <2>1
<1> HIDE DEF open
<1>4. \A j : j \in stops <=>
        /\ j \in R /\ L < j
        /\ f[j].indent <= f[L].indent \/ Field(f[j], "memory")
  BY <1>0, <1>3
<1>5. stops # {} => stop \in stops /\ \A y \in stops : stop <= y
  <2>1. stops \subseteq Nat
    BY <1>0
  <2> HIDE DEF stops
  <2> QED BY <2>1, MinIsFirst
<1>6. \A j \in R : L < j => /\ j \in DOMAIN f /\ j \in (o + 1) .. (x - 1)
                            /\ ~f[j].dash
  BY <1>0
<1>7. ~f[L].dash /\ Column(f[L]) = f[L].indent /\ f[L].indent \in Nat
  BY <1>0, LinesTyped DEF Column
<1>8. ASSUME NEW j \in R, L < j,
             \A k \in (L + 1) .. j : ~(f[k].indent <= f[L].indent)
      PROVE  j \in Block(f, L)
  <2>1. \A k \in (L + 1) .. j : k \in DOMAIN f
    BY <1>0, <1>8
  <2>2. \A k \in (L + 1) .. j : f[k].indent > Column(f[L])
    BY <1>7, <1>8, <2>1, LinesTyped
  <2>3. j \in (L + 1) .. Len(f)
    BY <1>0, <1>8
  <2> QED BY <2>2, <2>3 DEF Block
<1>9. ASSUME NEW j \in Block(f, L)
      PROVE  /\ j \in R /\ L < j /\ j \in DOMAIN f
             /\ ~(f[j].indent <= f[L].indent)
  <2>1. j \in DOMAIN f /\ L < j /\ j < x
    BY <1>0, BlockInFile
  <2>2. j \in R
    BY <1>0, <2>1
  <2>3. ~f[j].dash /\ f[j].indent \in Nat
    BY <1>6, <2>1, <2>2, LinesTyped
  <2>4. j \in (L + 1) .. j
    BY <1>0, <2>1
  <2>5. f[j].indent > Column(f[L])
    BY <2>3, <2>4 DEF Block
  <2> QED BY <1>7, <2>1, <2>2, <2>3, <2>5
<1> HIDE DEF stops, stop, leaves
<1>10. CASE stops = {}
  <2> DEFINE e == x - 1
  <2>1. Max(R) = e
    <3>1. R \subseteq 0 .. Len(f) /\ R # {} /\ e \in R
      BY <1>0
    <3> HIDE DEF R, e
    <3>2. Max(R) \in R /\ \A y \in R : Max(R) >= y
      BY <1>0, <3>1, MaxIsLast
    <3>3. \A y \in R : y <= e /\ y \in Int
      BY <1>0 DEF R, e
    <3>4. /\ e \in Int /\ Max(R) \in Int
          /\ Max(R) <= e /\ Max(R) >= e
      BY <3>1, <3>2, <3>3
    <3> QED BY <3>4
  <2>2. e \in DOMAIN f /\ e \in R /\ L <= e /\ e + 1 = x
    BY <1>0
  <2>3. \A j \in R : L < j => /\ ~(f[j].indent <= f[L].indent)
                              /\ ~Field(f[j], "memory")
    BY <1>4, <1>10
  <2>4. ASSUME L < e PROVE e \in Block(f, L)
    <3>1. \A k \in (L + 1) .. e : k \in R /\ L < k
      BY <1>0
    <3> QED BY <1>8, <2>2, <2>3, <2>4, <3>1
  <2>5. \A j \in Block(f, L) : f[j].key # "memory"
    BY <1>6, <1>9, <2>3 DEF Field
  <2>6. WithLimits(f, R, {L}, v) = InsertAfter(f, e, memory(L))
    BY <1>1, <1>2, <1>10, <2>1
  <2>7. e = L \/ e \in Block(f, L)
    BY <1>0, <2>2, <2>4
  <2> QED BY <2>2, <2>5, <2>6, <2>7 DEF LimitFound
<1>11. CASE stops # {}
  <2>1. /\ stop \in R /\ L < stop /\ stop \in DOMAIN f
        /\ f[stop].indent <= f[L].indent \/ Field(f[stop], "memory")
        /\ \A y \in stops : stop <= y
    BY <1>4, <1>5, <1>6, <1>11
  <2>2. ASSUME NEW j \in (L + 1) .. (stop - 1)
        PROVE  /\ j \in R /\ L < j
               /\ ~(f[j].indent <= f[L].indent) /\ ~Field(f[j], "memory")
    <3>1. j \in R /\ L < j /\ ~(stop <= j)
      BY <1>0, <2>1
    <3> QED BY <1>4, <2>1, <3>1
  <2>3. leaves(stop) <=> f[stop].indent <= f[L].indent
    BY <1>3, <2>1 DEF leaves
  <2>4. CASE leaves(stop)
    <3> DEFINE e == stop - 1
    <3>1. e \in DOMAIN f /\ e \in R /\ L <= e /\ e + 1 = stop
      BY <1>0, <2>1
    <3>2. stop \notin Block(f, L)
      BY <1>9, <2>3, <2>4
    <3>3. ASSUME L < e PROVE e \in Block(f, L)
      BY <1>8, <2>2, <3>1, <3>3
    <3>4. \A j \in Block(f, L) : f[j].key # "memory"
      <4>1. ASSUME NEW j \in Block(f, L) PROVE f[j].key # "memory"
        <5>1. j \in R /\ L < j /\ j \in DOMAIN f /\ ~f[j].dash
          BY <1>6, <1>9
        <5>2. j < stop
          <6>1. SUFFICES ASSUME stop <= j PROVE FALSE
            BY <1>0, <2>1, <5>1
          <6>2. stop \in (L + 1) .. j
            BY <1>0, <2>1, <5>1, <6>1
          <6>3. stop \in Block(f, L)
            BY <1>0, <6>2, BlockInFile
          <6> QED BY <3>2, <6>3
        <5>3. j \in (L + 1) .. (stop - 1)
          BY <1>0, <2>1, <5>1, <5>2
        <5> QED BY <2>2, <5>1, <5>3 DEF Field
      <4> QED BY <4>1
    <3>5. WithLimits(f, R, {L}, v) = InsertAfter(f, e, memory(L))
      BY <1>1, <1>3, <1>11, <2>1, <2>4
    <3>6. e = L \/ e \in Block(f, L)
      BY <1>0, <3>1, <3>3
    <3> QED BY <3>1, <3>2, <3>4, <3>5, <3>6 DEF LimitFound
  <2>5. CASE ~leaves(stop)
    <3>1. stop \in Block(f, L)
      <4>1. ASSUME NEW k \in (L + 1) .. stop
            PROVE  ~(f[k].indent <= f[L].indent)
        <5>1. k \in (L + 1) .. (stop - 1) \/ k = stop
          BY <1>0, <2>1
        <5> QED BY <2>2, <2>3, <2>5, <5>1
      <4> QED BY <1>8, <2>1, <4>1
    <3>2. f[stop].key = "memory"
      BY <2>1, <2>3, <2>5 DEF Field
    <3>3. WithLimits(f, R, {L}, v) = [f EXCEPT ![stop].value = v]
      BY <1>1, <1>11, <2>5
    <3> QED BY <2>1, <3>1, <3>2, <3>3 DEF LimitFound
  <2> QED BY <2>4, <2>5
<1> QED BY <1>10, <1>11 DEF LimitFound

\* The limits at line L belong to the entry at line o and end before line x,
\* and g is what WithLimits makes of them.
LimitsFound(f, o, x, L, v, g) ==
    /\ L \in Item(f, o) /\ ~f[L].dash
    /\ \E r \in Item(f, o) : f[r].key = "resources" /\ L \in Block(f, r)
    /\ \A j \in Block(f, L) : j < x
    /\ x \notin Block(f, L)
    /\ g = WithLimits(f, o..(x - 1), {L}, v)

\* Which of the cases of applyMemoryLimit it is.
LEMMA LimitsCase ==
    ASSUME NEW f \in Seq(Lines), NEW c, NEW o, Framed(f, c, o), NEW v,
           NEW x, Searched(f, c, o, x),
           NEW L \in o .. (x - 1), f[L].key = "limits"
    PROVE  LimitsFound(f, o, x, L, v, ApplyMemoryLimit(f, c, v))
<1> DEFINE R == Region(f, c)
           limits == {i \in R : Heads(f[i], "limits")}
           resources == {i \in R : /\ Field(f[i], "resources")
                                   /\ f[i].value \in {"", "{}"}}
<1>0. /\ Len(f) \in Nat /\ DOMAIN f = 1 .. Len(f) /\ o \in 1 .. Len(f)
      /\ x \in (o + 1) .. (Len(f) + 1) /\ R = o .. (x - 1)
      /\ \A k \in (o + 1) .. (x - 1) : ~f[k].dash
      /\ x \in DOMAIN f => f[x].dash
  BY DEF Framed, Searched
<1>1. ASSUME NEW i \in o .. (x - 1), f[i].key = "limits"
      PROVE  /\ i \in DOMAIN f /\ i \in Item(f, o) /\ o < i /\ ~f[i].dash
             /\ Blank(f[i])
  <2>1. i \in DOMAIN f /\ i \in Item(f, o) /\ o < i /\ ~f[i].dash
    BY <1>1, RegionKeys
  <2> QED BY <1>1, <2>1, OwnParts DEF BlockOfLimits
<1>2. limits = {L}
  <2>1. \A i : i \in limits <=> i \in o .. (x - 1) /\ f[i].key = "limits"
    BY <1>0, <1>1, HeadsBlank
  <2>2. \A i, j \in Item(f, o) :
            f[i].key = "limits" /\ f[j].key = "limits" => i = j
    BY OwnParts DEF OneEach
  <2> HIDE DEF limits
  <2> QED BY <1>1, <2>1, <2>2
<1>3. PICK r \in Item(f, o) : f[r].key = "resources" /\ L \in Block(f, r)
  BY <1>1, OwnParts DEF BlockOfLimits
<1>4. r \in DOMAIN f /\ r < L /\ L < x /\ x \in Nat
  <2>1. r \in DOMAIN f
    BY <1>0, ItemInFile
  <2>2. r < L
    BY <1>3, <2>1, BlockInFile
  <2> HIDE DEF R
  <2> QED BY <1>0, <2>1, <2>2
<1>5. \A j \in Block(f, L) : j < x
  <2>1. \A j \in Block(f, r) : ~f[j].dash
    BY <1>3, OwnParts DEF BlockOfResources
  <2>2. \A j \in Block(f, r) : j < x
    <3>1. r < x /\ (x \in DOMAIN f => f[x].dash)
      <4> HIDE DEF R
      <4>1. r \in Int /\ L \in Int /\ x \in Int
        BY <1>0, <1>4
      <4>2. r < x
        BY <1>4, <4>1
      <4> QED BY <1>0, <4>2, Zenon
    <3> QED BY <1>4, <2>1, <3>1, BlockInRegion
  <2>3. Block(f, L) \subseteq Block(f, r)
    BY <1>1, <1>3, <1>4, InnerBlock
  <2> QED BY <2>2, <2>3
<1>6. x \notin Block(f, L)
  BY <1>4, <1>5
<1>7. ApplyMemoryLimit(f, c, v) = WithLimits(f, R, limits, v)
  <2>1. R # {} /\ limits # {}
    <3> HIDE DEF R
    <3> QED BY <1>0, <1>2
  <2> QED BY <2>1 DEF ApplyMemoryLimit
<1> HIDE DEF limits, R
<1>8. ApplyMemoryLimit(f, c, v) = WithLimits(f, o .. (x - 1), {L}, v)
  BY <1>0, <1>2, <1>7
<1> QED BY <1>1, <1>3, <1>5, <1>6, <1>8 DEF LimitsFound

\* The search finds no limits, but resources.
LEMMA ResourcesCase ==
    ASSUME NEW f \in Seq(Lines), NEW c, NEW o, Framed(f, c, o), NEW v,
           NEW x, Searched(f, c, o, x),
           \A i \in o .. (x - 1) : f[i].key # "limits",
           NEW r \in o .. (x - 1), f[r].key = "resources"
    PROVE  /\ r \in Item(f, o) /\ ~f[r].dash
           /\ \A i \in Item(f, o) : f[i].key # "limits"
           /\ ApplyMemoryLimit(f, c, v) = WithResources(f, r, v)
<1> DEFINE R == Region(f, c)
           limits == {i \in R : Heads(f[i], "limits")}
           resources == {i \in R : /\ Field(f[i], "resources")
                                   /\ f[i].value \in {"", "{}"}}
<1>0. /\ Len(f) \in Nat /\ DOMAIN f = 1 .. Len(f) /\ o \in 1 .. Len(f)
      /\ x \in (o + 1) .. (Len(f) + 1) /\ R = o .. (x - 1)
      /\ \A k \in (o + 1) .. (x - 1) : ~f[k].dash
      /\ x \in DOMAIN f => f[x].dash
  BY DEF Framed, Searched
<1>1. ASSUME NEW i \in o .. (x - 1), f[i].key = "resources"
      PROVE  /\ i \in DOMAIN f /\ i \in Item(f, o) /\ o < i /\ ~f[i].dash
             /\ Blank(f[i]) \/ f[i].value = "{}"
  <2>1. i \in DOMAIN f /\ i \in Item(f, o) /\ o < i /\ ~f[i].dash
    BY <1>1, RegionKeys
  <2> QED BY <1>1, <2>1, OwnParts DEF BlockOfResources
<1>2. \A i, j \in Item(f, o) :
        f[i].key = "resources" /\ f[j].key = "resources" => i = j
  BY OwnParts DEF OneEach
<1>3. ASSUME NEW L \in Item(f, o), f[L].key = "limits" PROVE FALSE
  <2>1. PICK q \in Item(f, o) : f[q].key = "resources" /\ L \in Block(f, q)
    BY <1>3, OwnParts DEF BlockOfLimits
  <2>2. q = r
    BY <1>1, <1>2, <2>1
  <2>3. \A j \in Block(f, r) : ~f[j].dash
    BY <1>1, OwnParts DEF BlockOfResources
  <2>4. /\ r \in DOMAIN f /\ o < r /\ r < x /\ x \in Nat
        /\ x \in DOMAIN f => f[x].dash
    <3>1. r \in DOMAIN f /\ o < r
      BY <1>1
    <3> HIDE DEF R
    <3>2. r \in Int /\ x \in Int /\ x \in Nat /\ o \in Int
      BY <1>0, <3>1
    <3>3. r < x
      BY <3>2
    <3> QED BY <1>0, <3>1, <3>2, <3>3, Zenon
  <2>5. L < x
    BY <2>1, <2>2, <2>3, <2>4, BlockInRegion
  <2>6. L \in DOMAIN f /\ r < L
    BY <2>1, <2>2, <2>4, BlockInFile
  <2>7. L \in o .. (x - 1)
    <3> HIDE DEF R
    <3> QED BY <1>0, <2>4, <2>5, <2>6
  <2> QED BY <1>3, <2>7
<1>4. limits = {}
  BY <1>0 DEF Heads
<1>5. resources = {r}
  <2>1. \A i : i \in resources <=>
            /\ i \in R /\ ~f[i].dash /\ f[i].key = "resources"
            /\ Blank(f[i]) \/ f[i].value = "{}"
    BY Zenon DEF Field, Blank
  <2> HIDE DEF resources, R
  <2> QED BY <1>0, <1>1, <1>2, <2>1
<1>6. ApplyMemoryLimit(f, c, v) = WithResources(f, Min(resources), v)
  <2>1. R # {} /\ limits = {} /\ resources # {}
    <3> HIDE DEF R, limits, resources
    <3> QED BY <1>0, <1>4, <1>5
  <2> QED BY <2>1, Zenon DEF ApplyMemoryLimit
<1>7. Min({r}) = r
  BY <1>0, MinOfOne
<1> HIDE DEF limits, resources, R
<1> QED BY <1>1, <1>3, <1>5, <1>6, <1>7

\* The search finds neither.
LEMMA NewCase ==
    ASSUME NEW f \in Seq(Lines), NEW c, NEW o, Framed(f, c, o), NEW v,
           NEW x, Searched(f, c, o, x),
           \A i \in o .. (x - 1) : f[i].key \notin {"limits", "resources"}
    PROVE  ApplyMemoryLimit(f, c, v) = NewResources(f, o .. (x - 1), c, v)
<1> DEFINE R == Region(f, c)
           limits == {i \in R : Heads(f[i], "limits")}
           resources == {i \in R : /\ Field(f[i], "resources")
                                   /\ f[i].value \in {"", "{}"}}
<1>0. Len(f) \in Nat /\ DOMAIN f = 1 .. Len(f) /\ o \in 1 .. Len(f)
      /\ x \in (o + 1) .. (Len(f) + 1) /\ R = o .. (x - 1)
  BY DEF Framed, Searched
<1>1. limits = {} /\ resources = {}
  BY <1>0 DEF Heads, Field
<1>2. R # {}
  <2> HIDE DEF R
  <2> QED BY <1>0
<1>3. ApplyMemoryLimit(f, c, v) = NewResources(f, R, c, v)
  BY <1>1, <1>2, Zenon DEF ApplyMemoryLimit
<1> HIDE DEF R
<1> QED BY <1>0, <1>3

ResourcesLines(d, v) ==
    <<Line(d + 2, FALSE, "resources", "")>> \o LimitLines(d + 4, v)

\* g is f with resources after a line of the entry at line o, the last one
\* before line x or before the entry ends.
PlaceFound(f, o, x, v, g) ==
    \E e \in DOMAIN f :
        /\ e \in Item(f, o) /\ e < x
        /\ \A k \in (o + 1)..e : ~f[k].dash
        /\ e + 1 \in Item(f, o) => e + 1 = x
        /\ g = InsertAfter(f, e, ResourcesLines(f[o].indent, v))

\* Where the container's entry ends, or where it is cut short.
LEMMA NewResourcesSearch ==
    ASSUME NEW f \in Seq(Lines), NEW c, NEW o, Framed(f, c, o), ~Unnamed(c),
           NEW v, NEW x, Searched(f, c, o, x)
    PROVE  PlaceFound(f, o, x, v, NewResources(f, o .. (x - 1), c, v))
<1> DEFINE R == o .. (x - 1)
           items == {i \in R : StartsEntry(f[i]) /\ c \in {"", f[i].value}}
           item == Min(items)
           dash == f[item].indent
           ends == {j \in R : j > item /\ f[j].indent <= dash}
           last == IF ends = {} THEN Max(R) ELSE Min(ends) - 1
<1>0. Len(f) \in Nat /\ DOMAIN f = 1 .. Len(f) /\ o \in 1 .. Len(f)
      /\ x \in (o + 1) .. (Len(f) + 1)
      /\ \A k \in (o + 1) .. (x - 1) : ~f[k].dash
  BY DEF Framed, Searched
<1>1. items = {o}
  <2>1. \A i : i \in items <=>
            i \in R /\ StartsEntry(f[i]) /\ (Unnamed(c) \/ c = f[i].value)
    BY Zenon DEF Unnamed
  <2>2. \A i : i \in items <=> i \in R /\ StartsEntry(f[i]) /\ c = f[i].value
    <3> HIDE DEF items, R
    <3> QED BY <2>1
  <2>3. o \in R /\ \A i \in R : i = o \/ ~f[i].dash
    BY <1>0
  <2> HIDE DEF items, R
  <2> QED BY <2>2, <2>3 DEF StartsEntry, Framed
<1>2. NewResources(f, R, c, v) =
        InsertAfter(f, last, <<Line(dash + 2, FALSE, "resources", "")>>
                                \o LimitLines(dash + 4, v))
  <2>1. items # {}
    <3> HIDE DEF items
    <3> QED BY <1>1
  <2> QED BY <2>1, Zenon DEF NewResources
<1>3. item = o
  <2>1. Min({o}) = o
    BY <1>0, MinOfOne
  <2> HIDE DEF items
  <2> QED BY <1>1, <2>1
<1> HIDE DEF items, item
<1>4. dash = f[o].indent /\ f[o].indent \in Nat
  BY <1>0, <1>3, LinesTyped
<1>5. \A j : j \in ends <=> j \in R /\ j > o /\ f[j].indent <= f[o].indent
  BY <1>3
<1> DEFINE e == last
<1>6. /\ e \in R /\ e \in DOMAIN f /\ e < x
      /\ \A j \in (o + 1) .. e : f[j].indent > f[o].indent
      /\ e + 1 = x \/ f[e + 1].indent <= f[o].indent
  <2>0. \A j \in R : j \in DOMAIN f /\ j \in Nat
    BY <1>0
  <2>1. CASE ends = {}
    <3> DEFINE z == x - 1
    <3>1. R \subseteq 0 .. Len(f) /\ z \in R
          /\ \A y \in R : y <= z /\ y \in Int
      BY <1>0
    <3>6. z \in DOMAIN f /\ z < x /\ z + 1 = x
      BY <1>0
    <3>7. \A j \in (o + 1) .. (x - 1) : j \in R /\ j > o
      BY <1>0
    <3> HIDE DEF R, z
    <3>2. Max(R) = z
      <4>1. Max(R) \in R /\ \A y \in R : Max(R) >= y
        BY <1>0, <3>1, MaxIsLast
      <4>2. z \in Int /\ Max(R) \in Int /\ Max(R) <= z /\ Max(R) >= z
        BY <3>1, <4>1
      <4> QED BY <4>2
    <3>3. e = z
      BY <2>1, <3>2
    <3>4. \A j \in (o + 1) .. (x - 1) : f[j].indent > f[o].indent
      <4>1. ASSUME NEW j \in (o + 1) .. (x - 1)
            PROVE  f[j].indent > f[o].indent
        <5>1. j \in R /\ j > o /\ j \in DOMAIN f
          BY <2>0, <3>7
        <5>2. ~(f[j].indent <= f[o].indent)
          BY <1>5, <2>1, <5>1
        <5>3. f[j].indent \in Nat
          BY <5>1, LinesTyped
        <5> QED BY <1>4, <5>2, <5>3
      <4> QED BY <4>1
    <3> HIDE DEF e
    <3>5. e \in R /\ e \in DOMAIN f /\ e < x /\ e + 1 = x
      BY <3>1, <3>3, <3>6
    <3>8. \A j \in (o + 1) .. e : f[j].indent > f[o].indent
      BY <3>3, <3>4 DEF z
    <3> QED BY <3>5, <3>8
  <2>2. CASE ends # {}
    <3> DEFINE m == Min(ends)
    <3>1. ends \subseteq Nat
      BY <1>0
    <3>2. m \in ends /\ \A y \in ends : m <= y
      BY <2>2, <3>1, MinIsFirst
    <3>3. e = m - 1
      BY <2>2
    <3> HIDE DEF ends, m, e
    <3>4. m \in R /\ m > o /\ f[m].indent <= f[o].indent
      BY <1>5, <3>2
    <3>5. ASSUME NEW j \in (o + 1) .. e PROVE f[j].indent > f[o].indent
      <4>1. j \in R /\ j > o /\ ~(m <= j) /\ j \in DOMAIN f
        BY <1>0, <3>3, <3>4
      <4>2. ~(f[j].indent <= f[o].indent)
        BY <1>5, <3>2, <4>1
      <4>3. f[j].indent \in Nat
        BY <4>1, LinesTyped
      <4> QED BY <1>4, <4>2, <4>3
    <3> QED BY <1>0, <3>3, <3>4, <3>5
  <2> QED BY <2>1, <2>2
<1> HIDE DEF e
<1>7. e \in Item(f, o)
  <2>1. e = o \/ e \in (o + 1) .. Len(f)
    BY <1>0, <1>6
  <2> QED BY <1>6, <2>1 DEF Item
<1>8. e + 1 \in Item(f, o) => e + 1 = x
  <2>1. SUFFICES ASSUME e + 1 \in Item(f, o), e + 1 # x PROVE FALSE
    OBVIOUS
  <2>2. f[e + 1].indent <= f[o].indent
    BY <1>6, <2>1
  <2>3. e + 1 # o /\ e + 1 \in DOMAIN f
    BY <1>0, <1>6, <2>1, ItemInFile
  <2>4. f[e + 1].indent > f[o].indent
    BY <1>0, <2>1, <2>3, ItemInFile
  <2>5. f[e + 1].indent \in Nat
    BY <2>3, LinesTyped
  <2> QED BY <1>4, <2>2, <2>4, <2>5
<1>9. \A k \in (o + 1) .. e : ~f[k].dash
  BY <1>0, <1>6
<1> HIDE DEF R, ends
<1>10. NewResources(f, R, c, v) =
            InsertAfter(f, e, ResourcesLines(f[o].indent, v))
  BY <1>2, <1>4, Zenon DEF e, ResourcesLines
<1> QED BY <1>6, <1>7, <1>8, <1>9, <1>10 DEF R, PlaceFound

(***************************************************************************)
(* What is inserted parses.                                                *)
(***************************************************************************)

\* Line i has its place after the lines before it.
Joins(f, i) == Opens(f, i) \/ Continues(f, i)

\* g is f with n lines of a limit after line e, and e with another value
\* perhaps.
Grafted(f, g, e, n) ==
    Grown(f, g, e, n) /\ \A j \in 1..(e - 1) : g[j] = f[j]

\* The n lines after line e stand further to the right than the line e or the
\* line that comes next.
Deeper(f, g, e, n) ==
    \E b \in Nat :
        /\ \A q \in (e + 1)..(e + n) : g[q].indent > b
        /\ \/ Column(f[e]) <= b
           \/ e + 1 \in DOMAIN f => f[e + 1].indent <= b

\* A file that parses still does when lines that have their place are
\* inserted, and the line after them keeps its own.
LEMMA GrowthParses ==
    ASSUME NEW f \in Seq(Lines), NEW e \in DOMAIN f, NEW n \in Nat, NEW g,
           Grafted(f, g, e, n), Deeper(f, g, e, n), NEW m \in e .. Len(f),
           \A q \in (e + 1) .. (e + n) : Joins(g, q),
           e + 1 \in DOMAIN f /\ Opens(f, e + 1) => Joins(g, e + 1 + n),
           WellFormedTo(f, m)
    PROVE  WellFormedTo(g, m + n)
<1>0. Len(f) \in Nat /\ DOMAIN f = 1 .. Len(f) /\ e \in 1 .. Len(f)
      /\ g \in Seq(Lines) /\ Len(g) = Len(f) + n /\ DOMAIN g = 1 .. Len(g)
  BY DEF Grafted, Grown
<1>1. /\ \A j \in 1..(e - 1) : g[j] = f[j]
      /\ \A j \in 1 .. e : SameShape(f[j], g[j])
      /\ \A j \in (e + 1) .. Len(f) : g[j + n] = f[j]
  BY DEF Grafted, Grown
<1>2. PICK b \in Nat :
        /\ \A q \in (e + 1)..(e + n) : g[q].indent > b
        /\ \/ Column(f[e]) <= b
           \/ e + 1 \in DOMAIN f => f[e + 1].indent <= b
  BY DEF Deeper
<1>3. ASSUME NEW i \in 2 .. e PROVE Joins(g, i)
  <2>1. i \in 2 .. m /\ i \in 1 .. e /\ i - 1 \in 1..(e - 1)
    BY <1>0
  <2>2. SameShape(f[i], g[i]) /\ g[i - 1] = f[i - 1]
    BY <1>1, <2>1
  <2>3. Opens(f, i) => Opens(g, i)
    BY <2>2, OpensCopied
  <2>4. ASSUME Continues(f, i) PROVE Continues(g, i)
    <3>1. PICK j \in 1..(i - 1) :
            /\ Aligned(f[i], f[j])
            /\ \A k \in (j + 1)..(i - 1) : Within(f[i], f[k])
      BY <2>4, ContinuesBetween
    <3>2. /\ g[j] = f[j]
          /\ \A k \in (j + 1)..(i - 1) : g[k] = f[k]
      <4>1. /\ j \in 1..(e - 1)
            /\ \A k \in (j + 1)..(i - 1) : k \in 1..(e - 1)
        BY <1>0
      <4> QED BY <1>1, <4>1
    <3>3. Aligned(g[i], g[j])
      BY <2>2, <3>1, <3>2 DEF Aligned, SameShape
    <3>4. \A k \in (j + 1)..(i - 1) : Within(g[i], g[k])
      BY <2>2, <3>1, <3>2 DEF Within, SameShape
    <3> QED BY <3>3, <3>4, ContinuesBetween
  <2> QED BY <2>1, <2>3, <2>4 DEF WellFormedTo, Joins
<1>4. ASSUME NEW x \in (e + 1) .. m PROVE Joins(g, x + n)
  <2>1. x \in 2 .. m /\ x \in DOMAIN f /\ g[x + n] = f[x]
        /\ x \in (e + 1) .. Len(f) /\ x \in Nat
    BY <1>0, <1>1
  <2>2. ASSUME Opens(f, x) PROVE Joins(g, x + n)
    <3>1. CASE x = e + 1
      <4>1. Joins(g, e + 1 + n)
        BY <2>1, <2>2, <3>1
      <4> QED BY <3>1, <4>1
    <3>2. CASE x # e + 1
      <4>1. x - 1 \in (e + 1) .. Len(f) /\ (x + n) - 1 = (x - 1) + n
        BY <1>0, <2>1, <3>2
      <4>2. g[(x + n) - 1] = f[x - 1]
        BY <1>1, <4>1
      <4>3. SameShape(f[x], g[x + n])
        BY <2>1 DEF SameShape
      <4>4. Opens(g, x + n)
        BY <2>2, <4>2, <4>3, OpensCopied
      <4> QED BY <4>4 DEF Joins
    <3> QED BY <3>1, <3>2
  <2>3. ASSUME Continues(f, x) PROVE Continues(g, x + n)
    <3>1. PICK j \in 1..(x - 1) :
            /\ Aligned(f[x], f[j])
            /\ \A k \in (j + 1)..(x - 1) : Within(f[x], f[k])
      BY <2>3, ContinuesBetween
    <3> DEFINE p == Moved(e, n, j)
    <3>2. p \in 1..((x + n) - 1) /\ p \in Nat /\ j \in DOMAIN f
      BY <1>0, <2>1 DEF Moved
    <3>3. SameShape(f[j], g[p])
      <4>1. CASE j <= e
        <5>1. j \in 1 .. e
          BY <1>0, <4>1
        <5> QED BY <1>1, <4>1, <5>1 DEF Moved
      <4>2. CASE ~(j <= e)
        <5>1. j \in (e + 1) .. Len(f)
          BY <1>0, <3>2, <4>2
        <5> QED BY <1>1, <4>2, <5>1 DEF Moved, SameShape
      <4> QED BY <4>1, <4>2
    <3>4. ASSUME j <= e PROVE f[x].indent <= b
      <4>0. f[x].indent \in Nat /\ f[e].indent \in Nat /\ Column(f[e]) \in Nat
        BY <2>1, LinesTyped
      <4>1. CASE Column(f[e]) <= b
        <5>1. f[x].indent <= Column(f[e])
          <6>1. CASE j = e
            BY <3>1, <4>0, <6>1 DEF Aligned, Column
          <6>2. CASE j # e
            <7>1. e \in (j + 1)..(x - 1)
              BY <1>0, <3>4, <6>2
            <7>2. Within(f[x], f[e])
              BY <3>1, <7>1
            <7> QED BY <4>0, <7>2 DEF Within, Column
          <6> QED BY <6>1, <6>2
        <5> QED BY <4>0, <4>1, <5>1
      <4>2. CASE e + 1 \in DOMAIN f => f[e + 1].indent <= b
        <5>1. e + 1 \in DOMAIN f
          BY <1>0, <2>1
        <5>2. f[e + 1].indent <= b
          BY <4>2, <5>1
        <5>3. CASE x = e + 1
          BY <5>2, <5>3
        <5>4. CASE x # e + 1
          <6>1. e + 1 \in (j + 1)..(x - 1)
            BY <1>0, <2>1, <3>4, <5>4
          <6>2. Within(f[x], f[e + 1])
            BY <3>1, <6>1
          <6>3. f[e + 1].indent \in Nat
            BY <5>1, LinesTyped
          <6> QED BY <4>0, <5>2, <6>2, <6>3 DEF Within
        <5> QED BY <5>3, <5>4
      <4> QED BY <1>2, <4>1, <4>2
    <3>5. ASSUME NEW k \in (p + 1)..((x + n) - 1)
          PROVE  Within(f[x], g[k])
      <4>0. k \in Int /\ e \in Int /\ k \in Nat
        BY <3>2
      <4>1. CASE k <= e
        <5>1. k \in (j + 1)..(x - 1) /\ k \in 1 .. e
          BY <1>0, <3>2, <4>1 DEF Moved
        <5> QED BY <1>1, <3>1, <5>1 DEF Within, SameShape
      <4>2. CASE k > e /\ k <= e + n
        <5>1. j <= e /\ k \in (e + 1)..(e + n) /\ k \in DOMAIN g
          BY <1>0, <3>2, <4>2 DEF Moved
        <5>2. g[k].indent > b /\ f[x].indent <= b
          BY <1>2, <3>4, <5>1
        <5>3. g[k].indent \in Nat /\ f[x].indent \in Nat
          BY <1>0, <2>1, <5>1, LinesTyped
        <5>4. b \in Nat
          BY <1>2
        <5>5. g[k].indent > f[x].indent
          <6> DEFINE y == g[k].indent
                     z == f[x].indent
          <6>1. y > b /\ z <= b /\ y \in Nat /\ z \in Nat
            BY <5>2, <5>3
          <6> HIDE DEF y, z
          <6>2. y > z
            BY <5>4, <6>1
          <6> QED BY <6>2 DEF y, z
        <5> QED BY <5>5 DEF Within
      <4>3. CASE k > e + n
        <5>1. k - n \in (j + 1)..(x - 1) /\ k - n \in (e + 1) .. Len(f)
              /\ (k - n) + n = k
          BY <1>0, <2>1, <3>2, <4>0, <4>3 DEF Moved
        <5>2. g[k] = f[k - n]
          BY <1>1, <5>1
        <5> QED BY <3>1, <5>1, <5>2
      <4> QED BY <4>0, <4>1, <4>2, <4>3
    <3> HIDE DEF p
    <3>6. Aligned(g[x + n], g[p])
      BY <2>1, <3>1, <3>3 DEF Aligned, SameShape, Column
    <3>7. \A k \in (p + 1)..((x + n) - 1) : Within(g[x + n], g[k])
      BY <2>1, <3>5
    <3> QED BY <3>2, <3>6, <3>7, ContinuesBetween
  <2> QED BY <2>1, <2>2, <2>3 DEF WellFormedTo, Joins
<1>5. ASSUME NEW i \in 2 .. (m + n) PROVE Joins(g, i)
  <2>1. CASE i <= e
    <3>1. i \in 2 .. e
      BY <1>0, <2>1
    <3> QED BY <1>3, <3>1
  <2>2. CASE i > e /\ i <= e + n
    <3>1. i \in (e + 1) .. (e + n)
      BY <1>0, <2>2
    <3> QED BY <3>1
  <2>3. CASE i > e + n
    <3>1. i - n \in (e + 1) .. m /\ (i - n) + n = i
      BY <1>0, <2>3
    <3> QED BY <1>4, <3>1
  <2> QED BY <1>0, <2>1, <2>2, <2>3
<1> QED BY <1>5 DEF WellFormedTo, Joins

\* The first lines are what they were.
LEMMA PrefixParses ==
    ASSUME NEW f, NEW g, NEW m \in Nat, WellFormedTo(f, m),
           \A j \in 1 .. m : g[j] = f[j]
    PROVE  WellFormedTo(g, m)
<1>1. ASSUME NEW i \in 2 .. m PROVE Opens(g, i) \/ Continues(g, i)
  <2>1. i \in 1 .. m /\ i - 1 \in 1 .. m
        /\ \A k \in 1..(i - 1) : k \in 1 .. m
    OBVIOUS
  <2>2. g[i] = f[i] /\ g[i - 1] = f[i - 1] /\ \A k \in 1..(i - 1) : g[k] = f[k]
    BY <2>1
  <2>3. Opens(f, i) => Opens(g, i)
    <3>1. SameShape(f[i], g[i])
      BY <2>2 DEF SameShape
    <3> QED BY <2>2, <3>1, OpensCopied
  <2>4. ASSUME Continues(f, i) PROVE Continues(g, i)
    <3>1. PICK j \in 1..(i - 1) :
            /\ Aligned(f[i], f[j])
            /\ \A k \in (j + 1)..(i - 1) : Within(f[i], f[k])
      BY <2>4, ContinuesBetween
    <3>2. \A k \in (j + 1)..(i - 1) : k \in 1..(i - 1)
      OBVIOUS
    <3> QED BY <2>2, <3>1, <3>2, ContinuesBetween
  <2> QED BY <2>3, <2>4 DEF WellFormedTo
<1> QED BY <1>1 DEF WellFormedTo

\* The separators are those of before.
LEMMA SeparatorsMoved ==
    ASSUME NEW f \in Seq(Lines), NEW e \in DOMAIN f, NEW n \in Nat, NEW g,
           Grown(f, g, e, n)
    PROVE  Separators(g) = {Moved(e, n, s) : s \in Separators(f)}
<1>0. "---" \notin Settings /\ "---" \notin LimitKeys
  BY DEF Settings, LimitKeys
<1>1. Carried(f, g, e, n)
  BY MovedLines
<1>2. ASSUME NEW s \in Separators(f)
      PROVE  Moved(e, n, s) \in Separators(g)
  <2>1. s \in DOMAIN f /\ f[s] = Separator
    BY DEF Separators
  <2>2. f[s].key \notin Settings
    BY <1>0, <2>1, SeparatorFields
  <2>3. Moved(e, n, s) \in DOMAIN g /\ g[Moved(e, n, s)] = f[s]
    BY <1>1, <2>1, <2>2 DEF Carried
  <2> QED BY <2>1, <2>3 DEF Separators
<1>3. ASSUME NEW i \in Separators(g)
      PROVE  \E s \in Separators(f) : i = Moved(e, n, s)
  <2>1. i \in DOMAIN g /\ g[i] = Separator /\ g[i].key = "---"
    BY SeparatorFields DEF Separators
  <2>2. i \notin (e + 1)..(e + n)
    BY <1>0, <2>1 DEF Grown
  <2>3. PICK j \in DOMAIN f : i = Moved(e, n, j)
    BY <1>1, <2>1, <2>2 DEF Carried
  <2>4. f[j].key = "---"
    BY <1>1, <2>1, <2>3 DEF Carried, SameShape
  <2>5. f[j] = Separator
    BY <1>0, <1>1, <2>1, <2>3, <2>4 DEF Carried
  <2>6. j \in Separators(f)
    BY <2>5 DEF Separators
  <2> QED BY <2>3, <2>6
<1> QED BY <1>2, <1>3

\* The same for what yaml.Unmarshal reads of a file.
LEMMA GrowthUnmarshals ==
    ASSUME NEW f \in Seq(Lines), NEW e \in DOMAIN f, NEW n \in Nat, NEW g,
           Grafted(f, g, e, n), Deeper(f, g, e, n),
           WellFormedTo(f, e) => \A q \in (e + 1) .. (e + n) : Joins(g, q),
           e + 1 \in DOMAIN f /\ Opens(f, e + 1) => Joins(g, e + 1 + n),
           Unmarshals(f)
    PROVE  Unmarshals(g)
<1>0. Len(f) \in Nat /\ DOMAIN f = 1 .. Len(f) /\ e \in 1 .. Len(f)
      /\ g \in Seq(Lines) /\ Len(g) = Len(f) + n
      /\ Grown(f, g, e, n) /\ \A j \in 1..(e - 1) : g[j] = f[j]
  BY DEF Grafted, Grown
<1>1. PICK m \in 0 .. Len(f) :
        /\ m = IF Ends(f) = {} THEN Len(f) ELSE Min(Ends(f)) - 1
        /\ Unmarshals(f) <=> WellFormedTo(f, m)
  BY ParsedLines
<1>2. PICK k \in 0 .. Len(g) :
        /\ k = IF Ends(g) = {} THEN Len(g) ELSE Min(Ends(g)) - 1
        /\ Unmarshals(g) <=> WellFormedTo(g, k)
  BY <1>0, ParsedLines
<1>3. Ends(g) = {Moved(e, n, s) : s \in Ends(f)}
  <2>1. Separators(g) = {Moved(e, n, s) : s \in Separators(f)}
    BY <1>0, SeparatorsMoved
  <2>2. Separators(f) \subseteq Nat \ {0}
    BY <1>0 DEF Separators
  <2>3. \A s \in Separators(f) : Moved(e, n, s) = 1 <=> s = 1
    BY <1>0, <2>2 DEF Moved
  <2> QED BY <2>1, <2>3 DEF Ends
<1>4. k = IF e <= m THEN m + n ELSE m
  <2>1. CASE Ends(f) = {}
    <3>1. Ends(g) = {}
      BY <1>3, <2>1
    <3> QED BY <1>0, <1>1, <1>2, <2>1, <3>1
  <2>2. CASE Ends(f) # {}
    <3> DEFINE s == Min(Ends(f))
               t == Min(Ends(g))
    <3>1. Ends(f) \subseteq Nat /\ Ends(g) \subseteq Nat
      BY <1>0 DEF Ends, Separators
    <3>2. s \in Ends(f) /\ \A y \in Ends(f) : s <= y
      BY <2>2, <3>1, MinIsFirst
    <3>3. Ends(g) # {}
      BY <1>3, <3>2
    <3>4. t \in Ends(g) /\ \A y \in Ends(g) : t <= y
      BY <3>1, <3>3, MinIsFirst
    <3>5. m = s - 1 /\ k = t - 1
      BY <1>1, <1>2, <2>2, <3>3
    <3> HIDE DEF s, t
    <3>6. PICK z \in Ends(f) : t = Moved(e, n, z)
      BY <1>3, <3>4
    <3>7. s <= z /\ t <= Moved(e, n, s) /\ s \in Nat /\ z \in Nat /\ t \in Nat
      BY <1>3, <3>1, <3>2, <3>4, <3>6
    <3>8. t = Moved(e, n, s)
      BY <1>0, <3>6, <3>7 DEF Moved
    <3> QED BY <1>0, <3>5, <3>7, <3>8 DEF Moved
  <2> QED BY <2>1, <2>2
<1>5. WellFormedTo(f, m)
  BY <1>1
<1>6. CASE e <= m
  <2>1. m \in e .. Len(f)
    BY <1>0, <1>6
  <2>2. WellFormedTo(f, e)
    <3>1. \A i \in 2 .. e : i \in 2 .. m
      BY <1>0, <2>1
    <3> QED BY <1>5, <3>1 DEF WellFormedTo
  <2>3. \A q \in (e + 1) .. (e + n) : Joins(g, q)
    BY <2>2
  <2>4. WellFormedTo(g, m + n)
    BY <1>5, <2>1, <2>3, GrowthParses
  <2> QED BY <1>2, <1>4, <1>6, <2>4
<1>7. CASE ~(e <= m)
  <2>1. m \in Nat /\ \A j \in 1 .. m : j \in 1..(e - 1)
    BY <1>0, <1>7
  <2>2. \A j \in 1 .. m : g[j] = f[j]
    BY <1>0, <2>1
  <2>3. WellFormedTo(g, m)
    BY <1>5, <2>1, <2>2, PrefixParses
  <2> QED BY <1>2, <1>4, <1>7, <2>3
<1> QED BY <1>6, <1>7

(***************************************************************************)
(* An insertion in the block of limits.                                    *)
(***************************************************************************)
LEMMA FieldBlock ==
    ASSUME NEW f \in Seq(Lines), NEW o \in DOMAIN f, NEW i \in Item(f, o),
           i # o, NEW j \in Block(f, i)
    PROVE  j \in Item(f, o)
<1>0. Len(f) \in Nat /\ DOMAIN f = 1 .. Len(f) /\ o \in 1 .. Len(f)
  OBVIOUS
<1>1. i \in DOMAIN f /\ i \in (o + 1) .. Len(f) /\ f[i].indent > f[o].indent
      /\ \A k \in o .. i : k \in DOMAIN f /\ k \in Item(f, o)
  BY ItemInFile
<1>2. j \in DOMAIN f /\ i < j
      /\ \A k \in (i + 1) .. j : k \in DOMAIN f /\ k \in Block(f, i)
  BY <1>1, BlockInFile
<1>3. f[o].indent \in Nat /\ f[i].indent \in Nat /\ Column(f[i]) \in Nat
  BY <1>1, LinesTyped
<1>4. ASSUME NEW k \in (o + 1) .. j PROVE f[k].indent > f[o].indent
  <2>1. CASE k <= i
    <3>1. k \in o .. i /\ k # o
      BY <1>0, <1>1, <2>1
    <3> QED BY <1>1, <3>1, ItemInFile
  <2>2. CASE ~(k <= i)
    <3>1. k \in (i + 1) .. j
      BY <1>0, <1>1, <1>2, <2>2
    <3>2. k \in (i + 1) .. k /\ k \in DOMAIN f /\ k \in Block(f, i)
      BY <1>0, <1>1, <1>2, <3>1
    <3>3. f[k].indent > Column(f[i]) \/ f[k].indent = Column(f[i])
      BY <3>2 DEF Block
    <3>4. f[k].indent \in Nat
      BY <3>2, LinesTyped
    <3> QED BY <1>1, <1>3, <3>3, <3>4 DEF Column
  <2> QED BY <2>1, <2>2
<1>5. j \in (o + 1) .. Len(f)
  BY <1>0, <1>1, <1>2
<1> QED BY <1>4, <1>5 DEF Item

\* An insertion into the limit edits one place.
LEMMA GraftEdits ==
    ASSUME NEW f \in Seq(Lines), NEW e \in DOMAIN f, NEW n \in 0 .. 3, NEW g,
           Grafted(f, g, e, n)
    PROVE  EditedAt(f, g, e, n)
<1>0. Len(f) \in Nat /\ DOMAIN f = 1 .. Len(f) /\ e \in 1 .. Len(f)
      /\ Len(g) = Len(f) + n
  BY DEF Grafted, Grown
<1>1. /\ \A j \in 1..(e - 1) : g[j] = f[j]
      /\ \A j \in (e + 1)..Len(f) : g[j + n] = f[j]
      /\ \A j \in (e + 1)..(e + n) : g[j].key \in LimitKeys
  BY DEF Grafted, Grown
<1>2. /\ SameShape(f[e], g[e])
      /\ f[e].key \notin Settings => g[e] = f[e]
  BY <1>0 DEF Grafted, Grown
<1>3. \A x \in {"indent", "dash", "key"} : g[e][x] = f[e][x]
  <2>1. /\ g[e]["indent"] = f[e]["indent"]
        /\ g[e]["dash"] = f[e]["dash"]
        /\ g[e]["key"] = f[e]["key"]
    BY <1>2 DEF SameShape
  <2> QED BY <2>1
<1>4. \A j \in (e + 1)..(e + n) : g[j].key \in Settings
  BY <1>1 DEF LimitKeys, Settings
<1> QED BY <1>0, <1>1, <1>2, <1>3, <1>4 DEF EditedAt

\* An insertion of settings of a limit is a graft.
LEMMA GraftInserts ==
    ASSUME NEW f \in Seq(Lines), NEW e \in DOMAIN f, NEW new \in Seq(Lines),
           \A q \in 1 .. Len(new) : ~new[q].dash /\ new[q].key \in LimitKeys
    PROVE  /\ Grafted(f, InsertAfter(f, e, new), e, Len(new))
           /\ \A j \in 1 .. e : InsertAfter(f, e, new)[j] = f[j]
           /\ \A q \in (e + 1) .. (e + Len(new)) :
                InsertAfter(f, e, new)[q] = new[q - e]
<1> DEFINE g == InsertAfter(f, e, new)
           n == Len(new)
<1>0. Len(f) \in Nat /\ DOMAIN f = 1 .. Len(f) /\ e \in 1 .. Len(f)
      /\ n \in Nat
  OBVIOUS
<1>1. /\ g \in Seq(Lines)
      /\ Len(g) = Len(f) + n
      /\ \A j \in 1 .. e : g[j] = f[j]
      /\ \A j \in (e + 1) .. (e + n) : g[j] = new[j - e]
      /\ \A j \in (e + 1) .. Len(f) : g[j + n] = f[j]
  BY InsertionShifts
<1>2. \A j \in (e + 1) .. (e + n) : ~g[j].dash /\ g[j].key \in LimitKeys
  <2>1. ASSUME NEW j \in (e + 1) .. (e + n)
        PROVE  ~g[j].dash /\ g[j].key \in LimitKeys
    <3>1. j - e \in 1 .. n
      BY <1>0
    <3> HIDE DEF g
    <3> QED BY <1>1, <3>1
  <2> HIDE DEF g
  <2> QED BY <2>1
<1> HIDE DEF g, n
<1>3. \A j \in 1 .. e : SameShape(f[j], g[j])
  BY <1>1 DEF SameShape
<1>4. Grown(f, g, e, n)
  BY <1>1, <1>2, <1>3 DEF Grown
<1>5. \A j \in 1..(e - 1) : j \in 1 .. e
  BY <1>0
<1>6. Grafted(f, g, e, n)
  BY <1>1, <1>4, <1>5 DEF Grafted
<1> QED BY <1>1, <1>6 DEF g, n

\* Lines before an insertion stay where they are.
LEMMA MovedBefore ==
    ASSUME NEW e, NEW n, NEW j, j <= e PROVE Moved(e, n, j) = j
BY DEF Moved

\* The keys that lead to the limit of a container.
LEMMA LimitPlace ==
    ASSUME NEW f \in Seq(Lines), NEW c, NEW o, Framed(f, c, o),
           NEW r \in Item(f, o), f[r].key = "resources",
           NEW L \in Block(f, r)
    PROVE  /\ r \in DOMAIN f /\ r \in Nat /\ o \in Nat /\ o < r
           /\ f[r].indent > f[o].indent /\ ~f[r].dash
           /\ L \in DOMAIN f /\ L \in Nat /\ r < L /\ L \in Item(f, o)
           /\ ~f[L].dash /\ f[L].indent > f[r].indent
           /\ Column(f[r]) = f[r].indent /\ Column(f[L]) = f[L].indent
<1>0. /\ Len(f) \in Nat /\ DOMAIN f = 1 .. Len(f)
      /\ o \in DOMAIN f /\ Plain(f, c) /\ f[o].key = "name"
  BY DEF Framed
<1>1. /\ r \in DOMAIN f /\ o < r /\ f[r].indent > f[o].indent
      /\ r \in Nat /\ o \in Nat
  <2>1. r # o
    BY <1>0
  <2>2. r \in DOMAIN f /\ o <= r /\ f[r].indent > f[o].indent
    BY <1>0, <2>1, ItemInFile
  <2> QED BY <1>0, <2>1, <2>2
<1>2. ~f[r].dash
  BY <1>0, <1>1 DEF Plain
<1>3. /\ L \in DOMAIN f /\ r < L /\ L \in Nat /\ L \in Item(f, o) /\ ~f[L].dash
  <2>1. L \in DOMAIN f /\ r < L
    BY <1>1, BlockInFile
  <2>2. L \in Item(f, o)
    BY <1>0, <1>1, FieldBlock
  <2>3. ~f[L].dash
    BY OwnParts DEF BlockOfResources
  <2> QED BY <1>0, <2>1, <2>2, <2>3
<1>4. f[L].indent > Column(f[r])
  <2>1. L \in (r + 1) .. L
    BY <1>1, <1>3
  <2> QED BY <1>3, <2>1 DEF Block
<1>5. Column(f[r]) = f[r].indent /\ Column(f[L]) = f[L].indent
  BY <1>2, <1>3 DEF Column
<1> QED BY <1>1, <1>2, <1>3, <1>4, <1>5

\* The limit of the container in g is that of f, of which old are the memory
\* lines, with the n lines inserted after line e.
Joined(f, g, c, e, n, old) ==
    /\ Memory(g, c) = {Moved(e, n, j) : j \in old} \cup (e + 1)..(e + n)
    /\ Limit(g, c) = {Moved(e, n, j) : j \in Limit(f, c)}
                        \cup (e + 1)..(e + n)
    /\ old \subseteq Limit(f, c)

\* Memory lines after line e join the limits of the container.
LEMMA LimitGrows ==
    ASSUME NEW f \in Seq(Lines), NEW c, NEW o, Framed(f, c, o),
           NEW r \in Item(f, o), f[r].key = "resources",
           NEW L \in Block(f, r), f[L].key = "limits",
           NEW e \in DOMAIN f, e = L \/ e \in Block(f, L), NEW n \in Nat,
           NEW g, Grafted(f, g, e, n),
           \A q \in (e + 1) .. (e + n) :
                g[q].key = "memory" /\ g[q].indent > f[L].indent,
           NEW old, old = {j \in Block(f, L) : f[j].key = "memory"}
    PROVE  Joined(f, g, c, e, n, old)
<1> DEFINE new == (e + 1) .. (e + n)
           M(j) == Moved(e, n, j)
<1>0. /\ Len(f) \in Nat /\ DOMAIN f = 1 .. Len(f)
      /\ o \in DOMAIN f /\ Plain(f, c) /\ f[o].dash
      /\ f[o].key = "name" /\ f[o].value = c
      /\ Entry(f, "containers", c) = Item(f, o)
  BY DEF Framed
<1>1. /\ r \in DOMAIN f /\ o < r /\ f[r].indent > f[o].indent
      /\ r \in Nat /\ o \in Nat
  BY LimitPlace
<1>3. /\ L \in DOMAIN f /\ r < L /\ L \in Nat /\ L \in Item(f, o) /\ ~f[L].dash
  BY LimitPlace
<1>4. f[L].indent > f[r].indent
  BY LimitPlace
<1>5. /\ f[L].indent \in Nat /\ f[r].indent \in Nat /\ f[o].indent \in Nat
      /\ Column(f[r]) = f[r].indent /\ Column(f[L]) = f[L].indent
  <2>1. Column(f[r]) = f[r].indent /\ Column(f[L]) = f[L].indent
    BY LimitPlace
  <2> QED BY <1>0, <1>1, <1>3, <2>1, LinesTyped
<1>6. L <= e /\ e \in Block(f, r) /\ e \in Item(f, o)
  <2>1. CASE e = L
    BY <1>3, <2>1
  <2>2. CASE e \in Block(f, L)
    <3>1. L < e
      BY <1>3, <2>2, BlockInFile
    <3>2. e \in Block(f, r)
      BY <1>1, <1>3, <2>2, InnerBlock
    <3>3. e \in Item(f, o)
      <4>1. r # o
        BY <1>1
      <4> QED BY <1>0, <3>2, <4>1, FieldBlock
    <3> QED BY <1>3, <3>1, <3>2, <3>3
  <2> QED BY <2>1, <2>2
<1>7. e \in Nat /\ o <= e /\ r <= e /\ L <= e
  BY <1>0, <1>1, <1>3, <1>6
<1>8. /\ Grown(f, g, e, n) /\ g \in Seq(Lines) /\ Len(g) = Len(f) + n
  BY DEF Grafted, Grown
<1>9. \A q \in new : /\ g[q].indent > Column(f[L])
                     /\ g[q].indent > Column(f[r])
                     /\ g[q].indent > f[o].indent
  <2>1. ASSUME NEW q \in new
        PROVE  /\ g[q].indent > Column(f[L])
               /\ g[q].indent > Column(f[r])
               /\ g[q].indent > f[o].indent
    <3>1. q \in DOMAIN g
      BY <1>0, <1>7, <1>8
    <3>2. g[q].indent \in Nat /\ g[q].indent > f[L].indent
      BY <1>8, <3>1, LinesTyped
    <3> HIDE DEF new
    <3> QED BY <1>1, <1>4, <1>5, <3>2
  <2> QED BY <2>1
<1>10. Gains(Item(f, o), Item(g, o), e, n)
  BY <1>0, <1>6, <1>8, <1>9, ItemGrows
<1>11. Gains(Block(f, r), Block(g, r), e, n)
  BY <1>1, <1>6, <1>8, <1>9, BlockGrows
<1>12. Gains(Block(f, L), Block(g, L), e, n)
  BY <1>3, <1>6, <1>8, <1>9, BlockGrows
<1>13. Entry(g, "containers", c) = Item(g, o)
  <2>1. Entry(f, "containers", c) # {}
    BY <1>0, <1>6
  <2>2. o \in DOMAIN f /\ Plain(f, c) /\ o <= e /\ Grown(f, g, e, n)
    BY <1>0, <1>7, <1>8
  <2>3. f[o].dash
    BY <1>0
  <2>4. f[o].value = c
    BY <1>0
  <2> QED BY <2>1, <2>2, <2>3, <2>4, EntryGrows
<1>14. ASSUME NEW j \in DOMAIN f PROVE g[M(j)].key = f[j].key
  <2>1. Carried(f, g, e, n)
    BY <1>8, MovedLines
  <2> QED BY <2>1 DEF Carried, SameShape
<1>15. M(r) = r /\ M(L) = L
  BY <1>7, MovedBefore
<1>16. \A q \in new : g[q].key = "memory"
  OBVIOUS
<1> HIDE DEF new, M
<1>17. ASSUME NEW A, NEW B, Gains(A, B, e, n)
       PROVE  /\ \A j \in A : M(j) \in B
              /\ new \subseteq B
              /\ \A y \in B : y \in new \/ \E j \in A : y = M(j)
  BY <1>17 DEF Gains, new, M
<1>18. /\ \A i \in Item(f, o) : f[i].key = "resources" <=> i = r
       /\ \A i \in Item(f, o) : f[i].key = "limits" <=> i = L
  BY <1>3, OwnParts DEF OneEach
<1>19. /\ \A i \in Item(f, o) : i \in DOMAIN f
       /\ \A i \in Block(f, r) : i \in DOMAIN f /\ i \in Item(f, o)
       /\ \A i \in Block(f, L) : i \in DOMAIN f
  <2>1. \A i \in Item(f, o) : i \in DOMAIN f
    BY <1>0, ItemInFile
  <2>2. \A i \in Block(f, r) : i \in DOMAIN f /\ i \in Item(f, o)
    <3>1. r # o
      BY <1>1
    <3> QED BY <1>0, <1>1, <3>1, BlockInFile, FieldBlock
  <2>3. \A i \in Block(f, L) : i \in DOMAIN f
    BY <1>3, BlockInFile
  <2> QED BY <2>1, <2>2, <2>3
<1>20. \A y \in Item(g, o) : g[y].key = "resources" <=> y = r
  <2>1. ASSUME NEW y \in Item(g, o), g[y].key = "resources" PROVE y = r
    <3>1. PICK j \in Item(f, o) : y = M(j)
      BY <1>10, <1>16, <1>17, <2>1
    <3> QED BY <1>14, <1>15, <1>18, <1>19, <2>1, <3>1
  <2>2. g[r].key = "resources"
    BY <1>1, <1>14, <1>15
  <2> QED BY <2>1, <2>2
<1>21. \A y \in Block(g, r) : g[y].key = "limits" <=> y = L
  <2>1. ASSUME NEW y \in Block(g, r), g[y].key = "limits" PROVE y = L
    <3>1. PICK j \in Block(f, r) : y = M(j)
      BY <1>11, <1>16, <1>17, <2>1
    <3> QED BY <1>14, <1>15, <1>18, <1>19, <2>1, <3>1
  <2>2. g[L].key = "limits"
    BY <1>3, <1>14, <1>15
  <2> QED BY <2>1, <2>2
<1>22. r \in Item(g, o) /\ L \in Block(g, r)
  BY <1>10, <1>11, <1>15, <1>17
<1>23. /\ Memory(g, c) = {y \in Block(g, L) : g[y].key = "memory"}
       /\ Limit(g, c) = {r, L} \cup Memory(g, c)
  <2>1. r \in Entry(g, "containers", c)
    BY <1>13, <1>22
  <2>2. L \in Block(g, r)
    BY <1>22
  <2>3. \A i \in Entry(g, "containers", c) : g[i].key = "resources" <=> i = r
    BY <1>13, <1>20
  <2> QED BY <1>21, <2>1, <2>2, <2>3, LimitIs
<1>24. Memory(f, c) = old /\ Limit(f, c) = {r, L} \cup old
  <2>1. r \in Entry(f, "containers", c)
    BY <1>0
  <2>2. \A i \in Entry(f, "containers", c) : f[i].key = "resources" <=> i = r
    BY <1>0, <1>18
  <2>3. \A i \in Block(f, r) : f[i].key = "limits" <=> i = L
    BY <1>18, <1>19
  <2>4. /\ Memory(f, c) = {j \in Block(f, L) : f[j].key = "memory"}
        /\ Limit(f, c) = {r, L} \cup Memory(f, c)
    BY <2>1, <2>2, <2>3, LimitIs
  <2> QED BY <2>4
<1>25. Memory(g, c) = {M(j) : j \in old} \cup new
  <2>1. ASSUME NEW y \in Memory(g, c), y \notin new
        PROVE  \E j \in old : y = M(j)
    <3>1. y \in Block(g, L) /\ g[y].key = "memory"
      BY <1>23, <2>1
    <3>2. PICK j \in Block(f, L) : y = M(j)
      BY <1>12, <1>17, <2>1, <3>1
    <3> QED BY <1>14, <1>19, <3>1, <3>2
  <2>2. ASSUME NEW j \in old PROVE M(j) \in Memory(g, c)
    BY <1>12, <1>14, <1>17, <1>19, <1>23
  <2>3. new \subseteq Memory(g, c)
    BY <1>12, <1>16, <1>17, <1>23
  <2> QED BY <2>1, <2>2, <2>3
<1>26. Limit(g, c) = {M(j) : j \in Limit(f, c)} \cup new
  BY <1>15, <1>23, <1>24, <1>25
<1> QED BY <1>24, <1>25, <1>26 DEF M, new, Joined

(***************************************************************************)
(* Cases 1 and 2: the container has limits.                                *)
(***************************************************************************)
LEMMA OpensBlock ==
    ASSUME NEW f \in Seq(Lines), NEW i \in DOMAIN f, i + 1 \in DOMAIN f,
           Opens(f, i + 1)
    PROVE  i + 1 \in Block(f, i)
<1>0. Len(f) \in Nat /\ DOMAIN f = 1 .. Len(f) /\ (i + 1) - 1 = i
      /\ i \in Nat
  OBVIOUS
<1>1. \/ f[i + 1].indent > Column(f[i])
      \/ f[i + 1].dash /\ f[i + 1].indent = Column(f[i])
  BY <1>0, OpensBlank
<1>2. i + 1 \in (i + 1) .. Len(f) /\ \A k \in (i + 1) .. (i + 1) : k = i + 1
  BY <1>0
<1> QED BY <1>1, <1>2 DEF Block

\* What the edit has to achieve.
Written(f, g, c, v) ==
    /\ g \in Seq(Lines)
    /\ SetsLimit(f, g, c, v)
    /\ Unmarshals(f) => Unmarshals(g)

\* What is to be shown of each case.
LEMMA GraftWrites ==
    ASSUME NEW f \in Seq(Lines), NEW e \in DOMAIN f, NEW n \in 0 .. 3, NEW g,
           Grafted(f, g, e, n), NEW c, NEW v,
           \E m \in Memory(g, c) : Memory(g, c) = {m} /\ g[m].value = v,
           Limit(g, c) = {Moved(e, n, j) : j \in Limit(f, c)}
                            \cup (e + 1)..(e + n),
           g[e] # f[e] => e \in Limit(g, c),
           Deeper(f, g, e, n),
           WellFormedTo(f, e) => \A q \in (e + 1) .. (e + n) : Joins(g, q),
           e + 1 \in DOMAIN f /\ Opens(f, e + 1) => Joins(g, e + 1 + n)
    PROVE  Written(f, g, c, v)
<1>1. g \in Seq(Lines)
  BY DEF Grafted, Grown
<1>2. EditedAt(f, g, e, n)
  BY GraftEdits
<1>3. SetsLimit(f, g, c, v)
  BY <1>2 DEF SetsLimit
<1>4. Unmarshals(f) => Unmarshals(g)
  BY GrowthUnmarshals
<1> QED BY <1>1, <1>3, <1>4 DEF Written

\* Case 1: the limit that is there gets the value.
LEMMA LimitUpdated ==
    ASSUME NEW f \in Seq(Lines), NEW c, NEW o, Framed(f, c, o),
           NEW r \in Item(f, o), f[r].key = "resources",
           NEW L \in Block(f, r), f[L].key = "limits",
           NEW M \in Block(f, L), f[M].key = "memory", NEW v \in Texts
    PROVE  Written(f, [f EXCEPT ![M].value = v], c, v)
<1> DEFINE g == [f EXCEPT ![M].value = v]
           l == [f[M] EXCEPT !.value = v]
           old == {j \in Block(f, L) : f[j].key = "memory"}
<1>0. Len(f) \in Nat /\ DOMAIN f = 1 .. Len(f)
  OBVIOUS
<1>1. L \in DOMAIN f /\ r < L /\ r \in DOMAIN f /\ ~f[L].dash
      /\ L \in Item(f, o) /\ Column(f[L]) = f[L].indent
  BY LimitPlace
<1>2. M \in DOMAIN f /\ M \in Block(f, r)
  <2>1. M \in DOMAIN f
    BY <1>1, BlockInFile
  <2>2. M \in Block(f, r)
    BY <1>1, InnerBlock
  <2> QED BY <2>1, <2>2
<1>3. f[M] \in Lines
  BY <1>2
<1>4. /\ l \in Lines /\ l.indent = f[M].indent /\ l.dash = f[M].dash
      /\ l.key = f[M].key /\ l.value = v
  BY <1>3 DEF Lines
<1>5. g = [f EXCEPT ![M] = l]
  BY <1>2
<1> HIDE DEF g, l, old
<1>6. /\ g \in Seq(Lines) /\ Len(g) = Len(f) /\ g[M] = l
      /\ \A j \in 1 .. Len(f) : j # M => g[j] = f[j]
  BY <1>0, <1>2, <1>4, <1>5
<1>7. Grafted(f, g, M, 0)
  <2>1. \A j \in 1 .. M : /\ SameShape(f[j], g[j])
                          /\ f[j].key \notin Settings => g[j] = f[j]
    <3>1. ASSUME NEW j \in 1 .. M
          PROVE  /\ SameShape(f[j], g[j])
                 /\ f[j].key \notin Settings => g[j] = f[j]
      <4>1. CASE j = M
        BY <1>4, <1>6, <4>1 DEF SameShape, Settings
      <4>2. CASE j # M
        <5>1. j \in 1 .. Len(f)
          BY <1>0, <1>2
        <5> QED BY <1>6, <4>2, <5>1 DEF SameShape
      <4> QED BY <4>1, <4>2
    <3> QED BY <3>1
  <2>2. /\ \A j \in (M + 1)..Len(f) : g[j + 0] = f[j]
        /\ \A j \in 1..(M - 1) : g[j] = f[j]
        /\ \A j \in (M + 1)..(M + 0) : FALSE
        /\ Len(g) = Len(f) + 0
    BY <1>0, <1>2, <1>6
  <2>3. Grown(f, g, M, 0)
    BY <1>6, <2>1, <2>2 DEF Grown
  <2> QED BY <2>2, <2>3 DEF Grafted
<1>8. \A q \in (M + 1)..(M + 0) : FALSE
  BY <1>0, <1>2
<1>9. old = {M}
  <2>1. L \in Item(f, o)
    BY <1>1
  <2>2. \A j, k \in Block(f, L) :
            f[j].key = "memory" /\ f[k].key = "memory" => j = k
    BY <2>1, OwnParts DEF BlockOfLimits
  <2> QED BY <2>2 DEF old
<1>10. /\ Memory(g, c) = {Moved(M, 0, j) : j \in old} \cup (M + 1)..(M + 0)
       /\ Limit(g, c) = {Moved(M, 0, j) : j \in Limit(f, c)}
                            \cup (M + 1)..(M + 0)
       /\ old \subseteq Limit(f, c)
  <2>1. \A q \in (M + 1) .. (M + 0) :
            g[q].key = "memory" /\ g[q].indent > f[L].indent
    BY <1>8
  <2>2. 0 \in Nat /\ M \in DOMAIN f /\ (M = L \/ M \in Block(f, L))
    BY <1>2
  <2>3. old = {j \in Block(f, L) : f[j].key = "memory"}
    BY DEF old
  <2>4. Joined(f, g, c, M, 0, old)
    BY <1>7, <2>1, <2>2, <2>3, LimitGrows
  <2> QED BY <2>4 DEF Joined
<1>11. Moved(M, 0, M) = M
  BY <1>0, <1>2 DEF Moved
<1>12. Memory(g, c) = {M} /\ M \in Limit(g, c) /\ g[M].value = v
  BY <1>4, <1>6, <1>8, <1>9, <1>10, <1>11
<1>13. Deeper(f, g, M, 0)
  <2>1. Column(f[M]) \in Nat /\ Column(f[M]) <= Column(f[M])
    BY <1>2, LinesTyped
  <2> QED BY <1>8, <2>1 DEF Deeper
<1>14. ASSUME M + 1 \in DOMAIN f, Opens(f, M + 1) PROVE FALSE
  <2>1. ~f[M].dash
    BY <1>2, OwnParts DEF BlockOfResources
  <2>2. M + 1 \in Block(f, M)
    BY <1>2, <1>14, OpensBlock
  <2>3. M + 1 \in Block(f, L)
    BY <1>1, <2>1, <2>2, InnerBlock
  <2>4. M + 1 \in Block(f, r)
    BY <1>1, <2>3, InnerBlock
  <2>5. ~f[M + 1].dash
    BY <2>4, OwnParts DEF BlockOfResources
  <2>6. f[M].indent = f[L].indent + 2 /\ f[M + 1].indent = f[L].indent + 2
    BY <1>1, <2>3, OwnParts DEF BlockOfLimits
  <2>7. M + 1 \in (M + 1) .. (M + 1)
    BY <1>0, <1>2
  <2>8. f[M + 1].indent > Column(f[M])
    BY <2>2, <2>5, <2>7 DEF Block
  <2>9. f[L].indent \in Nat
    BY <1>1, LinesTyped
  <2> QED BY <2>1, <2>6, <2>8, <2>9 DEF Column
<1>15. Written(f, g, c, v)
  <2>1. 0 \in 0 .. 3 /\ M \in DOMAIN f
    BY <1>2
  <2>2. \E m \in Memory(g, c) : Memory(g, c) = {m} /\ g[m].value = v
    BY <1>12
  <2>3. Limit(g, c) = {Moved(M, 0, j) : j \in Limit(f, c)}
                            \cup (M + 1)..(M + 0)
    BY <1>10
  <2>4. g[M] # f[M] => M \in Limit(g, c)
    BY <1>12
  <2>5. WellFormedTo(f, M) => \A q \in (M + 1) .. (M + 0) : Joins(g, q)
    BY <1>8
  <2>6. M + 1 \in DOMAIN f /\ Opens(f, M + 1) => Joins(g, M + 1 + 0)
    BY <1>14
  <2> QED BY <1>7, <1>13, <2>1, <2>2, <2>3, <2>4, <2>5, <2>6, GraftWrites
<1> QED BY <1>15 DEF g

\* Case 2: the limits get a memory limit at their end.
LEMMA LimitFilled ==
    ASSUME NEW f \in Seq(Lines), NEW c, NEW o, Framed(f, c, o),
           NEW r \in Item(f, o), f[r].key = "resources",
           NEW L \in Block(f, r), f[L].key = "limits",
           \A j \in Block(f, L) : f[j].key # "memory",
           NEW e \in DOMAIN f, e = L \/ e \in Block(f, L),
           e + 1 \notin Block(f, L), NEW v \in Texts
    PROVE  Written(f, InsertAfter(f, e,
                        <<Line(f[L].indent + 2, FALSE, "memory", v)>>), c, v)
<1> DEFINE l == Line(f[L].indent + 2, FALSE, "memory", v)
           new == <<l>>
           g == InsertAfter(f, e, new)
           old == {j \in Block(f, L) : f[j].key = "memory"}
           b == f[L].indent
<1>0. Len(f) \in Nat /\ DOMAIN f = 1 .. Len(f) /\ e \in Nat
  OBVIOUS
<1>1. L \in DOMAIN f /\ r < L /\ r \in DOMAIN f /\ ~f[L].dash /\ L \in Nat
      /\ L \in Item(f, o) /\ Column(f[L]) = b
  BY LimitPlace
<1>2. b \in Nat
  BY <1>1, LinesTyped
<1>3. l \in Lines /\ l.indent = b + 2 /\ ~l.dash /\ l.key = "memory"
      /\ l.value = v
  <2>1. b + 2 \in Nat
    BY <1>2
  <2>2. l \in Lines
    BY <2>1, TextsUsed, LineTyped
  <2> QED BY <2>2 DEF Line
<1> HIDE DEF l
<1>4. new \in Seq(Lines) /\ Len(new) = 1 /\ new[1] = l
  BY <1>3, OneLine
<1> HIDE DEF new
<1>5. /\ Grafted(f, g, e, 1)
      /\ \A j \in 1 .. e : g[j] = f[j]
      /\ \A q \in (e + 1) .. (e + 1) : g[q] = new[q - e]
  <2>1. \A q \in 1 .. Len(new) : ~new[q].dash /\ new[q].key \in LimitKeys
    <3>1. \A q \in 1 .. Len(new) : q = 1
      BY <1>4
    <3> QED BY <1>3, <1>4, <3>1 DEF LimitKeys
  <2>2. /\ Grafted(f, g, e, Len(new))
        /\ \A j \in 1 .. e : g[j] = f[j]
        /\ \A q \in (e + 1) .. (e + Len(new)) : g[q] = new[q - e]
    BY <1>4, <2>1, GraftInserts
  <2> HIDE DEF g
  <2> QED BY <1>4, <2>2
<1> HIDE DEF g, old
<1>6. g[e + 1] = l /\ g[e] = f[e]
  <2>1. e + 1 \in (e + 1) .. (e + 1) /\ (e + 1) - e = 1 /\ e \in 1 .. e
    BY <1>0
  <2> QED BY <1>4, <1>5, <2>1
<1>7. \A q \in (e + 1) .. (e + 1) : q = e + 1
  BY <1>0
<1>8. old = {}
  BY DEF old
<1>9. /\ Memory(g, c) = {Moved(e, 1, j) : j \in old} \cup (e + 1)..(e + 1)
      /\ Limit(g, c) = {Moved(e, 1, j) : j \in Limit(f, c)}
                            \cup (e + 1)..(e + 1)
  <2>1. \A q \in (e + 1) .. (e + 1) :
            g[q].key = "memory" /\ g[q].indent > f[L].indent
    BY <1>2, <1>3, <1>6, <1>7
  <2>2. 1 \in Nat
    OBVIOUS
  <2>3. old = {j \in Block(f, L) : f[j].key = "memory"}
    BY DEF old
  <2>4. Grafted(f, g, e, 1)
    BY <1>5
  <2>5. Joined(f, g, c, e, 1, old)
    BY <2>1, <2>2, <2>3, <2>4, LimitGrows
  <2> QED BY <2>5 DEF Joined
<1>10. Memory(g, c) = {e + 1} /\ g[e + 1].value = v
  <2>1. (e + 1)..(e + 1) = {e + 1}
    BY <1>0
  <2> QED BY <1>3, <1>6, <1>8, <1>9, <2>1
<1>11. e = L \/ (~f[e].dash /\ f[e].indent = b + 2)
  <2>1. ASSUME e \in Block(f, L)
        PROVE  ~f[e].dash /\ f[e].indent = b + 2
    <3>1. e \in Block(f, r)
      BY <1>1, <2>1, InnerBlock
    <3>2. ~f[e].dash
      BY <3>1, OwnParts DEF BlockOfResources
    <3>3. f[e].indent = b + 2
      BY <1>1, <2>1, OwnParts DEF BlockOfLimits
    <3> QED BY <3>2, <3>3
  <2> QED BY <2>1
<1>12. ASSUME e + 1 \in DOMAIN f PROVE f[e + 1].indent <= b
  <2>1. SUFFICES ASSUME ~(f[e + 1].indent <= b) PROVE FALSE
    OBVIOUS
  <2>2. f[e + 1].indent > Column(f[L])
    BY <1>1, <1>2, <1>12, <2>1, LinesTyped
  <2>3. L <= e /\ \A k \in (L + 1) .. e : k \in Block(f, L)
    <3>1. CASE e = L
      BY <1>1, <3>1
    <3>2. CASE e \in Block(f, L)
      <4>1. L < e
        BY <1>1, <3>2, BlockInFile
      <4>2. \A k \in (L + 1) .. e : k \in Block(f, L)
        BY <1>1, <3>2, BlockInFile
      <4> QED BY <1>0, <1>1, <4>1, <4>2
    <3> QED BY <3>1, <3>2
  <2>4. ASSUME NEW k \in (L + 1) .. (e + 1)
        PROVE  \/ f[k].indent > Column(f[L])
               \/ f[k].dash /\ f[k].indent = Column(f[L])
    <3>1. CASE k = e + 1
      BY <2>2, <3>1
    <3>2. CASE k # e + 1
      <4>1. k \in (L + 1) .. e /\ k \in (L + 1) .. k
        BY <1>0, <1>1, <3>2
      <4>2. k \in Block(f, L)
        BY <2>3, <4>1
      <4> QED BY <4>1, <4>2 DEF Block
    <3> QED BY <3>1, <3>2
  <2>5. e + 1 \in (L + 1) .. Len(f)
    BY <1>0, <1>1, <1>12, <2>3
  <2>6. e + 1 \in Block(f, L)
    BY <2>4, <2>5 DEF Block
  <2> QED BY <2>6
<1>13. Deeper(f, g, e, 1)
  <2>1. \A q \in (e + 1) .. (e + 1) : g[q].indent > b
    BY <1>2, <1>3, <1>6, <1>7
  <2> QED BY <1>2, <1>12, <2>1 DEF Deeper
<1>14. Joins(g, e + 1)
  <2>1. (e + 1) - 1 = e
    BY <1>0
  <2>2. CASE e = L
    <3>1. Blank(f[L]) /\ f[L].key # "---"
      BY <1>1, OwnParts DEF BlockOfLimits
    <3>2. g[e + 1].indent > Column(g[e])
      BY <1>1, <1>2, <1>3, <1>6, <2>2
    <3>3. Blank(g[e]) /\ g[e].key # "---"
      BY <1>6, <2>2, <3>1
    <3>4. Opens(g, e + 1)
      BY <2>1, <3>2, <3>3, OpensBlank
    <3> QED BY <3>4 DEF Joins
  <2>3. CASE e # L
    <3>1. ~f[e].dash /\ f[e].indent = b + 2
      BY <1>11, <2>3
    <3>2. Aligned(g[e + 1], g[e])
      BY <1>3, <1>6, <3>1 DEF Aligned, Column
    <3>3. e \in 1..((e + 1) - 1) /\ \A k \in (e + 1)..((e + 1) - 1) : FALSE
      BY <1>0
    <3>4. Continues(g, e + 1)
      BY <3>2, <3>3, ContinuesBetween
    <3> QED BY <3>4 DEF Joins
  <2> QED BY <2>2, <2>3
<1>15. ASSUME e + 1 \in DOMAIN f, Opens(f, e + 1) PROVE FALSE
  <2>1. e + 1 \in Block(f, e)
    BY <1>15, OpensBlock
  <2>2. CASE e = L
    BY <2>1, <2>2
  <2>3. CASE e # L
    <3>1. ~f[e].dash /\ e \in Block(f, L)
      BY <1>11, <2>3
    <3>2. e + 1 \in Block(f, L)
      BY <1>1, <2>1, <3>1, InnerBlock
    <3> QED BY <3>2
  <2> QED BY <2>2, <2>3
<1>16. Written(f, g, c, v)
  <2>1. 1 \in 0 .. 3
    OBVIOUS
  <2>2. \E m \in Memory(g, c) : Memory(g, c) = {m} /\ g[m].value = v
    BY <1>10
  <2>3. Limit(g, c) = {Moved(e, 1, j) : j \in Limit(f, c)}
                            \cup (e + 1)..(e + 1)
    BY <1>9
  <2>4. g[e] # f[e] => e \in Limit(g, c)
    BY <1>6
  <2>5. WellFormedTo(f, e) => \A q \in (e + 1) .. (e + 1) : Joins(g, q)
    BY <1>7, <1>14
  <2>6. e + 1 \in DOMAIN f /\ Opens(f, e + 1) => Joins(g, e + 1 + 1)
    BY <1>15
  <2>7. Grafted(f, g, e, 1)
    BY <1>5
  <2> QED BY <1>13, <2>1, <2>2, <2>3, <2>4, <2>5, <2>6, <2>7, GraftWrites
<1> QED BY <1>16 DEF g, new, l

(***************************************************************************)
(* Cases 3 and 4: the container has resources without limits.              *)
(***************************************************************************)
\* From line i on stands a new limit, v, at indentation d.
NewLimit(g, i, d, v) ==
    /\ g[i].indent = d /\ g[i].key = "limits" /\ Blank(g[i])
    /\ g[i + 1].indent = d + 2 /\ g[i + 1].key = "memory"
    /\ g[i + 1].value = v
    /\ ~g[i].dash /\ ~g[i + 1].dash

\* A line without a value.
LEMMA BlankLine ==
    ASSUME NEW indent \in Nat, NEW key \in Texts
    PROVE  /\ Line(indent, FALSE, key, "") \in Lines
           /\ Line(indent, FALSE, key, "").indent = indent
           /\ Line(indent, FALSE, key, "").key = key
           /\ Blank(Line(indent, FALSE, key, ""))
           /\ ~Line(indent, FALSE, key, "").dash
<1>1. Line(indent, FALSE, key, "") \in Lines
  BY TextsUsed, LineTyped
<1>2. Blank(Line(indent, FALSE, key, ""))
  BY DEF Blank, Line
<1>3. /\ Line(indent, FALSE, key, "").indent = indent
      /\ Line(indent, FALSE, key, "").key = key
      /\ ~Line(indent, FALSE, key, "").dash
  BY DEF Line
<1> QED BY <1>1, <1>2, <1>3

\* The two lines of a limit.
LEMMA LimitLinesMade ==
    ASSUME NEW indent \in Nat, NEW v \in Texts
    PROVE  /\ LimitLines(indent, v) \in Seq(Lines)
           /\ Len(LimitLines(indent, v)) = 2
           /\ NewLimit(LimitLines(indent, v), 1, indent, v)
<1> DEFINE a == Line(indent, FALSE, "limits", "")
           b == Line(indent + 2, FALSE, "memory", v)
           s == LimitLines(indent, v)
<1>1. /\ a \in Lines /\ a.indent = indent /\ a.key = "limits" /\ Blank(a)
      /\ ~a.dash
  BY TextsUsed, BlankLine
<1>2. /\ b \in Lines /\ b.indent = indent + 2 /\ b.key = "memory"
      /\ b.value = v /\ ~b.dash
  <2>1. indent + 2 \in Nat
    OBVIOUS
  <2>2. b \in Lines
    BY <2>1, TextsUsed, LineTyped
  <2> QED BY <2>2 DEF Line
<1> HIDE DEF a, b
<1>3. s = <<a, b>>
  BY DEF LimitLines, a, b
<1> HIDE DEF s
<1>4. s \in Seq(Lines) /\ Len(s) = 2 /\ s[1] = a /\ s[1 + 1] = b
  BY <1>1, <1>2, <1>3
<1>5. NewLimit(s, 1, indent, v)
  BY <1>1, <1>2, <1>4 DEF NewLimit
<1> QED BY <1>4, <1>5 DEF s

\* A block of one line.
LEMMA OneLineBlock ==
    ASSUME NEW f \in Seq(Lines), NEW i \in DOMAIN f, i + 1 \in DOMAIN f,
           f[i + 1].indent > Column(f[i]), i + 2 \notin Block(f, i)
    PROVE  Block(f, i) = {i + 1}
<1>0. Len(f) \in Nat /\ DOMAIN f = 1 .. Len(f) /\ i \in Nat
  OBVIOUS
<1>1. i + 1 \in Block(f, i)
  <2>1. i + 1 \in (i + 1) .. Len(f) /\ \A k \in (i + 1) .. (i + 1) : k = i + 1
    BY <1>0
  <2> QED BY <2>1 DEF Block
<1>2. ASSUME NEW j \in Block(f, i) PROVE j = i + 1
  <2>1. j \in DOMAIN f /\ i < j /\ \A k \in (i + 1) .. j : k \in Block(f, i)
    BY BlockInFile
  <2>2. ~(i + 2 <= j)
    <3>1. SUFFICES ASSUME i + 2 <= j PROVE FALSE
      OBVIOUS
    <3>2. i + 2 \in (i + 1) .. j
      BY <1>0, <2>1, <3>1
    <3> QED BY <2>1, <3>2
  <2> QED BY <1>0, <2>1, <2>2
<1> QED BY <1>1, <1>2

\* The edit of resources without limits is a graft of a limit.
LEMMA WithResourcesGrafts ==
    ASSUME NEW f \in Seq(Lines), NEW r \in DOMAIN f, f[r].key = "resources",
           NEW v \in Texts
    PROVE  /\ Grafted(f, WithResources(f, r, v), r, 2)
           /\ Blank(WithResources(f, r, v)[r])
           /\ NewLimit(WithResources(f, r, v), r + 1, f[r].indent + 2, v)
<1> DEFINE new == LimitLines(f[r].indent + 2, v)
           g == InsertAfter(f, r, new)
           h == [g EXCEPT ![r].value = ""]
           l == [f[r] EXCEPT !.value = ""]
<1>1. Len(f) \in Nat /\ DOMAIN f = 1 .. Len(f) /\ r \in 1 .. Len(f)
      /\ f[r] \in Lines
  OBVIOUS
<1>2. /\ new \in Seq(Lines) /\ Len(new) = 2
      /\ NewLimit(new, 1, f[r].indent + 2, v)
  <2>1. f[r].indent + 2 \in Nat
    BY IndentTyped
  <2> QED BY <2>1, LimitLinesMade
<1> HIDE DEF new
<1>3. /\ g \in Seq(Lines)
      /\ Len(g) = Len(f) + 2
      /\ \A j \in 1 .. r : g[j] = f[j]
      /\ \A j \in (r + 1) .. (r + 2) : g[j] = new[j - r]
      /\ \A j \in (r + 1) .. Len(f) : g[j + 2] = f[j]
  <2>1. /\ g \in Seq(Lines)
        /\ Len(g) = Len(f) + Len(new)
        /\ \A j \in 1 .. r : g[j] = f[j]
        /\ \A j \in (r + 1) .. (r + Len(new)) : g[j] = new[j - r]
        /\ \A j \in (r + 1) .. Len(f) : g[j + Len(new)] = f[j]
    BY <1>2, InsertionShifts
  <2> HIDE DEF g
  <2> QED BY <1>2, <2>1
<1>4. l \in Lines /\ l.indent = f[r].indent /\ l.dash = f[r].dash
      /\ l.key = f[r].key
  <2>1. "" \in Texts
    BY TextsUsed
  <2> QED BY <1>1, <2>1 DEF Lines
<1>5. Blank(l)
  <2>1. "value" \in DOMAIN f[r]
    BY <1>1 DEF Lines
  <2>2. l.value = ""
    BY <2>1, Zenon
  <2> HIDE DEF l
  <2> QED BY <2>2, Zenon DEF Blank
<1>6. g[r] = f[r]
  BY <1>1, <1>3
<1> HIDE DEF g
<1>7. h = [g EXCEPT ![r] = l]
  BY <1>6
<1> HIDE DEF h, l
<1>8. r \in DOMAIN g
  BY <1>1, <1>3
<1>9. /\ h \in Seq(Lines) /\ Len(h) = Len(g) /\ h[r] = l
      /\ \A j \in 1 .. Len(g) : j # r => h[j] = g[j]
  BY <1>3, <1>4, <1>7, <1>8
<1>10. h[r + 1] = new[1] /\ h[(r + 1) + 1] = new[1 + 1]
  <2>1. /\ (r + 1) - r = 1 /\ (r + 1) + 1 = r + 2 /\ (r + 2) - r = 2
        /\ r + 1 \in (r + 1) .. (r + 2) /\ r + 2 \in (r + 1) .. (r + 2)
        /\ r + 1 # r /\ r + 2 # r /\ 1 + 1 = 2
    BY <1>1
  <2>2. r + 1 \in 1 .. Len(g) /\ r + 2 \in 1 .. Len(g)
    BY <1>1, <1>3
  <2>3. g[r + 1] = new[1] /\ g[r + 2] = new[2]
    BY <1>3, <2>1
  <2>4. h[r + 1] = g[r + 1] /\ h[r + 2] = g[r + 2]
    BY <1>9, <2>1, <2>2
  <2> QED BY <2>1, <2>3, <2>4
<1>11. NewLimit(h, r + 1, f[r].indent + 2, v)
  BY <1>2, <1>10 DEF NewLimit
<1>12. \A j \in (r + 1) .. (r + 2) : ~h[j].dash /\ h[j].key \in LimitKeys
  <2>1. \A j \in (r + 1) .. (r + 2) : j = r + 1 \/ j = (r + 1) + 1
    BY <1>1
  <2> QED BY <1>11, <2>1 DEF NewLimit, LimitKeys
<1>13. \A j \in 1 .. r : /\ SameShape(f[j], h[j])
                         /\ f[j].key \notin Settings => h[j] = f[j]
  <2>1. ASSUME NEW j \in 1 .. r
        PROVE  /\ SameShape(f[j], h[j])
               /\ f[j].key \notin Settings => h[j] = f[j]
    <3>1. CASE j = r
      BY <1>4, <1>9, <3>1 DEF SameShape, Settings
    <3>2. CASE j # r
      <4>1. j \in 1 .. Len(g)
        BY <1>1, <1>3
      <4> QED BY <1>3, <1>9, <3>2, <4>1 DEF SameShape
    <3> QED BY <3>1, <3>2
  <2> QED BY <2>1
<1>14. /\ \A j \in 1..(r - 1) : h[j] = f[j]
       /\ \A j \in (r + 1)..Len(f) : h[j + 2] = f[j]
  <2>1. \A j \in 1..(r - 1) : h[j] = f[j]
    BY <1>1, <1>3, <1>9
  <2>2. \A j \in (r + 1)..Len(f) : h[j + 2] = f[j]
    BY <1>1, <1>3, <1>9
  <2> QED BY <2>1, <2>2
<1>15. Grown(f, h, r, 2)
  BY <1>3, <1>9, <1>12, <1>13, <1>14 DEF Grown
<1>16. Grafted(f, h, r, 2)
  BY <1>14, <1>15 DEF Grafted
<1>17. WithResources(f, r, v) = h
  BY DEF WithResources, h, g, new
<1>18. Blank(h[r])
  BY <1>5, <1>9
<1> QED BY <1>11, <1>16, <1>17, <1>18

\* Cases 3 and 4: the resources get a limit.
LEMMA LimitOpened ==
    ASSUME NEW f \in Seq(Lines), NEW c, NEW o, Framed(f, c, o),
           NEW r \in Item(f, o), f[r].key = "resources",
           \A i \in Item(f, o) : f[i].key # "limits", NEW v \in Texts
    PROVE  Written(f, WithResources(f, r, v), c, v)
<1> DEFINE g == WithResources(f, r, v)
           b == f[r].indent
           M(j) == Moved(r, 2, j)
<1>0. /\ Len(f) \in Nat /\ DOMAIN f = 1 .. Len(f)
      /\ o \in DOMAIN f /\ Plain(f, c) /\ f[o].key = "name"
      /\ f[o].value = c
      /\ Entry(f, "containers", c) = Item(f, o)
  BY DEF Framed
<1>1. f[o].dash
  BY DEF Framed
<1>2. /\ r \in DOMAIN f /\ o < r /\ b > f[o].indent
      /\ r \in Nat /\ o \in Nat /\ b \in Nat /\ f[o].indent \in Nat
  <2>1. r # o
    BY <1>0
  <2>2. r \in DOMAIN f /\ o <= r /\ b > f[o].indent
    BY <1>0, <2>1, ItemInFile
  <2> QED BY <1>0, <2>1, <2>2, LinesTyped
<1>3. ~f[r].dash /\ Column(f[r]) = b
  <2>1. ~f[r].dash
    BY <1>0, <1>2 DEF Plain
  <2> QED BY <2>1 DEF Column
<1>4. /\ \A j \in Block(f, r) : ~f[j].dash
      /\ r + 1 \in Block(f, r) => f[r + 1].indent = b + 2
  BY OwnParts DEF BlockOfResources
<1>5. /\ Grafted(f, g, r, 2)
      /\ Blank(g[r])
      /\ NewLimit(g, r + 1, b + 2, v)
  BY <1>2, WithResourcesGrafts
<1> HIDE DEF g, b, M
<1>6. /\ g \in Seq(Lines) /\ Len(g) = Len(f) + 2 /\ DOMAIN g = 1 .. Len(g)
      /\ Grown(f, g, r, 2)
      /\ \A j \in (r + 1)..Len(f) : g[j + 2] = f[j]
      /\ SameShape(f[r], g[r])
  <2>1. r \in 1 .. r
    BY <1>0, <1>2
  <2> QED BY <1>5, <2>1 DEF Grafted, Grown
<1>7. /\ g[r + 1].indent = b + 2 /\ g[r + 1].key = "limits" /\ ~g[r + 1].dash
      /\ Blank(g[r + 1])
      /\ g[r + 2].indent = b + 4 /\ g[r + 2].key = "memory" /\ ~g[r + 2].dash
      /\ g[r + 2].value = v
  <2>1. (r + 1) + 1 = r + 2 /\ (b + 2) + 2 = b + 4
    BY <1>2
  <2> QED BY <1>5, <2>1 DEF NewLimit
<1>8. \A q \in (r + 1)..(r + 2) : q = r + 1 \/ q = r + 2
  BY <1>2
<1>9. /\ r \in DOMAIN g /\ r + 1 \in DOMAIN g /\ r + 2 \in DOMAIN g
      /\ r + 1 \in (r + 1)..(r + 2) /\ r + 2 \in (r + 1)..(r + 2)
  BY <1>0, <1>2, <1>6
<1>10. \A q \in (r + 1)..(r + 2) : /\ g[q].indent > b
                                   /\ g[q].indent > f[o].indent
                                   /\ g[q].indent > Column(f[r])
  BY <1>2, <1>3, <1>7, <1>8
<1>11. Gains(Item(f, o), Item(g, o), r, 2)
  <2>1. 2 \in Nat
    OBVIOUS
  <2> QED BY <1>0, <1>2, <1>6, <1>10, <2>1, ItemGrows
<1>12. Gains(Block(f, r), Block(g, r), r, 2)
  <2>1. 2 \in Nat
    OBVIOUS
  <2> QED BY <1>2, <1>6, <1>10, <2>1, BlockGrows
<1>13. Entry(g, "containers", c) = Item(g, o)
  <2>1. Entry(f, "containers", c) # {}
    BY <1>0
  <2>2. o \in DOMAIN f /\ Plain(f, c) /\ o <= r /\ Grown(f, g, r, 2)
        /\ r \in DOMAIN f /\ 2 \in Nat
    BY <1>0, <1>2, <1>6
  <2>3. f[o].value = c
    BY <1>0
  <2> QED BY <1>1, <2>1, <2>2, <2>3, EntryGrows
<1>14. ASSUME NEW j \in DOMAIN f PROVE g[M(j)].key = f[j].key
  <2>1. Carried(f, g, r, 2)
    BY <1>2, <1>6, MovedLines
  <2> QED BY <2>1 DEF Carried, SameShape, M
<1>15. M(r) = r
  BY <1>2, MovedBefore DEF M
<1>16. ASSUME NEW A, NEW B, Gains(A, B, r, 2)
       PROVE  /\ \A j \in A : M(j) \in B
              /\ r + 1 \in B /\ r + 2 \in B
              /\ \A y \in B : \/ y = r + 1 \/ y = r + 2
                             \/ \E j \in A : y = M(j)
  BY <1>8, <1>9, <1>16 DEF Gains, M
<1>17. /\ \A i \in Item(f, o) : i \in DOMAIN f
       /\ \A i \in Block(f, r) : i \in DOMAIN f /\ i \in Item(f, o)
  <2>1. \A i \in Item(f, o) : i \in DOMAIN f
    BY <1>0, ItemInFile
  <2>2. \A i \in Block(f, r) : i \in DOMAIN f /\ i \in Item(f, o)
    <3>1. r # o
      BY <1>2
    <3> QED BY <1>0, <1>2, <3>1, BlockInFile, FieldBlock
  <2> QED BY <2>1, <2>2
<1>18. \A i \in Item(f, o) : f[i].key = "resources" <=> i = r
  BY OwnParts DEF OneEach
<1>19. \A y \in Item(g, o) : g[y].key = "resources" <=> y = r
  <2>1. ASSUME NEW y \in Item(g, o), g[y].key = "resources" PROVE y = r
    <3>1. PICK j \in Item(f, o) : y = M(j)
      BY <1>7, <1>11, <1>16, <2>1
    <3> QED BY <1>14, <1>15, <1>17, <1>18, <2>1, <3>1
  <2>2. g[r].key = "resources"
    BY <1>2, <1>14, <1>15
  <2> QED BY <2>1, <2>2
<1>20. \A y \in Block(g, r) : g[y].key = "limits" <=> y = r + 1
  <2>1. ASSUME NEW y \in Block(g, r), g[y].key = "limits", y # r + 1
        PROVE  FALSE
    <3>1. PICK j \in Block(f, r) : y = M(j)
      BY <1>7, <1>12, <1>16, <2>1
    <3>2. j \in Item(f, o) /\ f[j].key = "limits"
      BY <1>14, <1>17, <2>1, <3>1
    <3> QED BY <3>2
  <2> QED BY <1>7, <2>1
<1>21. r \in Item(g, o) /\ r + 1 \in Block(g, r)
  BY <1>11, <1>12, <1>15, <1>16
<1>22. Block(g, r + 1) = {r + 2}
  <2>1. r + 3 \notin Block(g, r + 1)
    <3>1. SUFFICES ASSUME r + 3 \in Block(g, r + 1) PROVE FALSE
      OBVIOUS
    <3>2. r + 3 \in DOMAIN g
      BY <1>6, <1>9, <3>1, BlockInFile
    <3>3. r + 1 \in (r + 1)..Len(f) /\ (r + 1) + 2 = r + 3 /\ r + 1 \in DOMAIN f
      BY <1>0, <1>2, <1>6, <3>2
    <3>4. g[r + 3] = f[r + 1]
      BY <1>6, <3>3
    <3>5. r + 3 \in ((r + 1) + 1) .. (r + 3)
      BY <1>2
    <3>6. Column(g[r + 1]) = b + 2
      BY <1>7 DEF Column
    <3>7. \/ f[r + 1].indent > b + 2
          \/ f[r + 1].dash /\ f[r + 1].indent = b + 2
      BY <3>1, <3>4, <3>5, <3>6 DEF Block
    <3>8. f[r + 1].indent \in Nat
      BY <3>3, LinesTyped
    <3>9. f[r + 1].indent > Column(f[r])
      BY <1>2, <1>3, <3>7, <3>8
    <3>10. r + 1 \in Block(f, r)
      <4>1. \A k \in (r + 1) .. (r + 1) : k = r + 1
        BY <1>2
      <4> QED BY <3>3, <3>9, <4>1 DEF Block
    <3>11. ~f[r + 1].dash /\ f[r + 1].indent = b + 2
      BY <1>4, <3>10 DEF b
    <3> QED BY <1>2, <3>7, <3>11
  <2>2. /\ (r + 1) + 1 = r + 2 /\ (r + 1) + 2 = r + 3
    BY <1>2
  <2>3. g[(r + 1) + 1].indent > Column(g[r + 1])
    BY <1>2, <1>7, <2>2 DEF Column
  <2>4. (r + 1) + 1 \in DOMAIN g /\ (r + 1) + 2 \notin Block(g, r + 1)
    BY <1>9, <2>1, <2>2
  <2>5. Block(g, r + 1) = {(r + 1) + 1}
    BY <1>6, <1>9, <2>3, <2>4, OneLineBlock
  <2> QED BY <2>2, <2>5
<1>23. Memory(g, c) = {r + 2} /\ Limit(g, c) = {r, r + 1, r + 2}
  <2>1. r \in Entry(g, "containers", c)
    BY <1>13, <1>21
  <2>2. r + 1 \in Block(g, r)
    BY <1>21
  <2>3. \A i \in Entry(g, "containers", c) : g[i].key = "resources" <=> i = r
    BY <1>13, <1>19
  <2>4. /\ Memory(g, c) = {j \in Block(g, r + 1) : g[j].key = "memory"}
        /\ Limit(g, c) = {r, r + 1} \cup Memory(g, c)
    BY <1>20, <2>1, <2>2, <2>3, LimitIs
  <2>5. Memory(g, c) = {r + 2}
    BY <1>7, <1>22, <2>4
  <2> QED BY <2>4, <2>5
<1>24. Limit(f, c) = {r}
  <2>1. r \in Entry(f, "containers", c)
    BY <1>0
  <2>2. \A i \in Entry(f, "containers", c) : f[i].key = "resources" <=> i = r
    BY <1>0, <1>18
  <2>3. \A i \in Block(f, r) : f[i].key # "limits"
    BY <1>17
  <2> QED BY <2>1, <2>2, <2>3, NoLimitIs
<1>25. Limit(g, c) = {M(j) : j \in Limit(f, c)} \cup (r + 1)..(r + 2)
  <2>1. {M(j) : j \in Limit(f, c)} = {r}
    BY <1>15, <1>24
  <2>2. (r + 1)..(r + 2) = {r + 1, r + 2}
    BY <1>8, <1>9
  <2> QED BY <1>23, <2>1, <2>2
<1>26. Deeper(f, g, r, 2)
  <2>1. Column(f[r]) <= b
    BY <1>2, <1>3
  <2> QED BY <1>2, <1>10, <2>1 DEF Deeper
<1>27. Joins(g, r + 1)
  <2>1. (r + 1) - 1 = r
    BY <1>2
  <2>2. Column(g[r]) = b /\ g[r].key = "resources"
    BY <1>3, <1>6 DEF SameShape, Column
  <2>3. g[r + 1].indent > Column(g[r])
    BY <1>2, <1>7, <2>2
  <2>4. Opens(g, r + 1)
    BY <1>5, <2>1, <2>2, <2>3, OpensBlank
  <2> QED BY <2>4 DEF Joins
<1>28. Joins(g, r + 2)
  <2>1. (r + 2) - 1 = r + 1
    BY <1>2
  <2>2. g[r + 2].indent > Column(g[r + 1])
    BY <1>2, <1>7 DEF Column
  <2>3. Opens(g, r + 2)
    BY <1>7, <2>1, <2>2, OpensBlank
  <2> QED BY <2>3 DEF Joins
<1>29. ASSUME r + 1 \in DOMAIN f, Opens(f, r + 1)
       PROVE  Joins(g, r + 1 + 2)
  <2>1. r + 1 \in Block(f, r)
    BY <1>2, <1>29, OpensBlock
  <2>2. ~f[r + 1].dash /\ f[r + 1].indent = b + 2
    BY <1>4, <2>1 DEF b
  <2>3. r + 1 \in (r + 1)..Len(f)
    BY <1>0, <1>2, <1>29
  <2>4. g[r + 1 + 2] = f[r + 1]
    BY <1>6, <2>3
  <2>5. Aligned(g[r + 1 + 2], g[r + 1])
    BY <1>7, <2>2, <2>4 DEF Aligned, Column
  <2>6. /\ r + 1 \in 1..((r + 1 + 2) - 1)
        /\ \A k \in ((r + 1) + 1)..((r + 1 + 2) - 1) : k = r + 2
    BY <1>2
  <2>7. g[r + 2].indent > f[r + 1].indent
    BY <1>2, <1>7, <2>2
  <2>8. Within(g[r + 1 + 2], g[r + 2])
    BY <2>4, <2>7 DEF Within
  <2>9. Continues(g, r + 1 + 2)
    BY <2>5, <2>6, <2>8, ContinuesBetween
  <2> QED BY <2>9 DEF Joins
<1>30. Written(f, g, c, v)
  <2>1. 2 \in 0 .. 3 /\ r \in DOMAIN f
    BY <1>2
  <2>2. \E m \in Memory(g, c) : Memory(g, c) = {m} /\ g[m].value = v
    BY <1>7, <1>23
  <2>3. Limit(g, c) = {Moved(r, 2, j) : j \in Limit(f, c)}
                            \cup (r + 1)..(r + 2)
    BY <1>25 DEF M
  <2>4. g[r] # f[r] => r \in Limit(g, c)
    BY <1>23
  <2>5. WellFormedTo(f, r) => \A q \in (r + 1) .. (r + 2) : Joins(g, q)
    BY <1>8, <1>27, <1>28
  <2>6. r + 1 \in DOMAIN f /\ Opens(f, r + 1) => Joins(g, r + 1 + 2)
    BY <1>29
  <2>7. Grafted(f, g, r, 2)
    BY <1>5
  <2> QED BY <1>26, <2>1, <2>2, <2>3, <2>4, <2>5, <2>6, <2>7, GraftWrites
<1> QED BY <1>30 DEF g

(***************************************************************************)
(* Case 5: the container has no resources.                                 *)
(***************************************************************************)
\* From line i on stand new resources with a limit, v, at indentation d.
NewBlock(g, i, d, v) ==
    /\ g[i].indent = d /\ g[i].key = "resources" /\ Blank(g[i])
    /\ ~g[i].dash
    /\ NewLimit(g, i + 1, d + 2, v)

\* The three lines of new resources.
LEMMA ResourcesLinesMade ==
    ASSUME NEW d \in Nat, NEW v \in Texts
    PROVE  /\ ResourcesLines(d, v) \in Seq(Lines)
           /\ Len(ResourcesLines(d, v)) = 3
           /\ NewBlock(ResourcesLines(d, v), 1, d + 2, v)
<1> DEFINE l == Line(d + 2, FALSE, "resources", "")
           a == <<l>>
           b == LimitLines(d + 4, v)
           s == a \o b
<1>1. /\ l \in Lines /\ l.indent = d + 2 /\ l.key = "resources" /\ Blank(l)
      /\ ~l.dash
  <2>1. d + 2 \in Nat
    OBVIOUS
  <2> QED BY <2>1, TextsUsed, BlankLine
<1> HIDE DEF l
<1>2. a \in Seq(Lines) /\ Len(a) = 1 /\ a[1] = l
  BY <1>1, OneLine
<1>3. b \in Seq(Lines) /\ Len(b) = 2 /\ NewLimit(b, 1, d + 4, v)
  <2>1. d + 4 \in Nat
    OBVIOUS
  <2> QED BY <2>1, LimitLinesMade
<1> HIDE DEF a, b
<1>4. /\ s \in Seq(Lines) /\ Len(s) = 3
      /\ \A j \in 1 .. 3 : s[j] = IF j <= 1 THEN a[j] ELSE b[j - 1]
  <2>1. /\ s \in Seq(Lines) /\ Len(s) = Len(a) + Len(b)
        /\ \A j \in 1 .. Len(a) + Len(b) :
            s[j] = IF j <= Len(a) THEN a[j] ELSE b[j - Len(a)]
    BY <1>2, <1>3, ConcatProperties
  <2> HIDE DEF s
  <2> QED BY <1>2, <1>3, <2>1
<1> HIDE DEF s
<1>5. s[1] = l /\ s[2] = b[1] /\ s[3] = b[2]
  BY <1>2, <1>4
<1>6. NewLimit(s, 2, d + 4, v)
  <2>1. 1 + 1 = 2 /\ 2 + 1 = 3
    OBVIOUS
  <2>2. s[2] = b[1] /\ s[2 + 1] = b[1 + 1]
    BY <1>5, <2>1
  <2> QED BY <1>3, <2>2 DEF NewLimit
<1>7. NewBlock(s, 1, d + 2, v)
  <2>1. 1 + 1 = 2 /\ (d + 2) + 2 = d + 4
    OBVIOUS
  <2>2. NewLimit(s, 1 + 1, (d + 2) + 2, v)
    BY <1>6, <2>1
  <2> QED BY <1>1, <1>5, <2>2 DEF NewBlock
<1>8. ResourcesLines(d, v) = s
  BY DEF ResourcesLines, s, a, b, l
<1> QED BY <1>4, <1>7, <1>8

\* g is f with new resources after line e, whose lines stay as they are.
Extended(f, g, e, d, v) ==
    /\ Grafted(f, g, e, 3)
    /\ \A j \in 1..e : g[j] = f[j]
    /\ NewBlock(g, e + 1, d + 2, v)

\* The insertion of new resources is a graft of them.
LEMMA NewResourcesGrafts ==
    ASSUME NEW f \in Seq(Lines), NEW e \in DOMAIN f, NEW d \in Nat,
           NEW v \in Texts
    PROVE  Extended(f, InsertAfter(f, e, ResourcesLines(d, v)), e, d, v)
<1> DEFINE new == ResourcesLines(d, v)
           g == InsertAfter(f, e, new)
<1>1. new \in Seq(Lines) /\ Len(new) = 3 /\ NewBlock(new, 1, d + 2, v)
  BY ResourcesLinesMade
<1>0. e \in Nat
  OBVIOUS
<1> HIDE DEF new
<1>2. \A q \in 1 .. Len(new) : ~new[q].dash /\ new[q].key \in LimitKeys
  <2>1. \A q \in 1 .. Len(new) : q = 1 \/ q = 1 + 1 \/ q = (1 + 1) + 1
    BY <1>1
  <2> QED BY <1>1, <2>1 DEF LimitKeys, NewBlock, NewLimit
<1>3. /\ Grafted(f, g, e, Len(new))
      /\ \A j \in 1 .. e : g[j] = f[j]
      /\ \A q \in (e + 1) .. (e + Len(new)) : g[q] = new[q - e]
  BY <1>1, <1>2, GraftInserts
<1> HIDE DEF g
<1>4. /\ Grafted(f, g, e, 3)
      /\ \A q \in (e + 1) .. (e + 3) : g[q] = new[q - e]
  BY <1>1, <1>3
<1>5. /\ g[e + 1] = new[1] /\ g[(e + 1) + 1] = new[1 + 1]
      /\ g[((e + 1) + 1) + 1] = new[(1 + 1) + 1]
  <2>1. e + 1 \in (e + 1) .. (e + 3) /\ (e + 1) - e = 1
    BY <1>0
  <2>2. (e + 1) + 1 \in (e + 1) .. (e + 3) /\ ((e + 1) + 1) - e = 1 + 1
    BY <1>0
  <2>3. /\ ((e + 1) + 1) + 1 \in (e + 1) .. (e + 3)
        /\ (((e + 1) + 1) + 1) - e = (1 + 1) + 1
    BY <1>0
  <2>4. \A q \in (e + 1) .. (e + 3) : g[q] = new[q - e]
    BY <1>4
  <2>5. g[e + 1] = new[1]
    BY <2>1, <2>4
  <2>6. g[(e + 1) + 1] = new[1 + 1]
    BY <2>2, <2>4
  <2>7. g[((e + 1) + 1) + 1] = new[(1 + 1) + 1]
    BY <2>3, <2>4
  <2> QED BY <2>5, <2>6, <2>7
<1>6. NewBlock(g, e + 1, d + 2, v)
  BY <1>1, <1>5 DEF NewBlock, NewLimit
<1>7. Extended(f, g, e, d, v)
  BY <1>3, <1>4, <1>6 DEF Extended
<1> QED BY <1>7 DEF g, new

\* A field that is added at the end of an entry is in line with its others.
LEMMA EntryContinues ==
    ASSUME NEW f \in Seq(Lines), NEW o \in DOMAIN f, f[o].dash,
           NEW e \in DOMAIN f, o <= e,
           \A k \in (o + 1) .. e : ~f[k].dash /\ f[k].indent > f[o].indent,
           WellFormedTo(f, e),
           NEW g, \A j \in 1 .. e : g[j] = f[j],
           ~g[e + 1].dash, g[e + 1].indent = f[o].indent + 2
    PROVE  Continues(g, e + 1)
<1> DEFINE d == f[o].indent
           S == {k \in (o + 1) .. e : f[k].indent < d + 2}
           A == {q \in o .. e : Column(f[q]) = d + 2}
<1>0. Len(f) \in Nat /\ DOMAIN f = 1 .. Len(f) /\ o \in Nat /\ e \in Nat
      /\ o \in 1 .. Len(f) /\ e \in 1 .. Len(f)
  OBVIOUS
<1>1. d \in Nat /\ Column(f[o]) = d + 2
  BY LinesTyped DEF Column
<1>2. \A k \in (o + 1) .. e : k \in DOMAIN f /\ Column(f[k]) = f[k].indent
                              /\ f[k].indent \in Nat /\ f[k].indent > d
  BY <1>0, LinesTyped DEF Column
<1> HIDE DEF d
<1>3. ASSUME S # {} PROVE FALSE
  <2> DEFINE k == Min(S)
  <2>1. k \in S /\ \A y \in S : k <= y
    <3>1. S \subseteq Nat
      BY <1>0
    <3> HIDE DEF S
    <3> QED BY <1>3, <3>1, MinIsFirst
  <2> HIDE DEF k
  <2>2. k \in (o + 1) .. e /\ f[k].indent = d + 1 /\ k \in Nat
    BY <1>0, <1>1, <1>2, <2>1
  <2>3. \A q \in (o + 1)..(k - 1) : f[q].indent >= d + 2
    <3>1. ASSUME NEW q \in (o + 1)..(k - 1) PROVE f[q].indent >= d + 2
      <4>1. q \in (o + 1) .. e /\ ~(k <= q)
        BY <1>0, <2>2
      <4>2. ~(f[q].indent < d + 2)
        BY <2>1, <4>1
      <4> QED BY <1>1, <1>2, <4>1, <4>2
    <3> QED BY <3>1
  <2>4. \A q \in o..(k - 1) : Column(f[q]) >= d + 2
    <3>1. ASSUME NEW q \in o..(k - 1) PROVE Column(f[q]) >= d + 2
      <4>1. CASE q = o
        BY <1>1, <4>1
      <4>2. CASE q # o
        <5>1. q \in (o + 1)..(k - 1) /\ q \in (o + 1) .. e
          BY <1>0, <2>2, <4>2
        <5> QED BY <1>2, <2>3, <5>1
      <4> QED BY <4>1, <4>2
    <3> QED BY <3>1
  <2>5. Opens(f, k) \/ Continues(f, k)
    <3>1. k \in 2 .. e
      BY <1>0, <2>2
    <3> QED BY <3>1 DEF WellFormedTo
  <2>6. CASE Opens(f, k)
    <3>1. \/ f[k].indent > Column(f[k - 1])
          \/ f[k].indent = Column(f[k - 1])
      BY <2>6, OpensBlank
    <3>2. k - 1 \in o..(k - 1) /\ k - 1 \in DOMAIN f
      BY <1>0, <2>2
    <3>3. Column(f[k - 1]) >= d + 2 /\ Column(f[k - 1]) \in Nat
      BY <2>4, <3>2, LinesTyped
    <3> QED BY <1>1, <2>2, <3>1, <3>3
  <2>7. CASE Continues(f, k)
    <3>1. PICK j \in 1..(k - 1) :
            /\ Aligned(f[k], f[j])
            /\ \A q \in (j + 1)..(k - 1) : Within(f[k], f[q])
      BY <2>7, ContinuesBetween
    <3>2. ~f[k].dash
      BY <2>2
    <3>3. Column(f[j]) = d + 1
      BY <2>2, <3>1, <3>2 DEF Aligned
    <3>4. CASE j < o
      <4>1. o \in (j + 1)..(k - 1)
        BY <1>0, <2>2, <3>4
      <4>2. Within(f[k], f[o])
        BY <3>1, <4>1
      <4>3. f[o].indent = d
        BY DEF d
      <4> QED BY <1>1, <2>2, <4>2, <4>3 DEF Within
    <3>5. CASE ~(j < o)
      <4>1. j \in o..(k - 1)
        BY <1>0, <2>2, <3>5
      <4>2. Column(f[j]) >= d + 2
        BY <2>4, <4>1
      <4> QED BY <1>1, <3>3, <4>2
    <3> QED BY <3>4, <3>5
  <2> QED BY <2>5, <2>6, <2>7
<1>4. \A k \in (o + 1) .. e : f[k].indent >= d + 2
  <2>1. ASSUME NEW k \in (o + 1) .. e PROVE f[k].indent >= d + 2
    <3>1. ~(f[k].indent < d + 2)
      BY <1>3
    <3> QED BY <1>1, <1>2, <3>1
  <2> QED BY <2>1
<1> DEFINE j == Max(A)
<1>5. j \in A /\ \A y \in A : j >= y
  <2>1. A \subseteq 0 .. Len(f)
    BY <1>0
  <2>2. o \in A
    BY <1>0, <1>1
  <2> HIDE DEF A
  <2> QED BY <1>0, <2>1, <2>2, MaxIsLast
<1> HIDE DEF j
<1>6. j \in o .. e /\ Column(f[j]) = d + 2 /\ j \in 1 .. e
  BY <1>0, <1>5
<1>7. \A k \in (j + 1) .. e : g[k].indent > d + 2
  <2>1. ASSUME NEW k \in (j + 1) .. e PROVE g[k].indent > d + 2
    <3>1. k \in (o + 1) .. e /\ k \in o .. e /\ ~(j >= k) /\ k \in 1 .. e
      BY <1>0, <1>6
    <3>2. Column(f[k]) # d + 2
      BY <1>5, <3>1
    <3>3. f[k].indent > d + 2
      BY <1>1, <1>2, <1>4, <3>1, <3>2
    <3> QED BY <3>1, <3>3
  <2> QED BY <2>1
<1>8. /\ j \in 1..((e + 1) - 1)
      /\ \A k \in (j + 1)..((e + 1) - 1) : k \in (j + 1) .. e
  BY <1>0, <1>6
<1>9. g[e + 1].indent = d + 2
  BY DEF d
<1>10. Aligned(g[e + 1], g[j])
  BY <1>6, <1>9 DEF Aligned
<1>11. \A k \in (j + 1)..((e + 1) - 1) : Within(g[e + 1], g[k])
  BY <1>7, <1>8, <1>9 DEF Within
<1> QED BY <1>8, <1>10, <1>11, ContinuesBetween

\* Case 5: the entry gets resources at its end.
LEMMA LimitAdded ==
    ASSUME NEW f \in Seq(Lines), NEW c, NEW o, Framed(f, c, o),
           NEW e \in Item(f, o), e + 1 \notin Item(f, o),
           \A k \in (o + 1) .. e : ~f[k].dash,
           \A i \in Item(f, o) : f[i].key # "resources", NEW v \in Texts,
           NEW g, g = InsertAfter(f, e, ResourcesLines(f[o].indent, v))
    PROVE  Written(f, g, c, v)
<1> DEFINE d == f[o].indent
           M(j) == Moved(e, 3, j)
<1>0. /\ Len(f) \in Nat /\ DOMAIN f = 1 .. Len(f)
      /\ o \in DOMAIN f /\ Plain(f, c) /\ f[o].key = "name"
      /\ f[o].value = c
      /\ Entry(f, "containers", c) = Item(f, o)
  BY DEF Framed
<1>1. f[o].dash
  BY DEF Framed
<1>2. /\ e \in DOMAIN f /\ o <= e /\ e \in Nat /\ o \in Nat /\ d \in Nat
      /\ \A k \in o .. e : k \in DOMAIN f /\ k \in Item(f, o)
  <2>1. e \in DOMAIN f /\ o <= e
        /\ \A k \in o .. e : k \in DOMAIN f /\ k \in Item(f, o)
    BY <1>0, ItemInFile
  <2> QED BY <1>0, <2>1, LinesTyped
<1>3. \A k \in (o + 1) .. e : f[k].indent > d
  <2>1. \A k \in (o + 1) .. e : k \in o .. e /\ k # o
    BY <1>2
  <2> QED BY <1>0, <1>2, <2>1, ItemInFile
<1>4. ASSUME e + 1 \in DOMAIN f PROVE f[e + 1].indent <= d
  <2>1. SUFFICES ASSUME ~(f[e + 1].indent <= d) PROVE FALSE
    OBVIOUS
  <2>2. f[e + 1].indent > d
    BY <1>2, <1>4, <2>1, LinesTyped
  <2>3. e + 1 \in (o + 1) .. Len(f)
    BY <1>0, <1>2, <1>4
  <2>4. \A k \in (o + 1) .. (e + 1) : k \in (o + 1) .. e \/ k = e + 1
    BY <1>2
  <2>5. e + 1 \in Item(f, o)
    BY <1>3, <2>2, <2>3, <2>4 DEF Item
  <2> QED BY <2>5
<1>5. Item(f, o) = o .. e
  <2>1. ASSUME NEW y \in Item(f, o) PROVE y \in o .. e
    <3>1. y \in DOMAIN f /\ o <= y /\ \A k \in o .. y : k \in Item(f, o)
      BY <1>0, ItemInFile
    <3>2. ~(e + 1 <= y)
      <4>1. SUFFICES ASSUME e + 1 <= y PROVE FALSE
        OBVIOUS
      <4>2. e + 1 \in o .. y
        BY <1>0, <1>2, <3>1, <4>1
      <4> QED BY <3>1, <4>2
    <3> QED BY <1>0, <1>2, <3>1, <3>2
  <2> QED BY <1>2, <2>1
<1>6. /\ Grafted(f, g, e, 3)
      /\ \A j \in 1 .. e : g[j] = f[j]
      /\ NewBlock(g, e + 1, d + 2, v)
  <2>1. /\ d \in Nat /\ e \in DOMAIN f
        /\ g = InsertAfter(f, e, ResourcesLines(d, v))
    BY <1>2
  <2>2. Extended(f, g, e, d, v)
    BY <2>1, NewResourcesGrafts
  <2> QED BY <2>2 DEF Extended
<1>30. e \in Nat
  BY <1>2
<1> HIDE DEF d, M
<1>7. /\ g \in Seq(Lines) /\ Len(g) = Len(f) + 3 /\ DOMAIN g = 1 .. Len(g)
      /\ Grown(f, g, e, 3)
      /\ \A j \in (e + 1)..Len(f) : g[j + 3] = f[j]
  BY <1>6 DEF Grafted, Grown
<1>8. /\ g[e + 1].indent = d + 2 /\ g[e + 1].key = "resources"
      /\ ~g[e + 1].dash /\ Blank(g[e + 1])
      /\ g[e + 2].indent = d + 4 /\ g[e + 2].key = "limits"
      /\ ~g[e + 2].dash /\ Blank(g[e + 2])
      /\ g[e + 3].indent = d + 6 /\ g[e + 3].key = "memory"
      /\ ~g[e + 3].dash /\ g[e + 3].value = v
  <2>1. /\ (e + 1) + 1 = e + 2 /\ ((e + 1) + 1) + 1 = e + 3
        /\ (d + 2) + 2 = d + 4 /\ ((d + 2) + 2) + 2 = d + 6
    BY <1>2 DEF d
  <2> QED BY <1>6, <2>1 DEF NewBlock, NewLimit
<1>9. \A q \in (e + 1)..(e + 3) : q = e + 1 \/ q = e + 2 \/ q = e + 3
  BY <1>30
<1>10. /\ e + 1 \in DOMAIN g /\ e + 2 \in DOMAIN g /\ e + 3 \in DOMAIN g
       /\ e + 1 \in (e + 1)..(e + 3) /\ e + 2 \in (e + 1)..(e + 3)
       /\ e + 3 \in (e + 1)..(e + 3)
  BY <1>0, <1>2, <1>7
<1>11. \A q \in (e + 1)..(e + 3) : g[q].indent > d
  <2>1. d \in Nat
    BY <1>2 DEF d
  <2> QED BY <1>8, <1>9, <2>1
<1>12. Gains(Item(f, o), Item(g, o), e, 3)
  <2>1. 3 \in Nat
    OBVIOUS
  <2>2. \A q \in (e + 1)..(e + 3) : g[q].indent > f[o].indent
    BY <1>11 DEF d
  <2> QED BY <1>0, <1>2, <1>7, <2>1, <2>2, ItemGrows
<1>13. Entry(g, "containers", c) = Item(g, o)
  <2>1. Entry(f, "containers", c) # {}
    BY <1>0
  <2>2. o \in DOMAIN f /\ Plain(f, c) /\ o <= e /\ Grown(f, g, e, 3)
        /\ e \in DOMAIN f /\ 3 \in Nat
    BY <1>0, <1>2, <1>7
  <2>3. f[o].value = c
    BY <1>0
  <2> QED BY <1>1, <2>1, <2>2, <2>3, EntryGrows
<1>14. \A y \in Item(g, o) : g[y].key = "resources" <=> y = e + 1
  <2>1. ASSUME NEW y \in Item(g, o), g[y].key = "resources", y # e + 1
        PROVE  FALSE
    <3>1. y \notin (e + 1)..(e + 3)
      BY <1>8, <1>9, <2>1
    <3>2. PICK j \in Item(f, o) : y = M(j)
      BY <1>12, <2>1, <3>1 DEF Gains, M
    <3>3. j <= e /\ j \in 1 .. e
      BY <1>0, <1>2, <1>5, <3>2
    <3>4. y = j
      BY <3>2, <3>3, MovedBefore DEF M
    <3>5. g[y] = f[j]
      BY <1>6, <3>3, <3>4
    <3> QED BY <2>1, <3>2, <3>5
  <2> QED BY <1>8, <2>1
<1>15. e + 1 \in Item(g, o)
  BY <1>10, <1>12 DEF Gains
<1>16. ASSUME NEW q \in {e + 1, e + 2}, e + 4 \in Block(g, q) PROVE FALSE
  <2>1. q \in DOMAIN g /\ q \in Nat /\ q < e + 4 /\ ~g[q].dash
        /\ g[q].indent > d /\ Column(g[q]) = g[q].indent
    <3>1. q \in DOMAIN g /\ q \in Nat /\ q < e + 4
          /\ q \in (e + 1)..(e + 3)
      BY <1>10, <1>16, <1>30
    <3>2. g[q].indent > d
      BY <1>11, <3>1
    <3>3. ~g[q].dash
      BY <1>8, <1>16
    <3> QED BY <3>1, <3>2, <3>3 DEF Column
  <2>2. e + 4 \in DOMAIN g
    BY <1>7, <1>16, <2>1, BlockInFile
  <2>3. e + 1 \in (e + 1)..Len(f) /\ (e + 1) + 3 = e + 4 /\ e + 1 \in DOMAIN f
    BY <1>0, <1>2, <1>7, <2>2
  <2>4. g[e + 4] = f[e + 1]
    BY <1>7, <2>3
  <2>5. e + 4 \in (q + 1) .. (e + 4)
    BY <1>2, <2>1
  <2>6. g[e + 4].indent > g[q].indent \/ g[e + 4].indent = g[q].indent
    BY <1>16, <2>1, <2>5 DEF Block
  <2>7. f[e + 1].indent <= d
    BY <1>4, <2>3
  <2>8. f[e + 1].indent \in Nat /\ d \in Nat /\ g[q].indent \in Nat
    BY <1>0, <1>7, <2>1, <2>3, LinesTyped DEF d
  <2> QED BY <2>1, <2>4, <2>6, <2>7, <2>8
<1>17. Block(g, e + 2) = {e + 3}
  <2>1. /\ (e + 2) + 1 = e + 3 /\ (e + 2) + 2 = e + 4 /\ d \in Nat
    BY <1>2 DEF d
  <2>2. g[(e + 2) + 1].indent > Column(g[e + 2])
    BY <1>8, <2>1 DEF Column
  <2>3. (e + 2) + 1 \in DOMAIN g /\ (e + 2) + 2 \notin Block(g, e + 2)
    BY <1>10, <1>16, <2>1
  <2>4. Block(g, e + 2) = {(e + 2) + 1}
    BY <1>7, <1>10, <2>2, <2>3, OneLineBlock
  <2> QED BY <2>1, <2>4
<1>18. e + 2 \in Block(g, e + 1)
  <2>1. /\ (e + 1) + 1 = e + 2 /\ e + 2 \in (e + 2) .. Len(g) /\ d \in Nat
        /\ \A k \in (e + 2) .. (e + 2) : k = e + 2
    BY <1>2, <1>7, <1>10 DEF d
  <2>2. g[e + 2].indent > Column(g[e + 1])
    BY <1>8, <2>1 DEF Column
  <2> QED BY <2>1, <2>2 DEF Block
<1>19. \A y \in Block(g, e + 1) : g[y].key = "limits" <=> y = e + 2
  <2>1. ASSUME NEW y \in Block(g, e + 1) PROVE y = e + 2 \/ y = e + 3
    <3>1. /\ y \in DOMAIN g /\ e + 1 < y
          /\ \A k \in ((e + 1) + 1) .. y : k \in Block(g, e + 1)
      BY <1>7, <1>10, BlockInFile
    <3>2. ~(e + 4 <= y)
      <4>1. SUFFICES ASSUME e + 4 <= y PROVE FALSE
        OBVIOUS
      <4>2. e + 4 \in ((e + 1) + 1) .. y
        BY <1>2, <1>7, <3>1, <4>1
      <4> QED BY <1>16, <3>1, <4>2
    <3> QED BY <1>2, <1>7, <3>1, <3>2
  <2> QED BY <1>8, <2>1
<1>20. Memory(g, c) = {e + 3} /\ Limit(g, c) = {e + 1, e + 2, e + 3}
  <2>1. e + 1 \in Entry(g, "containers", c)
    BY <1>13, <1>15
  <2>2. e + 2 \in Block(g, e + 1)
    BY <1>18
  <2>3. \A i \in Entry(g, "containers", c) :
            g[i].key = "resources" <=> i = e + 1
    BY <1>13, <1>14
  <2>4. /\ Memory(g, c) = {j \in Block(g, e + 2) : g[j].key = "memory"}
        /\ Limit(g, c) = {e + 1, e + 2} \cup Memory(g, c)
    BY <1>19, <2>1, <2>2, <2>3, LimitIs
  <2>5. Memory(g, c) = {e + 3}
    BY <1>8, <1>17, <2>4
  <2> QED BY <2>4, <2>5
<1>21. Limit(f, c) = {}
  <2>1. \A i \in Entry(f, "containers", c) : f[i].key # "resources"
    BY <1>0
  <2> QED BY <2>1, NoResourcesIs
<1>22. Limit(g, c) = {M(j) : j \in Limit(f, c)} \cup (e + 1)..(e + 3)
  <2>1. (e + 1)..(e + 3) = {e + 1, e + 2, e + 3}
    BY <1>9, <1>10
  <2> QED BY <1>20, <1>21, <2>1
<1>23. Deeper(f, g, e, 3)
  <2>1. d \in Nat
    BY <1>2 DEF d
  <2> QED BY <1>4, <1>11, <2>1 DEF Deeper
<1>24. ASSUME WellFormedTo(f, e) PROVE Joins(g, e + 1)
  <2>1. g[e + 1].indent = f[o].indent + 2 /\ ~g[e + 1].dash
    BY <1>8 DEF d
  <2>2. \A k \in (o + 1) .. e : ~f[k].dash /\ f[k].indent > f[o].indent
    BY <1>3 DEF d
  <2>3. /\ o \in DOMAIN f /\ e \in DOMAIN f /\ o <= e
        /\ \A j \in 1 .. e : g[j] = f[j]
    BY <1>0, <1>2, <1>6
  <2>4. Continues(g, e + 1)
    BY <1>1, <1>24, <2>1, <2>2, <2>3, EntryContinues
  <2> QED BY <2>4 DEF Joins
<1>25. Joins(g, e + 2)
  <2>1. (e + 2) - 1 = e + 1 /\ d \in Nat
    BY <1>2 DEF d
  <2>2. g[e + 2].indent > Column(g[e + 1])
    BY <1>8, <2>1 DEF Column
  <2>3. Opens(g, e + 2)
    BY <1>8, <2>1, <2>2, OpensBlank
  <2> QED BY <2>3 DEF Joins
<1>26. Joins(g, e + 3)
  <2>1. (e + 3) - 1 = e + 2 /\ d \in Nat
    BY <1>2 DEF d
  <2>2. g[e + 3].indent > Column(g[e + 2])
    BY <1>8, <2>1 DEF Column
  <2>3. Opens(g, e + 3)
    BY <1>8, <2>1, <2>2, OpensBlank
  <2> QED BY <2>3 DEF Joins
<1>27. ASSUME e + 1 \in DOMAIN f, Opens(f, e + 1) PROVE FALSE
  <2>1. (e + 1) - 1 = e
    BY <1>2
  <2>2. f[e + 1].indent > Column(f[e]) \/ f[e + 1].indent = Column(f[e])
    BY <1>27, <2>1, OpensBlank
  <2>3. Column(f[e]) > d
    <3>1. f[e].indent \in Nat /\ d \in Nat
      BY <1>2, LinesTyped DEF d
    <3>2. CASE e = o
      <4>1. Column(f[e]) = d + 2
        BY <1>1, <3>2 DEF Column, d
      <4> QED BY <3>1, <4>1
    <3>3. CASE e # o
      <4>1. e \in (o + 1) .. e
        BY <1>2, <3>3
      <4>2. f[e].indent > d
        BY <1>3, <4>1 DEF d
      <4> QED BY <3>1, <4>2 DEF Column
    <3> QED BY <3>2, <3>3
  <2>4. f[e + 1].indent <= d
    BY <1>4, <1>27 DEF d
  <2>5. /\ f[e + 1].indent \in Nat /\ Column(f[e]) \in Nat /\ d \in Nat
    BY <1>2, <1>27, LinesTyped DEF d
  <2> QED BY <2>2, <2>3, <2>4, <2>5
<1>28. Written(f, g, c, v)
  <2>1. 3 \in 0 .. 3 /\ e \in DOMAIN f
    BY <1>2
  <2>2. \E m \in Memory(g, c) : Memory(g, c) = {m} /\ g[m].value = v
    BY <1>8, <1>20
  <2>3. Limit(g, c) = {Moved(e, 3, j) : j \in Limit(f, c)}
                            \cup (e + 1)..(e + 3)
    BY <1>22 DEF M
  <2>4. g[e] # f[e] => e \in Limit(g, c)
    <3>1. e \in 1 .. e
      BY <1>0, <1>2
    <3> QED BY <1>6, <3>1
  <2>5. WellFormedTo(f, e) => \A q \in (e + 1) .. (e + 3) : Joins(g, q)
    BY <1>9, <1>24, <1>25, <1>26
  <2>6. e + 1 \in DOMAIN f /\ Opens(f, e + 1) => Joins(g, e + 1 + 3)
    BY <1>27
  <2>7. Grafted(f, g, e, 3)
    BY <1>6
  <2> QED BY <1>23, <2>1, <2>2, <2>3, <2>4, <2>5, <2>6, <2>7, GraftWrites
<1> QED BY <1>28

(***************************************************************************)
(* An insertion before a list inside the container.                        *)
(***************************************************************************)
\* Where a document of g that holds line i starts and ends.
LEMMA AroundLine ==
    ASSUME NEW g \in Seq(Lines), NEW i \in DOMAIN g, i - 1 \in DOMAIN g,
           i \notin Separators(g), i - 1 \notin Separators(g)
    PROVE  \E p \in Nat, t \in Nat :
            /\ p < i - 1 /\ i < t /\ t <= Len(g) + 1
            /\ SubSeq(g, p + 1, t - 1) \in Documents(g)
<1> DEFINE bounds == {0, Len(g) + 1} \cup Separators(g)
           A == {b \in bounds : b < i}
           B == {b \in bounds : b > i}
           p == Max(A)
           t == Min(B)
<1>1. Len(g) \in Nat /\ DOMAIN g = 1 .. Len(g) /\ i \in 1 .. Len(g)
      /\ i - 1 \in 1 .. Len(g)
  OBVIOUS
<1>2. Separators(g) \subseteq 1 .. Len(g)
  BY <1>1 DEF Separators
<1>3. p \in A /\ \A x \in A : p >= x
  <2>1. A \subseteq 0 .. Len(g) + 1 /\ 0 \in A /\ Len(g) + 1 \in Nat
    BY <1>1, <1>2
  <2> HIDE DEF A
  <2> QED BY <2>1, MaxIsLast
<1>4. t \in B /\ \A x \in B : t <= x
  <2>1. B \subseteq Nat /\ Len(g) + 1 \in B
    BY <1>1, <1>2
  <2> HIDE DEF B
  <2> QED BY <2>1, MinIsFirst
<1> HIDE DEF p, t
<1>5. p \in bounds /\ p < i /\ p \in Nat /\ t \in bounds /\ t > i /\ t \in Nat
  BY <1>1, <1>2, <1>3, <1>4
<1>6. p # i - 1
  BY <1>1, <1>5
<1>7. t <= Len(g) + 1
  BY <1>1, <1>2, <1>5
<1>8. \A b \in bounds : b <= p \/ b >= t
  <2>1. ASSUME NEW b \in bounds PROVE b <= p \/ b >= t
    <3>1. b # i /\ b \in Nat
      BY <1>1, <1>2
    <3>2. b \in A \/ b \in B
      BY <1>1, <3>1
    <3> QED BY <1>1, <1>3, <1>4, <1>5, <3>1, <3>2
  <2> QED BY <2>1
<1> HIDE DEF bounds, A, B
<1>9. SubSeq(g, p + 1, t - 1) \in Documents(g)
  <2> DEFINE q == <<p, t>>
  <2>1. q \in bounds \X bounds /\ q[1] = p /\ q[2] = t
    BY <1>5
  <2> HIDE DEF q
  <2>2. q[1] < q[2] /\ \A b \in bounds : b <= q[1] \/ b >= q[2]
    BY <1>1, <1>5, <1>8, <2>1
  <2>3. SubSeq(g, q[1] + 1, q[2] - 1) \in Documents(g)
    BY <2>1, <2>2 DEF Documents, bounds
  <2> QED BY <2>1, <2>3
<1>10. p < i - 1
  BY <1>1, <1>5, <1>6
<1> QED BY <1>5, <1>7, <1>9, <1>10

\* A line of a file that parses has its place after the lines before it.
LEMMA LineJoins ==
    ASSUME NEW g \in Seq(Lines), NEW i \in DOMAIN g, i - 1 \in DOMAIN g,
           i \notin Separators(g), i - 1 \notin Separators(g),
           WellFormed(g)
    PROVE  Joins(g, i)
<1>1. PICK p \in Nat, t \in Nat :
        /\ p < i - 1 /\ i < t /\ t <= Len(g) + 1
        /\ SubSeq(g, p + 1, t - 1) \in Documents(g)
  BY AroundLine
<1> DEFINE d == SubSeq(g, p + 1, t - 1)
           k == i - p
<1>2. Len(g) \in Nat /\ DOMAIN g = 1 .. Len(g) /\ i \in Nat
  OBVIOUS
<1>3. /\ Len(d) = t - 1 - p
      /\ \A j \in 1 .. Len(d) : d[j] = g[j + p]
  <2>1. p + 1 \in 1 .. Len(g) /\ t - 1 \in 1 .. Len(g)
        /\ p + 1 <= (t - 1) + 1 /\ p + 1 \in 1 .. Len(g) + 1
    BY <1>1, <1>2
  <2>2. /\ Len(d) = (t - 1) - (p + 1) + 1
        /\ \A j \in 1 .. (t - 1) - (p + 1) + 1 : d[j] = g[(p + 1) + j - 1]
    <3>1. p + 1 \in 1 .. Len(g) + 1 /\ t - 1 \in (p + 1) - 1 .. Len(g)
      BY <1>1, <1>2
    <3> QED BY <3>1, SubSeqProperties
  <2>3. (t - 1) - (p + 1) + 1 = t - 1 - p
    BY <1>1, <1>2
  <2>4. \A j \in 1 .. (t - 1 - p) : (p + 1) + j - 1 = j + p
    BY <1>1, <1>2
  <2> HIDE DEF d
  <2> QED BY <2>2, <2>3, <2>4
<1>4. WellFormedTo(d, Len(d))
  BY <1>1 DEF WellFormed
<1> HIDE DEF d
<1>5. k \in 2 .. Len(d) /\ k \in Nat /\ k + p = i /\ (k - 1) + p = i - 1
  BY <1>1, <1>2, <1>3
<1> HIDE DEF k
<1>6. \A j \in 1 .. k : d[j] = g[j + p]
  BY <1>3, <1>5
<1>7. d[k] = g[i] /\ d[k - 1] = g[i - 1]
  <2>1. k \in 1 .. k /\ k - 1 \in 1 .. k
    BY <1>5
  <2> QED BY <1>5, <1>6, <2>1
<1>8. Opens(d, k) \/ Continues(d, k)
  BY <1>4, <1>5 DEF WellFormedTo
<1>9. CASE Opens(d, k)
  <2>1. SameShape(d[k], g[i])
    BY <1>7 DEF SameShape
  <2>2. Opens(g, i)
    BY <1>7, <1>9, <2>1, OpensCopied
  <2> QED BY <2>2 DEF Joins
<1>10. CASE Continues(d, k)
  <2>1. PICK j \in 1..(k - 1) :
            /\ Aligned(d[k], d[j])
            /\ \A q \in (j + 1)..(k - 1) : Within(d[k], d[q])
    BY <1>10, ContinuesBetween
  <2>2. j + p \in 1..(i - 1) /\ j \in 1 .. k /\ j \in Nat
    BY <1>1, <1>2, <1>5
  <2>3. Aligned(g[i], g[j + p])
    BY <1>6, <1>7, <2>1, <2>2
  <2>4. ASSUME NEW q \in ((j + p) + 1)..(i - 1) PROVE Within(g[i], g[q])
    <3>1. q - p \in (j + 1)..(k - 1) /\ q - p \in 1 .. k /\ (q - p) + p = q
      BY <1>1, <1>2, <1>5, <2>2
    <3>2. d[q - p] = g[q]
      BY <1>6, <3>1
    <3> QED BY <1>7, <2>1, <3>1, <3>2
  <2>5. Continues(g, i)
    BY <2>2, <2>3, <2>4, ContinuesBetween
  <2> QED BY <2>5 DEF Joins
<1> QED BY <1>8, <1>9, <1>10

\* The entry has a list in it before its resources, and those are added before
\* the list's first entry: that no longer parses.
LEMMA LimitCut ==
    ASSUME NEW f \in Seq(Lines), NEW o \in DOMAIN f,
           NEW e \in Item(f, o), e + 1 \in Item(f, o), f[e + 1].dash,
           \A k \in (o + 1) .. e : ~f[k].dash,
           NEW v \in Texts, ~Unnamed(v),
           NEW g, g = InsertAfter(f, e, ResourcesLines(f[o].indent, v))
    PROVE  ~WellFormed(g)
<1> SUFFICES ASSUME WellFormed(g) PROVE FALSE
  OBVIOUS
<1> DEFINE d == f[o].indent
           z == f[e + 1].indent
<1>1. /\ e \in DOMAIN f /\ o <= e /\ e \in Nat /\ o \in Nat /\ d \in Nat
      /\ \A k \in o .. e : k \in DOMAIN f /\ k \in Item(f, o)
      /\ Len(f) \in Nat /\ DOMAIN f = 1 .. Len(f)
  <2>1. e \in DOMAIN f /\ o <= e
        /\ \A k \in o .. e : k \in DOMAIN f /\ k \in Item(f, o)
    BY ItemInFile
  <2> QED BY <2>1, LinesTyped
<1>2. e + 1 \in DOMAIN f /\ z > d /\ z \in Nat
  <2>1. e + 1 \in DOMAIN f /\ e + 1 # o
    BY <1>1, ItemInFile
  <2>2. f[e + 1].indent > f[o].indent
    BY <2>1, ItemInFile
  <2> QED BY <2>1, <2>2, LinesTyped
<1>3. Extended(f, g, e, d, v)
  BY <1>1, NewResourcesGrafts
<1>4. /\ Grafted(f, g, e, 3)
      /\ \A j \in 1 .. e : g[j] = f[j]
      /\ NewBlock(g, e + 1, d + 2, v)
  BY <1>3 DEF Extended
<1>5. /\ g \in Seq(Lines) /\ Len(g) = Len(f) + 3 /\ DOMAIN g = 1 .. Len(g)
      /\ \A j \in (e + 1)..(e + 3) : ~g[j].dash
      /\ \A j \in (e + 1)..Len(f) : g[j + 3] = f[j]
  BY <1>4 DEF Grafted, Grown
<1>6. g[e + 3].value = v /\ g[e + 3].key = "memory"
  <2>1. ((e + 1) + 1) + 1 = e + 3
    BY <1>1
  <2> QED BY <1>4, <2>1 DEF NewBlock, NewLimit
<1>7. g[e + 4] = f[e + 1]
  <2>1. e + 1 \in (e + 1) .. Len(f) /\ (e + 1) + 3 = e + 4
    BY <1>1, <1>2
  <2> QED BY <1>5, <2>1
<1> DEFINE i == e + 4
<1>8. i \in DOMAIN g /\ i - 1 \in DOMAIN g /\ i - 1 = e + 3
  BY <1>1, <1>2, <1>5
<1>9. i \notin Separators(g) /\ i - 1 \notin Separators(g)
  <2>1. g[i].dash
    BY <1>7
  <2>2. g[i] # Separator
    BY <2>1, SeparatorFields
  <2>3. g[i - 1] # Separator
    BY <1>6, <1>8, SeparatorFields
  <2> QED BY <2>2, <2>3 DEF Separators
<1>10. Joins(g, i)
  BY <1>5, <1>8, <1>9, LineJoins
<1>11. ~Opens(g, i)
  <2>1. ~Blank(g[i - 1])
    BY <1>6, <1>8 DEF Blank, Unnamed
  <2> QED BY <2>1, OpensBlank
<1>12. Continues(g, i)
  BY <1>10, <1>11 DEF Joins
<1>13. PICK j \in 1..(i - 1) :
            /\ Aligned(g[i], g[j])
            /\ \A q \in (j + 1)..(i - 1) : Within(g[i], g[q])
  BY <1>12, ContinuesBetween
<1>14. g[i].dash /\ g[i].indent = z
  BY <1>7
<1>15. g[j].dash /\ g[j].indent = z
  BY <1>13, <1>14 DEF Aligned
<1>16. g[o].indent = d
  <2>1. o \in 1 .. e
    BY <1>1
  <2> QED BY <1>4, <2>1
<1>17. CASE j < o
  <2>1. o \in (j + 1)..(i - 1)
    BY <1>1, <1>8, <1>17
  <2>2. g[o].indent > z
    BY <1>13, <1>14, <2>1 DEF Within
  <2> HIDE DEF d, z
  <2> QED BY <1>1, <1>2, <1>16, <2>2
<1>18. CASE j = o
  <2> HIDE DEF d, z
  <2> QED BY <1>1, <1>2, <1>15, <1>16, <1>18
<1>19. CASE j > o
  <2>1. j \in (o + 1) .. e \/ j \in (e + 1)..(e + 3)
    BY <1>1, <1>8, <1>19
  <2>2. CASE j \in (o + 1) .. e
    <3>1. j \in 1 .. e
      BY <1>1, <2>2
    <3>2. g[j] = f[j]
      BY <1>4, <3>1
    <3> QED BY <1>15, <2>2, <3>2
  <2>3. CASE j \in (e + 1)..(e + 3)
    BY <1>5, <1>15, <2>3
  <2> QED BY <2>1, <2>2, <2>3
<1>20. j \in Int /\ o \in Int
  BY <1>1, <1>8
<1> QED BY <1>17, <1>18, <1>19, <1>20

(***************************************************************************)
(* The edit as a whole.                                                    *)
(***************************************************************************)
\* The limit is written, or a document no longer parses.
WrittenOrCut(f, g, c, v) ==
    /\ Written(f, g, c, v) \/ ~WellFormed(g)
    /\ ResourcesFirst(f, c) => Written(f, g, c, v)

\* Case 5 as a whole: the resources are added to the entry, or inside it.
LEMMA NewResourcesOutcome ==
    ASSUME NEW f \in Seq(Lines), NEW c, NEW o, Framed(f, c, o), ~Unnamed(c),
           NEW v \in Texts, ~Unnamed(v), NEW x, Searched(f, c, o, x),
           \A i \in o .. (x - 1) : f[i].key \notin {"limits", "resources"}
    PROVE  WrittenOrCut(f, ApplyMemoryLimit(f, c, v), c, v)
<1> DEFINE g == ApplyMemoryLimit(f, c, v)
<1>1. /\ o \in DOMAIN f /\ Entry(f, "containers", c) = Item(f, o)
      /\ \A j \in DOMAIN f : f[j].dash /\ f[j].value = c => j = o
  BY DEF Framed
<1>2. /\ x \in (o + 1)..(Len(f) + 1) /\ (x \in DOMAIN f => f[x].dash)
      /\ o \in Nat /\ x \in Nat
  BY <1>1, LinesTyped DEF Searched
<1>3. PlaceFound(f, o, x, v, NewResources(f, o .. (x - 1), c, v))
  BY NewResourcesSearch
<1>4. g = NewResources(f, o .. (x - 1), c, v)
  BY NewCase
<1> HIDE DEF g
<1>5. PICK e \in DOMAIN f :
        /\ e \in Item(f, o) /\ e < x
        /\ \A k \in (o + 1) .. e : ~f[k].dash
        /\ e + 1 \in Item(f, o) => e + 1 = x
        /\ g = InsertAfter(f, e, ResourcesLines(f[o].indent, v))
  BY <1>3, <1>4 DEF PlaceFound
<1>6. e \in Nat /\ o <= e /\ e <= x - 1
  <2>1. o <= e
    BY <1>1, <1>5, ItemInFile
  <2>2. e < x /\ e \in Nat
    BY <1>5, LinesTyped
  <2> QED BY <1>2, <2>1, <2>2
<1>7. CASE e + 1 \notin Item(f, o)
  <2>1. ASSUME NEW i \in Item(f, o) PROVE f[i].key # "resources"
    <3>1. i \in DOMAIN f /\ o <= i /\ \A k \in o .. i : k \in Item(f, o)
      BY <1>1, ItemInFile
    <3>2. i \in Nat
      BY <3>1, LinesTyped
    <3>3. ~(e + 1 <= i)
      <4>1. SUFFICES ASSUME e + 1 <= i PROVE FALSE
        OBVIOUS
      <4>2. e + 1 \in o .. i
        BY <1>2, <1>6, <3>2, <4>1
      <4> QED BY <1>7, <3>1, <4>2
    <3>4. i \in o .. (x - 1)
      BY <1>2, <1>6, <3>1, <3>2, <3>3
    <3> QED BY <3>4
  <2>2. Written(f, g, c, v)
    BY <1>5, <1>7, <2>1, LimitAdded
  <2> QED BY <2>2 DEF WrittenOrCut, g
<1>8. CASE e + 1 \in Item(f, o)
  <2>1. e + 1 = x /\ e + 1 \in DOMAIN f /\ f[e + 1].dash
    BY <1>1, <1>2, <1>5, <1>8, ItemInFile
  <2>2. ~WellFormed(g)
    BY <1>1, <1>5, <1>8, <2>1, LimitCut
  <2>3. ASSUME ResourcesFirst(f, c) PROVE FALSE
    <3>1. f[e + 1].value # c
      BY <1>1, <1>2, <1>6, <2>1
    <3>2. PICK r \in Resources(f, c) : r < e + 1
      BY <1>1, <1>8, <2>1, <2>3, <3>1 DEF ResourcesFirst
    <3>3. r \in Item(f, o) /\ f[r].key = "resources"
      BY <1>1 DEF Resources
    <3>4. o <= r /\ r \in Nat
      BY <1>1, <3>3, ItemInFile, LinesTyped
    <3>5. r \in o .. (x - 1)
      BY <1>2, <2>1, <3>2, <3>4
    <3> QED BY <3>3, <3>5
  <2> QED BY <2>2, <2>3 DEF WrittenOrCut, g
<1> QED BY <1>7, <1>8

\* What the edit of a memory limit does to the container it is asked for.
LEMMA LimitOutcome ==
    ASSUME NEW f \in Seq(Lines), NEW c, Plain(f, c), OwnResources(f, c),
           ~Unnamed(c), NEW v \in Texts, ~Unnamed(v)
    PROVE  WrittenOrCut(f, ApplyMemoryLimit(f, c, v), c, v)
<1> DEFINE g == ApplyMemoryLimit(f, c, v)
<1>1. PICK o \in DOMAIN f : Framed(f, c, o)
  BY FramedExists
<1>2. PICK x \in (o + 1) .. (Len(f) + 1) :
            /\ Region(f, c) = o .. (x - 1)
            /\ \A k \in (o + 1) .. (x - 1) : ~f[k].dash
            /\ x \in DOMAIN f => f[x].dash
  BY <1>1, RegionIs
<1>3. Searched(f, c, o, x)
  BY <1>2 DEF Searched
<1> HIDE DEF g
<1>4. ASSUME NEW L \in o .. (x - 1), f[L].key = "limits"
      PROVE  Written(f, g, c, v)
  <2>0. LimitsFound(f, o, x, L, v, g)
    BY <1>1, <1>3, <1>4, LimitsCase DEF g
  <2>1. /\ L \in Item(f, o) /\ ~f[L].dash
        /\ \A j \in Block(f, L) : j < x
        /\ x \notin Block(f, L)
    BY <2>0 DEF LimitsFound
  <2>2. PICK r \in Item(f, o) : f[r].key = "resources" /\ L \in Block(f, r)
    BY <2>0 DEF LimitsFound
  <2>3. L \in (o + 1) .. (x - 1)
    <3>1. o < L
      BY <1>1, <1>3, <1>4, RegionKeys
    <3>2. o \in Nat /\ L \in Int /\ x \in Int
      BY LinesTyped
    <3> QED BY <3>1, <3>2
  <2>4. \A j, k \in Block(f, L) :
            f[j].key = "memory" /\ f[k].key = "memory" => j = k
    <3>1. BlockOfLimits(f, o)
      BY <1>1, OwnParts
    <3> QED BY <1>4, <2>1, <3>1 DEF BlockOfLimits
  <2>8. g = WithLimits(f, o .. (x - 1), {L}, v)
    BY <2>0 DEF LimitsFound
  <2>9. LimitFound(f, L, v, WithLimits(f, o .. (x - 1), {L}, v))
    <3>1. \A k \in (o + 1) .. (x - 1) : ~f[k].dash
      BY <1>2
    <3>2. /\ \A j \in Block(f, L) : j < x
          /\ x \notin Block(f, L)
      BY <2>1
    <3> QED BY <2>3, <2>4, <3>1, <3>2, WithLimitsSearch
  <2>5. LimitFound(f, L, v, g)
    BY <2>8, <2>9
  <2>6. CASE \E e \in DOMAIN f :
                /\ e \in Block(f, L) /\ f[e].key = "memory"
                /\ g = [f EXCEPT ![e].value = v]
    <3>1. PICK e \in Block(f, L) : f[e].key = "memory"
                /\ g = [f EXCEPT ![e].value = v]
      BY <2>6
    <3>2. Written(f, [f EXCEPT ![e].value = v], c, v)
      BY <1>1, <1>4, <2>2, <3>1, LimitUpdated
    <3> QED BY <3>1, <3>2
  <2>7. CASE \E e \in DOMAIN f :
                /\ e = L \/ e \in Block(f, L)
                /\ e + 1 \notin Block(f, L)
                /\ \A j \in Block(f, L) : f[j].key # "memory"
                /\ g = InsertAfter(f, e,
                        <<Line(f[L].indent + 2, FALSE, "memory", v)>>)
    <3>1. PICK e \in DOMAIN f :
                /\ e = L \/ e \in Block(f, L)
                /\ e + 1 \notin Block(f, L)
                /\ \A j \in Block(f, L) : f[j].key # "memory"
                /\ g = InsertAfter(f, e,
                        <<Line(f[L].indent + 2, FALSE, "memory", v)>>)
      BY <2>7
    <3>2. Written(f, InsertAfter(f, e,
                        <<Line(f[L].indent + 2, FALSE, "memory", v)>>), c, v)
      BY <1>1, <1>4, <2>2, <3>1, LimitFilled
    <3> QED BY <3>1, <3>2
  <2> QED BY <2>5, <2>6, <2>7 DEF LimitFound
<1>5. ASSUME \A i \in o .. (x - 1) : f[i].key # "limits",
             NEW r \in o .. (x - 1), f[r].key = "resources"
      PROVE  Written(f, g, c, v)
  <2>1. /\ r \in Item(f, o)
        /\ \A i \in Item(f, o) : f[i].key # "limits"
        /\ g = WithResources(f, r, v)
    BY <1>1, <1>3, <1>5, ResourcesCase DEF g
  <2> QED BY <1>1, <1>5, <2>1, LimitOpened
<1>6. CASE \A i \in o .. (x - 1) : f[i].key \notin {"limits", "resources"}
  BY <1>1, <1>3, <1>6, NewResourcesOutcome
<1>7. CASE Written(f, g, c, v)
  BY <1>7 DEF WrittenOrCut, g
<1> QED BY <1>4, <1>5, <1>6, <1>7

\* A limit that is written makes a file of at least one line.
LEMMA WrittenIsContent ==
    ASSUME NEW f \in Seq(Lines), NEW g, NEW c, NEW v, Written(f, g, c, v)
    PROVE  g # Failed
<1>1. PICK i \in DOMAIN f, n \in 0..3 : EditedAt(f, g, i, n)
  BY DEF Written, SetsLimit
<1>2. Len(g) = Len(f) + n
  BY <1>1 DEF EditedAt
<1>3. Len(g) # 0
  BY <1>2, LinesTyped
<1> QED BY <1>3 DEF Failed

\* Where nothing has the name, nothing is searched.
LEMMA NoRegion ==
    ASSUME NEW f, NEW c, ~Unnamed(c), NEW v,
           \A j \in DOMAIN f : f[j].dash => f[j].value # c
    PROVE  ApplyMemoryLimit(f, c, v) = Failed
<1> DEFINE own == Where(f, LAMBDA l : StartsEntry(l) /\ l.value = c)
<1>1. own = {}
  BY DEF Where, StartsEntry
<1>2. Region(f, c) = {}
  <2> HIDE DEF own
  <2>1. c # ""
    BY Zenon DEF Unnamed
  <2> QED BY <1>1, <2>1, Zenon DEF Region, own
<1> QED BY <1>2 DEF ApplyMemoryLimit

\* For a container of a plain manifest, the memory limit is set, that one
\* alone, and nothing becomes part of it or is lost from it; a container that is
\* not there is refused (patch.go:11-213).
THEOREM MemoryLimitIsSet == Spec => MemoryLimitSet
<1> DEFINE c == request.container
           old == clone[ManifestFile].lines
           new == clone'[ManifestFile].lines
           Set ==
             Answers("memory_limit") /\ request.container # ""
                /\ request.value # "" /\ StandardClone /\ ManifestFile # 0 =>
               (Plain(old, c) =>
                 /\ OwnResources(old, c) /\ answer' = "patched"
                        /\ WellFormed(new) =>
                     /\ clone' = [clone EXCEPT ![ManifestFile].lines = new]
                     /\ SetsLimit(old, new, c, request.value)
                 /\ OwnResources(old, c) /\ ResourcesFirst(old, c)
                        /\ Unmarshals(old) =>
                     answer' = "patched"
                 /\ (\A j \in DOMAIN old : old[j].dash => old[j].value # c) =>
                     answer' = "failed")
<1>1. ASSUME Call, [Next]_vars PROVE [Set]_vars
  <2> DEFINE v == request.value
             g == ApplyMemoryLimit(old, c, v)
  <2>1. SUFFICES ASSUME Answers("memory_limit"), ~Unnamed(c), ~Unnamed(v),
                        StandardClone, ManifestFile # 0, Plain(old, c)
                 PROVE  /\ OwnResources(old, c) /\ answer' = "patched"
                            /\ WellFormed(new) =>
                            /\ clone' =
                                [clone EXCEPT ![ManifestFile].lines = new]
                            /\ SetsLimit(old, new, c, request.value)
                        /\ OwnResources(old, c) /\ ResourcesFirst(old, c)
                            /\ Unmarshals(old) =>
                            answer' = "patched"
                        /\ (\A j \in DOMAIN old :
                                old[j].dash => old[j].value # c)
                            => answer' = "failed"
    BY Zenon DEF Unnamed
  <2>2. /\ request.type = "memory_limit" /\ clone \in Clones
        /\ v \in Texts
        /\ answer' = "patched" =>
             /\ Accepted(request)
             /\ clone' = [clone EXCEPT ![Target(request)].lines =
                                NewContent(request)]
        /\ Accepted(request) => answer' = "patched"
        /\ ~Accepted(request) => answer' = "failed"
    BY <1>1, <2>1, Outcome, PatcherAssumption DEF Answers
  <2>3. /\ ~UsesKustomization(request)
        /\ Target(request) = ManifestFile
        /\ ManifestFile \in DOMAIN clone
    BY <2>1, <2>2, RightFile
  <2>4. old \in Seq(Lines)
    BY <2>2, <2>3, ClonedFiles
  <2>5. NewContent(request) = g
    BY <2>2, <2>3 DEF NewContent
  <2>6. Accepted(request) <=> g # Failed /\ Unmarshals(g)
    BY <2>1, <2>3, <2>5 DEF Accepted
  <2>7. ASSUME OwnResources(old, c) PROVE WrittenOrCut(old, g, c, v)
    <3>1. /\ Plain(old, c) /\ ~Unnamed(c) /\ ~Unnamed(v) /\ v \in Texts
          /\ old \in Seq(Lines)
      BY <2>1, <2>2, <2>4
    <3> HIDE DEF old, c, v
    <3> QED BY <2>7, <3>1, LimitOutcome
  <2>8. ASSUME answer' = "patched"
        PROVE  clone' = [clone EXCEPT ![ManifestFile].lines = g] /\ new = g
    <3>1. clone' = [clone EXCEPT ![ManifestFile].lines = g]
      BY <2>2, <2>3, <2>5, <2>8
    <3>2. clone \in Seq(Files) /\ ManifestFile \in DOMAIN clone
      BY <2>2, <2>3, PatcherAssumption DEF Files
    <3>4. clone[ManifestFile] \in Files
      BY <3>2
    <3>5. clone'[ManifestFile] = [clone[ManifestFile] EXCEPT !.lines = g]
      <4> HIDE DEF g
      <4> QED BY <3>1, <3>2
    <3> HIDE DEF g
    <3>3. new = g
      BY <3>4, <3>5 DEF Files
    <3> QED BY <3>1, <3>3
  <2>9. ASSUME OwnResources(old, c), answer' = "patched", WellFormed(new)
        PROVE  /\ clone' = [clone EXCEPT ![ManifestFile].lines = new]
               /\ SetsLimit(old, new, c, v)
    <3>1. WrittenOrCut(old, g, c, v) /\ new = g
      BY <2>7, <2>8, <2>9
    <3>2. clone' = [clone EXCEPT ![ManifestFile].lines = g]
      BY <2>8, <2>9
    <3> HIDE DEF old, new, g, c, v
    <3>3. Written(old, g, c, v)
      BY <2>9, <3>1 DEF WrittenOrCut
    <3> QED BY <3>1, <3>2, <3>3 DEF Written
  <2>10. ASSUME OwnResources(old, c), ResourcesFirst(old, c), Unmarshals(old)
         PROVE  answer' = "patched"
    <3>1. WrittenOrCut(old, g, c, v) /\ old \in Seq(Lines)
      BY <2>4, <2>7, <2>10
    <3> HIDE DEF old, g, c, v
    <3>2. Written(old, g, c, v)
      BY <2>10, <3>1 DEF WrittenOrCut
    <3>3. g # Failed
      BY <3>1, <3>2, WrittenIsContent
    <3>4. Unmarshals(g)
      BY <2>10, <3>2 DEF Written
    <3> QED BY <2>2, <2>6, <3>3, <3>4
  <2>11. ASSUME \A j \in DOMAIN old : old[j].dash => old[j].value # c
         PROVE  answer' = "failed"
    <3> HIDE DEF old
    <3>1. g = Failed
      BY <2>1, <2>11, NoRegion
    <3> QED BY <2>2, <2>6, <3>1
  <2> HIDE DEF old, new, c
  <2> QED BY <2>9, <2>10, <2>11, Zenon
<1>2. Spec => [][Set]_vars
  BY <1>1, CallInvariant, PTL DEF Spec
<1> QED BY <1>2 DEF MemoryLimitSet

==============================================================================
