------------------------- MODULE PatcherSearchProofs -------------------------
(***************************************************************************)
(* Proofs that the patcher finds what it is asked for: that its line       *)
(* searches agree with the reading of the files that Manifest gives, for   *)
(* files of any length in the layout the searches are written for; and     *)
(* hence that a tag, in a manifest or in an overlay, and an environment    *)
(* variable are set where they belong.                                     *)
(***************************************************************************)
EXTENDS PatcherProofs

(***************************************************************************)
(* Blocks and entries are consecutive lines.                               *)
(***************************************************************************)
LEMMA LinesTyped ==
    ASSUME NEW f \in Seq(Lines)
    PROVE  /\ Len(f) \in Nat /\ DOMAIN f = 1 .. Len(f)
           /\ \A i \in DOMAIN f :
                /\ f[i] \in Lines
                /\ f[i].indent \in Nat /\ Column(f[i]) \in Nat
                /\ f[i].dash \in BOOLEAN
<1>1. Len(f) \in Nat /\ DOMAIN f = 1 .. Len(f)
  OBVIOUS
<1>2. ASSUME NEW i \in DOMAIN f
      PROVE  /\ f[i] \in Lines
             /\ f[i].indent \in Nat /\ Column(f[i]) \in Nat
             /\ f[i].dash \in BOOLEAN
  <2>1. f[i] \in Lines
    OBVIOUS
  <2>2. f[i].indent \in Nat /\ f[i].dash \in BOOLEAN
    BY <2>1 DEF Lines
  <2> QED BY <2>1, <2>2 DEF Column
<1> QED BY <1>1, <1>2

LEMMA BlockInFile ==
    ASSUME NEW f \in Seq(Lines), NEW i \in DOMAIN f, NEW j \in Block(f, i)
    PROVE  /\ j \in DOMAIN f /\ i < j
           /\ \A k \in (i + 1) .. j : k \in DOMAIN f /\ k \in Block(f, i)
<1>1. Len(f) \in Nat /\ DOMAIN f = 1 .. Len(f)
  OBVIOUS
<1>2. /\ j \in (i + 1) .. Len(f)
      /\ \A k \in (i + 1) .. j : \/ f[k].indent > Column(f[i])
                                 \/ f[k].dash /\ f[k].indent = Column(f[i])
  BY DEF Block
<1>3. j \in DOMAIN f /\ i < j
  BY <1>1, <1>2
<1>4. ASSUME NEW k \in (i + 1) .. j
      PROVE  k \in DOMAIN f /\ k \in Block(f, i)
  <2>1. k \in (i + 1) .. Len(f) /\ k \in DOMAIN f
    BY <1>1, <1>2
  <2>2. \A x \in (i + 1) .. k : x \in (i + 1) .. j
    BY <1>1, <1>2
  <2> QED BY <1>2, <2>1, <2>2 DEF Block
<1> QED BY <1>3, <1>4

LEMMA ItemInFile ==
    ASSUME NEW f \in Seq(Lines), NEW i \in DOMAIN f, NEW j \in Item(f, i)
    PROVE  /\ j \in DOMAIN f /\ i <= j
           /\ j # i => j \in (i + 1) .. Len(f) /\ f[j].indent > f[i].indent
           /\ \A k \in i .. j : k \in DOMAIN f /\ k \in Item(f, i)
<1>1. Len(f) \in Nat /\ DOMAIN f = 1 .. Len(f)
  OBVIOUS
<1>2. j # i => /\ j \in (i + 1) .. Len(f)
               /\ \A k \in (i + 1) .. j : f[k].indent > f[i].indent
  BY DEF Item
<1>3. j \in DOMAIN f /\ i <= j
  BY <1>1, <1>2
<1>4. ASSUME NEW k \in i .. j
      PROVE  k \in DOMAIN f /\ k \in Item(f, i)
  <2>1. CASE k = i
    BY <2>1 DEF Item
  <2>2. CASE k # i
    <3>1. k \in (i + 1) .. Len(f) /\ k \in (i + 1) .. j /\ j # i
      BY <1>1, <1>2, <1>3, <2>2
    <3>2. \A x \in (i + 1) .. k : x \in (i + 1) .. j
      BY <1>1, <1>2, <3>1
    <3> QED BY <1>1, <1>2, <3>1, <3>2 DEF Item
  <2> QED BY <2>1, <2>2
<1>5. j # i => f[j].indent > f[i].indent
  BY <1>1, <1>2
<1> QED BY <1>2, <1>3, <1>4, <1>5

LEMMA NameLine ==
    ASSUME NEW n, NEW l, l = Line(2, FALSE, "name", n)
    PROVE  l.indent = 2 /\ ~l.dash /\ l.key = "name"
<1>1. l.indent = 2 /\ l.key = "name"
  BY DEF Line
<1>2. ~l.dash
  BY DEF Line
<1> QED BY <1>1, <1>2

\* A block of the outermost mapping ends at the end of its document.
LEMMA BlockInDocument ==
    ASSUME NEW f \in Seq(Lines), NEW m \in DOMAIN f,
           NEW key, TopLevel(f[m], key), key # "---", NEW j \in Block(f, m)
    PROVE  /\ \A s \in Separators(f) : s < m \/ s > j
           /\ j > m
<1>1. Len(f) \in Nat /\ DOMAIN f = 1 .. Len(f) /\ m \in 1 .. Len(f)
      /\ j \in (m + 1) .. Len(f)
  BY DEF Block
<1>2. ASSUME NEW s \in Separators(f), ~(s < m), ~(s > j) PROVE FALSE
  <2>1. s \in DOMAIN f /\ f[s] = Separator
    BY DEF Separators
  <2>2. f[s].indent = 0 /\ ~f[s].dash /\ f[s].key = "---"
    BY <2>1, SeparatorFields
  <2>3. s # m
    BY <2>2 DEF TopLevel
  <2>4. s \in (m + 1) .. j
    BY <1>1, <1>2, <2>1, <2>3
  <2>5. \/ f[s].indent > Column(f[m])
        \/ f[s].dash /\ f[s].indent = Column(f[m])
    BY <2>4 DEF Block
  <2>6. Column(f[m]) = 0
    BY DEF TopLevel, Column
  <2> QED BY <2>2, <2>5, <2>6
<1> QED BY <1>1, <1>2

\* The first and the last are what Min and Max give.
LEMMA MinIsFirst ==
    ASSUME NEW S, S \subseteq Nat, S # {}
    PROVE  Min(S) \in S /\ \A x \in S : Min(S) <= x
BY Minimum DEF Min

LEMMA MaxIsLast ==
    ASSUME NEW n \in Nat, NEW S, S \subseteq 0 .. n, S # {}
    PROVE  Max(S) \in S /\ \A x \in S : Max(S) >= x
<1>1. \E x \in S : \A y \in S : x >= y
  <2> DEFINE T == {n - x : x \in S}
  <2>1. T \subseteq Nat /\ T # {}
    <3>1. T \subseteq Nat
      OBVIOUS
    <3>2. PICK x \in S : TRUE
      OBVIOUS
    <3> QED BY <3>1, <3>2
  <2>2. PICK m \in T : \A y \in T : m =< y
    <3> HIDE DEF T
    <3> QED BY <2>1, Minimum
  <2>3. PICK x \in S : m = n - x
    OBVIOUS
  <2>4. \A y \in S : n - x =< n - y
    BY <2>2, <2>3
  <2>5. \A y \in S : x >= y
    BY <2>4
  <2> QED BY <2>5
<1> QED BY <1>1 DEF Max

(***************************************************************************)
(* The search for the manifest.                                            *)
(***************************************************************************)
LEMMA FoundIsDeclared ==
    ASSUME NEW f \in Seq(Lines), Standard(f), NEW n, ContainsDeployment(f, n)
    PROVE  Declares(f, n)
<1> DEFINE kinds == Where(f, LAMBDA l : Field(l, "kind"))
           metadata == Where(f, LAMBDA l : TopLevel(l, "metadata"))
<1>1. Len(f) \in Nat /\ DOMAIN f = 1 .. Len(f)
  OBVIOUS
<1>2. PICK i \in DOMAIN f, k \in DOMAIN f :
        /\ k < i
        /\ f[i] = Line(2, FALSE, "name", n)
        /\ Field(f[k], "kind")
        /\ f[k].value \in {"Deployment", "StatefulSet"}
        /\ \A j \in (k + 1)..(i - 1) :
            f[j] # Separator /\ ~Field(f[j], "kind")
  BY DEF ContainsDeployment
<1>3. k \in kinds
  BY <1>2 DEF Where
<1>4. \A s \in Separators(f) : s < k \/ s > i
  <2>1. ASSUME NEW s \in Separators(f), ~(s < k), ~(s > i) PROVE FALSE
    <3>1. s \in DOMAIN f /\ f[s] = Separator
      BY DEF Separators
    <3>2. s # i
      BY <1>2, <3>1, SeparatorFields
    <3>3. s # k
      BY <1>2, <3>1, SeparatorFields DEF Field
    <3>4. s \in (k + 1)..(i - 1)
      BY <1>1, <2>1, <3>1, <3>2, <3>3
    <3> QED BY <1>2, <3>1, <3>4
  <2> QED BY <2>1
<1>5. SameDocument(f, k, i)
  <2>1. ASSUME NEW s \in Separators(f)
        PROVE  (s < k /\ s < i) \/ (s > k /\ s > i)
    <3>1. s \in 1 .. Len(f)
      BY <1>1 DEF Separators
    <3> QED BY <1>1, <1>2, <1>4, <3>1
  <2> QED BY <2>1 DEF SameDocument
<1>6. PICK m \in metadata : i \in Block(f, m)
  <2>1. f[i].indent = 2 /\ ~f[i].dash /\ f[i].key = "name"
    BY <1>2, NameLine
  <2> QED BY <1>2, <1>3, <1>5, <2>1 DEF Standard
<1>7. m \in DOMAIN f /\ TopLevel(f[m], "metadata")
  BY DEF Where
<1>8. m < i /\ \A s \in Separators(f) : s < m \/ s > i
  BY <1>6, <1>7, BlockInDocument
<1>9. SameDocument(f, k, m)
  <2>1. ASSUME NEW s \in Separators(f)
        PROVE  (s < k /\ s < m) \/ (s > k /\ s > m)
    <3>1. s \in 1 .. Len(f)
      BY <1>1 DEF Separators
    <3> QED BY <1>1, <1>2, <1>4, <1>7, <1>8, <3>1
  <2> QED BY <2>1 DEF SameDocument
<1>10. IF k < m THEN f[k].indent = 0
       ELSE f[k].indent > 0 /\ k \notin Block(f, m)
  BY <1>3, <1>6, <1>9 DEF Standard
<1>11. k < m
  <2>1. SUFFICES ASSUME ~(k < m) PROVE FALSE
    OBVIOUS
  <2>2. k # m
    BY <1>2, <1>7 DEF Field, TopLevel
  <2>3. k \in (m + 1) .. i
    BY <1>1, <1>2, <1>7, <2>1, <2>2
  <2>4. k \in Block(f, m)
    BY <1>6, <1>7, <2>3, BlockInFile
  <2> QED BY <1>10, <2>1, <2>4
<1>12. TopLevel(f[k], "kind")
  BY <1>2, <1>10, <1>11 DEF Field, TopLevel
<1> QED BY <1>2, <1>6, <1>7, <1>9, <1>12 DEF Declares

LEMMA DeclaredIsFound ==
    ASSUME NEW f \in Seq(Lines), Standard(f), NEW n, Declares(f, n)
    PROVE  ContainsDeployment(f, n)
<1> DEFINE kinds == Where(f, LAMBDA l : Field(l, "kind"))
           metadata == Where(f, LAMBDA l : TopLevel(l, "metadata"))
<1>1. Len(f) \in Nat /\ DOMAIN f = 1 .. Len(f)
  OBVIOUS
<1>2. PICK k \in DOMAIN f, m \in DOMAIN f :
        /\ SameDocument(f, k, m)
        /\ TopLevel(f[k], "kind")
        /\ f[k].value \in {"Deployment", "StatefulSet"}
        /\ TopLevel(f[m], "metadata")
        /\ \E j \in Block(f, m) : f[j] = Line(2, FALSE, "name", n)
  BY DEF Declares
<1>3. PICK i \in Block(f, m) : f[i] = Line(2, FALSE, "name", n)
  BY <1>2
<1>4. /\ i \in DOMAIN f /\ m < i
      /\ \A s \in Separators(f) : s < m \/ s > i
      /\ \A x \in (m + 1) .. i : x \in Block(f, m)
  BY <1>2, <1>3, BlockInDocument, BlockInFile
<1>5. k \in kinds /\ m \in metadata
  BY <1>2 DEF Where, TopLevel, Field
<1>6. k < m
  <2>1. IF k < m THEN f[k].indent = 0
        ELSE f[k].indent > 0 /\ k \notin Block(f, m)
    BY <1>2, <1>5 DEF Standard
  <2> QED BY <1>2, <2>1 DEF TopLevel
<1>7. ASSUME NEW j \in (k + 1)..(i - 1)
      PROVE  f[j] # Separator /\ ~Field(f[j], "kind")
  <2>1. j \in DOMAIN f
    BY <1>1, <1>4
  <2>2. \A s \in Separators(f) : s < k \/ s > i
    <3>1. ASSUME NEW s \in Separators(f) PROVE s < k \/ s > i
      <4>1. s \in 1 .. Len(f) /\ ((s < k /\ s < m) \/ (s > k /\ s > m))
        BY <1>1, <1>2 DEF Separators, SameDocument
      <4> QED BY <1>1, <1>4, <4>1
    <3> QED BY <3>1
  <2>3. f[j] # Separator
    <3>1. SUFFICES ASSUME f[j] = Separator PROVE FALSE
      OBVIOUS
    <3>2. j \in Separators(f)
      BY <2>1, <3>1 DEF Separators
    <3> QED BY <1>1, <1>4, <2>1, <2>2, <3>2
  <2>4. ~Field(f[j], "kind")
    <3>1. SUFFICES ASSUME Field(f[j], "kind") PROVE FALSE
      OBVIOUS
    <3>2. j \in kinds
      BY <2>1, <3>1 DEF Where
    <3>3. SameDocument(f, j, m)
      <4>1. ASSUME NEW s \in Separators(f)
            PROVE  (s < j /\ s < m) \/ (s > j /\ s > m)
        <5>1. s \in 1 .. Len(f) /\ (s < k \/ s > i)
          BY <1>1, <2>2 DEF Separators
        <5> QED BY <1>1, <1>4, <1>6, <2>1, <5>1
      <4> QED BY <4>1 DEF SameDocument
    <3>4. CASE j < m
      <4>1. j = k
        BY <1>2, <1>5, <1>6, <3>2, <3>3, <3>4 DEF Standard
      <4> QED BY <1>1, <4>1
    <3>5. CASE ~(j < m)
      <4>1. f[j].indent > 0 /\ j \notin Block(f, m)
        BY <1>5, <3>2, <3>3, <3>5 DEF Standard
      <4>2. j # m
        BY <1>2, <3>1 DEF Field, TopLevel
      <4>3. j \in (m + 1) .. i
        BY <1>1, <1>4, <2>1, <3>5, <4>2
      <4> QED BY <1>4, <4>1, <4>3
    <3> QED BY <3>4, <3>5
  <2> QED BY <2>3, <2>4
<1>8. k < i /\ Field(f[k], "kind")
  BY <1>1, <1>2, <1>4, <1>6 DEF Field, TopLevel
<1> QED BY <1>2, <1>3, <1>4, <1>7, <1>8 DEF ContainsDeployment

(***************************************************************************)
(* The images list of a kustomization.                                     *)
(***************************************************************************)
ImageHeads(f) == Where(f, LAMBDA l : l.key = "images" /\ l.value = "")

\* What Simple says of the list that head h opens.
LEMMA SimpleList ==
    ASSUME NEW f \in Seq(Lines), Simple(f), NEW h \in ImageHeads(f)
    PROVE  /\ h \in DOMAIN f /\ f[h].indent = 0 /\ ~f[h].dash
           /\ f[h].key = "images"
           /\ ImageHeads(f) = {h}
           /\ \A i \in Block(f, h) :
                /\ Column(f[i]) = f[h + 1].indent + 2
                /\ f[i].dash => \A j, k \in Item(f, i) :
                                    f[j].key = f[k].key => j = k
                /\ \A j \in Block(f, h) :
                    f[i].key = "name" /\ f[j].key = "name"
                        /\ f[i].value = f[j].value => i = j
<1> DEFINE heads == Where(f, LAMBDA l : l.key = "images" /\ l.value = "")
<1>1. h \in heads /\ heads = ImageHeads(f)
  BY DEF ImageHeads
<1>2. h \in DOMAIN f /\ f[h].key = "images"
  BY <1>1 DEF Where
<1>3. \A x \in heads : TopLevel(f[x], "images") /\ heads = {x}
  BY DEF Simple
<1>4. TopLevel(f[h], "images") /\ heads = {h}
  <2> HIDE DEF heads
  <2> QED BY <1>1, <1>3
<1>5. \A x \in heads : \A i \in Block(f, x) :
        /\ Column(f[i]) = f[x + 1].indent + 2
        /\ f[i].dash => \A j, k \in Item(f, i) : f[j].key = f[k].key => j = k
        /\ \A j \in Block(f, x) :
            f[i].key = "name" /\ f[j].key = "name" /\ f[i].value = f[j].value
            => i = j
  BY DEF Simple
<1> HIDE DEF heads
<1>6. \A i \in Block(f, h) :
        /\ Column(f[i]) = f[h + 1].indent + 2
        /\ f[i].dash => \A j, k \in Item(f, i) : f[j].key = f[k].key => j = k
        /\ \A j \in Block(f, h) :
            f[i].key = "name" /\ f[j].key = "name" /\ f[i].value = f[j].value
            => i = j
  BY <1>1, <1>5
<1>7. f[h].indent = 0 /\ ~f[h].dash
  BY <1>4 DEF TopLevel
<1> QED BY <1>1, <1>2, <1>4, <1>6, <1>7

LEMMA MinOfOne ==
    ASSUME NEW i \in Nat PROVE Min({i}) = i /\ Max({i}) = i
<1>1. Min({i}) \in {i}
  BY MinExists
<1>2. \E x \in {i} : \A y \in {i} : x >= y
  OBVIOUS
<1>3. Max({i}) \in {i}
  BY <1>2 DEF Max
<1> QED BY <1>1, <1>3

\* The code's block of images is the value of the images key.
LEMMA ImagesBlockIsBlock ==
    ASSUME NEW f \in Seq(Lines), Simple(f), NEW h \in ImageHeads(f)
    PROVE  ImagesBlock(f) = Block(f, h)
<1> DEFINE heads == Where(f, LAMBDA l : Heads(l, "images"))
<1>0. Len(f) \in Nat /\ DOMAIN f = 1 .. Len(f)
  OBVIOUS
<1>1. /\ h \in DOMAIN f /\ f[h].indent = 0 /\ ~f[h].dash
      /\ ImageHeads(f) = {h}
      /\ f[h].key = "images"
  BY SimpleList
<1>2. heads = {h}
  <2>1. h \in heads
    BY <1>1 DEF Where, Heads, ImageHeads
  <2>2. heads \subseteq ImageHeads(f)
    BY DEF Where, Heads, ImageHeads
  <2> QED BY <1>1, <2>1, <2>2
<1>3. h \in Nat /\ Min(heads) = h /\ heads # {}
  <2>1. h \in Nat
    BY <1>0, <1>1
  <2> HIDE DEF heads
  <2> QED BY <1>2, <2>1, MinOfOne
<1>4. ImagesBlock(f) = {j \in (h + 1)..Len(f) : \A k \in (h + 1)..j :
                            f[k].indent > f[h].indent \/ f[k].dash}
  <2>1. ImagesBlock(f) = {j \in (h + 1)..Len(f) : \A k \in (h + 1)..j :
                            \/ f[k].indent > f[h].indent
                            \/ f[k].dash
                            \/ f[k] = Separator}
    BY <1>3 DEF ImagesBlock
  <2>2. \A j \in (h + 1)..Len(f) : \A k \in (h + 1)..j :
            k \in DOMAIN f /\ k # 1
    BY <1>0, <1>1
  <2>3. \A k \in DOMAIN f : k # 1 => f[k] # Separator
    BY DEF Simple, Separators
  <2> QED BY <2>1, <2>2, <2>3
<1>5. Column(f[h]) = 0
  BY <1>1 DEF Column
<1>6. \A k \in (h + 1)..Len(f) :
        f[k].indent > f[h].indent \/ f[k].dash
        <=> \/ f[k].indent > Column(f[h])
            \/ f[k].dash /\ f[k].indent = Column(f[h])
  <2>1. ASSUME NEW k \in (h + 1)..Len(f)
        PROVE  f[k].indent > f[h].indent \/ f[k].dash
               <=> \/ f[k].indent > Column(f[h])
                   \/ f[k].dash /\ f[k].indent = Column(f[h])
    <3>1. k \in DOMAIN f
      BY <1>0, <1>1
    <3>2. f[k].indent \in Nat
      BY <3>1, IndentTyped
    <3>3. f[h].indent = 0
      BY <1>1
    <3> QED BY <1>5, <3>2, <3>3
  <2> QED BY <2>1
<1>7. \A j \in (h + 1)..Len(f) : \A k \in (h + 1)..j : k \in (h + 1)..Len(f)
  BY <1>0, <1>1
<1> QED BY <1>4, <1>6, <1>7 DEF Block

\* The list is cut into entries of one dash each.
LEMMA SimpleItems ==
    ASSUME NEW f \in Seq(Lines), Simple(f), NEW h \in ImageHeads(f)
    PROVE  /\ Items(f, "images") = {i \in Block(f, h) : f[i].dash}
           /\ \A i \in Items(f, "images") : \A j \in Item(f, i) :
                j \in Block(f, h) /\ (j # i => ~f[j].dash)
           /\ \A j \in Block(f, h) : \E i \in Items(f, "images") :
                j \in Item(f, i)
<1> DEFINE B == Block(f, h)
           g == f[h + 1].indent
<1>1. Len(f) \in Nat /\ DOMAIN f = 1 .. Len(f)
  OBVIOUS
<1>2. /\ h \in DOMAIN f /\ f[h].indent = 0 /\ ~f[h].dash
      /\ ImageHeads(f) = {h}
      /\ \A i \in B : Column(f[i]) = g + 2
  BY SimpleList
<1>3. ASSUME NEW j \in B
      PROVE  /\ j \in DOMAIN f /\ j > h /\ j \in (h + 1)..Len(f)
             /\ \A k \in (h + 1)..j : k \in B
             /\ h + 1 \in B /\ g \in Nat
             /\ f[j].indent = IF f[j].dash THEN g ELSE g + 2
             /\ f[j].indent \in Nat
  <2>1. j \in DOMAIN f /\ h < j /\ \A k \in (h + 1)..j : k \in B
    BY <1>2, BlockInFile
  <2>2. h + 1 \in (h + 1)..j
    BY <1>1, <1>2, <2>1
  <2>3. h + 1 \in B /\ h + 1 \in DOMAIN f
    BY <1>2, <2>1, <2>2, BlockInFile
  <2>4. g \in Nat /\ f[j].indent \in Nat
    BY <2>1, <2>3, IndentTyped
  <2>5. Column(f[j]) = g + 2
    BY <1>2
  <2>6. f[j].indent = IF f[j].dash THEN g ELSE g + 2
    <3> HIDE DEF g, B
    <3> QED BY <2>4, <2>5 DEF Column
  <2>7. j \in (h + 1)..Len(f)
    BY <1>1, <1>2, <2>1
  <2> QED BY <2>1, <2>3, <2>4, <2>6, <2>7
<1>4. \A i : i \in Items(f, "images") <=> i \in B /\ f[i].dash
  <2>1. ASSUME NEW i \in Items(f, "images") PROVE i \in B /\ f[i].dash
    <3>1. PICK k \in DOMAIN f : /\ f[k].key = "images" /\ f[k].value = ""
                                /\ i \in Block(f, k)
      BY DEF Items
    <3>2. k \in ImageHeads(f)
      BY <3>1 DEF ImageHeads, Where
    <3>3. f[i].dash
      BY DEF Items
    <3> QED BY <1>2, <3>1, <3>2, <3>3
  <2>2. ASSUME NEW i \in B, f[i].dash PROVE i \in Items(f, "images")
    <3>1. i \in DOMAIN f /\ f[i].indent = g
      BY <1>3, <2>2
    <3>2. f[h].key = "images" /\ f[h].value = ""
      BY DEF ImageHeads, Where
    <3> QED BY <1>2, <2>2, <3>1, <3>2 DEF Items
  <2> QED BY <2>1, <2>2
<1>5. ASSUME NEW i \in Items(f, "images"), NEW j \in Item(f, i)
      PROVE  j \in B /\ (j # i => ~f[j].dash)
  <2>1. i \in B /\ f[i].dash
    BY <1>4
  <2>2. /\ i \in DOMAIN f /\ i > h /\ f[i].indent = g /\ g \in Nat
        /\ \A k \in (h + 1)..i : k \in B
    BY <1>3, <2>1
  <2>3. /\ j \in DOMAIN f /\ i <= j
        /\ \A k \in i .. j : k \in DOMAIN f /\ k \in Item(f, i)
    BY <2>2, ItemInFile
  <2>4. \A k \in (i + 1) .. j : f[k].indent > g
    <3>1. ASSUME NEW k \in (i + 1) .. j PROVE f[k].indent > g
      <4>1. k \in i .. j /\ k # i
        BY <1>1, <2>2, <2>3
      <4> QED BY <2>2, <2>3, <4>1, ItemInFile
    <3> QED BY <3>1
  <2>5. j \in B
    <3>1. j \in (h + 1)..Len(f)
      BY <1>1, <1>2, <2>2, <2>3
    <3>2. ASSUME NEW k \in (h + 1)..j
          PROVE  \/ f[k].indent > Column(f[h])
                 \/ f[k].dash /\ f[k].indent = Column(f[h])
      <4>1. CASE k <= i
        <5>1. k \in (h + 1)..i
          BY <1>1, <1>2, <2>2, <4>1
        <5>2. k \in B
          BY <2>2, <5>1
        <5>3. k \in (h + 1)..k
          BY <1>1, <1>2, <5>1
        <5> QED BY <5>2, <5>3 DEF Block
      <4>2. CASE ~(k <= i)
        <5>1. k \in (i + 1)..j /\ k \in DOMAIN f
          BY <1>1, <1>2, <2>2, <2>3, <4>2
        <5>2. f[k].indent > g /\ f[k].indent \in Nat
          BY <2>4, <5>1, IndentTyped
        <5>3. Column(f[h]) = 0
          BY <1>2 DEF Column
        <5> HIDE DEF g
        <5> QED BY <2>2, <5>2, <5>3
      <4> QED BY <4>1, <4>2
    <3> QED BY <3>1, <3>2 DEF Block
  <2>6. j # i => ~f[j].dash
    <3>1. SUFFICES ASSUME j # i, f[j].dash PROVE FALSE
      OBVIOUS
    <3>2. j \in (i + 1) .. j
      BY <1>1, <2>2, <2>3, <3>1
    <3>3. f[j].indent > g /\ f[j].indent = g /\ g \in Nat
      BY <1>3, <2>4, <2>5, <3>1, <3>2
    <3> HIDE DEF g
    <3> QED BY <3>3
  <2> QED BY <2>5, <2>6
<1>6. ASSUME NEW j \in B
      PROVE  \E i \in Items(f, "images") : j \in Item(f, i)
  <2> DEFINE S == {i \in (h + 1) .. j : f[i].dash}
             i == Max(S)
  <2>1. /\ j \in (h + 1)..Len(f) /\ \A k \in (h + 1)..j : k \in B
        /\ h + 1 \in B /\ g \in Nat
    BY <1>3
  <2>2. h + 1 \in S
    <3>1. f[h + 1].dash
      <4>1. SUFFICES ASSUME ~f[h + 1].dash PROVE FALSE
        OBVIOUS
      <4>2. g = g + 2
        BY <1>3, <2>1, <4>1
      <4> HIDE DEF g
      <4> QED BY <2>1, <4>2
    <3>2. h + 1 \in (h + 1) .. j
      BY <1>1, <1>2, <2>1
    <3> QED BY <3>1, <3>2
  <2>3. S \subseteq DOMAIN f
    BY <1>1, <1>2, <2>1
  <2>4. i \in S /\ \A k \in S : i >= k
    <3>1. S \subseteq 0 .. Len(f) /\ S # {}
      BY <1>1, <2>2, <2>3
    <3> HIDE DEF S
    <3> QED BY <1>1, <3>1, MaxIsLast
  <2> HIDE DEF i
  <2>5. i \in Items(f, "images")
    BY <1>4, <2>1, <2>4
  <2>6. f[i].indent = g /\ i \in (h + 1) .. j
    BY <1>3, <2>1, <2>4
  <2>7. ASSUME NEW k \in (i + 1) .. j PROVE f[k].indent > f[i].indent
    <3>1. k \in (h + 1) .. j /\ ~(i >= k)
      BY <1>1, <1>2, <2>1, <2>6
    <3>2. ~f[k].dash
      BY <2>4, <3>1
    <3>3. f[k].indent = g + 2
      BY <1>3, <2>1, <3>1, <3>2
    <3> HIDE DEF g
    <3> QED BY <2>1, <2>6, <3>3
  <2>8. j \in Item(f, i)
    <3>1. j = i \/ j \in (i + 1)..Len(f)
      BY <1>1, <1>2, <2>1, <2>6
    <3> QED BY <2>7, <3>1 DEF Item
  <2> QED BY <2>5, <2>8
<1> QED BY <1>4, <1>5, <1>6

\* The search finds the entry of the name, once.
LEMMA EntryFound ==
    ASSUME NEW f \in Seq(Lines), Simple(f), NEW h \in ImageHeads(f), NEW n,
           NEW j \in KustomizationEntries(f, n)
    PROVE  /\ KustomizationEntries(f, n) = {j}
           /\ \E i \in Items(f, "images") :
                j \in Item(f, i) /\ Entry(f, "images", n) = Item(f, i)
<1>1. \A k : k \in KustomizationEntries(f, n) <=>
            k \in Block(f, h) /\ f[k].key = "name" /\ f[k].value = n
  BY ImagesBlockIsBlock DEF KustomizationEntries
<1>2. KustomizationEntries(f, n) = {j}
  <2>1. j \in Block(f, h) /\ f[j].key = "name" /\ f[j].value = n
    BY <1>1
  <2>2. ASSUME NEW k \in KustomizationEntries(f, n) PROVE k = j
    <3>1. k \in Block(f, h) /\ f[k].key = "name" /\ f[k].value = n
      BY <1>1
    <3> QED BY <2>1, <3>1, SimpleList
  <2> QED BY <2>2
<1>3. PICK i \in Items(f, "images") : j \in Item(f, i)
  BY <1>1, SimpleItems
<1>4. ASSUME NEW k \in Items(f, "images") PROVE Named(f, k, n) <=> k = i
  <2>1. k \in Block(f, h) /\ f[k].dash /\ k \in DOMAIN f
        /\ i \in Block(f, h) /\ f[i].dash /\ i \in DOMAIN f
    <3>1. /\ k \in Block(f, h) /\ f[k].dash
          /\ i \in Block(f, h) /\ f[i].dash
      BY SimpleItems
    <3>2. h \in DOMAIN f
      BY SimpleList
    <3> QED BY <3>1, <3>2, BlockInFile
  <2>2. ASSUME Named(f, k, n) PROVE k = i
    <3>1. PICK x \in Item(f, k) : f[x].key = "name" /\ f[x].value = n
      BY <2>2 DEF Named
    <3>2. x \in Block(f, h)
      BY SimpleItems
    <3>3. x = j
      BY <1>1, <1>2, <3>1, <3>2
    <3>4. CASE k < i
      <4>1. i <= j /\ i \in k .. j
        BY <1>3, <2>1, <3>4, ItemInFile
      <4>2. i \in Item(f, k)
        BY <2>1, <3>3, <4>1, ItemInFile
      <4> QED BY <2>1, <3>4, <4>2, SimpleItems
    <3>5. CASE i < k
      <4>1. k <= j /\ k \in i .. j
        BY <2>1, <3>3, <3>5, ItemInFile
      <4>2. k \in Item(f, i)
        BY <1>3, <2>1, <4>1, ItemInFile
      <4> QED BY <2>1, <3>5, <4>2, SimpleItems
    <3>6. k \in Nat /\ i \in Nat
      BY <2>1
    <3> QED BY <3>4, <3>5, <3>6
  <2>3. Named(f, i, n)
    <3>1. Column(f[j]) = f[h + 1].indent + 2
          /\ Column(f[i]) = f[h + 1].indent + 2
      BY <1>1, <2>1, SimpleList
    <3>2. Column(f[i]) = f[i].indent + 2
      BY <2>1 DEF Column
    <3> QED BY <1>1, <1>3, <3>1, <3>2 DEF Named
  <2> QED BY <2>2, <2>3
<1>5. {k \in Items(f, "images") : Named(f, k, n)} = {i}
  BY <1>4
<1>6. Entry(f, "images", n) = UNION {Item(f, k) : k \in {i}}
  BY <1>5 DEF Entry
<1>7. Entry(f, "images", n) = Item(f, i)
  BY <1>6
<1> QED BY <1>2, <1>3, <1>7

LEMMA OverlayFound ==
    ASSUME NEW f \in Seq(Lines), Simple(f), NEW n
    PROVE  KustomizationEntries(f, n) # {} <=> Entry(f, "images", n) # {}
<1>1. CASE ImageHeads(f) = {}
  <2>1. Where(f, LAMBDA l : Heads(l, "images")) = {}
    BY <1>1 DEF Where, Heads, ImageHeads
  <2>2. KustomizationEntries(f, n) = {}
    BY <2>1 DEF KustomizationEntries, ImagesBlock
  <2>3. Items(f, "images") = {}
    BY <1>1 DEF Items, ImageHeads, Where
  <2> QED BY <2>2, <2>3 DEF Entry
<1>2. ASSUME NEW h \in ImageHeads(f)
      PROVE  KustomizationEntries(f, n) # {} <=> Entry(f, "images", n) # {}
  <2>1. ASSUME NEW j \in KustomizationEntries(f, n)
        PROVE  Entry(f, "images", n) # {}
    BY <1>2, EntryFound
  <2>2. ASSUME NEW x \in Entry(f, "images", n)
        PROVE  KustomizationEntries(f, n) # {}
    <3>1. PICK i \in Items(f, "images") : Named(f, i, n)
      BY DEF Entry
    <3>2. PICK j \in Item(f, i) : f[j].key = "name" /\ f[j].value = n
      BY <3>1 DEF Named
    <3>3. j \in Block(f, h)
      BY <1>2, SimpleItems
    <3>4. j \in ImagesBlock(f)
      BY <1>2, <3>3, ImagesBlockIsBlock
    <3> QED BY <3>2, <3>4 DEF KustomizationEntries
  <2> QED BY <2>1, <2>2
<1> QED BY <1>1, <1>2

(***************************************************************************)
(* The file that is edited is the one the request is about.                *)
(***************************************************************************)
LEMMA ClonedFiles ==
    ASSUME clone \in Clones
    PROVE  /\ Len(clone) \in Nat /\ DOMAIN clone = 1 .. Len(clone)
           /\ \A i \in DOMAIN clone : clone[i].lines \in Seq(Lines)
<1>1. clone \in Seq(Files)
  BY PatcherAssumption DEF Files
<1>2. Len(clone) \in Nat /\ DOMAIN clone = 1 .. Len(clone)
  BY <1>1
<1>3. ASSUME NEW i \in DOMAIN clone PROVE clone[i].lines \in Seq(Lines)
  <2>1. clone[i] \in Files
    BY <1>1
  <2> QED BY <2>1 DEF Files
<1> QED BY <1>2, <1>3

LEMMA FirstExists ==
    ASSUME NEW S, clone \in Clones, S \subseteq DOMAIN clone
    PROVE  /\ First(S) # 0 <=> S # {}
           /\ S # {} => First(S) \in S
<1>1. DOMAIN clone = 1 .. Len(clone) /\ Len(clone) \in Nat
  BY ClonedFiles
<1>2. ASSUME S # {} PROVE First(S) \in S /\ First(S) # 0
  <2>1. S \subseteq Nat /\ 0 \notin S
    BY <1>1
  <2>2. Min(S) \in S
    BY <1>2, <2>1, MinExists
  <2> QED BY <1>2, <2>1, <2>2 DEF First
<1>3. S = {} => First(S) = 0
  BY DEF First
<1> QED BY <1>2, <1>3

LEMMA RightFile ==
    ASSUME clone \in Clones, StandardClone
    PROVE  /\ UsesKustomization(request)
                <=> request.type = "image_tag" /\ OverlayFile # 0
           /\ Target(request) = IF UsesKustomization(request)
                                THEN OverlayFile ELSE ManifestFile
           /\ OverlayFile # 0 =>
                /\ OverlayFile \in DOMAIN clone
                /\ Simple(clone[OverlayFile].lines)
                /\ Entry(clone[OverlayFile].lines, "images", request.pod) # {}
           /\ ManifestFile # 0 => ManifestFile \in DOMAIN clone
<1> DEFINE n == request.pod
           declaring == {i \in DOMAIN clone : Declares(clone[i].lines, n)}
           listing == {i \in DOMAIN clone :
                        /\ clone[i].base = "kustomization"
                        /\ Entry(clone[i].lines, "images", n) # {}}
<1>1. FindManifest(clone, n) = declaring
  <2>1. ASSUME NEW i \in DOMAIN clone
        PROVE  ContainsDeployment(clone[i].lines, n)
               <=> Declares(clone[i].lines, n)
    <3>1. clone[i].lines \in Seq(Lines) /\ Standard(clone[i].lines)
      BY ClonedFiles DEF StandardClone
    <3> QED BY <3>1, FoundIsDeclared, DeclaredIsFound
  <2> QED BY <2>1 DEF FindManifest
<1>2. FindKustomization(clone, n) = listing
  <2>1. ASSUME NEW i \in DOMAIN clone, clone[i].base = "kustomization"
        PROVE  KustomizationEntries(clone[i].lines, n) # {}
               <=> Entry(clone[i].lines, "images", n) # {}
    <3>1. clone[i].lines \in Seq(Lines) /\ Simple(clone[i].lines)
      BY <2>1, ClonedFiles DEF StandardClone
    <3> QED BY <3>1, OverlayFound
  <2> QED BY <2>1 DEF FindKustomization
<1>3. ManifestFile = First(declaring) /\ OverlayFile = First(listing)
  BY DEF ManifestFile, OverlayFile
<1>4. declaring \subseteq DOMAIN clone /\ listing \subseteq DOMAIN clone
  OBVIOUS
<1>5. \A i \in listing :
        /\ i \in DOMAIN clone
        /\ Simple(clone[i].lines)
        /\ Entry(clone[i].lines, "images", n) # {}
  BY DEF StandardClone
<1> HIDE DEF declaring, listing
<1>6. /\ First(declaring) # 0 => First(declaring) \in declaring
      /\ First(listing) # 0 <=> listing # {}
      /\ First(listing) # 0 => First(listing) \in listing
  BY <1>4, FirstExists
<1>7. UsesKustomization(request)
        <=> request.type = "image_tag" /\ OverlayFile # 0
  BY <1>2, <1>3, <1>6 DEF UsesKustomization
<1>8. Target(request) = IF UsesKustomization(request)
                        THEN OverlayFile ELSE ManifestFile
  BY <1>1, <1>2, <1>3 DEF Target
<1> QED BY <1>3, <1>4, <1>5, <1>6, <1>7, <1>8

(***************************************************************************)
(* A change of a value or a tag keeps a file parsing.                      *)
(***************************************************************************)
LEMMA ShapeParses ==
    ASSUME NEW f \in Seq(Lines), NEW g \in Seq(Lines), NEW n \in 0 .. Len(f),
           Len(g) = Len(f), \A i \in DOMAIN f : SameShape(f[i], g[i]),
           \A i \in 2 .. n : Opens(f, i) => Opens(g, i),
           WellFormedTo(f, n)
    PROVE  WellFormedTo(g, n)
<1>1. Len(f) \in Nat /\ DOMAIN f = 1 .. Len(f)
  OBVIOUS
<1>2. \A i, j \in DOMAIN f :
        /\ Aligned(f[i], f[j]) => Aligned(g[i], g[j])
        /\ Within(f[i], f[j]) => Within(g[i], g[j])
  BY DEF SameShape, Aligned, Within, Column
<1>3. ASSUME NEW i \in 2 .. n PROVE Opens(g, i) \/ Continues(g, i)
  <2>1. i \in DOMAIN f
    BY <1>1
  <2>2. CASE Continues(f, i)
    <3>1. PICK j \in 1..(i - 1) :
            /\ Aligned(f[i], f[j])
            /\ \A k \in (j + 1)..(i - 1) : Within(f[i], f[k])
      BY <2>2, ContinuesBetween
    <3>2. j \in DOMAIN f /\ \A k \in (j + 1)..(i - 1) : k \in DOMAIN f
      BY <1>1, <2>1
    <3> QED BY <1>2, <2>1, <3>1, <3>2, ContinuesBetween
  <2>3. Opens(f, i) \/ Continues(f, i)
    BY DEF WellFormedTo
  <2> QED BY <2>2, <2>3
<1> QED BY <1>3 DEF WellFormedTo

\* Lines that are read alike.
Alike(l, m) ==
    SameShape(l, m) /\ (Blank(l) => Blank(m))

LEMMA AlikeParses ==
    ASSUME NEW f \in Seq(Lines), NEW g \in Seq(Lines), NEW n \in 0 .. Len(f),
           Len(g) = Len(f), \A i \in DOMAIN f : Alike(f[i], g[i]),
           WellFormedTo(f, n)
    PROVE  WellFormedTo(g, n)
<1>1. Len(f) \in Nat /\ DOMAIN f = 1 .. Len(f)
  OBVIOUS
<1>2. \A i \in DOMAIN f : SameShape(f[i], g[i])
  BY DEF Alike
<1>3. ASSUME NEW i \in 2 .. n, Opens(f, i) PROVE Opens(g, i)
  <2>1. i \in DOMAIN f /\ i - 1 \in DOMAIN f
    BY <1>1
  <2> QED BY <1>3, <2>1, OpensBlank DEF Alike, SameShape, Column
<1> QED BY <1>2, <1>3, ShapeParses

\* The separators at which the first document of a file may end.
Ends(f) == Separators(f) \ {1}

LEMMA ParsedLines ==
    ASSUME NEW f \in Seq(Lines)
    PROVE  \E n \in 0 .. Len(f) :
            /\ n = IF Ends(f) = {} THEN Len(f) ELSE Min(Ends(f)) - 1
            /\ Unmarshals(f) <=> WellFormedTo(f, n)
<1>1. Len(f) \in Nat /\ DOMAIN f = 1 .. Len(f)
  OBVIOUS
<1>2. Ends(f) \subseteq DOMAIN f
  BY DEF Ends, Separators
<1>0. Unmarshals(f) <=>
        WellFormedTo(f, IF Ends(f) = {} THEN Len(f) ELSE Min(Ends(f)) - 1)
  BY Zenon DEF Unmarshals, Ends
<1>3. CASE Ends(f) = {}
  <2>1. Len(f) \in 0 .. Len(f)
    BY <1>1
  <2>2. Unmarshals(f) <=> WellFormedTo(f, Len(f))
    BY <1>0, <1>3, Zenon
  <2> QED BY <1>3, <2>1, <2>2, Zenon
<1>4. CASE Ends(f) # {}
  <2>1. Min(Ends(f)) \in DOMAIN f
    BY <1>2, <1>4, MinOfLines
  <2>2. Min(Ends(f)) - 1 \in 0 .. Len(f)
    BY <1>1, <2>1
  <2> QED BY <1>0, <1>4, <2>2
<1> QED BY <1>3, <1>4

LEMMA ChangeParses ==
    ASSUME NEW f \in Seq(Lines), NEW i \in DOMAIN f, NEW l \in Lines,
           f[i].key \in Settings, Alike(f[i], l), Unmarshals(f)
    PROVE  Unmarshals([f EXCEPT ![i] = l])
<1> DEFINE g == [f EXCEPT ![i] = l]
<1>1. Len(f) \in Nat /\ DOMAIN f = 1 .. Len(f)
  OBVIOUS
<1>2. g \in Seq(Lines) /\ Len(g) = Len(f) /\ DOMAIN g = DOMAIN f
      /\ g[i] = l /\ \A j \in DOMAIN f : j # i => g[j] = f[j]
  OBVIOUS
<1> HIDE DEF g
<1>3. \A j \in DOMAIN f : Alike(f[j], g[j])
  BY <1>2 DEF Alike, SameShape
<1>4. "---" \notin Settings
  BY DEF Settings
<1>5. f[i] # Separator /\ l # Separator
  BY <1>4, SeparatorFields DEF Alike, SameShape
<1>6. Separators(g) = Separators(f)
  BY <1>2, <1>5 DEF Separators
<1>7. PICK n \in 0 .. Len(f) :
        /\ n = IF Ends(f) = {} THEN Len(f) ELSE Min(Ends(f)) - 1
        /\ Unmarshals(f) <=> WellFormedTo(f, n)
  BY ParsedLines
<1>8. WellFormedTo(g, n)
  BY <1>2, <1>3, <1>7, AlikeParses
<1>9. Unmarshals(g)
  <2>1. Ends(g) = Ends(f)
    BY <1>6 DEF Ends
  <2>2. PICK k \in 0 .. Len(g) :
        /\ k = IF Ends(g) = {} THEN Len(g) ELSE Min(Ends(g)) - 1
        /\ Unmarshals(g) <=> WellFormedTo(g, k)
    BY <1>2, ParsedLines
  <2> QED BY <1>2, <1>7, <1>8, <2>1, <2>2
<1> QED BY <1>9 DEF g

(***************************************************************************)
(* The entry of a name.                                                    *)
(***************************************************************************)
LEMMA PlainEntry ==
    ASSUME NEW f \in Seq(Lines), NEW list, NEW name, Plain(f, name),
           Entry(f, list, name) # {}
    PROVE  \E o \in DOMAIN f :
            /\ f[o].dash /\ f[o].key = "name" /\ f[o].value = name
            /\ Entry(f, list, name) = Item(f, o)
            /\ \A j \in DOMAIN f : f[j].dash /\ f[j].value = name => j = o
<1>1. ASSUME NEW h \in Items(f, list), Named(f, h, name)
      PROVE  /\ h \in DOMAIN f
             /\ f[h].dash /\ f[h].key = "name" /\ f[h].value = name
  <2>1. h \in DOMAIN f /\ f[h].dash
    BY DEF Items
  <2>2. f[h].key = "name"
    BY <2>1 DEF Plain
  <2>3. PICK j \in Item(f, h) : /\ f[j].key = "name" /\ f[j].value = name
                                /\ Column(f[j]) = f[h].indent + 2
    BY <1>1 DEF Named
  <2>4. j = h
    BY <2>1, <2>3 DEF Plain
  <2> QED BY <2>1, <2>2, <2>3, <2>4
<1>2. PICK o \in Items(f, list) : Named(f, o, name)
  BY DEF Entry
<1>3. \A j \in DOMAIN f : f[j].dash /\ f[j].value = name => j = o
  BY <1>1, <1>2 DEF Plain
<1>4. {h \in Items(f, list) : Named(f, h, name)} = {o}
  BY <1>1, <1>2, <1>3
<1>5. Entry(f, list, name) = UNION {Item(f, h) : h \in {o}}
  BY <1>4 DEF Entry
<1>6. Entry(f, list, name) = Item(f, o)
  BY <1>5
<1> QED BY <1>1, <1>2, <1>3, <1>6

(***************************************************************************)
(* The image of a container.                                               *)
(***************************************************************************)

Unnamed(c) == c = ""

\* The image lines that the search may find after line o.
ImagesAfter(f, o) ==
    {j \in DOMAIN f : /\ Field(f[j], "image")
                      /\ o < j
                      /\ \A k \in o..j : StartsEntry(f[k]) => k = o}

LEMMA ImageSearch ==
    ASSUME NEW f \in Seq(Lines), NEW c, NEW t, ~Unnamed(c), NEW o \in DOMAIN f,
           f[o].dash, f[o].key = "name", f[o].value = c,
           \A j \in DOMAIN f : f[j].dash /\ f[j].value = c => j = o
    PROVE  ApplyImageTag(f, c, t) =
                IF ImagesAfter(f, o) = {} THEN Failed
                ELSE [f EXCEPT ![Min(ImagesAfter(f, o))].tag = t]
<1> DEFINE own == Where(f, LAMBDA l : StartsEntry(l) /\ l.value = c)
           reached(j) ==
                /\ own # {} /\ Min(own) < j
                /\ \A k \in Min(own)..j : StartsEntry(f[k]) => k \in own
           images == {j \in DOMAIN f : /\ Field(f[j], "image")
                                       /\ c = "" \/ reached(j)}
<1>1. own = {o}
  BY DEF Where, StartsEntry
<1>2. o \in Nat
  OBVIOUS
<1>3. Min(own) = o /\ own # {}
  <2> HIDE DEF own
  <2> QED BY <1>1, <1>2, MinOfOne
<1>4. \A j : (c = "" \/ reached(j)) <=> reached(j)
  BY Zenon DEF Unnamed
<1>5. \A j : reached(j) <=> /\ o < j
                            /\ \A k \in o..j : StartsEntry(f[k]) => k = o
  <2> HIDE DEF own
  <2> QED BY <1>1, <1>3
<1> HIDE DEF own, reached
<1>6. images = ImagesAfter(f, o)
  <2>1. \A j : j \in images <=> /\ j \in DOMAIN f /\ Field(f[j], "image")
                                /\ reached(j)
    BY <1>4, Zenon
  <2> HIDE DEF images
  <2> QED BY <1>5, <2>1 DEF ImagesAfter
<1>7. ApplyImageTag(f, c, t) =
        IF images = {} THEN Failed ELSE [f EXCEPT ![Min(images)].tag = t]
  BY Zenon DEF ApplyImageTag, images, reached, own
<1> HIDE DEF images
<1> QED BY <1>6, <1>7

LEMMA ImageChanged ==
    ASSUME NEW f \in Seq(Lines), NEW c, NEW t, ~Unnamed(c),
           Plain(f, c), Image(f, c) # {}, NEW i, i = Min(Image(f, c))
    PROVE  /\ i \in DOMAIN f /\ f[i].key = "image"
           /\ ApplyImageTag(f, c, t) # Failed
                => ApplyImageTag(f, c, t) = [f EXCEPT ![i].tag = t]
           /\ (\A j \in Entry(f, "containers", c) :
                    j < i /\ f[j].dash => f[j].value = c)
                => ApplyImageTag(f, c, t) = [f EXCEPT ![i].tag = t]
<1> DEFINE I == Image(f, c)
<1>0. Len(f) \in Nat /\ DOMAIN f = 1 .. Len(f)
  OBVIOUS
<1>1. Entry(f, "containers", c) # {}
  BY DEF Image
<1>2. PICK o \in DOMAIN f :
        /\ f[o].dash /\ f[o].key = "name" /\ f[o].value = c
        /\ Entry(f, "containers", c) = Item(f, o)
        /\ \A j \in DOMAIN f : f[j].dash /\ f[j].value = c => j = o
  BY <1>1, PlainEntry
<1>3. \A j : j \in I <=> j \in Item(f, o) /\ f[j].key = "image"
  BY <1>2 DEF Image
<1>4. I \subseteq DOMAIN f
  BY <1>2, <1>3, ItemInFile
<1> HIDE DEF I
<1>5. i \in I /\ \A x \in I : i <= x
  <2>1. I \subseteq Nat /\ I # {}
    BY <1>0, <1>4 DEF I
  <2>2. i = Min(I)
    BY DEF I
  <2> QED BY <2>1, <2>2, MinIsFirst
<1>6. /\ i \in Item(f, o) /\ i \in DOMAIN f /\ o <= i
      /\ f[i].key = "image"
      /\ \A k \in o .. i : k \in DOMAIN f /\ k \in Item(f, o)
  BY <1>2, <1>3, <1>4, <1>5, ItemInFile
<1>7. i # o /\ ~f[i].dash
  BY <1>2, <1>6 DEF Plain
<1>8. o < i /\ Field(f[i], "image")
  BY <1>0, <1>6, <1>7 DEF Field
<1> DEFINE S == ImagesAfter(f, o)
<1>9. S # {} => Min(S) = i
  <2>1. SUFFICES ASSUME S # {} PROVE Min(S) = i
    OBVIOUS
  <2>2. \A j : j \in S <=>
            /\ j \in DOMAIN f /\ Field(f[j], "image") /\ o < j
            /\ \A k \in o..j : StartsEntry(f[k]) => k = o
    BY DEF ImagesAfter
  <2> HIDE DEF S
  <2>3. S \subseteq Nat
    BY <1>0, <2>2
  <2> DEFINE x == Min(S)
  <2>4. x \in S /\ \A y \in S : x <= y
    BY <2>1, <2>3, MinIsFirst
  <2> HIDE DEF x
  <2>5. ~(x < i)
    <3>1. SUFFICES ASSUME x < i PROVE FALSE
      OBVIOUS
    <3>2. x \in o .. i
      <4>1. x \in DOMAIN f /\ o < x
        BY <2>2, <2>4
      <4> QED BY <1>0, <1>6, <3>1, <4>1
    <3>3. x \in I
      BY <1>3, <1>6, <2>2, <2>4, <3>2 DEF Field
    <3> QED BY <1>0, <1>4, <1>5, <3>1, <3>3
  <2>6. ~(i < x)
    <3>1. SUFFICES ASSUME i < x PROVE FALSE
      OBVIOUS
    <3>2. \A k \in o .. i : k \in o .. x
      BY <1>0, <1>6, <2>2, <2>4, <3>1
    <3>3. i \in S
      BY <1>6, <1>8, <2>2, <2>4, <3>2
    <3> QED BY <1>0, <1>6, <2>2, <2>4, <3>1, <3>3
  <2>7. x \in DOMAIN f
    BY <2>2, <2>4
  <2>8. x = i
    BY <1>0, <1>6, <2>5, <2>6, <2>7
  <2> QED BY <2>8 DEF x
<1>10. (\A j \in Entry(f, "containers", c) :
            j < i /\ f[j].dash => f[j].value = c) => S # {}
  <2>1. SUFFICES ASSUME \A j \in Entry(f, "containers", c) :
                            j < i /\ f[j].dash => f[j].value = c
                 PROVE  i \in S
    OBVIOUS
  <2>2. ASSUME NEW k \in o .. i, StartsEntry(f[k]) PROVE k = o
    <3>1. k # i /\ f[k].dash
      BY <1>7, <2>2 DEF StartsEntry
    <3>2. k < i /\ k \in DOMAIN f /\ k \in Item(f, o)
      BY <1>0, <1>6, <3>1
    <3>3. f[k].value = c
      BY <1>2, <2>1, <3>1, <3>2
    <3> QED BY <1>2, <3>1, <3>2, <3>3
  <2> QED BY <1>6, <1>8, <2>2 DEF ImagesAfter
<1>11. ApplyImageTag(f, c, t) =
            IF S = {} THEN Failed ELSE [f EXCEPT ![Min(S)].tag = t]
  BY <1>2, ImageSearch
<1> HIDE DEF S
<1> QED BY <1>6, <1>9, <1>10, <1>11

\* Without an entry of that name there is no image.
LEMMA NoImage ==
    ASSUME NEW f \in Seq(Lines), NEW c, NEW t, ~Unnamed(c),
           \A j \in DOMAIN f : f[j].dash => f[j].value # c
    PROVE  ApplyImageTag(f, c, t) = Failed
<1> DEFINE own == Where(f, LAMBDA l : StartsEntry(l) /\ l.value = c)
           reached(j) ==
                /\ own # {} /\ Min(own) < j
                /\ \A k \in Min(own)..j : StartsEntry(f[k]) => k \in own
           images == {j \in DOMAIN f : /\ Field(f[j], "image")
                                       /\ c = "" \/ reached(j)}
<1>1. own = {}
  BY DEF Where, StartsEntry
<1>2. images = {}
  BY <1>1, Zenon DEF Unnamed
<1> QED BY <1>2, Zenon DEF ApplyImageTag

\* How a request is answered.
LEMMA Outcome ==
    ASSUME Call, [Next]_vars, answer' # answer
    PROVE  /\ clone \in Clones /\ request \in Requests
           /\ answer' = "patched" =>
                /\ Accepted(request)
                /\ clone' = [clone EXCEPT ![Target(request)].lines =
                                NewContent(request)]
           /\ Accepted(request) => answer' = "patched"
           /\ ~Accepted(request) => answer' = "failed"
<1>1. Patch \/ Refuse
  BY DEF Next, vars
<1>2. CASE Patch
  BY <1>2 DEF Patch, Call
<1>3. CASE Refuse
  BY <1>3 DEF Refuse, Call
<1> QED BY <1>1, <1>2, <1>3

LEMMA TagParses ==
    ASSUME NEW f \in Seq(Lines), NEW i \in DOMAIN f, NEW t \in Texts,
           f[i].key \in Settings, Unmarshals(f)
    PROVE  Unmarshals([f EXCEPT ![i].tag = t])
<1> DEFINE l == [f[i] EXCEPT !.tag = t]
<1>1. f[i] \in Lines
  OBVIOUS
<1>2. l \in Lines /\ l.indent = f[i].indent /\ l.dash = f[i].dash
      /\ l.key = f[i].key /\ l.value = f[i].value
  BY <1>1 DEF Lines
<1>3. [f EXCEPT ![i].tag = t] = [f EXCEPT ![i] = l]
  OBVIOUS
<1> HIDE DEF l
<1>4. Alike(f[i], l)
  BY <1>2 DEF Alike, SameShape, Blank
<1> QED BY <1>2, <1>3, <1>4, ChangeParses

\* For a container of a plain manifest, the tag of its image is set, that one
\* alone; a container that is not there is refused (patch.go:257-310).
THEOREM ImageTagIsSet == Spec => ImageTagSet
<1> DEFINE c == request.container
           old == clone[ManifestFile].lines
           i == Min(Image(old, c))
           Set ==
             Answers("image_tag") /\ request.container # "" /\ StandardClone
                /\ OverlayFile = 0 /\ ManifestFile # 0 =>
               (Plain(old, c) =>
                 /\ Image(old, c) # {} /\ answer' = "patched" =>
                     clone' = [clone EXCEPT
                                ![ManifestFile].lines[i].tag = request.value]
                 /\ /\ Image(old, c) # {} /\ Unmarshals(old)
                    /\ \A j \in Entry(old, "containers", c) :
                         j < i /\ old[j].dash => old[j].value = c
                    => answer' = "patched"
                 /\ (\A j \in DOMAIN old : old[j].dash => old[j].value # c) =>
                     answer' = "failed")
<1>1. ASSUME Call, [Next]_vars PROVE [Set]_vars
  <2>1. SUFFICES ASSUME Answers("image_tag"), ~Unnamed(c),
                        StandardClone, OverlayFile = 0, ManifestFile # 0,
                        Plain(old, c)
                 PROVE  /\ Image(old, c) # {} /\ answer' = "patched" =>
                            clone' = [clone EXCEPT
                                ![ManifestFile].lines[i].tag = request.value]
                        /\ /\ Image(old, c) # {} /\ Unmarshals(old)
                           /\ \A j \in Entry(old, "containers", c) :
                                j < i /\ old[j].dash => old[j].value = c
                           => answer' = "patched"
                        /\ (\A j \in DOMAIN old :
                                old[j].dash => old[j].value # c)
                            => answer' = "failed"
    BY Zenon DEF Unnamed
  <2> DEFINE new == ApplyImageTag(old, c, request.value)
             changed == [old EXCEPT ![i].tag = request.value]
  <2>2. /\ request.type = "image_tag" /\ clone \in Clones
        /\ request.value \in Texts
        /\ answer' = "patched" =>
             /\ Accepted(request)
             /\ clone' = [clone EXCEPT ![Target(request)].lines =
                                NewContent(request)]
        /\ Accepted(request) => answer' = "patched"
        /\ ~Accepted(request) => answer' = "failed"
    BY <1>1, <2>1, Outcome, PatcherAssumption DEF Answers
  <2>3. /\ ~UsesKustomization(request)
        /\ Target(request) = ManifestFile
        /\ ManifestFile \in DOMAIN clone
    BY <2>1, <2>2, RightFile
  <2>4. old \in Seq(Lines)
    BY <2>2, <2>3, ClonedFiles
  <2>5. NewContent(request) = new
    BY <2>2, <2>3 DEF NewContent
  <2>6. Accepted(request) <=> new # Failed /\ Unmarshals(new)
    BY <2>1, <2>3, <2>5 DEF Accepted
  <2>7. ASSUME Image(old, c) # {}
        PROVE  /\ i \in DOMAIN old /\ old[i].key = "image"
               /\ new # Failed => new = changed
               /\ (\A j \in Entry(old, "containers", c) :
                        j < i /\ old[j].dash => old[j].value = c)
                    => new = changed
    <3>1. i = Min(Image(old, c))
      OBVIOUS
    <3> DEFINE v == request.value
    <3>2. Image(old, c) # {} /\ Plain(old, c) /\ ~Unnamed(c)
          /\ old \in Seq(Lines)
      BY <2>1, <2>4, <2>7
    <3> HIDE DEF old, i, c, v
    <3>3. i \in DOMAIN old /\ old[i].key = "image"
      BY <3>1, <3>2, ImageChanged
    <3>4. /\ ApplyImageTag(old, c, v) # Failed
            => ApplyImageTag(old, c, v) = [old EXCEPT ![i].tag = v]
          /\ (\A j \in Entry(old, "containers", c) :
                j < i /\ old[j].dash => old[j].value = c)
            => ApplyImageTag(old, c, v) = [old EXCEPT ![i].tag = v]
      BY <3>1, <3>2, ImageChanged
    <3> QED BY <3>3, <3>4 DEF v
  <2>8. ASSUME Image(old, c) # {}, answer' = "patched"
        PROVE  clone' = [clone EXCEPT
                            ![ManifestFile].lines[i].tag = request.value]
    <3>1. clone' = [clone EXCEPT ![ManifestFile].lines = changed]
      BY <2>2, <2>3, <2>5, <2>6, <2>7, <2>8
    <3> HIDE DEF i
    <3> QED BY <3>1
  <2>9. ASSUME Image(old, c) # {}, Unmarshals(old),
               \A j \in Entry(old, "containers", c) :
                    j < i /\ old[j].dash => old[j].value = c
        PROVE  answer' = "patched"
    <3> HIDE DEF old, i
    <3>1. new = changed /\ i \in DOMAIN old /\ old[i].key \in Settings
      BY <2>7, <2>9 DEF Settings
    <3>2. Unmarshals(changed)
      BY <2>2, <2>4, <2>9, <3>1, TagParses
    <3>3. changed # Failed
      <4>1. DOMAIN changed = DOMAIN old /\ i \in DOMAIN old
        BY <3>1
      <4>2. DOMAIN Failed = {}
        BY DEF Failed
      <4> HIDE DEF changed
      <4> QED BY <4>1, <4>2
    <3> QED BY <2>2, <2>6, <3>1, <3>2, <3>3
  <2>10. ASSUME \A j \in DOMAIN old : old[j].dash => old[j].value # c
         PROVE  answer' = "failed"
    <3> HIDE DEF old
    <3>1. new = Failed
      BY <2>1, <2>4, <2>10, NoImage
    <3> QED BY <2>2, <2>6, <3>1
  <2> QED BY <2>8, <2>9, <2>10, Zenon
<1>2. Spec => [][Set]_vars
  BY <1>1, CallInvariant, PTL DEF Spec
<1> QED BY <1>2 DEF ImageTagSet

(***************************************************************************)
(* The value of an environment variable.                                   *)
(***************************************************************************)
LEMMA EnvSearch ==
    ASSUME NEW f \in Seq(Lines), NEW k, NEW v, ~Unnamed(k), NEW o \in DOMAIN f,
           f[o].dash, f[o].key = "name", f[o].value = k,
           \A j \in DOMAIN f : f[j].dash /\ f[j].value = k => j = o
    PROVE  ApplyEnvVar(f, k, v) =
                IF o + 1 \in DOMAIN f /\ Field(f[o + 1], "value")
                THEN [f EXCEPT ![o + 1].value = v] ELSE Failed
<1> DEFINE named == Where(f, LAMBDA l : StartsEntry(l) /\ l.value = k)
           next == Min(named) + 1
<1>1. named = {o}
  BY DEF Where, StartsEntry
<1>2. o \in Nat
  OBVIOUS
<1>3. next = o + 1 /\ named # {}
  <2> HIDE DEF named
  <2> QED BY <1>1, <1>2, MinOfOne
<1>4. ApplyEnvVar(f, k, v) =
        IF /\ k # "" /\ named # {}
           /\ next \in DOMAIN f /\ Field(f[next], "value")
        THEN [f EXCEPT ![next].value = v]
        ELSE Failed
  BY Zenon DEF ApplyEnvVar
<1> HIDE DEF next, named
<1>5. ApplyEnvVar(f, k, v) =
        IF next \in DOMAIN f /\ Field(f[next], "value")
        THEN [f EXCEPT ![next].value = v]
        ELSE Failed
  BY <1>3, <1>4, Zenon DEF Unnamed
<1> QED BY <1>3, <1>5

LEMMA EnvRefused ==
    ASSUME NEW f \in Seq(Lines), NEW k, NEW v,
           Unnamed(k) \/ \A j \in DOMAIN f : f[j].dash => f[j].value # k
    PROVE  ApplyEnvVar(f, k, v) = Failed
<1> DEFINE named == Where(f, LAMBDA l : StartsEntry(l) /\ l.value = k)
<1>1. CASE Unnamed(k)
  BY <1>1, Zenon DEF ApplyEnvVar, Unnamed
<1>2. CASE \A j \in DOMAIN f : f[j].dash => f[j].value # k
  <2>1. named = {}
    BY <1>2 DEF Where, StartsEntry
  <2> QED BY <2>1, Zenon DEF ApplyEnvVar
<1> QED BY <1>1, <1>2

LEMMA EnvChanged ==
    ASSUME NEW f \in Seq(Lines), NEW k, NEW v, ~Unnamed(k), Plain(f, k),
           EnvValue(f, k) # {}, NEW i, i = Min(EnvValue(f, k))
    PROVE  /\ i \in DOMAIN f /\ f[i].key = "value"
           /\ ApplyEnvVar(f, k, v) # Failed
                => ApplyEnvVar(f, k, v) = [f EXCEPT ![i].value = v]
           /\ f[i - 1].dash /\ f[i - 1].value = k
                => ApplyEnvVar(f, k, v) = [f EXCEPT ![i].value = v]
<1> DEFINE I == EnvValue(f, k)
<1>0. Len(f) \in Nat /\ DOMAIN f = 1 .. Len(f)
  OBVIOUS
<1>1. Entry(f, "env", k) # {}
  BY DEF EnvValue
<1>2. PICK o \in DOMAIN f :
        /\ f[o].dash /\ f[o].key = "name" /\ f[o].value = k
        /\ Entry(f, "env", k) = Item(f, o)
        /\ \A j \in DOMAIN f : f[j].dash /\ f[j].value = k => j = o
  BY <1>1, PlainEntry
<1>3. \A j : j \in I <=> j \in Item(f, o) /\ f[j].key = "value"
  BY <1>2 DEF EnvValue
<1>4. I \subseteq DOMAIN f
  BY <1>2, <1>3, ItemInFile
<1> HIDE DEF I
<1>5. i \in I /\ \A x \in I : i <= x
  <2>1. I \subseteq Nat /\ I # {}
    BY <1>0, <1>4 DEF I
  <2>2. i = Min(I)
    BY DEF I
  <2> QED BY <2>1, <2>2, MinIsFirst
<1>6. /\ i \in Item(f, o) /\ i \in DOMAIN f /\ o <= i
      /\ f[i].key = "value"
      /\ \A x \in o .. i : x \in DOMAIN f /\ x \in Item(f, o)
  BY <1>2, <1>3, <1>4, <1>5, ItemInFile
<1>7. i # o /\ ~f[i].dash
  BY <1>2, <1>6 DEF Plain
<1>8. o < i /\ Field(f[i], "value")
  BY <1>0, <1>6, <1>7 DEF Field
<1>9. o + 1 \in DOMAIN f /\ o + 1 \in Item(f, o)
  <2>1. o + 1 \in o .. i
    BY <1>0, <1>6, <1>8
  <2> QED BY <1>6, <2>1
<1>10. Field(f[o + 1], "value") => i = o + 1
  <2>1. SUFFICES ASSUME Field(f[o + 1], "value") PROVE i = o + 1
    OBVIOUS
  <2>2. o + 1 \in I
    BY <1>3, <1>9, <2>1 DEF Field
  <2>3. i <= o + 1
    BY <1>5, <2>2
  <2> QED BY <1>0, <1>6, <1>8, <2>3
<1>11. f[i - 1].dash /\ f[i - 1].value = k => i = o + 1
  <2>1. i - 1 \in DOMAIN f
    BY <1>0, <1>6, <1>8
  <2>2. SUFFICES ASSUME f[i - 1].dash, f[i - 1].value = k PROVE i = o + 1
    OBVIOUS
  <2>3. i - 1 = o
    BY <1>2, <2>1, <2>2
  <2> QED BY <1>0, <1>6, <2>3
<1>12. ApplyEnvVar(f, k, v) =
        IF o + 1 \in DOMAIN f /\ Field(f[o + 1], "value")
        THEN [f EXCEPT ![o + 1].value = v] ELSE Failed
  BY <1>2, EnvSearch
<1>13. ApplyEnvVar(f, k, v) # Failed
        => ApplyEnvVar(f, k, v) = [f EXCEPT ![i].value = v]
  BY <1>10, <1>12
<1>14. f[i - 1].dash /\ f[i - 1].value = k
        => ApplyEnvVar(f, k, v) = [f EXCEPT ![i].value = v]
  BY <1>8, <1>9, <1>11, <1>12
<1> QED BY <1>6, <1>13, <1>14

\* A variable whose entry goes on with something else than a value.
LEMMA EnvOther ==
    ASSUME NEW f \in Seq(Lines), NEW k, NEW v, ~Unnamed(k), Plain(f, k),
           EnvValue(f, k) = {}, NEW j \in Entry(f, "env", k), ~f[j].dash
    PROVE  ApplyEnvVar(f, k, v) = Failed
<1>0. Len(f) \in Nat /\ DOMAIN f = 1 .. Len(f)
  OBVIOUS
<1>1. Entry(f, "env", k) # {}
  OBVIOUS
<1>2. PICK o \in DOMAIN f :
        /\ f[o].dash /\ f[o].key = "name" /\ f[o].value = k
        /\ Entry(f, "env", k) = Item(f, o)
        /\ \A x \in DOMAIN f : f[x].dash /\ f[x].value = k => x = o
  BY <1>1, PlainEntry
<1>3. j \in Item(f, o) /\ j # o
  BY <1>2
<1>4. /\ o <= j /\ j \in DOMAIN f
      /\ \A x \in o .. j : x \in DOMAIN f /\ x \in Item(f, o)
  BY <1>2, <1>3, ItemInFile
<1>5. o + 1 \in o .. j
  BY <1>0, <1>3, <1>4
<1>6. o + 1 \in Entry(f, "env", k)
  BY <1>2, <1>4, <1>5
<1>7. ~Field(f[o + 1], "value")
  BY <1>6 DEF EnvValue, Field
<1>8. ApplyEnvVar(f, k, v) =
        IF o + 1 \in DOMAIN f /\ Field(f[o + 1], "value")
        THEN [f EXCEPT ![o + 1].value = v] ELSE Failed
  BY <1>2, EnvSearch
<1> QED BY <1>7, <1>8

LEMMA ValueParses ==
    ASSUME NEW f \in Seq(Lines), NEW i \in DOMAIN f, NEW v \in Texts,
           f[i].key \in Settings, ~Blank(f[i]), Unmarshals(f)
    PROVE  Unmarshals([f EXCEPT ![i].value = v])
<1> DEFINE l == [f[i] EXCEPT !.value = v]
<1>1. f[i] \in Lines
  OBVIOUS
<1>2. l \in Lines /\ l.indent = f[i].indent /\ l.dash = f[i].dash
      /\ l.key = f[i].key
  BY <1>1 DEF Lines
<1>3. [f EXCEPT ![i].value = v] = [f EXCEPT ![i] = l]
  OBVIOUS
<1> HIDE DEF l
<1>4. Alike(f[i], l)
  BY <1>2 DEF Alike, SameShape
<1> QED BY <1>2, <1>3, <1>4, ChangeParses

\* For a variable of a plain manifest, its value is set, that one alone; one
\* that has no value, no name or no entry is refused (patch.go:224-251).
THEOREM EnvVarIsSet == Spec => EnvVarSet
<1> DEFINE k == request.key
           old == clone[ManifestFile].lines
           entry == Entry(old, "env", k)
           at == EnvValue(old, k)
           Set ==
             Answers("env_var") /\ StandardClone /\ ManifestFile # 0 =>
               (Plain(old, k) =>
                 /\ at # {} /\ answer' = "patched" =>
                     clone' = [clone EXCEPT
                                 ![ManifestFile].lines[Min(at)].value =
                                     request.value]
                 /\ /\ k # "" /\ at # {} /\ Unmarshals(old)
                    /\ old[Min(at) - 1].dash /\ old[Min(at) - 1].value = k
                    /\ old[Min(at)].value # ""
                    => answer' = "patched"
                 /\ \/ k = ""
                    \/ \A j \in DOMAIN old : old[j].dash => old[j].value # k
                    \/ at = {} /\ \E j \in entry : ~old[j].dash
                    => answer' = "failed")
<1>1. ASSUME Call, [Next]_vars PROVE [Set]_vars
  <2> DEFINE i == Min(at)
  <2>1. SUFFICES ASSUME Answers("env_var"), StandardClone, ManifestFile # 0,
                        Plain(old, k)
                 PROVE  /\ at # {} /\ answer' = "patched" =>
                            clone' = [clone EXCEPT
                                ![ManifestFile].lines[i].value = request.value]
                        /\ /\ ~Unnamed(k) /\ at # {} /\ Unmarshals(old)
                           /\ old[i - 1].dash /\ old[i - 1].value = k
                           /\ ~Blank(old[i])
                           => answer' = "patched"
                        /\ \/ Unnamed(k)
                           \/ \A j \in DOMAIN old :
                                old[j].dash => old[j].value # k
                           \/ at = {} /\ \E j \in entry : ~old[j].dash
                           => answer' = "failed"
    BY Zenon DEF Unnamed, Blank
  <2> DEFINE v == request.value
             new == ApplyEnvVar(old, k, v)
             changed == [old EXCEPT ![i].value = v]
  <2>2. /\ request.type = "env_var" /\ clone \in Clones
        /\ v \in Texts
        /\ answer' = "patched" =>
             /\ Accepted(request)
             /\ clone' = [clone EXCEPT ![Target(request)].lines =
                                NewContent(request)]
        /\ Accepted(request) => answer' = "patched"
        /\ ~Accepted(request) => answer' = "failed"
    BY <1>1, <2>1, Outcome, PatcherAssumption DEF Answers
  <2>3. /\ ~UsesKustomization(request)
        /\ Target(request) = ManifestFile
        /\ ManifestFile \in DOMAIN clone
    BY <2>1, <2>2, RightFile
  <2>4. old \in Seq(Lines)
    BY <2>2, <2>3, ClonedFiles
  <2>5. NewContent(request) = new
    BY <2>2, <2>3 DEF NewContent
  <2>6. Accepted(request) <=> new # Failed /\ Unmarshals(new)
    BY <2>1, <2>3, <2>5 DEF Accepted
  <2>7. ASSUME ~Unnamed(k), at # {}
        PROVE  /\ i \in DOMAIN old /\ old[i].key = "value"
               /\ new # Failed => new = changed
               /\ old[i - 1].dash /\ old[i - 1].value = k => new = changed
    <3>1. i = Min(EnvValue(old, k))
      OBVIOUS
    <3>2. EnvValue(old, k) # {} /\ Plain(old, k) /\ old \in Seq(Lines)
      BY <2>1, <2>4, <2>7
    <3> HIDE DEF old, i, k, v
    <3>3. i \in DOMAIN old /\ old[i].key = "value"
      BY <2>7, <3>1, <3>2, EnvChanged
    <3>4. /\ ApplyEnvVar(old, k, v) # Failed
            => ApplyEnvVar(old, k, v) = [old EXCEPT ![i].value = v]
          /\ old[i - 1].dash /\ old[i - 1].value = k
            => ApplyEnvVar(old, k, v) = [old EXCEPT ![i].value = v]
      BY <2>7, <3>1, <3>2, EnvChanged
    <3> QED BY <3>3, <3>4
  <2>8. Unnamed(k) \/ (\A j \in DOMAIN old : old[j].dash => old[j].value # k)
            => new = Failed
    <3> HIDE DEF old, k, v
    <3> QED BY <2>4, EnvRefused
  <2>9. ASSUME at # {}, answer' = "patched"
        PROVE  clone' = [clone EXCEPT
                            ![ManifestFile].lines[i].value = request.value]
    <3>1. clone' = [clone EXCEPT ![ManifestFile].lines = changed]
      BY <2>2, <2>3, <2>5, <2>6, <2>7, <2>8, <2>9
    <3> HIDE DEF i
    <3> QED BY <3>1
  <2>10. ASSUME ~Unnamed(k), at # {}, Unmarshals(old),
                old[i - 1].dash, old[i - 1].value = k, ~Blank(old[i])
         PROVE  answer' = "patched"
    <3> HIDE DEF old, i, k, v, at
    <3>1. new = changed /\ i \in DOMAIN old /\ old[i].key \in Settings
      BY <2>7, <2>10 DEF Settings
    <3>2. Unmarshals(changed)
      BY <2>2, <2>4, <2>10, <3>1, ValueParses
    <3>3. changed # Failed
      <4>1. DOMAIN changed = DOMAIN old /\ i \in DOMAIN old
        BY <3>1
      <4>2. DOMAIN Failed = {}
        BY DEF Failed
      <4> HIDE DEF changed
      <4> QED BY <4>1, <4>2
    <3> QED BY <2>2, <2>6, <3>1, <3>2, <3>3
  <2>11. ASSUME \/ Unnamed(k)
                \/ \A j \in DOMAIN old : old[j].dash => old[j].value # k
                \/ at = {} /\ \E j \in entry : ~old[j].dash
         PROVE  answer' = "failed"
    <3>1. new = Failed
      <4>1. CASE /\ ~Unnamed(k)
                 /\ at = {} /\ \E j \in entry : ~old[j].dash
        <5>1. PICK j \in Entry(old, "env", k) : ~old[j].dash
          BY <4>1
        <5>2. EnvValue(old, k) = {} /\ Plain(old, k) /\ old \in Seq(Lines)
          BY <2>1, <2>4, <4>1
        <5> HIDE DEF old, k, v
        <5> QED BY <4>1, <5>1, <5>2, EnvOther
      <4> QED BY <2>8, <2>11, <4>1
    <3> QED BY <2>2, <2>6, <3>1
  <2> QED BY <2>9, <2>10, <2>11, Zenon
<1>2. Spec => [][Set]_vars
  BY <1>1, CallInvariant, PTL DEF Spec
<1> QED BY <1>2 DEF EnvVarSet

(***************************************************************************)
(* The images list, line by line.                                          *)
(***************************************************************************)

\* The lines of the list stand at two indentations.
LEMMA SimpleFlat ==
    ASSUME NEW f \in Seq(Lines), Simple(f), NEW h \in ImageHeads(f),
           NEW j \in Block(f, h), NEW g, g = f[h + 1].indent
    PROVE  /\ j \in DOMAIN f /\ h < j
           /\ \A k \in (h + 1) .. j : k \in Block(f, h)
           /\ h + 1 \in Block(f, h) /\ h + 1 \in DOMAIN f /\ g \in Nat
           /\ f[j].indent = IF f[j].dash THEN g ELSE g + 2
           /\ Column(f[j]) = g + 2
<1>1. Len(f) \in Nat /\ DOMAIN f = 1 .. Len(f)
  OBVIOUS
<1>2. h \in DOMAIN f /\ Column(f[j]) = g + 2
  BY SimpleList
<1>3. j \in DOMAIN f /\ h < j /\ \A k \in (h + 1)..j : k \in Block(f, h)
  BY <1>2, BlockInFile
<1>4. h + 1 \in (h + 1)..j
  BY <1>1, <1>2, <1>3
<1>5. h + 1 \in Block(f, h) /\ h + 1 \in DOMAIN f
  BY <1>2, <1>3, <1>4, BlockInFile
<1>6. g \in Nat /\ f[j].indent \in Nat
  BY <1>3, <1>5, IndentTyped
<1>7. f[j].indent = IF f[j].dash THEN g ELSE g + 2
  BY <1>2, <1>6 DEF Column
<1> QED BY <1>2, <1>3, <1>5, <1>6, <1>7

LEMMA BlockAtTop ==
    ASSUME NEW f \in Seq(Lines), NEW h \in DOMAIN f,
           f[h].indent = 0, ~f[h].dash, NEW j
    PROVE  j \in Block(f, h) <=>
            /\ j \in (h + 1) .. Len(f)
            /\ \A k \in (h + 1) .. j : f[k].indent > 0 \/ f[k].dash
<1>1. Len(f) \in Nat /\ DOMAIN f = 1 .. Len(f)
  OBVIOUS
<1>2. Column(f[h]) = 0
  BY DEF Column
<1>3. ASSUME NEW k \in (h + 1) .. Len(f)
      PROVE  (f[k].indent > 0 \/ f[k].dash)
             <=> \/ f[k].indent > Column(f[h])
                 \/ f[k].dash /\ f[k].indent = Column(f[h])
  <2>1. k \in DOMAIN f
    BY <1>1, <1>3
  <2>2. f[k].indent \in Nat
    BY <2>1, IndentTyped
  <2> QED BY <1>2, <2>2
<1>4. ASSUME j \in (h + 1) .. Len(f), NEW k \in (h + 1) .. j
      PROVE  k \in (h + 1) .. Len(f)
  BY <1>1, <1>4
<1> QED BY <1>3, <1>4 DEF Block

LEMMA EntryInBlock ==
    ASSUME NEW f \in Seq(Lines), NEW h \in DOMAIN f,
           f[h].indent = 0, ~f[h].dash,
           NEW i \in Block(f, h), NEW j \in Item(f, i)
    PROVE  j \in Block(f, h) /\ i <= j /\ i \in DOMAIN f /\ j \in DOMAIN f
<1>1. Len(f) \in Nat /\ DOMAIN f = 1 .. Len(f)
  OBVIOUS
<1>2. i \in DOMAIN f /\ h < i
  BY BlockInFile
<1>3. j \in DOMAIN f /\ i <= j
      /\ \A k \in i .. j : k \in DOMAIN f /\ k \in Item(f, i)
  BY <1>2, ItemInFile
<1>4. ASSUME NEW k \in (h + 1) .. j PROVE f[k].indent > 0 \/ f[k].dash
  <2>1. CASE k <= i
    <3>1. k \in (h + 1) .. i
      BY <1>1, <1>2, <1>3, <2>1
    <3>2. \A x \in (h + 1) .. i : f[x].indent > 0 \/ f[x].dash
      BY BlockAtTop
    <3> QED BY <3>1, <3>2
  <2>2. CASE ~(k <= i)
    <3>1. k \in i .. j /\ k # i
      BY <1>1, <1>2, <1>3, <2>2
    <3>2. k \in DOMAIN f /\ f[k].indent > f[i].indent
      BY <1>2, <1>3, <3>1, ItemInFile
    <3>3. f[i].indent \in Nat /\ f[k].indent \in Nat
      BY <1>2, <3>2, IndentTyped
    <3> QED BY <3>2, <3>3
  <2> QED BY <2>1, <2>2
<1>5. j \in (h + 1) .. Len(f)
  BY <1>1, <1>2, <1>3
<1>6. j \in Block(f, h)
  BY <1>4, <1>5, BlockAtTop
<1> QED BY <1>2, <1>3, <1>6

\* The lines that the search takes for the fields of the entry at line e.
FieldsAfter(f, e) ==
    {j \in ImagesBlock(f) :
        j > e /\ \A k \in (e + 1)..j : f[k].indent > f[e].indent}

TagsAfter(f, e) == {j \in FieldsAfter(f, e) : Field(f[j], "newTag")}

LEMMA OverlaySearch ==
    ASSUME NEW f \in Seq(Lines), NEW n, NEW t, NEW e \in DOMAIN f,
           KustomizationEntries(f, n) = {e}
    PROVE  ApplyKustomizationImageTag(f, n, t) =
            IF TagsAfter(f, e) # {}
            THEN [f EXCEPT ![Min(TagsAfter(f, e))].value = t]
            ELSE InsertAfter(f, Max(FieldsAfter(f, e) \cup {e}),
                    <<Line(f[e].indent + 2, FALSE, "newTag", t)>>)
<1> DEFINE entries == KustomizationEntries(f, n)
           entry == Min(entries)
           fields == {j \in ImagesBlock(f) : j > entry /\
                    \A k \in (entry + 1)..j : f[k].indent > f[entry].indent}
           tags == {j \in fields : Field(f[j], "newTag")}
           new == <<Line(f[entry].indent + 2, FALSE, "newTag", t)>>
<1>1. ApplyKustomizationImageTag(f, n, t) =
        CASE entries = {} -> Failed
          [] entries # {} /\ tags # {} -> [f EXCEPT ![Min(tags)].value = t]
          [] OTHER -> InsertAfter(f, Max(fields \cup {entry}), new)
  BY DEF ApplyKustomizationImageTag
<1>2. e \in Nat
  OBVIOUS
<1>3. entry = e /\ entries # {}
  BY <1>2, MinOfOne
<1> HIDE DEF entry, entries
<1>4. fields = FieldsAfter(f, e) /\ tags = TagsAfter(f, e)
  BY <1>3 DEF FieldsAfter, TagsAfter
<1> HIDE DEF fields, tags
<1>5. new = <<Line(f[e].indent + 2, FALSE, "newTag", t)>>
  BY <1>3
<1> HIDE DEF new
<1> QED BY <1>1, <1>3, <1>4, <1>5

\* An entry that begins with its name: what is searched is the entry.
LEMMA OverlayEntry ==
    ASSUME NEW f \in Seq(Lines), Simple(f), NEW h \in ImageHeads(f), NEW n,
           NEW e \in KustomizationEntries(f, n), f[e].dash
    PROVE  /\ e \in DOMAIN f /\ e \in Block(f, h)
           /\ f[e].key = "name" /\ f[e].value = n
           /\ Entry(f, "images", n) = Item(f, e)
           /\ FieldsAfter(f, e) = Item(f, e) \ {e}
           /\ \A j \in Item(f, e) : j # e => ~f[j].dash
           /\ \A j \in Item(f, e) : /\ j \in DOMAIN f /\ j \in Block(f, h)
                                    /\ Column(f[j]) = f[e].indent + 2
           /\ \A j, k \in Item(f, e) : f[j].key = f[k].key => j = k
<1>0. Len(f) \in Nat /\ DOMAIN f = 1 .. Len(f)
  OBVIOUS
<1>1. h \in DOMAIN f /\ f[h].indent = 0 /\ ~f[h].dash
  BY SimpleList
<1>2. e \in Block(f, h) /\ f[e].key = "name" /\ f[e].value = n
  BY ImagesBlockIsBlock DEF KustomizationEntries
<1>3. e \in DOMAIN f
  BY <1>1, <1>2, BlockInFile
<1>4. PICK i \in Items(f, "images") :
        e \in Item(f, i) /\ Entry(f, "images", n) = Item(f, i)
  BY EntryFound
<1>5. i = e
  BY <1>4, SimpleItems
<1>6. \A j \in Item(f, e) : j # e => ~f[j].dash
  BY <1>4, <1>5, SimpleItems
<1>7. ASSUME NEW j \in Item(f, e)
      PROVE  /\ j \in DOMAIN f /\ j \in Block(f, h)
             /\ Column(f[j]) = f[e].indent + 2
  <2>1. j \in DOMAIN f /\ j \in Block(f, h)
    BY <1>1, <1>2, EntryInBlock
  <2>2. Column(f[j]) = f[h + 1].indent + 2
        /\ Column(f[e]) = f[h + 1].indent + 2
    BY <1>2, <2>1, SimpleList
  <2>3. Column(f[e]) = f[e].indent + 2
    BY DEF Column
  <2> QED BY <2>1, <2>2, <2>3
<1>8. \A j, k \in Item(f, e) : f[j].key = f[k].key => j = k
  BY <1>2, SimpleList
<1>9. \A j : j \in FieldsAfter(f, e) <=> j \in Item(f, e) /\ j # e
  <2>1. ASSUME NEW j \in FieldsAfter(f, e)
        PROVE  j \in Item(f, e) /\ j # e
    <3>1. /\ j \in ImagesBlock(f) /\ j > e
          /\ \A k \in (e + 1)..j : f[k].indent > f[e].indent
      BY DEF FieldsAfter
    <3>2. j \in DOMAIN f
      BY <3>1, ImagesInFile
    <3>3. j \in (e + 1)..Len(f) /\ j # e
      BY <1>0, <1>3, <3>1, <3>2
    <3> QED BY <3>1, <3>3 DEF Item
  <2>2. ASSUME NEW j \in Item(f, e), j # e
        PROVE  j \in FieldsAfter(f, e)
    <3>1. j \in ImagesBlock(f)
      BY <1>7, ImagesBlockIsBlock
    <3>2. j \in (e + 1)..Len(f)
          /\ \A k \in (e + 1)..j : f[k].indent > f[e].indent
      BY <2>2 DEF Item
    <3>3. j > e
      BY <1>0, <1>3, <3>2
    <3> QED BY <3>1, <3>2, <3>3 DEF FieldsAfter
  <2> QED BY <2>1, <2>2
<1>10. FieldsAfter(f, e) = Item(f, e) \ {e}
  BY <1>9
<1> QED BY <1>2, <1>3, <1>4, <1>5, <1>6, <1>7, <1>8, <1>10

(***************************************************************************)
(* The entry after the edit.                                               *)
(***************************************************************************)

\* An edit that adds or changes newTag lines behind the name leaves the entry
\* where it was, and adds no other.
LEMMA EntryKept ==
    ASSUME NEW f \in Seq(Lines), Simple(f), NEW h \in ImageHeads(f), NEW n,
           NEW e \in KustomizationEntries(f, n), f[e].dash,
           NEW g \in Seq(Lines), e <= Len(g),
           \A x \in 1 .. e : g[x] = f[x],
           \A x \in DOMAIN g : x > e /\ g[x].key # "newTag" =>
                \E y \in DOMAIN f : /\ y > e /\ g[x] = f[y]
                                    /\ x \in Block(g, h) => y \in Block(f, h)
    PROVE  Entry(g, "images", n) = Item(g, e)
<1>0. /\ Len(f) \in Nat /\ DOMAIN f = 1 .. Len(f)
      /\ Len(g) \in Nat /\ DOMAIN g = 1 .. Len(g)
  OBVIOUS
<1>1. /\ e \in DOMAIN f /\ e \in Block(f, h)
      /\ f[e].key = "name" /\ f[e].value = n
  BY OverlayEntry
<1>2. /\ h \in DOMAIN f /\ f[h].indent = 0 /\ ~f[h].dash
      /\ f[h].key = "images" /\ ImageHeads(f) = {h}
  BY SimpleList
<1>3. h < e
  BY <1>1, <1>2, BlockInFile
<1>4. /\ e \in DOMAIN g /\ g[e] = f[e]
      /\ h \in DOMAIN g /\ g[h] = f[h]
      /\ h + 1 \in 1 .. e /\ g[h + 1] = f[h + 1]
  <2>1. e \in 1 .. e /\ h \in 1 .. e /\ h + 1 \in 1 .. e
    BY <1>0, <1>1, <1>2, <1>3
  <2>2. e \in DOMAIN g /\ h \in DOMAIN g
    BY <1>0, <1>1, <2>1
  <2> QED BY <2>1, <2>2
<1>5. \A x \in DOMAIN g : x <= e =>
        x \in DOMAIN f /\ g[x] = f[x]
  <2>1. ASSUME NEW x \in DOMAIN g, x <= e PROVE x \in 1 .. e /\ x \in DOMAIN f
    BY <1>0, <1>1, <2>1
  <2> QED BY <2>1
<1>6. \A x \in DOMAIN g : x <= e => (x \in Block(g, h) <=> x \in Block(f, h))
  <2>1. ASSUME NEW x \in DOMAIN g, x <= e
        PROVE  x \in Block(g, h) <=> x \in Block(f, h)
    <3>1. x \in (h + 1) .. Len(g) <=> x \in (h + 1) .. Len(f)
      BY <1>0, <1>1, <1>2, <2>1
    <3>2. \A k \in (h + 1) .. x : k \in 1 .. e
      BY <1>0, <1>1, <1>2, <2>1
    <3>3. \A k \in (h + 1) .. x : g[k] = f[k]
      BY <3>2
    <3>4. x \in Block(f, h) <=>
            /\ x \in (h + 1) .. Len(f)
            /\ \A k \in (h + 1) .. x : f[k].indent > 0 \/ f[k].dash
      BY <1>2, BlockAtTop
    <3>5. x \in Block(g, h) <=>
            /\ x \in (h + 1) .. Len(g)
            /\ \A k \in (h + 1) .. x : g[k].indent > 0 \/ g[k].dash
      BY <1>2, <1>4, BlockAtTop
    <3> QED BY <3>1, <3>3, <3>4, <3>5
  <2> QED BY <2>1
\* The only head is the old one.
<1>7. \A x \in ImageHeads(g) : x = h
  <2>1. ASSUME NEW x \in ImageHeads(g) PROVE x = h
    <3>1. x \in DOMAIN g /\ g[x].key = "images"
      BY Zenon DEF ImageHeads, Where
    <3>2. \A y \in DOMAIN f : f[y] = g[x] => y \in ImageHeads(f)
      BY Zenon DEF ImageHeads, Where
    <3>3. CASE x <= e
      BY <1>2, <1>5, <3>1, <3>2, <3>3
    <3>4. CASE ~(x <= e)
      <4>1. x > e /\ g[x].key # "newTag"
        BY <1>0, <1>1, <3>1, <3>4
      <4>2. PICK y \in DOMAIN f : y > e /\ g[x] = f[y]
        BY <3>1, <4>1
      <4>3. y = h
        BY <1>2, <3>2, <4>2
      <4> QED BY <1>0, <1>1, <1>3, <4>2, <4>3
    <3> QED BY <3>3, <3>4
  <2> QED BY <2>1
<1>8. e \in Items(g, "images") /\ Named(g, e, n)
  <2>1. h \in ImageHeads(f) => h \in ImageHeads(g)
    BY <1>4, Zenon DEF ImageHeads, Where
  <2>2. e \in Block(g, h)
    BY <1>0, <1>1, <1>4, <1>6
  <2>3. f[e].indent = f[h + 1].indent
    BY <1>1, SimpleFlat
  <2>4. g[e].dash /\ g[e].indent = g[h + 1].indent
    BY <1>4, <2>3
  <2>5. e \in Items(g, "images")
    BY <1>4, <2>1, <2>2, <2>4, Zenon DEF Items, ImageHeads, Where
  <2>6. e \in Item(g, e)
    BY DEF Item
  <2>7. Column(g[e]) = g[e].indent + 2
    BY <1>4 DEF Column
  <2>8. Named(g, e, n)
    BY <1>1, <1>4, <2>6, <2>7 DEF Named
  <2> QED BY <2>5, <2>8
<1>9. ASSUME NEW k \in Items(g, "images"), Named(g, k, n) PROVE k = e
  <2>1. k \in DOMAIN g /\ g[k].dash
    BY DEF Items
  <2>2. k \in Block(g, h)
    <3>1. PICK x \in DOMAIN g : /\ g[x].key = "images" /\ g[x].value = ""
                                /\ k \in Block(g, x)
      BY Zenon DEF Items
    <3>2. x \in ImageHeads(g)
      BY <3>1, Zenon DEF ImageHeads, Where
    <3>3. k \in Block(g, x)
      BY <3>1, Zenon
    <3> QED BY <1>7, <3>2, <3>3, Zenon
  <2>3. PICK j \in Item(g, k) : g[j].key = "name" /\ g[j].value = n
    BY <1>9 DEF Named
  <2>4. j \in Block(g, h) /\ k <= j /\ j \in DOMAIN g
    BY <1>2, <1>4, <2>2, <2>3, EntryInBlock
  <2>5. \E y \in Block(f, h) : g[j] = f[y] /\ (y = j \/ (j > e /\ y > e))
    <3>1. CASE j <= e
      BY <1>5, <1>6, <2>4, <3>1
    <3>2. CASE ~(j <= e)
      <4>1. j > e
        BY <1>0, <1>1, <2>4, <3>2
      <4> QED BY <2>3, <2>4, <4>1
    <3> QED BY <3>1, <3>2
  <2>6. PICK y \in Block(f, h) : g[j] = f[y] /\ (y = j \/ (j > e /\ y > e))
    BY <2>5
  <2>7. y = e
    BY <1>1, <2>3, <2>6, SimpleList
  <2>8. j = e
    BY <1>0, <1>1, <2>6, <2>7
  <2>9. ~(k < e)
    <3>1. SUFFICES ASSUME k < e PROVE FALSE
      OBVIOUS
    <3>2. g[e].indent > g[k].indent
      BY <1>0, <1>1, <2>1, <2>3, <2>8, <3>1, ItemInFile
    <3>3. k <= e /\ k \in Block(f, h) /\ g[k] = f[k]
      BY <1>0, <1>1, <1>5, <1>6, <2>1, <2>2, <3>1
    <3>4. f[k].dash
      BY <2>1, <3>3
    <3>5. /\ f[k].indent = f[h + 1].indent /\ f[e].indent = f[h + 1].indent
          /\ f[h + 1].indent \in Nat
      BY <1>1, <3>3, <3>4, SimpleFlat
    <3> QED BY <1>4, <3>2, <3>3, <3>5
  <2> QED BY <1>0, <1>1, <2>1, <2>4, <2>8, <2>9
<1>10. {k \in Items(g, "images") : Named(g, k, n)} = {e}
  BY <1>8, <1>9
<1>11. Entry(g, "images", n) = UNION {Item(g, k) : k \in {e}}
  BY <1>10 DEF Entry
<1> QED BY <1>11

(***************************************************************************)
(* The tag.                                                                *)
(***************************************************************************)

\* The line after a line of the entry opens no block.
LEMMA NextLine ==
    ASSUME NEW f \in Seq(Lines), Simple(f), NEW h \in ImageHeads(f), NEW n,
           NEW e \in KustomizationEntries(f, n), f[e].dash,
           NEW j \in Item(f, e), j + 1 \in DOMAIN f
    PROVE  /\ f[j + 1].indent > f[e].indent => j + 1 \in Item(f, e)
           /\ ~Opens(f, j + 1)
<1>0. Len(f) \in Nat /\ DOMAIN f = 1 .. Len(f)
  OBVIOUS
<1>1. e \in DOMAIN f /\ j \in DOMAIN f /\ Column(f[j]) = f[e].indent + 2
  BY OverlayEntry
<1>2. /\ e <= j /\ \A k \in e .. j : k \in Item(f, e)
      /\ \A k \in e .. j : k # e => f[k].indent > f[e].indent
  <2>1. e <= j /\ \A k \in e .. j : k \in DOMAIN f /\ k \in Item(f, e)
    BY <1>1, ItemInFile
  <2> QED BY <1>1, <2>1, ItemInFile
<1>3. ASSUME f[j + 1].indent > f[e].indent PROVE j + 1 \in Item(f, e)
  <2>1. j + 1 \in (e + 1) .. Len(f)
    BY <1>0, <1>1, <1>2
  <2>2. ASSUME NEW k \in (e + 1) .. (j + 1) PROVE f[k].indent > f[e].indent
    <3>1. CASE k = j + 1
      BY <1>3, <3>1
    <3>2. CASE k # j + 1
      <4>1. k \in e .. j /\ k # e
        BY <1>0, <1>1, <1>2, <3>2
      <4> QED BY <1>2, <4>1
    <3> QED BY <3>1, <3>2
  <2> QED BY <2>1, <2>2 DEF Item
<1>4. f[j + 1].indent \in Nat /\ f[e].indent \in Nat
  BY <1>1, IndentTyped
<1>5. ~Opens(f, j + 1)
  <2>1. Opens(f, j + 1) =>
          \/ f[j + 1].indent > f[e].indent + 2
          \/ f[j + 1].dash /\ f[j + 1].indent = f[e].indent + 2
    <3>1. (j + 1) - 1 = j
      BY <1>0, <1>1
    <3> QED BY <1>1, <3>1, OpensBlank
  <2>2. CASE f[j + 1].indent > f[e].indent
    <3>1. j + 1 \in Item(f, e) /\ j + 1 # e
      BY <1>0, <1>1, <1>2, <1>3, <2>2
    <3>2. ~f[j + 1].dash /\ Column(f[j + 1]) = f[e].indent + 2
      BY <3>1, OverlayEntry
    <3>3. f[j + 1].indent = f[e].indent + 2
      BY <3>2 DEF Column
    <3> QED BY <1>4, <2>1, <3>2, <3>3
  <2>3. CASE ~(f[j + 1].indent > f[e].indent)
    BY <1>4, <2>1, <2>3
  <2> QED BY <2>2, <2>3
<1> QED BY <1>3, <1>5

\* g is f with the tag t for n, at line j, and parses if f does.
TagWritten(f, n, t, g, j) ==
    /\ g = ApplyKustomizationImageTag(f, n, t)
    /\ g \in Seq(Lines) /\ j \in DOMAIN g
    /\ NewTag(g, n) = {j} /\ g[j].value = t
    /\ IF NewTag(f, n) = {}
       THEN g = InsertAfter(f, j - 1, <<g[j]>>)
       ELSE g = [f EXCEPT ![j] = g[j]]
    /\ Unmarshals(f) => Unmarshals(g)

\* Of a file of one document everything is validated.
LEMMA OneDocument ==
    ASSUME NEW f, Separators(f) \subseteq {1}
    PROVE  Unmarshals(f) <=> WellFormedTo(f, Len(f))
<1>1. Separators(f) \ {1} = {}
  OBVIOUS
<1> QED BY <1>1, Zenon DEF Unmarshals

LEMMA SimpleSeparators ==
    ASSUME NEW f, Simple(f) PROVE Separators(f) \subseteq {1}
BY Zenon DEF Simple

LEMMA TagChanged ==
    ASSUME NEW f \in Seq(Lines), Simple(f), NEW h \in ImageHeads(f), NEW n,
           NEW e \in KustomizationEntries(f, n), f[e].dash,
           NEW t \in Texts, NewTag(f, n) # {}
    PROVE  \E g, j : TagWritten(f, n, t, g, j)
<1>0. Len(f) \in Nat /\ DOMAIN f = 1 .. Len(f)
  OBVIOUS
<1>1. /\ e \in DOMAIN f /\ f[e].key = "name" /\ h \in DOMAIN f
      /\ Entry(f, "images", n) = Item(f, e)
      /\ FieldsAfter(f, e) = Item(f, e) \ {e}
      /\ \A x \in Item(f, e) : x # e => ~f[x].dash
      /\ \A x \in Item(f, e) : x \in DOMAIN f /\ x \in Block(f, h)
      /\ \A x, y \in Item(f, e) : f[x].key = f[y].key => x = y
      /\ KustomizationEntries(f, n) = {e}
  BY OverlayEntry, EntryFound, SimpleList
<1>2. PICK j \in Item(f, e) : f[j].key = "newTag"
  BY <1>1 DEF NewTag
<1>3. NewTag(f, n) = {j}
  BY <1>1, <1>2 DEF NewTag
<1>4. j # e /\ e < j /\ j \in DOMAIN f
  BY <1>0, <1>1, <1>2, ItemInFile
<1>5. TagsAfter(f, e) = {j}
  BY <1>1, <1>2, <1>4 DEF TagsAfter, Field
<1> DEFINE l == [f[j] EXCEPT !.value = t]
           g == [f EXCEPT ![j] = l]
<1>6. ApplyKustomizationImageTag(f, n, t) = g
  <2>1. Min(TagsAfter(f, e)) = j /\ TagsAfter(f, e) # {}
    BY <1>0, <1>4, <1>5, MinOfOne
  <2>2. ApplyKustomizationImageTag(f, n, t) = [f EXCEPT ![j].value = t]
    BY <1>1, <2>1, OverlaySearch
  <2> QED BY <2>2
<1>7. l \in Lines /\ SameShape(f[j], l) /\ l.value = t
  <2>1. f[j] \in Lines
    BY <1>4
  <2> HIDE DEF g
  <2> QED BY <2>1 DEF Lines, SameShape
<1>8. f[j].key \in Settings
  BY <1>2 DEF Settings
<1>9. Separators(g) \subseteq {1}
  <2>1. Separators(f) \subseteq {1}
    BY SimpleSeparators
  <2>2. Edited(f, g)
    <3> HIDE DEF l
    <3> QED BY <1>4, <1>7, <1>8, ChangeEdits DEF SameShape
  <2> HIDE DEF g
  <2> QED BY <2>1, <2>2, NoSeparatorAdded
<1> HIDE DEF l
<1>10. /\ g \in Seq(Lines) /\ Len(g) = Len(f) /\ DOMAIN g = DOMAIN f
       /\ g[j] = l /\ \A x \in DOMAIN f : x # j => g[x] = f[x]
  BY <1>4, <1>7
<1>11. g = [f EXCEPT ![j] = g[j]]
  BY <1>4, <1>10
<1> HIDE DEF g
<1>12. \A x \in DOMAIN f : SameShape(f[x], g[x])
  BY <1>7, <1>10 DEF SameShape
<1>13. \A x : x \in Item(g, e) <=> x \in Item(f, e)
  <2>1. \A x \in DOMAIN f : g[x].indent = f[x].indent
    BY <1>12 DEF SameShape
  <2>2. ASSUME NEW x \in (e + 1) .. Len(f), NEW k \in (e + 1) .. x
        PROVE  k \in DOMAIN f
    BY <1>0, <1>1, <2>2
  <2> QED BY <1>1, <1>10, <2>1, <2>2 DEF Item
<1>14. Entry(g, "images", n) = Item(g, e)
  <2>1. e <= Len(g) /\ \A x \in 1 .. e : g[x] = f[x]
    BY <1>0, <1>1, <1>4, <1>10
  <2>2. ASSUME NEW x \in DOMAIN g, x > e, g[x].key # "newTag"
        PROVE  \E y \in DOMAIN f : /\ y > e /\ g[x] = f[y]
                                   /\ x \in Block(g, h) => y \in Block(f, h)
    <3>1. x \in DOMAIN f /\ x # j
      BY <1>2, <1>7, <1>10, <2>2 DEF SameShape
    <3>2. f[h].indent = 0 /\ ~f[h].dash /\ g[h].indent = 0 /\ ~g[h].dash
      BY <1>1, <1>12, SimpleList DEF SameShape
    <3>3. x \in Block(f, h) <=>
            /\ x \in (h + 1) .. Len(f)
            /\ \A k \in (h + 1) .. x : f[k].indent > 0 \/ f[k].dash
      BY <1>1, <3>2, BlockAtTop
    <3>4. x \in Block(g, h) <=>
            /\ x \in (h + 1) .. Len(g)
            /\ \A k \in (h + 1) .. x : g[k].indent > 0 \/ g[k].dash
      BY <1>1, <1>10, <3>2, BlockAtTop
    <3>5. \A k \in (h + 1) .. x : k \in DOMAIN f
      BY <1>0, <1>1, <3>1
    <3>6. x \in Block(g, h) => x \in Block(f, h)
      BY <1>10, <1>12, <3>3, <3>4, <3>5 DEF SameShape
    <3> QED BY <1>10, <2>2, <3>1, <3>6
  <2> QED BY <1>10, <2>1, <2>2, EntryKept
<1>15. NewTag(g, n) = {j}
  <2>1. \A x \in Item(f, e) : g[x].key = f[x].key
    BY <1>1, <1>12 DEF SameShape
  <2> QED BY <1>1, <1>2, <1>13, <1>14, <2>1 DEF NewTag
<1>16. ASSUME Unmarshals(f) PROVE Unmarshals(g)
  <2>1. WellFormedTo(f, Len(f))
    BY <1>16, SimpleSeparators, OneDocument
  <2>2. ASSUME NEW i \in 2 .. Len(f), Opens(f, i) PROVE Opens(g, i)
    <3>1. i \in DOMAIN f /\ i - 1 \in DOMAIN f
      BY <1>0
    <3>2. i - 1 # j
      <4>1. SUFFICES ASSUME i - 1 = j PROVE FALSE
        OBVIOUS
      <4>2. i = j + 1
        BY <1>0, <3>1, <4>1
      <4>3. ~Opens(f, j + 1)
        BY <1>2, <3>1, <4>2, NextLine
      <4> QED BY <2>2, <4>2, <4>3
    <3>3. g[i - 1] = f[i - 1] /\ SameShape(f[i], g[i])
      BY <1>10, <1>12, <3>1, <3>2
    <3> QED BY <2>2, <3>3, OpensBlank DEF SameShape
  <2>3. WellFormedTo(g, Len(f))
    BY <1>0, <1>10, <1>12, <2>1, <2>2, ShapeParses
  <2> QED BY <1>9, <1>10, <2>3, OneDocument
<1>17. TagWritten(f, n, t, g, j)
  BY <1>3, <1>4, <1>6, <1>7, <1>10, <1>11, <1>15, <1>16 DEF TagWritten
<1> QED BY <1>17

\* A field added at the end of a mapping keeps a document parsing.
LEMMA InsertionParses ==
    ASSUME NEW f \in Seq(Lines), NEW p \in DOMAIN f, NEW l \in Lines,
           ~l.dash, l.indent = Column(f[p]),
           p + 1 \in DOMAIN f => f[p + 1].indent < l.indent,
           NEW g \in Seq(Lines), Len(g) = Len(f) + 1,
           \A j \in 1 .. p : g[j] = f[j],
           g[p + 1] = l,
           \A j \in (p + 1) .. Len(f) : g[j + 1] = f[j],
           WellFormedTo(f, Len(f))
    PROVE  WellFormedTo(g, Len(g))
<1>0. Len(f) \in Nat /\ DOMAIN f = 1 .. Len(f) /\ p \in 1 .. Len(f)
  OBVIOUS
<1>1. ASSUME NEW i \in 2 .. p PROVE Opens(g, i) \/ Continues(g, i)
  <2>1. i \in 2 .. Len(f) /\ g[i] = f[i] /\ g[i - 1] = f[i - 1]
        /\ \A k \in 1..(i - 1) : g[k] = f[k]
    BY <1>0
  <2>2. Opens(f, i) => Opens(g, i)
    BY <2>1, Zenon DEF Opens
  <2>3. Continues(f, i) => Continues(g, i)
    <3>1. SUFFICES ASSUME Continues(f, i) PROVE Continues(g, i)
      OBVIOUS
    <3>2. PICK j \in 1..(i - 1) :
            /\ Aligned(f[i], f[j])
            /\ \A k \in (j + 1)..(i - 1) : Within(f[i], f[k])
      BY <3>1, ContinuesBetween
    <3>3. \A k \in (j + 1)..(i - 1) : k \in 1..(i - 1)
      BY <1>0
    <3> QED BY <2>1, <3>2, <3>3, ContinuesBetween
  <2> QED BY <2>1, <2>2, <2>3 DEF WellFormedTo
<1>2. Continues(g, p + 1)
  <2>1. p \in 1..((p + 1) - 1) /\ g[p] = f[p]
    BY <1>0
  <2>2. Aligned(g[p + 1], g[p])
    BY <2>1 DEF Aligned
  <2>3. \A k \in (p + 1)..((p + 1) - 1) : FALSE
    BY <1>0
  <2> QED BY <2>1, <2>2, <2>3, ContinuesBetween
<1>3. ASSUME NEW x \in (p + 1) .. Len(f)
      PROVE  Opens(g, x + 1) \/ Continues(g, x + 1)
  <2>1. x \in 2 .. Len(f) /\ x \in DOMAIN f /\ g[x + 1] = f[x]
    BY <1>0
  <2>2. ASSUME Opens(f, x) PROVE Opens(g, x + 1)
    <3>1. x # p + 1
      <4>1. SUFFICES ASSUME x = p + 1 PROVE FALSE
        OBVIOUS
      <4>2. x - 1 = p
        BY <1>0, <4>1
      <4>3. \/ f[x].indent > Column(f[p])
            \/ f[x].indent = Column(f[p])
        BY <2>2, <4>2, OpensBlank
      <4>4. f[x].indent < Column(f[p])
        BY <2>1, <4>1
      <4>5. f[x].indent \in Nat /\ Column(f[p]) \in Nat
        BY <2>1, LinesTyped
      <4> QED BY <4>3, <4>4, <4>5
    <3>2. x - 1 \in (p + 1) .. Len(f) /\ (x - 1) + 1 = x /\ (x + 1) - 1 = x
      BY <1>0, <3>1
    <3>3. g[(x + 1) - 1] = f[x - 1]
      BY <3>2
    <3> QED BY <2>1, <2>2, <3>3, Zenon DEF Opens
  <2>3. ASSUME Continues(f, x) PROVE Continues(g, x + 1)
    <3>1. PICK j \in 1..(x - 1) :
            /\ Aligned(f[x], f[j])
            /\ \A k \in (j + 1)..(x - 1) : Within(f[x], f[k])
      BY <2>3, ContinuesBetween
    <3> DEFINE m == IF j <= p THEN j ELSE j + 1
    <3>2. m \in 1..((x + 1) - 1) /\ g[m] = f[j] /\ m \in Nat
      BY <1>0
    <3>3. ASSUME NEW k \in (m + 1)..((x + 1) - 1)
          PROVE  Within(f[x], g[k])
      <4>1. CASE k <= p
        <5>1. k \in (j + 1)..(x - 1) /\ k \in 1 .. p
          BY <1>0, <4>1
        <5> QED BY <3>1, <5>1
      <4>2. CASE k = p + 1
        <5>1. j <= p
          BY <1>0, <4>2
        <5>2. p + 1 \in DOMAIN f
          BY <1>0, <2>1
        <5>3. f[x].indent <= f[p + 1].indent
          <6>1. CASE x = p + 1
            BY <2>1, <6>1, IndentTyped
          <6>2. CASE x # p + 1
            <7>1. p + 1 \in (j + 1)..(x - 1)
              BY <1>0, <5>1, <6>2
            <7>2. Within(f[x], f[p + 1])
              BY <3>1, <7>1
            <7>3. f[x].indent \in Nat /\ f[p + 1].indent \in Nat
              BY <2>1, <5>2, IndentTyped
            <7> QED BY <7>2, <7>3 DEF Within
          <6> QED BY <6>1, <6>2
        <5>4. /\ f[x].indent \in Nat /\ f[p + 1].indent \in Nat
              /\ l.indent \in Nat
          BY <2>1, <5>2, IndentTyped, LinesTyped
        <5>5. l.indent > f[x].indent
          BY <5>2, <5>3, <5>4
        <5> QED BY <4>2, <5>5 DEF Within
      <4>3. CASE k > p + 1
        <5>1. k - 1 \in (j + 1)..(x - 1) /\ k - 1 \in (p + 1) .. Len(f)
              /\ (k - 1) + 1 = k
          BY <1>0, <4>3
        <5>2. g[k] = f[k - 1]
          BY <5>1
        <5> QED BY <3>1, <5>1, <5>2
      <4>4. k \in Int /\ p \in Int
        BY <1>0, <3>2
      <4> QED BY <4>1, <4>2, <4>3, <4>4
    <3> HIDE DEF m
    <3>4. Aligned(g[x + 1], g[m])
      BY <2>1, <3>1, <3>2
    <3> QED BY <2>1, <3>2, <3>3, <3>4, ContinuesBetween
  <2> QED BY <2>1, <2>2, <2>3 DEF WellFormedTo
<1>4. ASSUME NEW i \in 2 .. Len(g) PROVE Opens(g, i) \/ Continues(g, i)
  <2>1. CASE i <= p
    <3>1. i \in 2 .. p
      BY <1>0, <2>1
    <3> QED BY <1>1, <3>1
  <2>2. CASE i = p + 1
    BY <1>2, <2>2
  <2>3. CASE i > p + 1
    <3>1. i - 1 \in (p + 1) .. Len(f) /\ (i - 1) + 1 = i
      BY <1>0, <2>3
    <3> QED BY <1>3, <3>1
  <2> QED BY <1>0, <2>1, <2>2, <2>3
<1> QED BY <1>4 DEF WellFormedTo

LEMMA OneInserted ==
    ASSUME NEW f \in Seq(Lines), NEW p \in DOMAIN f, NEW new \in Seq(Lines),
           Len(new) = 1
    PROVE  /\ InsertAfter(f, p, new) \in Seq(Lines)
           /\ Len(InsertAfter(f, p, new)) = Len(f) + 1
           /\ \A j \in 1 .. p : InsertAfter(f, p, new)[j] = f[j]
           /\ InsertAfter(f, p, new)[p + 1] = new[1]
           /\ \A j \in (p + 1) .. Len(f) :
                InsertAfter(f, p, new)[j + 1] = f[j]
<1> DEFINE g == InsertAfter(f, p, new)
           n == Len(new)
<1>1. /\ g \in Seq(Lines)
      /\ Len(g) = Len(f) + n
      /\ \A j \in 1 .. p : g[j] = f[j]
      /\ \A j \in (p + 1) .. (p + n) : g[j] = new[j - p]
      /\ \A j \in (p + 1) .. Len(f) : g[j + n] = f[j]
  BY InsertionShifts
<1>2. n = 1
  OBVIOUS
<1> HIDE DEF g, n
<1>3. g[p + 1] = new[1]
  <2>1. p + 1 \in (p + 1) .. (p + n) /\ (p + 1) - p = 1
    BY <1>2
  <2> QED BY <1>1, <2>1
<1> QED BY <1>1, <1>2, <1>3 DEF g

LEMMA TagAdded ==
    ASSUME NEW f \in Seq(Lines), Simple(f), NEW h \in ImageHeads(f), NEW n,
           NEW e \in KustomizationEntries(f, n), f[e].dash,
           NEW t \in Texts, NewTag(f, n) = {}
    PROVE  \E g, j : TagWritten(f, n, t, g, j)
<1>0. Len(f) \in Nat /\ DOMAIN f = 1 .. Len(f)
  OBVIOUS
<1>1. /\ e \in DOMAIN f /\ f[e].key = "name" /\ h \in DOMAIN f
      /\ Entry(f, "images", n) = Item(f, e)
      /\ FieldsAfter(f, e) = Item(f, e) \ {e}
      /\ \A x \in Item(f, e) : x \in DOMAIN f /\ x \in Block(f, h)
                               /\ Column(f[x]) = f[e].indent + 2
      /\ KustomizationEntries(f, n) = {e}
  BY OverlayEntry, EntryFound, SimpleList
<1>2. TagsAfter(f, e) = {}
  BY <1>1 DEF TagsAfter, Field, NewTag
<1> DEFINE p == Max(FieldsAfter(f, e) \cup {e})
           l == Line(f[e].indent + 2, FALSE, "newTag", t)
           new == <<l>>
           g == InsertAfter(f, p, new)
<1>3. ApplyKustomizationImageTag(f, n, t) = g
  BY <1>1, <1>2, OverlaySearch
<1>4. e \in Item(f, e)
  BY DEF Item
<1>5. p \in Item(f, e) /\ \A x \in Item(f, e) : p >= x
  <2>1. FieldsAfter(f, e) \cup {e} = Item(f, e)
    BY <1>1, <1>4
  <2> DEFINE S == Item(f, e)
  <2>2. S \subseteq 0 .. Len(f) /\ S # {}
    BY <1>0, <1>1, <1>4
  <2> HIDE DEF S
  <2>3. Max(S) \in S /\ \A x \in S : Max(S) >= x
    BY <1>0, <2>2, MaxIsLast
  <2> QED BY <2>1, <2>3 DEF S
<1> HIDE DEF p
<1>6. p \in DOMAIN f /\ p >= e /\ f[e].indent \in Nat
      /\ Column(f[p]) = f[e].indent + 2
  BY <1>1, <1>4, <1>5, IndentTyped
<1>7. p + 1 \in DOMAIN f => ~(f[p + 1].indent > f[e].indent)
  <2>1. SUFFICES ASSUME p + 1 \in DOMAIN f, f[p + 1].indent > f[e].indent
                 PROVE  FALSE
    OBVIOUS
  <2>2. p + 1 \in Item(f, e)
    BY <1>5, <2>1, NextLine
  <2> QED BY <1>0, <1>5, <1>6, <2>2
<1>8. l \in Lines
  <2>1. f[e].indent + 2 \in Nat
    BY <1>6
  <2> QED BY <2>1, TextsUsed, LineTyped
<1>9. l.indent = f[e].indent + 2 /\ l.key = "newTag" /\ l.value = t
  BY DEF Line
<1>10. ~l.dash
  BY DEF Line
<1> HIDE DEF l
<1>11. new \in Seq(Lines) /\ Len(new) = 1 /\ new[1] = l
  BY <1>8, OneLine
<1> HIDE DEF new
<1>12. /\ g \in Seq(Lines)
       /\ Len(g) = Len(f) + 1
       /\ \A j \in 1 .. p : g[j] = f[j]
       /\ g[p + 1] = l
       /\ \A j \in (p + 1) .. Len(f) : g[j + 1] = f[j]
  <2>1. /\ g \in Seq(Lines)
        /\ Len(g) = Len(f) + 1
        /\ \A j \in 1 .. p : g[j] = f[j]
        /\ g[p + 1] = new[1]
        /\ \A j \in (p + 1) .. Len(f) : g[j + 1] = f[j]
    BY <1>6, <1>11, OneInserted
  <2> HIDE DEF g
  <2> QED BY <1>11, <2>1
<1>13. Separators(g) \subseteq {1}
  <2>1. Separators(f) \subseteq {1}
    BY SimpleSeparators
  <2>2. l.key \in Settings
    BY <1>9 DEF Settings
  <2>3. Len(new) \in 0..3 /\ \A j \in 1 .. Len(new) : new[j].key \in Settings
    BY <1>11, <2>2
  <2>4. Edited(f, g)
    BY <1>6, <1>11, <2>3, InsertionEdits
  <2> HIDE DEF g
  <2> QED BY <2>1, <2>4, NoSeparatorAdded
<1>14. g = InsertAfter(f, (p + 1) - 1, <<g[p + 1]>>)
  <2>1. (p + 1) - 1 = p
    BY <1>0, <1>6
  <2>2. g[p + 1] = l
    BY <1>12
  <2>3. InsertAfter(f, (p + 1) - 1, <<g[p + 1]>>) = InsertAfter(f, p, <<l>>)
    BY <2>1, <2>2
  <2> QED BY <2>3 DEF new
<1> HIDE DEF g
<1>15. DOMAIN g = 1 .. Len(f) + 1
  BY <1>12
<1>16. Entry(g, "images", n) = Item(g, e)
  <2>1. e <= Len(g) /\ \A x \in 1 .. e : g[x] = f[x]
    BY <1>0, <1>1, <1>6, <1>12
  <2>2. ASSUME NEW x \in DOMAIN g, x > e, g[x].key # "newTag"
        PROVE  \E y \in DOMAIN f : /\ y > e /\ g[x] = f[y]
                                   /\ x \in Block(g, h) => y \in Block(f, h)
    <3> DEFINE y == IF x <= p THEN x ELSE x - 1
    <3>1. x # p + 1
      BY <1>9, <1>12, <2>2
    <3>2. y \in DOMAIN f /\ y > e /\ g[x] = f[y]
      <4>1. CASE x <= p
        BY <1>0, <1>6, <1>12, <1>15, <2>2, <4>1
      <4>2. CASE ~(x <= p)
        <5> DEFINE z == x - 1
        <5>0. x \in 1 .. Len(f) + 1 /\ p \in 1 .. Len(f) /\ e \in 1 .. Len(f)
          BY <1>0, <1>1, <1>6, <1>15
        <5>1. z \in (p + 1) .. Len(f) /\ z + 1 = x /\ z > e
          BY <1>0, <1>6, <3>1, <4>2, <5>0
        <5>2. g[x] = f[z]
          BY <1>12, <5>1
        <5> QED BY <1>0, <1>6, <4>2, <5>1, <5>2
      <4> QED BY <4>1, <4>2
    <3>3. /\ f[h].indent = 0 /\ ~f[h].dash /\ h < e
      BY <1>1, <1>4, SimpleList, BlockInFile
    <3>4. h \in DOMAIN g /\ g[h] = f[h]
      BY <1>0, <1>1, <1>6, <1>12, <1>15, <3>3
    <3>5. ASSUME x \in Block(g, h) PROVE y \in Block(f, h)
      <4>1. /\ x \in (h + 1) .. Len(g)
            /\ \A k \in (h + 1) .. x : g[k].indent > 0 \/ g[k].dash
        BY <1>12, <3>3, <3>4, <3>5, BlockAtTop
      <4>2. y \in (h + 1) .. Len(f)
        BY <1>0, <1>1, <3>2, <3>3
      <4>3. ASSUME NEW k \in (h + 1) .. y
            PROVE  f[k].indent > 0 \/ f[k].dash
        <5>1. CASE k <= p
          <6>1. k \in 1 .. p /\ k \in (h + 1) .. x
            BY <1>0, <1>1, <1>6, <1>15, <5>1
          <6> QED BY <1>12, <4>1, <6>1
        <5>2. CASE ~(k <= p)
          <6>1. k \in (p + 1) .. Len(f) /\ k + 1 \in (h + 1) .. x
            BY <1>0, <1>1, <1>6, <1>15, <4>2, <5>2
          <6> QED BY <1>12, <4>1, <6>1
        <5> QED BY <5>1, <5>2
      <4> QED BY <1>1, <3>3, <4>2, <4>3, BlockAtTop
    <3> HIDE DEF y
    <3> QED BY <3>2, <3>5
  <2> QED BY <1>12, <2>1, <2>2, EntryKept
<1>17. NewTag(g, n) = {p + 1}
  <2>1. p + 1 \in Item(g, e)
    <3>1. p + 1 \in (e + 1) .. Len(g)
      BY <1>0, <1>1, <1>6, <1>12
    <3>2. ASSUME NEW k \in (e + 1) .. (p + 1) PROVE g[k].indent > g[e].indent
      <4>1. g[e] = f[e]
        BY <1>0, <1>1, <1>6, <1>12
      <4>2. CASE k = p + 1
        BY <1>6, <1>9, <1>12, <4>1, <4>2
      <4>3. CASE k # p + 1
        <5>1. k \in e .. p /\ k # e /\ k \in 1 .. p
          BY <1>0, <1>1, <1>6, <4>3
        <5>2. k \in Item(f, e)
          BY <1>1, <1>5, <5>1, ItemInFile
        <5>3. f[k].indent > f[e].indent
          BY <1>1, <5>1, <5>2, ItemInFile
        <5> QED BY <1>12, <4>1, <5>1, <5>3
      <4> QED BY <4>2, <4>3
    <3> QED BY <3>1, <3>2 DEF Item
  <2>2. ASSUME NEW x \in Item(g, e), g[x].key = "newTag" PROVE x = p + 1
    <3>1. e \in DOMAIN g /\ g[e] = f[e]
      BY <1>0, <1>1, <1>6, <1>12, <1>15
    <3>2. /\ x \in DOMAIN g /\ e <= x
          /\ \A k \in e .. x : k \in Item(g, e)
          /\ \A k \in e .. x : k # e => g[k].indent > g[e].indent
      <4>1. /\ x \in DOMAIN g /\ e <= x
            /\ \A k \in e .. x : k \in DOMAIN g /\ k \in Item(g, e)
        BY <1>12, <3>1, ItemInFile
      <4> QED BY <1>12, <3>1, <4>1, ItemInFile
    <3>3. ~(x <= p)
      <4>1. SUFFICES ASSUME x <= p PROVE FALSE
        OBVIOUS
      <4>2. x \in e .. p /\ x \in 1 .. p
        BY <1>0, <1>1, <1>6, <1>15, <3>2, <4>1
      <4>3. x \in Item(f, e)
        BY <1>1, <1>5, <4>2, ItemInFile
      <4>4. f[x].key = "newTag"
        BY <1>12, <2>2, <4>2
      <4> QED BY <1>1, <4>3, <4>4 DEF NewTag
    <3>4. ~(x > p + 1)
      <4>1. SUFFICES ASSUME x > p + 1 PROVE FALSE
        OBVIOUS
      <4>2. /\ p + 2 \in e .. x /\ p + 2 # e
            /\ p + 1 \in (p + 1) .. Len(f) /\ (p + 1) + 1 = p + 2
        BY <1>0, <1>1, <1>6, <1>15, <3>2, <4>1
      <4>3. g[p + 2].indent > g[e].indent
        BY <3>2, <4>2
      <4>4. g[(p + 1) + 1] = f[p + 1]
        BY <1>12, <4>2
      <4>5. g[p + 2] = f[p + 1] /\ p + 1 \in DOMAIN f
        BY <1>0, <1>6, <4>2, <4>4
      <4> QED BY <1>7, <3>1, <4>3, <4>5
    <3> QED BY <1>0, <1>6, <1>15, <3>2, <3>3, <3>4
  <2>3. g[p + 1].key = "newTag"
    BY <1>9, <1>12
  <2> QED BY <1>16, <2>1, <2>2, <2>3 DEF NewTag
<1>18. ASSUME Unmarshals(f) PROVE Unmarshals(g)
  <2>1. WellFormedTo(f, Len(f))
    BY <1>18, SimpleSeparators, OneDocument
  <2>2. p + 1 \in DOMAIN f => f[p + 1].indent < l.indent
    <3>1. SUFFICES ASSUME p + 1 \in DOMAIN f
                   PROVE  f[p + 1].indent < l.indent
      OBVIOUS
    <3>2. f[p + 1].indent \in Nat
      BY <3>1, IndentTyped
    <3> QED BY <1>6, <1>7, <1>9, <3>1, <3>2
  <2>3. WellFormedTo(g, Len(g))
    <3>1. l.indent = Column(f[p])
      BY <1>6, <1>9
    <3> QED BY <1>6, <1>8, <1>10, <1>12, <2>1, <2>2, <3>1, InsertionParses
  <2> QED BY <1>13, <2>3, OneDocument
<1>19. TagWritten(f, n, t, g, p + 1)
  <2>1. p + 1 \in DOMAIN g
    BY <1>0, <1>6, <1>15
  <2> QED BY <1>3, <1>9, <1>12, <1>14, <1>17, <1>18, <2>1 DEF TagWritten
<1> QED BY <1>19

\* A line two columns to the right of the field before it, which has a value,
\* is no part of a document.
LEMMA StrayLine ==
    ASSUME NEW f \in Seq(Lines), NEW e \in DOMAIN f, ~f[e].dash, ~Blank(f[e]),
           NEW l \in Lines, ~l.dash, l.indent = f[e].indent + 2,
           NEW g \in Seq(Lines), Len(g) = Len(f) + 1,
           g[e] = f[e], g[e + 1] = l
    PROVE  ~WellFormedTo(g, Len(g))
<1>0. /\ Len(f) \in Nat /\ DOMAIN f = 1 .. Len(f) /\ e \in 1 .. Len(f)
      /\ f[e].indent \in Nat
  BY IndentTyped
<1>1. (e + 1) - 1 = e /\ e + 1 \in 2 .. Len(g)
  BY <1>0
<1>2. ~Opens(g, e + 1)
  BY <1>1, OpensBlank
<1>3. ~Continues(g, e + 1)
  <2>1. SUFFICES ASSUME Continues(g, e + 1) PROVE FALSE
    OBVIOUS
  <2>2. PICK j \in 1..((e + 1) - 1) :
          /\ Aligned(g[e + 1], g[j])
          /\ \A k \in (j + 1)..((e + 1) - 1) : Within(g[e + 1], g[k])
    BY <2>1, ContinuesBetween
  <2>3. CASE j = e
    <3>1. Column(f[e]) = f[e].indent + 2
      BY <2>2, <2>3 DEF Aligned
    <3> QED BY <1>0, <3>1 DEF Column
  <2>4. CASE j # e
    <3>1. e \in (j + 1)..((e + 1) - 1)
      BY <1>0, <2>4
    <3>2. Within(l, f[e])
      BY <2>2, <3>1
    <3> QED BY <1>0, <3>2 DEF Within
  <2> QED BY <2>3, <2>4
<1> QED BY <1>1, <1>2, <1>3 DEF WellFormedTo

\* The name is not the first line of its entry: the line that the search adds
\* stands too far to the right, and the result is refused.
LEMMA TagMisplaced ==
    ASSUME NEW f \in Seq(Lines), Simple(f), NEW h \in ImageHeads(f), NEW n,
           NEW e \in KustomizationEntries(f, n), ~f[e].dash, ~Unnamed(n),
           NEW t \in Texts
    PROVE  ~Unmarshals(ApplyKustomizationImageTag(f, n, t))
<1>0. Len(f) \in Nat /\ DOMAIN f = 1 .. Len(f)
  OBVIOUS
<1>1. h \in DOMAIN f /\ KustomizationEntries(f, n) = {e}
  BY SimpleList, EntryFound
<1>2. e \in Block(f, h) /\ f[e].key = "name" /\ f[e].value = n
  BY ImagesBlockIsBlock DEF KustomizationEntries
<1>3. PICK g0 : g0 = f[h + 1].indent
  OBVIOUS
<1>4. e \in DOMAIN f /\ f[e].indent = g0 + 2 /\ g0 \in Nat
  BY <1>2, <1>3, SimpleFlat
<1>5. FieldsAfter(f, e) = {}
  <2>1. SUFFICES ASSUME NEW j \in FieldsAfter(f, e) PROVE FALSE
    OBVIOUS
  <2>2. /\ j \in ImagesBlock(f) /\ j > e
        /\ \A k \in (e + 1)..j : f[k].indent > f[e].indent
    BY DEF FieldsAfter
  <2>3. j \in Block(f, h)
    BY <2>2, ImagesBlockIsBlock
  <2>4. j \in DOMAIN f /\ f[j].indent = IF f[j].dash THEN g0 ELSE g0 + 2
    BY <1>3, <2>3, SimpleFlat
  <2>5. j \in (e + 1)..j
    BY <1>0, <1>4, <2>2, <2>4
  <2> QED BY <1>4, <2>2, <2>4, <2>5
<1>6. TagsAfter(f, e) = {}
  BY <1>5 DEF TagsAfter
<1> DEFINE l == Line(f[e].indent + 2, FALSE, "newTag", t)
           new == <<l>>
           g == InsertAfter(f, e, new)
<1>7. ApplyKustomizationImageTag(f, n, t) = g
  <2>1. FieldsAfter(f, e) \cup {e} = {e}
    BY <1>5
  <2>2. Max(FieldsAfter(f, e) \cup {e}) = e
    <3>1. e \in Nat
      BY <1>0, <1>4
    <3>2. Max({e}) = e
      BY <3>1, MinOfOne
    <3> QED BY <2>1, <3>2
  <2> QED BY <1>1, <1>4, <1>6, <2>2, OverlaySearch
<1>8. l \in Lines
  <2>1. f[e].indent + 2 \in Nat
    BY <1>4
  <2> QED BY <2>1, TextsUsed, LineTyped
<1>9. l.indent = f[e].indent + 2 /\ l.key \in Settings
  BY DEF Line, Settings
<1>10. ~l.dash
  BY DEF Line
<1> HIDE DEF l
<1>11. new \in Seq(Lines) /\ Len(new) = 1 /\ new[1] = l
  BY <1>8, OneLine
<1> HIDE DEF new
<1>12. /\ g \in Seq(Lines) /\ Len(g) = Len(f) + 1
       /\ g[e] = f[e] /\ g[e + 1] = l
  <2>1. /\ g \in Seq(Lines)
        /\ Len(g) = Len(f) + 1
        /\ \A j \in 1 .. e : g[j] = f[j]
        /\ g[e + 1] = new[1]
    BY <1>4, <1>11, OneInserted
  <2> HIDE DEF g
  <2>2. e \in 1 .. e
    BY <1>0, <1>4
  <2> QED BY <1>11, <2>1, <2>2
<1>13. Separators(g) \subseteq {1}
  <2>1. Separators(f) \subseteq {1}
    BY SimpleSeparators
  <2>2. Len(new) \in 0..3 /\ \A j \in 1 .. Len(new) : new[j].key \in Settings
    BY <1>9, <1>11
  <2>3. Edited(f, g)
    BY <1>4, <1>11, <2>2, InsertionEdits
  <2> HIDE DEF g
  <2> QED BY <2>1, <2>3, NoSeparatorAdded
<1> HIDE DEF g
<1>14. ~Blank(f[e])
  BY <1>2, Zenon DEF Blank, Unnamed
<1>15. ~WellFormedTo(g, Len(g))
  BY <1>4, <1>8, <1>9, <1>10, <1>12, <1>14, StrayLine
<1> QED BY <1>7, <1>13, <1>15, OneDocument

\* For every overlay of the layout that Simple describes, a tag that is written
\* is that of the workload's entry, and entries that begin with their name get
\* theirs (patch.go:315-387, find.go:62-129).
THEOREM OverlayTagIsSet == Spec => OverlayTagSet
<1> DEFINE Set ==
         Answers("image_tag") /\ request.pod # "" /\ StandardClone
                 /\ OverlayFile # 0 =>
             LET n == request.pod
                 old == clone[OverlayFile].lines
                 new == clone'[OverlayFile].lines
             IN  /\ answer' = "patched" =>
                     /\ clone' = [clone EXCEPT ![OverlayFile].lines = new]
                     /\ \E j \in DOMAIN new :
                         /\ NewTag(new, n) = {j} /\ new[j].value = request.value
                         /\ IF NewTag(old, n) = {}
                            THEN new = InsertAfter(old, j - 1, <<new[j]>>)
                            ELSE new = [old EXCEPT ![j] = new[j]]
                 /\ /\ Unmarshals(old)
                    /\ \A i \in DOMAIN old :
                         old[i].dash => old[i].key = "name"
                    => answer' = "patched"
<1>1. ASSUME Call, [Next]_vars PROVE [Set]_vars
  <2> DEFINE n == request.pod
             old == clone[OverlayFile].lines
             new == clone'[OverlayFile].lines
  <2>1. SUFFICES ASSUME Answers("image_tag"), ~Unnamed(n), StandardClone,
                        OverlayFile # 0
                 PROVE  /\ answer' = "patched" =>
                            /\ clone' = [clone EXCEPT
                                            ![OverlayFile].lines = new]
                            /\ \E j \in DOMAIN new :
                                /\ NewTag(new, n) = {j}
                                /\ new[j].value = request.value
                                /\ IF NewTag(old, n) = {}
                                   THEN new = InsertAfter(old, j - 1,
                                                          <<new[j]>>)
                                   ELSE new = [old EXCEPT ![j] = new[j]]
                        /\ /\ Unmarshals(old)
                           /\ \A i \in DOMAIN old :
                                old[i].dash => old[i].key = "name"
                           => answer' = "patched"
    BY Zenon DEF Unnamed
  <2> DEFINE t == request.value
             result == ApplyKustomizationImageTag(old, n, t)
  <2>2. /\ request.type = "image_tag" /\ clone \in Clones
        /\ t \in Texts
        /\ answer' = "patched" =>
             /\ Accepted(request)
             /\ clone' = [clone EXCEPT ![Target(request)].lines =
                                NewContent(request)]
        /\ Accepted(request) => answer' = "patched"
    BY <1>1, <2>1, Outcome, PatcherAssumption DEF Answers
  <2>3. /\ UsesKustomization(request)
        /\ Target(request) = OverlayFile
        /\ OverlayFile \in DOMAIN clone
        /\ Simple(old) /\ Entry(old, "images", n) # {}
    BY <2>1, <2>2, RightFile
  <2>4. old \in Seq(Lines)
    BY <2>2, <2>3, ClonedFiles
  <2>5. NewContent(request) = result
    BY <2>2, <2>3 DEF NewContent
  <2>6. Accepted(request) <=> result # Failed /\ Unmarshals(result)
    BY <2>1, <2>3, <2>5 DEF Accepted
  <2>7. answer' = "patched" =>
            /\ clone' = [clone EXCEPT ![OverlayFile].lines = result]
            /\ new = result
    <3>1. SUFFICES ASSUME answer' = "patched"
                   PROVE  /\ clone' = [clone EXCEPT
                                        ![OverlayFile].lines = result]
                          /\ new = result
      OBVIOUS
    <3>2. clone' = [clone EXCEPT ![OverlayFile].lines = result]
      BY <2>2, <2>3, <2>5, <3>1
    <3>3. clone \in Seq(Files) /\ clone[OverlayFile] \in Files
      BY <2>1, <2>2, <2>3, TargetInClone
    <3> HIDE DEF result
    <3>4. clone'[OverlayFile] = [clone[OverlayFile] EXCEPT !.lines = result]
      BY <2>3, <3>2, <3>3
    <3>5. clone'[OverlayFile].lines = result
      BY <3>3, <3>4 DEF Files
    <3> QED BY <3>2, <3>5
  <2> HIDE DEF old, n, t
  <2>8. PICK e : e \in KustomizationEntries(old, n)
    BY <2>3, <2>4, OverlayFound
  <2>9. PICK h \in ImageHeads(old) : TRUE
    <3>1. Items(old, "images") # {}
      BY <2>3 DEF Entry
    <3>2. PICK i : i \in Items(old, "images")
      BY <3>1
    <3>3. \E k \in DOMAIN old : old[k].key = "images" /\ old[k].value = ""
      BY <3>2, Zenon DEF Items
    <3>4. \E k : k \in ImageHeads(old)
      BY <3>3, Zenon DEF ImageHeads, Where
    <3> QED BY <3>4
  <2>10. old[e].dash => \E j : TagWritten(old, n, t, result, j)
    <3>1. SUFFICES ASSUME old[e].dash
                   PROVE  \E j : TagWritten(old, n, t, result, j)
      OBVIOUS
    <3>2. \E g, j : TagWritten(old, n, t, g, j)
      <4>1. CASE NewTag(old, n) = {}
        BY <2>2, <2>3, <2>4, <2>8, <2>9, <3>1, <4>1, TagAdded
      <4>2. CASE NewTag(old, n) # {}
        BY <2>2, <2>3, <2>4, <2>8, <2>9, <3>1, <4>2, TagChanged
      <4> QED BY <4>1, <4>2
    <3>3. PICK g, j : TagWritten(old, n, t, g, j)
      BY <3>2
    <3>4. g = result
      BY <3>3 DEF TagWritten
    <3> QED BY <3>3, <3>4
  <2>11. ~old[e].dash => ~Unmarshals(result)
    BY <2>1, <2>2, <2>3, <2>4, <2>8, <2>9, TagMisplaced
  <2>12. ASSUME answer' = "patched"
         PROVE  /\ clone' = [clone EXCEPT ![OverlayFile].lines = new]
                /\ \E j \in DOMAIN new :
                    /\ NewTag(new, n) = {j}
                    /\ new[j].value = t
                    /\ IF NewTag(old, n) = {}
                       THEN new = InsertAfter(old, j - 1, <<new[j]>>)
                       ELSE new = [old EXCEPT ![j] = new[j]]
    <3>1. new = result /\ old[e].dash
          /\ clone' = [clone EXCEPT ![OverlayFile].lines = result]
      BY <2>2, <2>6, <2>7, <2>11, <2>12
    <3>2. PICK j : TagWritten(old, n, t, result, j)
      BY <2>10, <3>1
    <3> HIDE DEF new, result
    <3>3. /\ j \in DOMAIN new /\ NewTag(new, n) = {j} /\ new[j].value = t
          /\ IF NewTag(old, n) = {}
             THEN new = InsertAfter(old, j - 1, <<new[j]>>)
             ELSE new = [old EXCEPT ![j] = new[j]]
      BY <3>1, <3>2 DEF TagWritten
    <3> QED BY <3>1, <3>3
  <2>13. ASSUME Unmarshals(old),
                \A i \in DOMAIN old : old[i].dash => old[i].key = "name"
         PROVE  answer' = "patched"
    <3>1. old[e].dash
      <4>1. PICK i \in Items(old, "images") : e \in Item(old, i)
        BY <2>3, <2>4, <2>8, <2>9, EntryFound
      <4>2. i \in Block(old, h) /\ old[i].dash
        BY <2>3, <2>4, <2>9, <4>1, SimpleItems
      <4>3. i \in DOMAIN old
        BY <4>1 DEF Items
      <4>4. old[i].key = "name" /\ old[e].key = "name" /\ i \in Item(old, i)
        BY <2>8, <2>13, <4>2, <4>3 DEF KustomizationEntries, Item
      <4>5. e = i
        BY <2>3, <2>4, <2>9, <4>1, <4>2, <4>4, SimpleList
      <4> QED BY <4>2, <4>5
    <3>2. PICK j : TagWritten(old, n, t, result, j)
      BY <2>10, <3>1
    <3> HIDE DEF result
    <3>3. j \in DOMAIN result /\ Unmarshals(result)
      BY <2>13, <3>2 DEF TagWritten
    <3>4. result # Failed
      <4>1. DOMAIN Failed = {}
        BY DEF Failed
      <4> QED BY <3>3, <4>1
    <3> QED BY <2>2, <2>6, <3>3, <3>4
  <2> QED BY <2>12, <2>13, Zenon DEF t
<1>2. Spec => [][Set]_vars
  BY <1>1, CallInvariant, PTL DEF Spec
<1> QED BY <1>2 DEF OverlayTagSet

==============================================================================
