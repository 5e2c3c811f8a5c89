---------------------------- MODULE PatcherProofs ----------------------------
(***************************************************************************)
(* Proofs about the patcher, for files of any length and layout and any    *)
(* request: what an edit leaves alone, and what the validation is worth.   *)
(***************************************************************************)
EXTENDS Patcher, SequenceTheorems, WellFoundedInduction, TLAPS

(***************************************************************************)
(* The first and the last of a set of line numbers.                        *)
(***************************************************************************)
Less == {p \in Nat \X Nat : p[1] < p[2]}

LEMMA Minimum ==
    ASSUME NEW S, S \subseteq Nat, S # {}
    PROVE  \E x \in S : \A y \in S : x =< y
<1>1. IsWellFoundedOn(Less, Nat)
  BY NatLessThanWellFounded DEF OpToRel, Less
<1>2. PICK x \in S : \A y \in S : <<y, x>> \notin Less
  BY <1>1, WFMin
<1>3. ASSUME NEW y \in S PROVE x =< y
  <2>1. x \in Nat /\ y \in Nat
    OBVIOUS
  <2>2. ~ (y < x)
    BY <1>2, <2>1 DEF Less
  <2> QED BY <2>1, <2>2
<1> QED BY <1>3

LEMMA MinExists ==
    ASSUME NEW S, S \subseteq Nat, S # {} PROVE Min(S) \in S
BY Minimum DEF Min

LEMMA MaxExists ==
    ASSUME NEW n \in Nat, NEW S, S \subseteq 0 .. n, S # {}
    PROVE  Max(S) \in S
<1> DEFINE T == {n - x : x \in S}
<1>1. T \subseteq Nat
  OBVIOUS
<1>2. T # {}
  <2>1. PICK x \in S : TRUE
    OBVIOUS
  <2> QED BY <2>1
<1>3. PICK m \in T : \A y \in T : m =< y
  <2> HIDE DEF T
  <2> QED BY <1>1, <1>2, Minimum
<1>4. PICK x \in S : m = n - x
  OBVIOUS
<1>5. \A y \in S : n - x =< n - y
  BY <1>3, <1>4
<1>6. \A y \in S : x >= y
  BY <1>5
<1> QED BY <1>6 DEF Max

LEMMA MaxOfLines ==
    ASSUME NEW S, NEW f \in Seq(Lines), S \subseteq DOMAIN f, S # {}
    PROVE  Max(S) \in S
<1>1. Len(f) \in Nat /\ DOMAIN f = 1 .. Len(f)
  OBVIOUS
<1>2. S \subseteq 0 .. Len(f)
  BY <1>1
<1> QED BY <1>1, <1>2, MaxExists

LEMMA MinOfLines ==
    ASSUME NEW S, NEW f \in Seq(Lines), S \subseteq DOMAIN f, S # {}
    PROVE  Min(S) \in S
<1>1. DOMAIN f = 1 .. Len(f)
  OBVIOUS
<1>2. S \subseteq Nat
  BY <1>1
<1> QED BY <1>2, MinExists

(***************************************************************************)
(* The three kinds of edits.                                               *)
(***************************************************************************)
Edited(old, new) ==
    /\ new \in Seq(Lines)
    /\ \E i \in DOMAIN old, n \in 0..3 : EditedAt(old, new, i, n)

LEMMA InsertionShifts ==
    ASSUME NEW f \in Seq(Lines), NEW i \in DOMAIN f, NEW new \in Seq(Lines)
    PROVE  LET g == InsertAfter(f, i, new)
               n == Len(new)
           IN  /\ g \in Seq(Lines)
               /\ Len(g) = Len(f) + n
               /\ \A j \in 1 .. i : g[j] = f[j]
               /\ \A j \in (i + 1) .. (i + n) : g[j] = new[j - i]
               /\ \A j \in (i + 1) .. Len(f) : g[j + n] = f[j]
<1> DEFINE a == SubSeq(f, 1, i)
           c == SubSeq(f, i + 1, Len(f))
           ab == a \o new
           g == ab \o c
<1>1. /\ Len(f) \in Nat /\ DOMAIN f = 1 .. Len(f) /\ i \in 1 .. Len(f)
      /\ Len(new) \in Nat
  OBVIOUS
<1>2. a \in Seq(Lines) /\ Len(a) = i /\ \A j \in 1 .. i : a[j] = f[j]
  BY <1>1, SubSeqProperties
<1>3. /\ c \in Seq(Lines) /\ Len(c) = Len(f) - i
      /\ \A j \in 1 .. Len(f) - i : c[j] = f[i + j]
  <2>1. i + 1 \in Int /\ Len(f) \in Int
        /\ \A j \in (i + 1) .. Len(f) : f[j] \in Lines
    BY <1>1
  <2>2. /\ c \in Seq(Lines)
        /\ Len(c) = IF i + 1 <= Len(f) THEN Len(f) - (i + 1) + 1 ELSE 0
        /\ \A j \in 1 .. Len(f) - (i + 1) + 1 : c[j] = f[(i + 1) + j - 1]
    BY <2>1, SubSeqProperties
  <2>3. Len(f) - (i + 1) + 1 = Len(f) - i
        /\ \A j \in 1 .. Len(f) - i : (i + 1) + j - 1 = i + j
    BY <1>1
  <2> HIDE DEF c
  <2> QED BY <1>1, <2>2, <2>3
<1> HIDE DEF a, c
<1>4. /\ ab \in Seq(Lines) /\ Len(ab) = i + Len(new)
      /\ \A j \in 1 .. i + Len(new) :
            ab[j] = IF j <= i THEN a[j] ELSE new[j - i]
  BY <1>2, ConcatProperties
<1> HIDE DEF ab
<1>5. /\ g \in Seq(Lines) /\ Len(g) = i + Len(new) + (Len(f) - i)
      /\ \A j \in 1 .. i + Len(new) + (Len(f) - i) :
            g[j] = IF j <= i + Len(new) THEN ab[j]
                   ELSE c[j - (i + Len(new))]
  <2>1. /\ g \in Seq(Lines) /\ Len(g) = Len(ab) + Len(c)
        /\ \A j \in 1 .. Len(ab) + Len(c) :
            g[j] = IF j <= Len(ab) THEN ab[j] ELSE c[j - Len(ab)]
    BY <1>3, <1>4, ConcatProperties
  <2> HIDE DEF g
  <2> QED BY <1>3, <1>4, <2>1
<1> HIDE DEF g
<1>6. Len(g) = Len(f) + Len(new)
  BY <1>1, <1>5
<1>7. \A j \in 1 .. i : g[j] = f[j]
  BY <1>1, <1>2, <1>4, <1>5
<1>8. \A j \in (i + 1) .. (i + Len(new)) : g[j] = new[j - i]
  BY <1>1, <1>4, <1>5
<1>9. ASSUME NEW j \in (i + 1) .. Len(f) PROVE g[j + Len(new)] = f[j]
  <2> DEFINE m == j + Len(new)
  <2>1. m \in 1 .. i + Len(new) + (Len(f) - i) /\ ~ (m <= i + Len(new))
        /\ m - (i + Len(new)) = j - i
    BY <1>1
  <2>2. g[m] = c[j - i]
    BY <1>5, <2>1
  <2>3. j - i \in 1 .. Len(f) - i /\ i + (j - i) = j
    BY <1>1
  <2> QED BY <1>3, <2>2, <2>3
<1> QED BY <1>5, <1>6, <1>7, <1>8, <1>9 DEF InsertAfter, g, ab, a, c

LEMMA InsertionEdits ==
    ASSUME NEW f \in Seq(Lines), NEW i \in DOMAIN f, NEW new \in Seq(Lines),
           Len(new) \in 0..3,
           \A j \in 1 .. Len(new) : new[j].key \in Settings
    PROVE  Edited(f, InsertAfter(f, i, new))
<1> DEFINE g == InsertAfter(f, i, new)
           n == Len(new)
<1>1. /\ Len(f) \in Nat /\ DOMAIN f = 1 .. Len(f) /\ i \in 1 .. Len(f)
      /\ n \in Nat
  OBVIOUS
<1>2. /\ g \in Seq(Lines)
      /\ Len(g) = Len(f) + n
      /\ \A j \in 1 .. i : g[j] = f[j]
      /\ \A j \in (i + 1) .. (i + n) : g[j] = new[j - i]
      /\ \A j \in (i + 1) .. Len(f) : g[j + n] = f[j]
  BY InsertionShifts
<1> HIDE DEF g, n
<1>3. \A j \in 1..(i - 1) : g[j] = f[j]
  BY <1>1, <1>2
<1>4. g[i] = f[i]
  BY <1>1, <1>2
<1>5. \A j \in (i + 1) .. (i + n) : g[j].key \in Settings
  BY <1>1, <1>2 DEF n
<1>6. EditedAt(f, g, i, n)
  BY <1>2, <1>3, <1>4, <1>5 DEF EditedAt
<1>7. i \in DOMAIN f /\ n \in 0..3
  BY DEF n
<1> QED BY <1>2, <1>6, <1>7 DEF Edited, g

LEMMA ChangeEdits ==
    ASSUME NEW f \in Seq(Lines), NEW i \in DOMAIN f, NEW l \in Lines,
           f[i].key \in Settings,
           l.indent = f[i].indent, l.dash = f[i].dash, l.key = f[i].key
    PROVE  Edited(f, [f EXCEPT ![i] = l])
<1> DEFINE g == [f EXCEPT ![i] = l]
<1>1. Len(f) \in Nat /\ DOMAIN f = 1 .. Len(f) /\ i \in 1 .. Len(f)
  OBVIOUS
<1>2. g \in Seq(Lines) /\ Len(g) = Len(f)
  OBVIOUS
<1>3. g[i] = l /\ \A j \in 1 .. Len(f) : j # i => g[j] = f[j]
  BY <1>1
<1> HIDE DEF g
<1>4. /\ \A j \in 1..(i - 1) : g[j] = f[j]
      /\ \A j \in (i + 1)..Len(f) : g[j + 0] = f[j]
  BY <1>1, <1>3
<1>5. \A x \in {"indent", "dash", "key"} : g[i][x] = f[i][x]
  <2>1. /\ g[i]["indent"] = f[i]["indent"]
        /\ g[i]["dash"] = f[i]["dash"]
        /\ g[i]["key"] = f[i]["key"]
    BY <1>3
  <2> QED BY <2>1
<1>6. EditedAt(f, g, i, 0)
  BY <1>1, <1>2, <1>4, <1>5 DEF EditedAt
<1>7. 0 \in 0..3
  OBVIOUS
<1> QED BY <1>2, <1>6, <1>7 DEF Edited, g

\* Every edit sets a value or a tag.
LEMMA ValueEdits ==
    ASSUME NEW f \in Seq(Lines), NEW i \in DOMAIN f, NEW v \in Texts,
           f[i].key \in Settings
    PROVE  Edited(f, [f EXCEPT ![i].value = v])
<1> DEFINE l == [f[i] EXCEPT !.value = v]
<1>1. f[i] \in Lines
  OBVIOUS
<1>2. l \in Lines /\ l.indent = f[i].indent /\ l.dash = f[i].dash
      /\ l.key = f[i].key
  BY <1>1 DEF Lines
<1>3. [f EXCEPT ![i].value = v] = [f EXCEPT ![i] = l]
  OBVIOUS
<1> HIDE DEF l
<1> QED BY <1>2, <1>3, ChangeEdits

LEMMA TagEdits ==
    ASSUME NEW f \in Seq(Lines), NEW i \in DOMAIN f, NEW t \in Texts,
           f[i].key \in Settings
    PROVE  Edited(f, [f EXCEPT ![i].tag = t])
<1> DEFINE l == [f[i] EXCEPT !.tag = t]
<1>1. f[i] \in Lines
  OBVIOUS
<1>2. l \in Lines /\ l.indent = f[i].indent /\ l.dash = f[i].dash
      /\ l.key = f[i].key
  BY <1>1 DEF Lines
<1>3. [f EXCEPT ![i].tag = t] = [f EXCEPT ![i] = l]
  OBVIOUS
<1> HIDE DEF l
<1> QED BY <1>2, <1>3, ChangeEdits

(***************************************************************************)
(* The edits of a manifest.                                                *)
(***************************************************************************)
LEMMA TextsUsed ==
    /\ "" \in Texts
    /\ "resources" \in Texts
    /\ "limits" \in Texts
    /\ "memory" \in Texts
    /\ "newTag" \in Texts
BY PatcherAssumption

LEMMA LineTyped ==
    ASSUME NEW indent \in Nat, NEW key \in Texts, NEW v \in Texts
    PROVE  Line(indent, FALSE, key, v) \in Lines
BY TextsUsed DEF Line, Lines

LEMMA OneLine ==
    ASSUME NEW l \in Lines
    PROVE  <<l>> \in Seq(Lines) /\ Len(<<l>>) = 1 /\ <<l>>[1] = l
OBVIOUS

LEMMA LimitLinesTyped ==
    ASSUME NEW indent \in Nat, NEW v \in Texts
    PROVE  /\ LimitLines(indent, v) \in Seq(Lines)
           /\ Len(LimitLines(indent, v)) = 2
           /\ LimitLines(indent, v)[1].key \in Settings
           /\ LimitLines(indent, v)[2].key \in Settings
<1> DEFINE a == Line(indent, FALSE, "limits", "")
           b == Line(indent + 2, FALSE, "memory", v)
<1>1. a \in Lines /\ b \in Lines
  <2>1. indent + 2 \in Nat
    OBVIOUS
  <2> QED BY <2>1, TextsUsed, LineTyped
<1>2. a.key = "limits" /\ b.key = "memory"
  BY DEF Line
<1> HIDE DEF a, b
<1>3. <<a, b>> \in Seq(Lines) /\ Len(<<a, b>>) = 2 /\ <<a, b>>[1] = a
      /\ <<a, b>>[2] = b
  BY <1>1
<1>4. LimitLines(indent, v) = <<a, b>>
  BY DEF LimitLines, a, b
<1> QED BY <1>2, <1>3, <1>4 DEF Settings

LEMMA RegionInFile ==
    ASSUME NEW f \in Seq(Lines), NEW c PROVE Region(f, c) \subseteq DOMAIN f
<1> DEFINE own == Where(f, LAMBDA l : StartsEntry(l) /\ l.value = c)
           next == {j \in Where(f, StartsEntry) :
                        f[j].value # c /\ \E i \in own : i < j}
           end == IF next = {} THEN Len(f) ELSE Min(next) - 1
           before == {i \in own : i <= end}
<1>1. DOMAIN f = 1 .. Len(f) /\ Len(f) \in Nat
  OBVIOUS
<1>2. own \subseteq DOMAIN f /\ next \subseteq DOMAIN f
  BY DEF Where
<1>3. \A j \in next : \E i \in own : i < j
  OBVIOUS
<1>4. c # "" /\ own # {} => Region(f, c) = Max(before)..end
  BY DEF Region
<1> HIDE DEF own, next
<1>5. ASSUME own # {} PROVE Max(before)..end \subseteq DOMAIN f
  <2>1. next # {} => Min(next) \in next
    BY <1>2, MinOfLines
  <2>2. end \in Int /\ end <= Len(f) /\ \E i \in own : i <= end
    <3>1. CASE next = {}
      <4>1. end = Len(f)
        BY <3>1
      <4> HIDE DEF end
      <4> QED BY <1>1, <1>2, <1>5, <4>1
    <3>2. CASE next # {}
      <4>1. end = Min(next) - 1
        BY <3>2
      <4>2. Min(next) \in 1 .. Len(f)
        BY <1>1, <1>2, <2>1, <3>2
      <4>3. PICK i \in own : i < Min(next)
        BY <1>3, <2>1, <3>2
      <4>4. i \in 1 .. Len(f)
        BY <1>1, <1>2
      <4> HIDE DEF end
      <4> QED BY <1>1, <4>1, <4>2, <4>3, <4>4
    <3> QED BY <3>1, <3>2
  <2> HIDE DEF end
  <2>3. before # {} /\ before \subseteq DOMAIN f
    BY <1>2, <2>2
  <2> HIDE DEF before
  <2>4. Max(before) \in DOMAIN f
    BY <2>3, MaxOfLines
  <2> QED BY <1>1, <2>2, <2>4
<1>6. CASE c = ""
  BY <1>6 DEF Region
<1>7. CASE c # "" /\ own = {}
  <2>1. Region(f, c) = {}
    BY <1>7 DEF Region, own
  <2> QED BY <2>1
<1>8. CASE c # "" /\ own # {}
  BY <1>4, <1>5, <1>8
<1> QED BY <1>6, <1>7, <1>8

LEMMA WithLimitsEdits ==
    ASSUME NEW f \in Seq(Lines), NEW R \in SUBSET DOMAIN f,
           NEW limits \in SUBSET R, limits # {}, NEW v \in Texts
    PROVE  Edited(f, WithLimits(f, R, limits, v))
<1> DEFINE open(j) == Max({i \in limits : i < j})
           leaves(j) == f[j].indent <= f[open(j)].indent
           stops == {j \in R \ limits :
                        /\ \E i \in limits : i < j
                        /\ leaves(j) \/ Field(f[j], "memory")}
           stop == Min(stops)
           memory(i) == <<Line(f[i].indent + 2, FALSE, "memory", v)>>
<1>1. DOMAIN f = 1 .. Len(f) /\ Len(f) \in Nat
  OBVIOUS
<1>2. ASSUME NEW i \in DOMAIN f, NEW at \in DOMAIN f
      PROVE  Edited(f, InsertAfter(f, at, memory(i)))
  <2> DEFINE l == Line(f[i].indent + 2, FALSE, "memory", v)
  <2>1. f[i].indent + 2 \in Nat
    <3>1. f[i] \in Lines
      OBVIOUS
    <3> QED BY <3>1 DEF Lines
  <2>2. l \in Lines
    BY <2>1, LineTyped, TextsUsed
  <2>3. l.key \in Settings
    BY DEF Line, Settings
  <2> HIDE DEF l
  <2>4. Edited(f, InsertAfter(f, at, <<l>>))
    <3>1. <<l>> \in Seq(Lines) /\ Len(<<l>>) = 1 /\ <<l>>[1] = l
      BY <2>2, OneLine
    <3> DEFINE new == <<l>>
    <3>2. new \in Seq(Lines) /\ Len(new) \in 0..3
          /\ \A j \in 1 .. Len(new) : new[j].key \in Settings
      BY <2>3, <3>1
    <3> HIDE DEF new
    <3>3. Edited(f, InsertAfter(f, at, new))
      BY <3>2, InsertionEdits
    <3> QED BY <3>3 DEF new
  <2> QED BY <2>4 DEF l
<1>3. CASE stops = {}
  <2>1. Max(R) \in DOMAIN f /\ Max(limits) \in DOMAIN f
    BY MaxOfLines
  <2>2. WithLimits(f, R, limits, v)
            = InsertAfter(f, Max(R), memory(Max(limits)))
    BY <1>3 DEF WithLimits
  <2> QED BY <1>2, <2>1, <2>2
<1>4. CASE stops # {}
  <2>1. stop \in stops
    <3>1. stops \subseteq DOMAIN f
      OBVIOUS
    <3> HIDE DEF stops
    <3> QED BY <1>4, <3>1, MinOfLines
  <2>2. PICK i \in limits : i < stop
    BY <2>1
  <2>3. stop - 1 \in DOMAIN f /\ stop \in DOMAIN f
    BY <1>1, <2>1, <2>2
  <2>4. CASE leaves(stop)
    <3>1. {k \in limits : k < stop} # {}
          /\ {k \in limits : k < stop} \subseteq DOMAIN f
      BY <2>2
    <3>2. open(stop) \in DOMAIN f
      BY <3>1, MaxOfLines
    <3>3. WithLimits(f, R, limits, v)
            = InsertAfter(f, stop - 1, memory(open(stop)))
      BY <1>4, <2>4 DEF WithLimits
    <3> QED BY <1>2, <2>3, <3>2, <3>3
  <2>5. CASE ~leaves(stop)
    <3>1. f[stop].key \in Settings
      BY <2>1, <2>5 DEF Field, Settings
    <3>2. WithLimits(f, R, limits, v) = [f EXCEPT ![stop].value = v]
      BY <1>4, <2>5 DEF WithLimits
    <3> HIDE DEF stop
    <3>3. Edited(f, [f EXCEPT ![stop].value = v])
      BY <2>3, <3>1, ValueEdits
    <3> QED BY <3>2, <3>3
  <2> QED BY <2>4, <2>5
<1> QED BY <1>3, <1>4

LEMMA IndentTyped ==
    ASSUME NEW f \in Seq(Lines), NEW i \in DOMAIN f PROVE f[i].indent \in Nat
<1>1. f[i] \in Lines
  OBVIOUS
<1> QED BY <1>1 DEF Lines

LEMMA WithResourcesEdits ==
    ASSUME NEW f \in Seq(Lines), NEW i \in DOMAIN f, NEW v \in Texts,
           f[i].key \in Settings
    PROVE  Edited(f, WithResources(f, i, v))
<1> DEFINE new == LimitLines(f[i].indent + 2, v)
           g == InsertAfter(f, i, new)
           h == [g EXCEPT ![i].value = ""]
           l == [f[i] EXCEPT !.value = ""]
<1>1. Len(f) \in Nat /\ DOMAIN f = 1 .. Len(f) /\ i \in 1 .. Len(f)
      /\ f[i] \in Lines
  OBVIOUS
<1>2. new \in Seq(Lines) /\ Len(new) = 2
      /\ new[1].key \in Settings /\ new[2].key \in Settings
  <2>1. f[i].indent + 2 \in Nat
    BY IndentTyped
  <2> QED BY <2>1, LimitLinesTyped
<1> HIDE DEF new
<1>3. /\ g \in Seq(Lines)
      /\ Len(g) = Len(f) + 2
      /\ \A j \in 1 .. i : g[j] = f[j]
      /\ \A j \in (i + 1) .. (i + 2) : g[j] = new[j - i]
      /\ \A j \in (i + 1) .. Len(f) : g[j + 2] = f[j]
  <2>1. /\ g \in Seq(Lines)
        /\ Len(g) = Len(f) + Len(new)
        /\ \A j \in 1 .. i : g[j] = f[j]
        /\ \A j \in (i + 1) .. (i + Len(new)) : g[j] = new[j - i]
        /\ \A j \in (i + 1) .. Len(f) : g[j + Len(new)] = f[j]
    BY <1>2, InsertionShifts
  <2> HIDE DEF g
  <2> QED BY <1>2, <2>1
<1>4. l \in Lines /\ l.indent = f[i].indent /\ l.dash = f[i].dash
      /\ l.key = f[i].key
  <2>1. "" \in Texts
    BY TextsUsed
  <2> QED BY <1>1, <2>1 DEF Lines
<1>5. g[i] = f[i]
  BY <1>1, <1>3
<1> HIDE DEF g
<1>6. h = [g EXCEPT ![i] = l]
  BY <1>5
<1> HIDE DEF h, l
<1>7. i \in DOMAIN g
  BY <1>1, <1>3
<1>8. /\ h \in Seq(Lines) /\ Len(h) = Len(g) /\ h[i] = l
      /\ \A j \in 1 .. Len(g) : j # i => h[j] = g[j]
  BY <1>3, <1>4, <1>6, <1>7
<1>9. \A x \in {"indent", "dash", "key"} : h[i][x] = f[i][x]
  <2>1. /\ h[i]["indent"] = f[i]["indent"]
        /\ h[i]["dash"] = f[i]["dash"]
        /\ h[i]["key"] = f[i]["key"]
    BY <1>4, <1>8
  <2> QED BY <2>1
<1>10. \A j \in 1..(i - 1) : h[j] = f[j]
  BY <1>1, <1>3, <1>8
<1>11. \A j \in (i + 1)..Len(f) : h[j + 2] = f[j]
  BY <1>1, <1>3, <1>8
<1>12. \A j \in (i + 1)..(i + 2) : h[j].key \in Settings
  <2>1. h[i + 1] = new[1] /\ h[i + 2] = new[2]
    <3>1. (i + 1) - i = 1 /\ (i + 2) - i = 2
          /\ i + 1 \in (i + 1) .. (i + 2) /\ i + 2 \in (i + 1) .. (i + 2)
      BY <1>1
    <3>2. g[i + 1] = new[1] /\ g[i + 2] = new[2]
      BY <1>3, <3>1
    <3>3. i + 1 \in 1 .. Len(g) /\ i + 2 \in 1 .. Len(g)
          /\ i + 1 # i /\ i + 2 # i
      BY <1>1, <1>3
    <3> QED BY <1>8, <3>2, <3>3
  <2>2. \A j \in (i + 1)..(i + 2) : j = i + 1 \/ j = i + 2
    BY <1>1
  <2> QED BY <1>2, <2>1, <2>2
<1>13. EditedAt(f, h, i, 2)
  BY <1>3, <1>8, <1>9, <1>10, <1>11, <1>12 DEF EditedAt
<1>14. WithResources(f, i, v) = h
  BY DEF WithResources, h, g, new
<1>15. 2 \in 0..3
  OBVIOUS
<1> QED BY <1>8, <1>13, <1>14, <1>15 DEF Edited

LEMMA NewResourcesEdits ==
    ASSUME NEW f \in Seq(Lines), NEW R \in SUBSET DOMAIN f, NEW c,
           NEW v \in Texts, NewResources(f, R, c, v) # Failed
    PROVE  Edited(f, NewResources(f, R, c, v))
<1> DEFINE items == {i \in R : StartsEntry(f[i]) /\ c \in {"", f[i].value}}
           item == Min(items)
           dash == f[item].indent
           ends == {j \in R : j > item /\ f[j].indent <= dash}
           last == IF ends = {} THEN Max(R) ELSE Min(ends) - 1
           a == <<Line(dash + 2, FALSE, "resources", "")>>
           b == LimitLines(dash + 4, v)
           new == a \o b
<1>1. Len(f) \in Nat /\ DOMAIN f = 1 .. Len(f)
  OBVIOUS
<1>2. items # {} /\ NewResources(f, R, c, v) = InsertAfter(f, last, new)
  BY DEF NewResources
<1>3. item \in R
  <2>1. items \subseteq DOMAIN f /\ items \subseteq R
    OBVIOUS
  <2> HIDE DEF items
  <2> QED BY <1>2, <2>1, MinOfLines
<1> HIDE DEF items, item
<1>4. dash \in Nat
  BY <1>3, IndentTyped
<1>5. last \in DOMAIN f
  <2>1. CASE ends = {}
    <3>1. Max(R) \in R
      BY <1>3, MaxOfLines
    <3> QED BY <2>1, <3>1
  <2>2. CASE ends # {}
    <3>1. Min(ends) \in ends
      <4>1. ends \subseteq DOMAIN f
        OBVIOUS
      <4> HIDE DEF ends
      <4> QED BY <2>2, <4>1, MinOfLines
    <3>2. Min(ends) \in 1 .. Len(f) /\ Min(ends) > item /\ item \in 1 .. Len(f)
      BY <1>1, <1>3, <3>1
    <3>3. last = Min(ends) - 1
      BY <2>2
    <3> HIDE DEF last, ends
    <3> QED BY <1>1, <3>2, <3>3
  <2> QED BY <2>1, <2>2
<1> HIDE DEF last
<1>6. a \in Seq(Lines) /\ Len(a) = 1 /\ a[1].key \in Settings
  <2> DEFINE l == Line(dash + 2, FALSE, "resources", "")
  <2>1. l \in Lines
    <3>1. dash + 2 \in Nat
      BY <1>4
    <3> QED BY <3>1, TextsUsed, LineTyped
  <2>2. l.key \in Settings
    BY DEF Line, Settings
  <2> HIDE DEF l
  <2>3. <<l>> \in Seq(Lines) /\ Len(<<l>>) = 1 /\ <<l>>[1] = l
    BY <2>1, OneLine
  <2> QED BY <2>2, <2>3 DEF l
<1>7. b \in Seq(Lines) /\ Len(b) = 2 /\ b[1].key \in Settings
      /\ b[2].key \in Settings
  <2>1. dash + 4 \in Nat
    BY <1>4
  <2> QED BY <2>1, LimitLinesTyped
<1> HIDE DEF a, b
<1>8. new \in Seq(Lines) /\ Len(new) = 3
      /\ \A j \in 1 .. 3 : new[j] = IF j <= 1 THEN a[j] ELSE b[j - 1]
  <2>1. /\ new \in Seq(Lines) /\ Len(new) = Len(a) + Len(b)
        /\ \A j \in 1 .. Len(a) + Len(b) :
            new[j] = IF j <= Len(a) THEN a[j] ELSE b[j - Len(a)]
    BY <1>6, <1>7, ConcatProperties
  <2> HIDE DEF new
  <2> QED BY <1>6, <1>7, <2>1
<1> HIDE DEF new
<1>9. Len(new) \in 0..3 /\ \A j \in 1 .. Len(new) : new[j].key \in Settings
  <2>1. new[1] = a[1] /\ new[2] = b[1] /\ new[3] = b[2]
    BY <1>8
  <2>2. \A j \in 1 .. 3 : j = 1 \/ j = 2 \/ j = 3
    OBVIOUS
  <2>3. \A j \in 1 .. 3 : new[j].key \in Settings
    BY <1>6, <1>7, <2>1, <2>2
  <2> QED BY <1>8, <2>3
<1>10. Edited(f, InsertAfter(f, last, new))
  BY <1>5, <1>8, <1>9, InsertionEdits
<1> QED BY <1>2, <1>10

LEMMA ApplyMemoryLimitEdits ==
    ASSUME NEW f \in Seq(Lines), NEW c, NEW v \in Texts,
           ApplyMemoryLimit(f, c, v) # Failed
    PROVE  Edited(f, ApplyMemoryLimit(f, c, v))
<1> DEFINE R == Region(f, c)
           limits == {i \in R : Heads(f[i], "limits")}
           resources == {i \in R : /\ Field(f[i], "resources")
                                   /\ f[i].value \in {"", "{}"}}
<1>1. R \subseteq DOMAIN f /\ limits \subseteq R /\ resources \subseteq R
  BY RegionInFile
<1>2. \A i \in resources : f[i].key = "resources"
  BY DEF Field
<1>3. ApplyMemoryLimit(f, c, v) =
        CASE R = {} -> Failed
          [] limits # {} -> WithLimits(f, R, limits, v)
          [] limits = {} /\ resources # {} ->
                WithResources(f, Min(resources), v)
          [] OTHER -> NewResources(f, R, c, v)
  BY DEF ApplyMemoryLimit
<1>4. R = {} => limits = {} /\ resources = {}
  OBVIOUS
<1> HIDE DEF R, limits, resources
<1>5. R # {}
  BY <1>3, <1>4
<1>6. CASE limits # {}
  <2>1. ApplyMemoryLimit(f, c, v) = WithLimits(f, R, limits, v)
    BY <1>3, <1>5, <1>6
  <2> QED BY <1>1, <1>6, <2>1, WithLimitsEdits
<1>7. CASE limits = {} /\ resources # {}
  <2>1. ApplyMemoryLimit(f, c, v) = WithResources(f, Min(resources), v)
    BY <1>3, <1>5, <1>7
  <2>2. resources \subseteq DOMAIN f
    BY <1>1
  <2>3. Min(resources) \in resources
    BY <1>7, <2>2, MinOfLines
  <2>4. f[Min(resources)].key \in Settings
    BY <1>2, <2>3 DEF Settings
  <2>5. Edited(f, WithResources(f, Min(resources), v))
    BY <2>2, <2>3, <2>4, WithResourcesEdits
  <2> QED BY <2>1, <2>5
<1>8. CASE limits = {} /\ resources = {}
  <2>1. ApplyMemoryLimit(f, c, v) = NewResources(f, R, c, v)
    BY <1>3, <1>5, <1>8
  <2> QED BY <1>1, <2>1, NewResourcesEdits
<1> QED BY <1>6, <1>7, <1>8

LEMMA ApplyEnvVarEdits ==
    ASSUME NEW f \in Seq(Lines), NEW k, NEW v \in Texts,
           ApplyEnvVar(f, k, v) # Failed
    PROVE  Edited(f, ApplyEnvVar(f, k, v))
<1> DEFINE named == Where(f, LAMBDA l : StartsEntry(l) /\ l.value = k)
           next == Min(named) + 1
<1>1. /\ next \in DOMAIN f /\ Field(f[next], "value")
      /\ ApplyEnvVar(f, k, v) = [f EXCEPT ![next].value = v]
  BY DEF ApplyEnvVar
<1> HIDE DEF next
<1>2. f[next].key \in Settings
  BY <1>1 DEF Field, Settings
<1>3. Edited(f, [f EXCEPT ![next].value = v])
  BY <1>1, <1>2, ValueEdits
<1> QED BY <1>1, <1>3

LEMMA ApplyImageTagEdits ==
    ASSUME NEW f \in Seq(Lines), NEW c, NEW t \in Texts,
           ApplyImageTag(f, c, t) # Failed
    PROVE  Edited(f, ApplyImageTag(f, c, t))
<1> DEFINE own == Where(f, LAMBDA l : StartsEntry(l) /\ l.value = c)
           reached(j) ==
                /\ own # {} /\ Min(own) < j
                /\ \A k \in Min(own)..j : StartsEntry(f[k]) => k \in own
           images == {j \in DOMAIN f : /\ Field(f[j], "image")
                                       /\ c = "" \/ reached(j)}
           i == Min(images)
<1>1. images # {} /\ ApplyImageTag(f, c, t) = [f EXCEPT ![i].tag = t]
  BY DEF ApplyImageTag
<1>2. images \subseteq DOMAIN f /\ \A j \in images : f[j].key \in Settings
  BY DEF Field, Settings
<1> HIDE DEF images
<1>3. i \in images
  BY <1>1, <1>2, MinOfLines
<1> HIDE DEF i
<1>4. Edited(f, [f EXCEPT ![i].tag = t])
  BY <1>2, <1>3, TagEdits
<1> QED BY <1>1, <1>4

LEMMA ImagesInFile ==
    ASSUME NEW f \in Seq(Lines) PROVE ImagesBlock(f) \subseteq DOMAIN f
<1> DEFINE heads == Where(f, LAMBDA l : Heads(l, "images"))
           head == Min(heads)
           block == {j \in (head + 1)..Len(f) : \A k \in (head + 1)..j :
                        \/ f[k].indent > f[head].indent
                        \/ f[k].dash
                        \/ f[k] = Separator}
<1>1. heads \subseteq DOMAIN f
  BY DEF Where
<1>2. ImagesBlock(f) = IF heads = {} THEN {} ELSE block
  BY DEF ImagesBlock
<1> HIDE DEF heads
<1>3. heads # {} => head \in DOMAIN f
  BY <1>1, MinOfLines
<1> HIDE DEF head
<1>4. head \in DOMAIN f => block \subseteq DOMAIN f
  <2>1. DOMAIN f = 1 .. Len(f) /\ Len(f) \in Nat
    OBVIOUS
  <2>2. block \subseteq (head + 1) .. Len(f)
    OBVIOUS
  <2> HIDE DEF block
  <2> QED BY <2>1, <2>2
<1> QED BY <1>2, <1>3, <1>4

LEMMA ApplyKustomizationEdits ==
    ASSUME NEW f \in Seq(Lines), NEW n, NEW t \in Texts,
           ApplyKustomizationImageTag(f, n, t) # Failed
    PROVE  Edited(f, ApplyKustomizationImageTag(f, n, t))
<1> DEFINE entries == KustomizationEntries(f, n)
           entry == Min(entries)
           fields == {j \in ImagesBlock(f) : j > entry /\
                    \A k \in (entry + 1)..j : f[k].indent > f[entry].indent}
           tags == {j \in fields : Field(f[j], "newTag")}
           last == Max(fields \cup {entry})
           l == Line(f[entry].indent + 2, FALSE, "newTag", t)
<1>1. ApplyKustomizationImageTag(f, n, t) =
        CASE entries = {} -> Failed
          [] entries # {} /\ tags # {} -> [f EXCEPT ![Min(tags)].value = t]
          [] OTHER -> InsertAfter(f, last, <<l>>)
  BY DEF ApplyKustomizationImageTag
<1>2. entries \subseteq DOMAIN f /\ fields \subseteq DOMAIN f
      /\ tags \subseteq DOMAIN f
  BY ImagesInFile DEF KustomizationEntries
<1>3. \A j \in tags : f[j].key \in Settings
  BY DEF Field, Settings
<1> HIDE DEF entries, fields, tags
<1>4. entries # {}
  BY <1>1
<1>5. entry \in DOMAIN f
  BY <1>2, <1>4, MinOfLines
<1>6. CASE tags # {}
  <2> DEFINE i == Min(tags)
  <2>1. i \in tags
    BY <1>2, <1>6, MinOfLines
  <2>2. ApplyKustomizationImageTag(f, n, t) = [f EXCEPT ![i].value = t]
    BY <1>1, <1>4, <1>6
  <2> HIDE DEF i
  <2>3. Edited(f, [f EXCEPT ![i].value = t])
    BY <1>2, <1>3, <2>1, ValueEdits
  <2> QED BY <2>2, <2>3
<1>7. CASE tags = {}
  <2>1. last \in DOMAIN f
    <3> DEFINE S == fields \cup {entry}
    <3>1. S \subseteq DOMAIN f /\ S # {}
      BY <1>2, <1>5
    <3> HIDE DEF S
    <3>2. Max(S) \in DOMAIN f
      BY <3>1, MaxOfLines
    <3> QED BY <3>2 DEF S
  <2>2. ApplyKustomizationImageTag(f, n, t) = InsertAfter(f, last, <<l>>)
    BY <1>1, <1>4, <1>7
  <2>3. l \in Lines
    <3>1. f[entry].indent \in Nat
      BY <1>5, IndentTyped
    <3>2. f[entry].indent + 2 \in Nat
      BY <3>1
    <3> QED BY <3>2, TextsUsed, LineTyped
  <2>4. l.key \in Settings
    BY DEF Line, Settings
  <2> HIDE DEF l, last
  <2> DEFINE new == <<l>>
  <2>5. new \in Seq(Lines) /\ Len(new) = 1 /\ new[1] = l
    BY <2>3, OneLine
  <2> HIDE DEF new
  <2>6. Len(new) \in 0..3 /\ \A j \in 1 .. Len(new) : new[j].key \in Settings
    BY <2>4, <2>5
  <2>7. Edited(f, InsertAfter(f, last, new))
    BY <2>1, <2>5, <2>6, InsertionEdits
  <2> QED BY <2>2, <2>7 DEF new
<1> QED BY <1>6, <1>7

(***************************************************************************)
(* One call.                                                               *)
(***************************************************************************)
Files == [base : STRING, lines : Seq(Lines)]

\* What holds of the state while the call is answered.
Call ==
    /\ request \in Requests
    /\ answer = "none" => clone \in Clones

LEMMA CallInvariant == Spec => []Call
<1>1. Init => Call
  BY DEF Init, Call
<1>2. Call /\ [Next]_vars => Call'
  BY DEF Call, Next, Patch, Refuse, vars
<1> QED BY <1>1, <1>2, PTL DEF Spec

\* An accepted request has its file among those of the clone.
LEMMA TargetInClone ==
    ASSUME clone \in Clones, Target(request) # 0
    PROVE  /\ Target(request) \in DOMAIN clone
           /\ clone \in Seq(Files)
           /\ clone[Target(request)] \in Files
<1>1. clone \in Seq(Files)
  BY PatcherAssumption DEF Files
<1>2. DOMAIN clone \subseteq Nat
  BY <1>1
<1>3. ASSUME NEW S \in SUBSET DOMAIN clone, First(S) # 0
      PROVE  First(S) \in DOMAIN clone
  <2>1. S # {} /\ First(S) = Min(S)
    BY <1>3 DEF First
  <2>2. S \subseteq Nat
    BY <1>2
  <2>3. Min(S) \in S
    BY <2>1, <2>2, MinExists
  <2> QED BY <2>1, <2>3
<1>4. /\ FindManifest(clone, request.pod) \in SUBSET DOMAIN clone
      /\ FindKustomization(clone, request.pod) \in SUBSET DOMAIN clone
  BY DEF FindManifest, FindKustomization
<1>5. Target(request) \in DOMAIN clone
  BY <1>3, <1>4 DEF Target
<1> QED BY <1>1, <1>5

LEMMA NewContentEdits ==
    ASSUME clone \in Clones, request \in Requests, Accepted(request)
    PROVE  Edited(clone[Target(request)].lines, NewContent(request))
<1> DEFINE f == clone[Target(request)].lines
<1>1. Target(request) # 0 /\ NewContent(request) # Failed
  BY DEF Accepted
<1>2. f \in Seq(Lines)
  BY <1>1, TargetInClone DEF Files
<1>3. request.value \in Texts
  BY PatcherAssumption
<1>4. NewContent(request) =
        CASE UsesKustomization(request) ->
                ApplyKustomizationImageTag(f, request.pod, request.value)
          [] request.type = "image_tag" /\ ~UsesKustomization(request) ->
                ApplyImageTag(f, request.container, request.value)
          [] request.type = "memory_limit" ->
                ApplyMemoryLimit(f, request.container, request.value)
          [] request.type = "env_var" ->
                ApplyEnvVar(f, request.key, request.value)
          [] OTHER -> Failed
  BY DEF NewContent
<1>5. UsesKustomization(request) => request.type = "image_tag"
  BY DEF UsesKustomization
<1> HIDE DEF f
<1>6. CASE UsesKustomization(request)
  <2>1. NewContent(request)
            = ApplyKustomizationImageTag(f, request.pod, request.value)
    BY <1>4, <1>5, <1>6
  <2> QED BY <1>1, <1>2, <1>3, <2>1, ApplyKustomizationEdits DEF f
<1>7. CASE request.type = "image_tag" /\ ~UsesKustomization(request)
  <2>1. NewContent(request)
            = ApplyImageTag(f, request.container, request.value)
    BY <1>4, <1>7
  <2> QED BY <1>1, <1>2, <1>3, <2>1, ApplyImageTagEdits DEF f
<1>8. CASE request.type = "memory_limit"
  <2>1. NewContent(request)
            = ApplyMemoryLimit(f, request.container, request.value)
    BY <1>4, <1>5, <1>8
  <2> QED BY <1>1, <1>2, <1>3, <2>1, ApplyMemoryLimitEdits DEF f
<1>9. CASE request.type = "env_var"
  <2>1. NewContent(request) = ApplyEnvVar(f, request.key, request.value)
    BY <1>4, <1>5, <1>9
  <2> QED BY <1>1, <1>2, <1>3, <2>1, ApplyEnvVarEdits DEF f
<1>10. CASE request.type \notin {"image_tag", "memory_limit", "env_var"}
  <2>1. NewContent(request) = Failed
    BY <1>4, <1>5, <1>10
  <2> QED BY <1>1, <2>1
<1> QED BY <1>6, <1>7, <1>8, <1>9, <1>10

\* What a patch does to the clone.
LEMMA PatchStep ==
    ASSUME Call, Patch
    PROVE  \E k \in DOMAIN clone :
            /\ DOMAIN clone' = DOMAIN clone
            /\ \A m \in DOMAIN clone \ {k} : clone'[m] = clone[m]
            /\ clone[k].lines \in Seq(Lines)
            /\ Edited(clone[k].lines, clone'[k].lines)
            /\ Unmarshals(clone'[k].lines)
<1> DEFINE k == Target(request)
           new == NewContent(request)
<1>1. clone \in Clones /\ request \in Requests /\ Accepted(request)
  BY DEF Call, Patch
<1>2. k \in DOMAIN clone /\ clone \in Seq(Files) /\ clone[k] \in Files
  BY <1>1, TargetInClone DEF Accepted
<1>3. Edited(clone[k].lines, new) /\ Unmarshals(new)
  BY <1>1, NewContentEdits DEF Accepted
<1>4. clone' = [clone EXCEPT ![k].lines = new]
  BY DEF Patch
<1> HIDE DEF k, new
<1>5. /\ DOMAIN clone' = DOMAIN clone
      /\ \A m \in DOMAIN clone \ {k} : clone'[m] = clone[m]
  BY <1>4
<1>6. clone'[k].lines = new
  <2>1. clone'[k] = [clone[k] EXCEPT !.lines = new]
    BY <1>2, <1>4
  <2> QED BY <1>2, <2>1 DEF Files
<1>7. clone[k].lines \in Seq(Lines)
  BY <1>2 DEF Files
<1> QED BY <1>2, <1>3, <1>5, <1>6, <1>7

\* In every clone and for every request a patch edits one file in one place
\* (patch.go:11-387, manifest_patcher.go:52-97).
THEOREM PatchEditsOnePlace == Spec => EditsOnePlace
<1> DEFINE OnePlace ==
        answer' = "patched" =>
            \E k \in DOMAIN clone :
                /\ \A m \in DOMAIN clone \ {k} : clone'[m] = clone[m]
                /\ \E i \in DOMAIN clone[k].lines, n \in 0..3 :
                    EditedAt(clone[k].lines, clone'[k].lines, i, n)
<1>1. ASSUME Call, [Next]_vars PROVE [OnePlace]_vars
  <2>1. CASE Patch
    BY <1>1, <2>1, PatchStep DEF Edited
  <2>2. CASE Refuse
    BY <2>2 DEF Refuse
  <2>3. CASE UNCHANGED vars
    BY <2>3
  <2> QED BY <1>1, <2>1, <2>2, <2>3 DEF Next
<1>2. Spec => [][OnePlace]_vars
  BY <1>1, CallInvariant, PTL DEF Spec
<1> QED BY <1>2 DEF EditsOnePlace

(***************************************************************************)
(* What the validation of one document is worth.                           *)
(***************************************************************************)
LEMMA SeparatorFields ==
    /\ Separator.indent = 0 /\ ~Separator.dash /\ Separator.key = "---"
    /\ \A n : Line(2, FALSE, "name", n) # Separator
<1>1. Separator.indent = 0 /\ Separator.key = "---"
  BY DEF Separator, Line
<1>2. ~Separator.dash
  BY DEF Separator, Line
<1>3. \A n : Line(2, FALSE, "name", n) # Separator
  BY DEF Separator, Line
<1> QED BY <1>1, <1>2, <1>3

Blank(l) == l.value = ""

LEMMA OpensBlank ==
    ASSUME NEW f, NEW i
    PROVE  Opens(f, i) <=>
            /\ Blank(f[i - 1]) /\ f[i - 1].key # "---"
            /\ \/ f[i].indent > Column(f[i - 1])
               \/ f[i].dash /\ f[i].indent = Column(f[i - 1])
BY DEF Opens, Blank

\* Continues, in the words of the line l that continues: m is the line above at
\* its place, and lines like k may stand between.
Aligned(l, m) ==
    IF l.dash THEN m.dash /\ m.indent = l.indent ELSE Column(m) = l.indent

Within(l, k) ==
    k.indent > l.indent \/ (~l.dash /\ k.dash /\ k.indent = l.indent)

LEMMA ContinuesBetween ==
    ASSUME NEW f, NEW i
    PROVE  Continues(f, i) <=>
            \E j \in 1..(i - 1) :
                /\ Aligned(f[i], f[j])
                /\ \A k \in (j + 1)..(i - 1) : Within(f[i], f[k])
<1>1. CASE f[i].dash
  BY <1>1 DEF Continues, Aligned, Within
<1>2. CASE ~f[i].dash
  BY <1>2 DEF Continues, Aligned, Within
<1> QED BY <1>1, <1>2

\* Lines of the same indentation and key.
SameShape(l, m) ==
    m.indent = l.indent /\ m.dash = l.dash /\ m.key = l.key

\* A line that opens a block does so wherever both lines are copied.
LEMMA OpensCopied ==
    ASSUME NEW f, NEW i, NEW g, NEW k, SameShape(f[i], g[k]),
           g[k - 1] = f[i - 1], Opens(f, i)
    PROVE  Opens(g, k)
<1>1. g[k].indent = f[i].indent /\ g[k].dash = f[i].dash
      /\ Column(g[k - 1]) = Column(f[i - 1])
  BY DEF SameShape
<1>2. /\ Blank(f[i - 1]) /\ f[i - 1].key # "---"
      /\ \/ f[i].indent > Column(f[i - 1])
         \/ f[i].dash /\ f[i].indent = Column(f[i - 1])
  BY OpensBlank
<1>3. Blank(g[k - 1]) /\ g[k - 1].key # "---"
  BY <1>2
<1>4. \/ g[k].indent > Column(g[k - 1])
      \/ g[k].dash /\ g[k].indent = Column(g[k - 1])
  BY <1>1, <1>2, Zenon
<1> QED BY <1>3, <1>4, OpensBlank

LEMMA NoSeparatorAdded ==
    ASSUME NEW old \in Seq(Lines), NEW new, Edited(old, new),
           Separators(old) \subseteq {1}
    PROVE  Separators(new) \subseteq {1}
<1>1. PICK i \in DOMAIN old, n \in 0..3 : EditedAt(old, new, i, n)
  BY DEF Edited
<1>2. /\ DOMAIN old = 1 .. Len(old) /\ Len(old) \in Nat
      /\ DOMAIN new = 1 .. Len(new) /\ Len(new) = Len(old) + n
  <2>1. new \in Seq(Lines)
    BY DEF Edited
  <2>2. Len(new) = Len(old) + n
    BY <1>1 DEF EditedAt
  <2> QED BY <2>1, <2>2
<1>3. \A j \in DOMAIN old : j # 1 => old[j] # Separator
  BY DEF Separators
<1>4. Separator.key \notin Settings
  BY DEF Separator, Line, Settings
<1>5. ASSUME NEW j \in DOMAIN new, j # 1 PROVE new[j] # Separator
  <2>1. CASE j < i
    <3>1. j \in 1..(i - 1) /\ j \in DOMAIN old
      BY <1>2, <2>1
    <3> QED BY <1>1, <1>3, <1>5, <3>1 DEF EditedAt
  <2>2. CASE j = i
    <3>1. new[i] # old[i] => old[i].key \in Settings
      BY <1>1 DEF EditedAt
    <3>2. new[i].key = old[i].key
      BY <1>1 DEF EditedAt
    <3> QED BY <1>3, <1>4, <1>5, <2>2, <3>1, <3>2
  <2>3. CASE j \in (i + 1)..(i + n)
    <3>1. new[j].key \in Settings
      BY <1>1, <2>3 DEF EditedAt
    <3> QED BY <1>4, <3>1
  <2>4. CASE j > i + n
    <3>1. /\ j - n \in (i + 1)..Len(old) /\ j - n \in DOMAIN old
          /\ (j - n) + n = j /\ j - n # 1
      BY <1>2, <2>4
    <3>2. new[(j - n) + n] = old[j - n]
      BY <1>1, <3>1 DEF EditedAt
    <3>3. new[j] = old[j - n]
      BY <3>1, <3>2
    <3> QED BY <1>3, <3>1, <3>3
  <2>5. j < i \/ j = i \/ j \in (i + 1)..(i + n) \/ j > i + n
    BY <1>2
  <2> QED BY <2>1, <2>2, <2>3, <2>4, <2>5
<1> QED BY <1>5 DEF Separators

LEMMA DocumentsOfOne ==
    ASSUME NEW f \in Seq(Lines), Separators(f) = {}, NEW d \in Documents(f)
    PROVE  d = f
<1> DEFINE bounds == {0, Len(f) + 1}
<1>1. bounds \cup Separators(f) = bounds
  OBVIOUS
<1>2. PICK p \in bounds \X bounds :
        p[1] < p[2] /\ d = SubSeq(f, p[1] + 1, p[2] - 1)
  BY <1>1 DEF Documents
<1>3. Len(f) \in Nat
  OBVIOUS
<1>4. p[1] \in bounds /\ p[2] \in bounds
  OBVIOUS
<1>5. p[1] + 1 = 1 /\ p[2] - 1 = Len(f)
  BY <1>2, <1>3, <1>4
<1>6. d = SubSeq(f, 1, Len(f))
  BY <1>2, <1>5
<1>7. /\ d \in Seq(Lines) /\ Len(d) = Len(f)
      /\ \A j \in 1 .. Len(f) : d[j] = f[j]
  <2>1. \A j \in 1 .. Len(f) : f[j] \in Lines
    OBVIOUS
  <2>2. /\ d \in Seq(Lines)
        /\ Len(d) = IF 1 <= Len(f) THEN Len(f) - 1 + 1 ELSE 0
        /\ \A j \in 1 .. Len(f) - 1 + 1 : d[j] = f[1 + j - 1]
    BY <1>3, <1>6, <2>1, SubSeqProperties
  <2> QED BY <1>3, <2>2
<1> QED BY <1>7, SeqEqual

\* The documents of a file that begins with its only separator: nothing, and
\* the lines after it.
LEMMA DocumentsAfterOne ==
    ASSUME NEW f \in Seq(Lines), Separators(f) = {1}, NEW d \in Documents(f)
    PROVE  \/ Len(d) = 0
           \/ /\ Len(d) = Len(f) - 1
              /\ \A j \in 1 .. Len(f) - 1 : d[j] = f[j + 1]
<1> DEFINE bounds == {0, 1, Len(f) + 1}
<1>1. bounds = {0, Len(f) + 1} \cup Separators(f)
  OBVIOUS
<1>2. PICK p \in bounds \X bounds :
        /\ p[1] < p[2] /\ d = SubSeq(f, p[1] + 1, p[2] - 1)
        /\ \A c \in bounds : c <= p[1] \/ c >= p[2]
  BY <1>1 DEF Documents
<1>3. Len(f) \in Nat /\ 1 \in DOMAIN f /\ DOMAIN f = 1 .. Len(f)
  BY DEF Separators
<1>4. p[1] \in {0, 1, Len(f) + 1} /\ p[2] \in {0, 1, Len(f) + 1}
      /\ (1 <= p[1] \/ 1 >= p[2])
  BY <1>2
<1>5. \/ p[1] = 0 /\ p[2] = 1
      \/ p[1] = 1 /\ p[2] = Len(f) + 1
  BY <1>2, <1>3, <1>4
<1>6. CASE p[1] = 0 /\ p[2] = 1
  <2>1. d = SubSeq(f, 1, 0)
    BY <1>2, <1>6
  <2> QED BY <1>3, <2>1, SubSeqProperties
<1>7. CASE p[1] = 1 /\ p[2] = Len(f) + 1
  <2>1. d = SubSeq(f, 2, Len(f))
    <3>1. p[1] + 1 = 2 /\ p[2] - 1 = Len(f)
      BY <1>3, <1>7
    <3> QED BY <1>2, <3>1
  <2>2. \A j \in 2 .. Len(f) : f[j] \in Lines
    BY <1>3
  <2>3. /\ Len(d) = IF 2 <= Len(f) THEN Len(f) - 2 + 1 ELSE 0
        /\ \A j \in 1 .. Len(f) - 2 + 1 : d[j] = f[2 + j - 1]
    BY <1>3, <2>1, <2>2, SubSeqProperties
  <2>4. Len(d) = Len(f) - 1
    <3>1. CASE 2 <= Len(f)
      BY <1>3, <2>3, <3>1
    <3>2. CASE ~(2 <= Len(f))
      <4>1. Len(f) = 1 /\ Len(d) = 0
        BY <1>3, <2>3, <3>2
      <4> QED BY <4>1
    <3> QED BY <3>1, <3>2
  <2>5. ASSUME NEW j \in 1 .. Len(f) - 1 PROVE d[j] = f[j + 1]
    <3>1. j \in 1 .. Len(f) - 2 + 1 /\ 2 + j - 1 = j + 1
      BY <1>3
    <3> QED BY <2>3, <3>1
  <2> QED BY <2>4, <2>5
<1> QED BY <1>5, <1>6, <1>7

\* What stands after a separator at the start of a file that parses is a
\* document that parses: no line of it has its place at the separator but the
\* keys of the left margin, and they have it at the first of them.
LEMMA AfterSeparator ==
    ASSUME NEW f \in Seq(Lines), f[1] = Separator, NEW d, NEW n \in Nat,
           WellFormedTo(f, n + 1), \A j \in 1 .. n : d[j] = f[j + 1]
    PROVE  WellFormedTo(d, n)
<1>1. ~f[1].dash /\ f[1].key = "---" /\ Column(f[1]) = 0
  BY SeparatorFields DEF Column
<1>2. ASSUME NEW i \in 2 .. n PROVE Opens(d, i) \/ Continues(d, i)
  <2>1. /\ i \in Int /\ i + 1 \in 2 .. (n + 1) /\ (i + 1) - 1 = i
        /\ i \in 1 .. n /\ i - 1 \in 1 .. n /\ (i - 1) + 1 = i
    OBVIOUS
  <2>2. d[i] = f[i + 1] /\ d[i - 1] = f[i]
    <3>1. d[i] = f[i + 1] /\ d[i - 1] = f[(i - 1) + 1]
      BY <2>1
    <3> QED BY <2>1, <3>1
  <2>3. Opens(f, i + 1) => Opens(d, i)
    <3>1. SameShape(f[i + 1], d[i]) /\ d[i - 1] = f[(i + 1) - 1]
      BY <2>1, <2>2 DEF SameShape
    <3> QED BY <3>1, OpensCopied
  <2>4. ASSUME NEW j \in 1 .. i, j # 1, Aligned(f[i + 1], f[j]),
               \A k \in (j + 1) .. i : Within(f[i + 1], f[k])
        PROVE  Continues(d, i)
    <3>1. /\ j - 1 \in 1 .. (i - 1) /\ j - 1 \in 1 .. n
          /\ (j - 1) + 1 = j
      BY <2>4
    <3>2. d[j - 1] = f[(j - 1) + 1]
      BY <3>1
    <3>3. Aligned(d[i], d[j - 1])
      BY <2>2, <2>4, <3>1, <3>2
    <3>4. ASSUME NEW k \in ((j - 1) + 1) .. (i - 1)
          PROVE  Within(d[i], d[k])
      <4>1. k \in 1 .. n /\ k + 1 \in (j + 1) .. i
        OBVIOUS
      <4> QED BY <2>2, <2>4, <4>1
    <3> QED BY <3>1, <3>3, <3>4, ContinuesBetween
  <2>5. ASSUME Aligned(f[i + 1], f[1]),
               \A k \in (1 + 1) .. i : Within(f[i + 1], f[k])
        PROVE  FALSE
    <3>1. ~f[i + 1].dash /\ f[i + 1].indent = 0
      BY <1>1, <2>5 DEF Aligned
    <3>2. Within(f[i + 1], f[2]) /\ 2 \in 2 .. (n + 1)
      <4>1. 2 \in (1 + 1) .. i /\ 2 \in 2 .. (n + 1)
        OBVIOUS
      <4> QED BY <2>5, <4>1
    <3>3. f[2].indent > 0 \/ f[2].dash
      BY <3>1, <3>2 DEF Within
    <3>4. f[2 - 1] = f[1]
      OBVIOUS
    <3>5. ~Opens(f, 2)
      BY <1>1, <3>4, OpensBlank
    <3>6. Continues(f, 2)
      BY <3>2, <3>5 DEF WellFormedTo
    <3>7. PICK j \in 1 .. (2 - 1) : Aligned(f[2], f[j])
      BY <3>6, ContinuesBetween
    <3>8. Aligned(f[2], f[1])
      BY <3>7
    <3>9. ~f[2].dash /\ f[2].indent = 0
      BY <1>1, <3>8 DEF Aligned
    <3> QED BY <3>3, <3>9
  <2>6. Continues(f, i + 1) => Continues(d, i)
    <3> SUFFICES ASSUME Continues(f, i + 1) PROVE Continues(d, i)
      OBVIOUS
    <3>1. PICK j \in 1 .. ((i + 1) - 1) :
            /\ Aligned(f[i + 1], f[j])
            /\ \A k \in (j + 1) .. ((i + 1) - 1) : Within(f[i + 1], f[k])
      BY ContinuesBetween
    <3>2. /\ j \in 1 .. i /\ Aligned(f[i + 1], f[j])
          /\ \A k \in (j + 1) .. i : Within(f[i + 1], f[k])
      BY <2>1, <3>1
    <3>3. CASE j = 1
      BY <2>5, <3>2, <3>3
    <3>4. CASE j # 1
      BY <2>4, <3>2, <3>4
    <3> QED BY <3>3, <3>4
  <2> QED BY <2>1, <2>3, <2>6 DEF WellFormedTo
<1> QED BY <1>2 DEF WellFormedTo

LEMMA OneDocumentParses ==
    ASSUME NEW f \in Seq(Lines), Separators(f) \subseteq {1}, Unmarshals(f)
    PROVE  WellFormed(f)
<1>1. WellFormedTo(f, Len(f)) /\ Len(f) \in Nat
  <2>1. Separators(f) \ {1} = {}
    OBVIOUS
  <2> QED BY <2>1 DEF Unmarshals
<1>2. CASE Separators(f) = {}
  BY <1>1, <1>2, DocumentsOfOne DEF WellFormed
<1>3. CASE Separators(f) = {1}
  <2>1. f[1] = Separator /\ Len(f) - 1 \in Nat /\ (Len(f) - 1) + 1 = Len(f)
    <3>1. f[1] = Separator /\ 1 \in DOMAIN f
      BY <1>3 DEF Separators
    <3> QED BY <1>1, <3>1
  <2>2. ASSUME NEW d \in Documents(f) PROVE WellFormedTo(d, Len(d))
    <3>1. CASE Len(d) = 0
      BY <3>1 DEF WellFormedTo
    <3>2. CASE /\ Len(d) = Len(f) - 1
               /\ \A j \in 1 .. Len(f) - 1 : d[j] = f[j + 1]
      BY <1>1, <2>1, <3>2, AfterSeparator
    <3> QED BY <1>3, <3>1, <3>2, DocumentsAfterOne
  <2> QED BY <2>2 DEF WellFormed
<1> QED BY <1>2, <1>3

\* Validation keeps every file of one document parsing, wherever the edit
\* lands: the edit adds no document, and the only one is the one validated
\* (manifest_patcher.go:86-90).
THEOREM ValidationSuffices == Spec => StaysWellFormed
<1> DEFINE Kept ==
        \A i \in DOMAIN clone :
            /\ Separators(clone[i].lines) \subseteq {1}
            /\ WellFormed(clone[i].lines)
            => WellFormed(clone'[i].lines)
<1>1. ASSUME Call, [Next]_vars PROVE [Kept]_vars
  <2>1. CASE Patch
    <3>1. PICK k \in DOMAIN clone :
            /\ \A m \in DOMAIN clone \ {k} : clone'[m] = clone[m]
            /\ clone[k].lines \in Seq(Lines)
            /\ Edited(clone[k].lines, clone'[k].lines)
            /\ Unmarshals(clone'[k].lines)
      BY <1>1, <2>1, PatchStep
    <3>2. ASSUME Separators(clone[k].lines) \subseteq {1}
          PROVE  WellFormed(clone'[k].lines)
      <4> DEFINE g == clone'[k].lines
      <4>1. g \in Seq(Lines) /\ Separators(g) \subseteq {1}
        BY <3>1, <3>2, NoSeparatorAdded DEF Edited
      <4>2. Unmarshals(g)
        BY <3>1
      <4> HIDE DEF g
      <4>3. WellFormed(g)
        BY <4>1, <4>2, OneDocumentParses
      <4> QED BY <4>3 DEF g
    <3> QED BY <3>1, <3>2
  <2>2. CASE Refuse
    BY <2>2 DEF Refuse
  <2>3. CASE UNCHANGED vars
    BY <2>3
  <2> QED BY <1>1, <2>1, <2>2, <2>3 DEF Next
<1>2. Spec => [][Kept]_vars
  BY <1>1, CallInvariant, PTL DEF Spec
<1> QED BY <1>2 DEF StaysWellFormed

=============================================================================
