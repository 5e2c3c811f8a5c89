------------------------------ MODULE Manifest ------------------------------
(***************************************************************************)
(* YAML manifests as the patcher's files hold them: block style, one key   *)
(* to a line, indentation in spaces, no blank or comment lines.  A line is *)
(*     [indent, dash, key, value, tag]                                     *)
(* where dash marks the first line of a list entry, value is "" when the   *)
(* value is the block below, and tag is what follows the last ':' of an    *)
(* image.  A file is a sequence of lines.                                  *)
(*                                                                         *)
(* This module is what the text MEANS, by YAML's indentation rules and the *)
(* Kubernetes names; it is the reference the patcher's edits are held to.  *)
(***************************************************************************)
EXTENDS Integers, Sequences, FiniteSets

CONSTANT Texts      \* of keys, values and tags

Lines == [indent : Nat, dash : BOOLEAN, key : Texts, value : Texts, tag : Texts]

Line(indent, dash, key, value) ==
    [indent |-> indent, dash |-> dash, key |-> key, value |-> value,
     tag |-> ""]

Separator == Line(0, FALSE, "---", "")

\* The column at which the key of line l stands.
Column(l) == IF l.dash THEN l.indent + 2 ELSE l.indent

\* A key of the outermost mapping of its document.
TopLevel(l, key) == l.indent = 0 /\ ~l.dash /\ l.key = key

----------------------------------------------------------------------------
(* Well-formedness *)

\* Line i opens the block that is the value of the line before.
Opens(f, i) ==
    LET above == f[i - 1] IN
    /\ above.value = "" /\ above.key # "---"
    /\ \/ f[i].indent > Column(above)
       \/ f[i].dash /\ f[i].indent = Column(above)

\* Line i is the next entry of a block still open: the closest line with the
\* same place in a mapping, or in a list, with only deeper lines between.
Continues(f, i) ==
    \E j \in 1..(i - 1) :
        IF f[i].dash
        THEN /\ f[j].dash /\ f[j].indent = f[i].indent
             /\ \A k \in (j + 1)..(i - 1) : f[k].indent > f[i].indent
        ELSE /\ Column(f[j]) = f[i].indent
             /\ \A k \in (j + 1)..(i - 1) :
                    \/ f[k].indent > f[i].indent
                    \/ f[k].dash /\ f[k].indent = f[i].indent

\* The lines 1..n of f are one document a YAML parser accepts.  (It accepts
\* a key given twice.)  When line 1 is a separator, the document is what comes
\* after it, a mapping at the left margin as every manifest is.
WellFormedTo(f, n) ==
    \A i \in 2..n : Opens(f, i) \/ Continues(f, i)

Separators(f) == {i \in DOMAIN f : f[i] = Separator}

Documents(f) ==
    LET bounds == {0, Len(f) + 1} \cup Separators(f) IN
    {SubSeq(f, p[1] + 1, p[2] - 1) :
        p \in {q \in bounds \X bounds :
                /\ q[1] < q[2]
                /\ \A c \in bounds : c <= q[1] \/ c >= q[2]}}

\* Every document of f parses.
WellFormed(f) == \A d \in Documents(f) : WellFormedTo(d, Len(d))

----------------------------------------------------------------------------
(* Blocks and named list entries *)

\* The lines of the value of line i.
Block(f, i) ==
    {j \in (i + 1)..Len(f) : \A k \in (i + 1)..j :
        \/ f[k].indent > Column(f[i])
        \/ f[k].dash /\ f[k].indent = Column(f[i])}

\* The lines of the list entry that starts at line i.
Item(f, i) ==
    {i} \cup {j \in (i + 1)..Len(f) :
                \A k \in (i + 1)..j : f[k].indent > f[i].indent}

Items(f, list) ==
    {i \in DOMAIN f :
        /\ f[i].dash
        /\ \E k \in DOMAIN f :
            /\ f[k].key = list /\ f[k].value = "" /\ i \in Block(f, k)
            /\ f[i].indent = f[k + 1].indent}

Named(f, i, name) ==
    \E j \in Item(f, i) :
        /\ f[j].key = "name" /\ f[j].value = name
        /\ Column(f[j]) = f[i].indent + 2

\* The lines of the entries of that name in a list.
Entry(f, list, name) ==
    UNION {Item(f, i) : i \in {h \in Items(f, list) : Named(f, h, name)}}

\* The lines with key `key` directly or further below the lines S.
Below(f, S, key) ==
    {j \in UNION {Block(f, i) : i \in S} : f[j].key = key}

----------------------------------------------------------------------------
(* The settings the patcher is asked to change *)

Resources(f, c) ==
    {i \in Entry(f, "containers", c) : f[i].key = "resources"}

Memory(f, c) ==
    Below(f, Below(f, Resources(f, c), "limits"), "memory")

\* The memory limit of container c with the keys that lead to it.
Limit(f, c) ==
    Resources(f, c) \cup Below(f, Resources(f, c), "limits")
        \cup Memory(f, c)

Image(f, c) == {i \in Entry(f, "containers", c) : f[i].key = "image"}

EnvValue(f, k) == {i \in Entry(f, "env", k) : f[i].key = "value"}

NewTag(f, n) == {i \in Entry(f, "images", n) : f[i].key = "newTag"}

\* No document ends between lines i and j.
SameDocument(f, i, j) ==
    \A s \in Separators(f) : (s < i /\ s < j) \/ (s > i /\ s > j)

\* f has a document that is the manifest of workload n, by its kind and by the
\* name in its metadata.
Declares(f, n) ==
    \E k, m \in DOMAIN f :
        /\ SameDocument(f, k, m)
        /\ TopLevel(f[k], "kind")
        /\ f[k].value \in {"Deployment", "StatefulSet"}
        /\ TopLevel(f[m], "metadata")
        /\ \E j \in Block(f, m) : f[j] = Line(2, FALSE, "name", n)

\* f without the lines S.
Without(f, S) ==
    LET keep == DOMAIN f \ S
        rest == SelectSeq([i \in DOMAIN f |-> i], LAMBDA i : i \in keep)
    IN  [n \in DOMAIN rest |-> f[rest[n]]]

=============================================================================
