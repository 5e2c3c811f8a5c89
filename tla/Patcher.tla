------------------------------ MODULE Patcher -------------------------------
(***************************************************************************)
(* ManifestPatcher.Apply (internal/patcher): find the file that declares   *)
(* the failing workload, edit it line by line, check that the result still *)
(* parses, write it.  The edits never build a YAML tree: they look for     *)
(* lines by their text and trust their indentation.  Each call gets a      *)
(* fresh clone (OpenPR), so a behaviour is one call.                       *)
(*                                                                         *)
(* The text of a line is abstracted as Manifest says; reading and writing  *)
(* files is taken to succeed (OpenPR lets Apply fail anyway).              *)
(***************************************************************************)
EXTENDS Manifest, FiniteSetsExt

CONSTANTS
    Clones,     \* clones of the repository: the YAML files in walk order,
                \* each [base |-> file name, lines |-> content]
    Requests    \* [type, pod, container, key, value]: the diagnosis and the
                \* event, pod being the workload name derived from it; key is
                \* the part of an env_var value before '=', "" without one

ASSUME PatcherAssumption ==
    /\ {"", "resources", "limits", "memory", "newTag"} \subseteq Texts
    /\ Clones \subseteq Seq([base : STRING, lines : Seq(Lines)])
    /\ Requests \subseteq [type : STRING, pod : Texts, container : Texts,
                           key : Texts, value : Texts]

VARIABLES
    clone,      \* the files on disk
    request,    \* the request being answered
    answer      \* "none", "patched" or "failed"

vars == <<clone, request, answer>>

\* The content an edit returns with its error.
Failed == <<>>

StartsEntry(l) == l.dash /\ l.key = "name"
Heads(l, key) == ~l.dash /\ l.key = key /\ l.value = ""
Field(l, key) == ~l.dash /\ l.key = key

Where(f, Test(_)) == {i \in DOMAIN f : Test(f[i])}

\* Mutant: an insertion takes the place of a line.
InsertOver(f, i, new) == SubSeq(f, 1, i) \o new \o SubSeq(f, i + 2, Len(f))

\* f with the lines new after line i.
InsertAfter(f, i, new) == SubSeq(f, 1, i) \o new \o SubSeq(f, i + 1, Len(f))

----------------------------------------------------------------------------
(* applyMemoryLimit *)

LimitLines(indent, v) ==
    << Line(indent, FALSE, "limits", ""),
       Line(indent + 2, FALSE, "memory", v) >>

\* Mutant: the search does not stop at the next entry.
RegionToEnd(f, c) ==
    LET own == Where(f, LAMBDA l : StartsEntry(l) /\ l.value = c)
    IN  CASE c = "" -> DOMAIN f
          [] c # "" /\ own = {} -> {}
          [] OTHER -> Min(own)..Len(f)

\* The lines searched for container c, from the last `- name: c` before it to
\* the first `- name:` of another entry after it; none if there is no c.
Region(f, c) ==
    LET own == Where(f, LAMBDA l : StartsEntry(l) /\ l.value = c)
        next == {j \in Where(f, StartsEntry) :
                    f[j].value # c /\ \E i \in own : i < j}
        end == IF next = {} THEN Len(f) ELSE Min(next) - 1
    IN  CASE c = "" -> DOMAIN f
          [] c # "" /\ own = {} -> {}
          [] OTHER -> Max({i \in own : i <= end})..end

\* Cases 1 and 2: the block of `limits:` has a memory line, which is updated,
\* or ends, and gets one.
WithLimits(f, R, limits, v) ==
    LET open(j) == Max({i \in limits : i < j})
        leaves(j) == f[j].indent <= f[open(j)].indent
        stops == {j \in R \ limits :
                    /\ \E i \in limits : i < j
                    /\ leaves(j) \/ Field(f[j], "memory")}
        stop == Min(stops)
        memory(i) == <<Line(f[i].indent + 2, FALSE, "memory", v)>>
    IN  IF stops = {} THEN InsertAfter(f, Max(R), memory(Max(limits)))
        ELSE IF leaves(stop) THEN InsertAfter(f, stop - 1, memory(open(stop)))
        ELSE [f EXCEPT ![stop].value = v]

\* Cases 3 and 4: `resources:` or `resources: {}` gets the limit.
WithResources(f, i, v) ==
    [InsertAfter(f, i, LimitLines(f[i].indent + 2, v)) EXCEPT ![i].value = ""]

\* Case 5: the entry of c, or the first entry, gets a resources block at the
\* line where the indentation returns to the entry's dash.
NewResources(f, R, c, v) ==
    LET items == {i \in R : StartsEntry(f[i]) /\ c \in {"", f[i].value}}
        item == Min(items)
        dash == f[item].indent
        ends == {j \in R : j > item /\ f[j].indent <= dash}
        last == IF ends = {} THEN Max(R) ELSE Min(ends) - 1
    IN  IF items = {} THEN Failed
        ELSE InsertAfter(f, last,
                 <<Line(dash + 2, FALSE, "resources", "")>>
                     \o LimitLines(dash + 4, v))

ApplyMemoryLimit(f, c, v) ==
    LET R == Region(f, c)
        limits == {i \in R : Heads(f[i], "limits")}
        resources == {i \in R : /\ Field(f[i], "resources")
                                /\ f[i].value \in {"", "{}"}}
    IN  CASE R = {} -> Failed
          [] limits # {} -> WithLimits(f, R, limits, v)
          [] limits = {} /\ resources # {} ->
                WithResources(f, Min(resources), v)
          [] OTHER -> NewResources(f, R, c, v)

----------------------------------------------------------------------------
(* applyEnvVar, applyImageTag, applyKustomizationImageTag *)

\* Mutant: the line of the name is overwritten instead of the next.
ApplyEnvVarToName(f, k, v) ==
    LET named == Where(f, LAMBDA l : StartsEntry(l) /\ l.value = k)
    IN  IF named = {} THEN Failed ELSE [f EXCEPT ![Min(named)].value = v]

\* There must be a key, and the first entry of that name must have its value
\* on the next line.
ApplyEnvVar(f, k, v) ==
    LET named == Where(f, LAMBDA l : StartsEntry(l) /\ l.value = k)
        next == Min(named) + 1
    IN  IF /\ k # "" /\ named # {}
           /\ next \in DOMAIN f /\ Field(f[next], "value")
        THEN [f EXCEPT ![next].value = v]
        ELSE Failed

\* Mutant: the container is not looked for.
ApplyFirstImageTag(f, c, t) ==
    LET images == Where(f, LAMBDA l : Field(l, "image"))
    IN  IF images = {} THEN Failed ELSE [f EXCEPT ![Min(images)].tag = t]

\* The first image line after the first `- name: c`, before another entry.
ApplyImageTag(f, c, t) ==
    LET own == Where(f, LAMBDA l : StartsEntry(l) /\ l.value = c)
        reached(j) ==
            /\ own # {} /\ Min(own) < j
            /\ \A k \in Min(own)..j : StartsEntry(f[k]) => k \in own
        images == {j \in DOMAIN f : /\ Field(f[j], "image")
                                    /\ c = "" \/ reached(j)}
    IN  IF images = {} THEN Failed ELSE [f EXCEPT ![Min(images)].tag = t]

\* The lines of the first `images:` block: up to a line at or left of its
\* indentation that does not begin with a hyphen, as a separator does, too.
ImagesBlock(f) ==
    LET heads == Where(f, LAMBDA l : Heads(l, "images"))
        head == Min(heads)
    IN  IF heads = {} THEN {}
        ELSE {j \in (head + 1)..Len(f) : \A k \in (head + 1)..j :
                \/ f[k].indent > f[head].indent
                \/ f[k].dash
                \/ f[k] = Separator}

\* Mutant: names of other lists count as images.
KustomizationNames(f, n) ==
    Where(f, LAMBDA l : l.key = "name" /\ l.value = n)

KustomizationEntries(f, n) ==
    {j \in ImagesBlock(f) : f[j].key = "name" /\ f[j].value = n}

ApplyKustomizationImageTag(f, n, t) ==
    LET entries == KustomizationEntries(f, n)
        entry == Min(entries)
        fields == {j \in ImagesBlock(f) : j > entry /\
                    \A k \in (entry + 1)..j : f[k].indent > f[entry].indent}
        tags == {j \in fields : Field(f[j], "newTag")}
    IN  CASE entries = {} -> Failed
          [] entries # {} /\ tags # {} -> [f EXCEPT ![Min(tags)].value = t]
          [] OTHER ->
                InsertAfter(f, Max(fields \cup {entry}),
                    <<Line(f[entry].indent + 2, FALSE, "newTag", t)>>)

----------------------------------------------------------------------------
(* Finding the file *)

\* A name at indentation 2 after a line of the right kind in its document.
ContainsDeployment(f, n) ==
    \E i \in DOMAIN f, k \in DOMAIN f :
        /\ k < i
        /\ f[i] = Line(2, FALSE, "name", n)
        /\ Field(f[k], "kind")
        /\ f[k].value \in {"Deployment", "StatefulSet"}
        /\ \A j \in (k + 1)..(i - 1) :
            f[j] # Separator /\ ~Field(f[j], "kind")

FindManifest(cl, n) == {i \in DOMAIN cl : ContainsDeployment(cl[i].lines, n)}

FindKustomization(cl, n) ==
    {i \in DOMAIN cl : /\ cl[i].base = "kustomization"
                       /\ KustomizationEntries(cl[i].lines, n) # {}}

\* The walk stops at the first match; 0 is an error.
First(files) == IF files = {} THEN 0 ELSE Min(files)

UsesKustomization(r) ==
    r.type = "image_tag" /\ FindKustomization(clone, r.pod) # {}

Target(r) ==
    IF UsesKustomization(r)
    THEN First(FindKustomization(clone, r.pod))
    ELSE First(FindManifest(clone, r.pod))

NewContent(r) ==
    LET f == clone[Target(r)].lines IN
    CASE UsesKustomization(r) ->
            ApplyKustomizationImageTag(f, r.pod, r.value)
      [] r.type = "image_tag" /\ ~UsesKustomization(r) ->
            ApplyImageTag(f, r.container, r.value)
      [] r.type = "memory_limit" -> ApplyMemoryLimit(f, r.container, r.value)
      [] r.type = "env_var" -> ApplyEnvVar(f, r.key, r.value)
      [] OTHER -> Failed

\* Mutant: the result is not validated.
UnmarshalsAll(f) == TRUE

\* yaml.Unmarshal reads the first document and no more, whether or not the file
\* begins with a separator.
Unmarshals(f) ==
    LET ends == Separators(f) \ {1} IN
    WellFormedTo(f, IF ends = {} THEN Len(f) ELSE Min(ends) - 1)

Accepted(r) ==
    /\ Target(r) # 0
    /\ NewContent(r) # Failed
    /\ Unmarshals(NewContent(r))

----------------------------------------------------------------------------

Init ==
    /\ clone \in Clones
    /\ request \in Requests
    /\ answer = "none"

Patch ==
    /\ answer = "none"
    /\ Accepted(request)
    /\ clone' = [clone EXCEPT ![Target(request)].lines = NewContent(request)]
    /\ answer' = "patched"
    /\ UNCHANGED request

Refuse ==
    /\ answer = "none"
    /\ ~Accepted(request)
    /\ answer' = "failed"
    /\ UNCHANGED <<clone, request>>

Next == Patch \/ Refuse

Spec == Init /\ [][Next]_vars

----------------------------------------------------------------------------
(* Correctness, in the terms of Manifest *)

\* The file the request is about: the first that declares the workload.
ManifestFile == First({i \in DOMAIN clone :
                        Declares(clone[i].lines, request.pod)})

OverlayFile == First({i \in DOMAIN clone :
                    /\ clone[i].base = "kustomization"
                    /\ Entry(clone[i].lines, "images", request.pod) # {}})

\* A manifest as kubectl and people write it: the kind of a document comes once
\* and before its metadata, and in a workload only metadata has a name at
\* indentation two.
Standard(f) ==
    LET kinds == Where(f, LAMBDA l : Field(l, "kind"))
        metadata == Where(f, LAMBDA l : TopLevel(l, "metadata"))
    IN  /\ \A m \in metadata, k \in kinds : SameDocument(f, k, m) =>
            IF k < m THEN f[k].indent = 0
            ELSE f[k].indent > 0 /\ k \notin Block(f, m)
        /\ \A m \in metadata, j, k \in kinds :
            /\ j < m /\ SameDocument(f, j, m)
            /\ k < m /\ SameDocument(f, k, m)
            => j = k
        /\ \A k \in kinds, i \in DOMAIN f :
            /\ k < i /\ SameDocument(f, k, i)
            /\ f[k].value \in {"Deployment", "StatefulSet"}
            /\ f[i].indent = 2 /\ ~f[i].dash /\ f[i].key = "name"
            => \E m \in metadata : i \in Block(f, m)

\* A kustomization as kustomize writes it: one document, after a separator
\* perhaps, with at most one images list, at the top, of entries without nested
\* values; an entry gives no key twice, and no two entries give the same name.
Simple(f) ==
    LET heads == Where(f, LAMBDA l : l.key = "images" /\ l.value = "") IN
    /\ Separators(f) \subseteq {1}
    /\ \A h \in heads : TopLevel(f[h], "images") /\ heads = {h}
    /\ \A h \in heads : \A i \in Block(f, h) :
        /\ Column(f[i]) = f[h + 1].indent + 2
        /\ f[i].dash => \A j, k \in Item(f, i) : f[j].key = f[k].key => j = k
        /\ \A j \in Block(f, h) :
            f[i].key = "name" /\ f[j].key = "name" /\ f[i].value = f[j].value
            => i = j

\* The files are laid out as the searches for the file expect.
StandardClone ==
    \A i \in DOMAIN clone :
        /\ Standard(clone[i].lines)
        /\ clone[i].base = "kustomization" => Simple(clone[i].lines)

\* The layout the line search is written for: every list entry begins with its
\* name and gives it once, and no other entry of the file carries the name.
Plain(f, name) ==
    /\ \A i \in DOMAIN f : f[i].dash =>
        /\ f[i].key = "name"
        /\ \A j \in Item(f, i) \ {i} :
            ~(f[j].key = "name" /\ Column(f[j]) = f[i].indent + 2)
    /\ \A i, j \in DOMAIN f :
        f[i].dash /\ f[j].dash /\ f[i].value = name /\ f[j].value = name
            => i = j

\* The resources of container c as kubectl writes them: given once, with one
\* block of limits and in it one memory limit at most, without lists and
\* indented by two.  What has resources or limits, too, comes after the next
\* list entry.
OwnResources(f, c) ==
    LET entry == Entry(f, "containers", c)
        known == Resources(f, c)
        limits == {i \in entry : f[i].key = "limits"}
    IN  /\ entry # {}
        /\ \A i, j \in known : i = j
        /\ \A i, j \in limits : i = j
        /\ \A i \in known :
            /\ f[i].value \in {"", "{}"}
            /\ \A j \in Block(f, i) : ~f[j].dash
            /\ i + 1 \in Block(f, i) => f[i + 1].indent = f[i].indent + 2
        /\ \A i \in limits :
            /\ f[i].value = ""
            /\ \E r \in known : i \in Block(f, r)
            /\ \A j \in Block(f, i) : f[j].indent = f[i].indent + 2
            /\ \A j, k \in Block(f, i) :
                f[j].key = "memory" /\ f[k].key = "memory" => j = k
        /\ \A h \in entry, i \in DOMAIN f \ entry :
            h < i /\ f[i].key \in {"resources", "limits"} =>
                \E j \in DOMAIN f \ entry : f[j].dash /\ h < j /\ j <= i

\* No named entry inside container c comes before its resources.
ResourcesFirst(f, c) ==
    LET inner == {i \in Entry(f, "containers", c) :
                    f[i].dash /\ f[i].value # c}
        known == Resources(f, c)
    IN  \A i \in inner : \E r \in known : r < i

\* The step answers a request of that type.
Answers(type) ==
    answer' # answer /\ request.type = type

Settings == {"resources", "limits", "memory", "image", "newTag", "value"}

\* new is old with n lines inserted after line i, and i with another value or
\* tag perhaps, all of them settings.
EditedAt(old, new, i, n) ==
    /\ Len(new) = Len(old) + n
    /\ \A j \in 1..(i - 1) : new[j] = old[j]
    /\ \A j \in (i + 1)..Len(old) : new[j + n] = old[j]
    /\ \A j \in (i + 1)..(i + n) : new[j].key \in Settings
    /\ \A x \in {"indent", "dash", "key"} : new[i][x] = old[i][x]
    /\ new[i] # old[i] => old[i].key \in Settings

\* Line j of a file of which n lines have been inserted after line i.
Moved(i, n, j) == IF j <= i THEN j ELSE j + n

\* Container c of new has one memory limit, v; nothing but what belongs to the
\* limit is inserted or changed, and no other line of old has come to belong to
\* it or does so no more.
SetsLimit(old, new, c, v) ==
    /\ \E m \in Memory(new, c) : Memory(new, c) = {m} /\ new[m].value = v
    /\ \E i \in DOMAIN old, n \in 0..3 :
        /\ EditedAt(old, new, i, n)
        /\ Limit(new, c) =
            {Moved(i, n, j) : j \in Limit(old, c)} \cup (i + 1)..(i + n)
        /\ new[i] # old[i] => i \in Limit(new, c)

\* Whatever the layout, and wherever the search goes astray, a patch edits one
\* file in one place: no line is lost, moved or turned into another key
\* (patch.go:11-387, manifest_patcher.go:52-97).
EditsOnePlace ==
    [][answer' = "patched" =>
        \E k \in DOMAIN clone :
            /\ \A m \in DOMAIN clone \ {k} : clone'[m] = clone[m]
            /\ \E i \in DOMAIN clone[k].lines, n \in 0..3 :
                EditedAt(clone[k].lines, clone'[k].lines, i, n)]_vars

\* A file of one document that parsed still parses after the patch, whether or
\* not it begins with a separator (manifest_patcher.go:86-90).
StaysWellFormed ==
    [][\A i \in DOMAIN clone :
        /\ Separators(clone[i].lines) \subseteq {1}
        /\ WellFormed(clone[i].lines)
        => WellFormed(clone'[i].lines)]_vars

\* In a plain file a memory limit that is written is the limit of the
\* container asked for, once, and nothing else changes, as long as every
\* document of the result parses (only the first is validated).  It is written
\* whenever no named entry of the container precedes its resources, and refused
\* if nothing has its name (patch.go:11-213).
MemoryLimitSet ==
    [][Answers("memory_limit") /\ request.container # "" /\ request.value # ""
            /\ StandardClone /\ ManifestFile # 0 =>
        LET c == request.container
            old == clone[ManifestFile].lines
            new == clone'[ManifestFile].lines
        IN  Plain(old, c) =>
            /\ OwnResources(old, c) /\ answer' = "patched" /\ WellFormed(new) =>
                /\ clone' = [clone EXCEPT ![ManifestFile].lines = new]
                /\ SetsLimit(old, new, c, request.value)
            /\ OwnResources(old, c) /\ ResourcesFirst(old, c)
                    /\ Unmarshals(old) =>
                answer' = "patched"
            /\ (\A j \in DOMAIN old : old[j].dash => old[j].value # c) =>
                answer' = "failed"]_vars

\* In a plain file the tag that is written is that of the container's first
\* image and no other line changes.  It is written unless the container has a
\* list of named entries before it, and refused if nothing has its name
\* (patch.go:257-310).
ImageTagSet ==
    [][Answers("image_tag") /\ request.container # "" /\ StandardClone
            /\ OverlayFile = 0 /\ ManifestFile # 0 =>
        LET c == request.container
            old == clone[ManifestFile].lines
            i == Min(Image(old, c))
        IN  Plain(old, c) =>
            /\ Image(old, c) # {} /\ answer' = "patched" =>
                clone' = [clone EXCEPT
                            ![ManifestFile].lines[i].tag = request.value]
            /\ /\ Image(old, c) # {} /\ Unmarshals(old)
               /\ \A j \in Entry(old, "containers", c) :
                    j < i /\ old[j].dash => old[j].value = c
               => answer' = "patched"
            /\ (\A j \in DOMAIN old : old[j].dash => old[j].value # c) =>
                answer' = "failed"]_vars

\* A tag written to an overlay is the newTag of the workload's entry, replaced
\* or added to it, and no other line changes; entries that begin with their name
\* are always served (patch.go:315-387, find.go:62-129).
OverlayTagSet ==
    [][Answers("image_tag") /\ request.pod # "" /\ StandardClone
            /\ OverlayFile # 0 =>
        LET n == request.pod
            old == clone[OverlayFile].lines
            new == clone'[OverlayFile].lines
        IN  /\ answer' = "patched" =>
                /\ clone' = [clone EXCEPT ![OverlayFile].lines = new]
                /\ \E j \in DOMAIN new :
                    /\ NewTag(new, n) = {j} /\ new[j].value = request.value
                    /\ IF NewTag(old, n) = {}
                       THEN new = InsertAfter(old, j - 1, <<new[j]>>)
                       ELSE new = [old EXCEPT ![j] = new[j]]
            /\ /\ Unmarshals(old)
               /\ \A i \in DOMAIN old : old[i].dash => old[i].key = "name"
               => answer' = "patched"]_vars

\* When one entry of the file carries the variable's name and the variable has
\* a value, only that value changes, and it does if it follows the name; a
\* variable that has something else than a value is refused, and so is one that
\* is not there (patch.go:224-251).
EnvVarSet ==
    [][Answers("env_var") /\ StandardClone /\ ManifestFile # 0 =>
        LET k == request.key
            old == clone[ManifestFile].lines
            entry == Entry(old, "env", k)
            at == EnvValue(old, k)
        IN  Plain(old, k) =>
            /\ at # {} /\ answer' = "patched" =>
                clone' = [clone EXCEPT
                            ![ManifestFile].lines[Min(at)].value =
                                request.value]
            /\ /\ k # "" /\ at # {} /\ Unmarshals(old)
               /\ old[Min(at) - 1].dash /\ old[Min(at) - 1].value = k
               /\ old[Min(at)].value # ""
               => answer' = "patched"
            /\ \/ k = ""
               \/ \A j \in DOMAIN old : old[j].dash => old[j].value # k
               \/ at = {} /\ \E j \in entry : ~old[j].dash
               => answer' = "failed"]_vars

\* What the comment of applyMemoryLimit says (patch.go:13): a limits.memory
\* line that exists is updated.
ExistingLimitIsUpdated ==
    [][Answers("memory_limit") /\ request.container # "" /\ ManifestFile # 0 =>
        LET c == request.container
            old == clone[ManifestFile].lines
        IN  Plain(old, c) /\ Memory(old, c) # {} => answer' = "patched"]_vars

\* What the comment of applyMemoryLimit says (patch.go:18-20): the patch is
\* scoped to the named container; no line outside its entry changes.
ScopedToContainer ==
    [][Answers("memory_limit") /\ request.container # "" /\ ManifestFile # 0
            /\ answer' = "patched" =>
        LET entry(f) == Entry(f, "containers", request.container)
            old == clone[ManifestFile].lines
            new == clone'[ManifestFile].lines
        IN  Without(new, entry(new)) = Without(old, entry(old))]_vars

=============================================================================
