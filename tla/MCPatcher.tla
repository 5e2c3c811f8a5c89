----------------------------- MODULE MCPatcher ------------------------------
(***************************************************************************)
(* Manifests for TLC: workload "web" with container "app" in each layout   *)
(* of its resources and environment that applyMemoryLimit tells apart,     *)
(* with and without a second container, a trailing list, a second document *)
(* and a kustomization file.  The levels between the top of a manifest and *)
(* its containers are left out.                                            *)
(***************************************************************************)
EXTENDS Patcher

key(indent, k) == Line(indent, FALSE, k, "")
field(indent, k, v) == Line(indent, FALSE, k, v)
item(indent, k, v) == Line(indent, TRUE, k, v)
image(indent, v, t) == [field(indent, "image", v) EXCEPT !.tag = t]

limits(n, k) == <<key(n, "limits"), field(n + 2, k, "old")>>
requests(n) == <<key(n, "requests"), field(n + 2, "memory", "low")>>

\* The forms of a container's resources, at indentation n.
resources(form, n) ==
    CASE form = "none" -> <<>>
      [] form = "empty" -> <<field(n, "resources", "{}")>>
      [] OTHER -> <<key(n, "resources")>> \o
            CASE form = "requests" -> requests(n + 2)
              [] form = "cpu" -> limits(n + 2, "cpu")
              [] form = "memory" -> limits(n + 2, "memory")
              [] form = "requests+memory" ->
                    requests(n + 2) \o limits(n + 2, "memory")
              [] form = "cpu+requests" ->
                    limits(n + 2, "cpu") \o requests(n + 2)

Forms == {"none", "empty", "requests", "cpu", "memory", "requests+memory",
          "cpu+requests"}

\* A container's env at indentation n, list entries `gap` to the right.
env(form, n, gap) ==
    CASE form = "none" -> <<>>
      [] form = "value" ->
            << key(n, "env"), item(n + gap, "name", "URL"),
               field(n + gap + 2, "value", "old") >>
      [] form = "from" ->
            << key(n, "env"), item(n + gap, "name", "URL"),
               key(n + gap + 2, "valueFrom"),
               field(n + gap + 4, "key", "url") >>

Bodies == [res : Forms, env : {"none", "value", "from"}, first : BOOLEAN,
           gap : {0, 2}]

\* Container "app"; `first` puts the resources before the environment.
app(b) ==
    LET n == 2 + b.gap
        r == resources(b.res, n + 2)
        e == env(b.env, n + 2, b.gap)
    IN  <<item(n, "name", "app"), image(n + 2, "web", "v1")>>
            \o IF b.first THEN r \o e ELSE e \o r

\* Container "side", whose image or name comes first.
side(imageFirst, n) ==
    (IF imageFirst
     THEN <<[item(n, "image", "proxy") EXCEPT !.tag = "v2"],
            field(n + 2, "name", "side")>>
     ELSE <<item(n, "name", "side"), image(n + 2, "proxy", "")>>)
    \o resources("memory", n + 2)

\* What follows the containers.
trailer(form, gap) ==
    LET n == 2 + gap IN
    CASE form = "none" -> <<>>
      [] form = "volume" -> <<key(2, "volumes"), item(n, "name", "data"),
                              field(n + 2, "emptyDir", "{}")>>
      [] form = "namesake" -> <<key(2, "volumes"), item(n, "name", "app"),
                                field(n + 2, "emptyDir", "{}")>>
      [] form = "claim" ->
            <<key(2, "volumeClaimTemplates"),
              Line(n, TRUE, "metadata", ""), field(n + 4, "name", "data"),
              key(n + 2, "spec"), key(n + 4, "resources")>>
                \o requests(n + 6)

head(kind, name) ==
    <<field(0, "kind", kind), key(0, "metadata"), field(2, "name", name),
      key(0, "spec")>>

pods(b, sides, end) ==
    <<key(2, "containers")>>
        \o (IF sides = "before" THEN side(FALSE, 2 + b.gap) ELSE <<>>)
        \o app(b)
        \o (IF sides = "after" THEN side(FALSE, 2 + b.gap) ELSE <<>>)
        \o (IF sides = "odd" THEN side(TRUE, 2 + b.gap) ELSE <<>>)
        \o trailer(end, b.gap)

file(lines) == [base |-> "manifest", lines |-> lines]
web(b) == head("Deployment", "web") \o pods(b, "none", "none")

service == head("Service", "web") \o
    <<key(2, "ports"), item(4, "name", "http"), field(6, "port", "80")>>

\* One file.
Single ==
    {<<file(head("Deployment", "web") \o pods(b, p[1], p[2]))>> :
        b \in {x \in Bodies : x.env = "none" => x.first},
        p \in ({"none", "before", "after", "odd"} \X {"none"})
             \cup ({"none"} \X {"volume", "namesake", "claim"})
             \cup {<<"after", "namesake">>}}

\* A Service, or another Deployment, in a document or a file before it; a
\* separator at the start of the file.
Mixed ==
    UNION {
        {<<file(service \o <<Separator>> \o web(b))>>,
         <<file(web(b) \o <<Separator>> \o service)>>,
         <<file(<<Separator>> \o web(b))>>,
         <<file(<<Separator>> \o web(b) \o <<Separator>> \o service)>>,
         <<file(head("Deployment", "api") \o pods(b, "none", "none")
                \o <<Separator>> \o web(b))>>,
         <<file(head("Deployment", "api") \o pods(b, "none", "none")),
           file(service), file(web(b))>>} :
        b \in {x \in Bodies : x.gap = 0}}

\* The image of a container after its environment.
Late ==
    {<<file(head("Deployment", "web")
        \o <<key(2, "containers"), item(2, "name", "app")>>
        \o env(form, 4, 0) \o <<image(4, "web", "v1")>> \o after)>> :
        form \in {"none", "value", "from"}, after \in {<<>>, side(FALSE, 2)}}

\* Overlays of the images block, with lists after it and before it, or a
\* separator.
images(gap) ==
    LET tag == field(gap + 2, "newTag", "v1")
        name == field(gap + 2, "newName", "registry/web")
    IN  {<<item(gap, "name", "web"), name, tag>>,
         <<item(gap, "name", "web"), tag>>,
         <<item(gap, "name", "web"), name>>,
         <<item(gap, "name", "web")>>,
         <<item(gap, "newName", "registry/web"),
           field(gap + 2, "name", "web"), tag>>,
         <<item(gap, "name", "api"), tag, item(gap, "name", "web")>>,
         <<item(gap, "name", "web"), item(gap, "name", "api"), tag>>}

Overlays ==
    LET replicas == <<key(0, "replicas"), item(0, "name", "web"),
                      field(2, "count", "1")>>
        plain == [res |-> "none", env |-> "none", first |-> TRUE, gap |-> 0]
    IN  {<<[base |-> "kustomization",
            lines |-> before \o <<field(0, "kind", "Kustomization"),
                                  key(0, "images")>> \o i \o after],
           file(web(plain))>> :
            i \in images(0) \cup images(2),
            before \in {<<>>, <<Separator>>, replicas},
            after \in {<<>>, replicas}}

MCTexts == STRING
MCClones == Single \cup Mixed \cup Late \cup Overlays

request0(t, c, k, v) ==
    [type |-> t, pod |-> "web", container |-> c, key |-> k, value |-> v]

MCRequests ==
    {request0("memory_limit", c, "", "256Mi") :
        c \in {"app", "side", "ghost", ""}}
    \cup {request0("image_tag", c, "", "v9") : c \in {"app", "side", ""}}
    \cup {request0("env_var", "app", k, "new") : k \in {"URL", ""}}
    \cup {request0("no_fix", "app", "", "")}
    \cup {[request0("memory_limit", "app", "", "256Mi") EXCEPT
            !.pod = "gone"]}

\* Every manifest of the instance parses, so a patched one that does not was
\* broken by the patch.
ASSUME MCClonesParse ==
    \A cl \in MCClones : \A i \in DOMAIN cl : WellFormed(cl[i].lines)

\* Every file has the layout that the searches for the file expect.
ASSUME MCClonesAreStandard ==
    \A cl \in MCClones : \A i \in DOMAIN cl :
        /\ Standard(cl[i].lines)
        /\ cl[i].base = "kustomization" => Simple(cl[i].lines)

=============================================================================
