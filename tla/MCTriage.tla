------------------------------ MODULE MCTriage ------------------------------
(***************************************************************************)
(* One Deployment with three templates, beside another one and a pod that   *)
(* belongs to none, and answers of every kind.                             *)
(***************************************************************************)
EXTENDS Triage

CONSTANTS web, db, app, sidecar, OOMKilled

Container(n, im) == [name |-> n, image |-> im]
Template(d, cs) == [deployment |-> d, containers |-> cs]

v1 == Template(web, <<Container(app, <<"app", "v1">>),
                      Container(sidecar, <<"proxy", "p1">>)>>)
v2 == Template(web, <<Container(app, <<"app", "v2">>),
                      Container(sidecar, <<"proxy", "p2">>)>>)

\* Another template with the tag of v2, and an image without a tag.
v3 == Template(web, <<Container(app, <<"app", "v2">>),
                      Container(sidecar, <<"proxy">>)>>)
other == Template(db, <<Container(app, <<"app", "v9">>)>>)
single == Template(None, <<Container(app, <<"app", "v1">>)>>)

MCParts == {"app", "proxy", "v1", "v2", "v9", "p1", "p2"}
MCTemplates == {v1, v2, v3, other, single}
MCStanding == {v1, other, single}
MCWorking == {v1}

Object(r) == [kind |-> "object", remediable |-> r, type |-> OOMKilled]
Token(k) == [kind |-> k]

\* The diagnosis alone, in a fence, twice, and in braces of its own; one that
\* does not fit, in a fence, and beside one that does; null; and no diagnosis at
\* all.
Contents ==
    { <<Object(TRUE)>>, <<Object(FALSE)>>,
      <<Token("text"), Object(TRUE), Token("text")>>,
      <<Object(TRUE), Object(FALSE)>>,
      <<Token("{"), Object(TRUE), Token("}")>>,
      <<Token("text"), Token("misfit")>>,
      <<Object(TRUE), Token("misfit")>>,
      <<Token("null")>>,
      <<Token("}"), Token("text"), Token("{")>> }

MCAnswers ==
    [content : Contents, thinking : {FALSE}]
        \cup {[content |-> <<Object(TRUE)>>, thinking |-> TRUE]}
=============================================================================
