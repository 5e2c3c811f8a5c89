---------------------------- MODULE TriageProofs ----------------------------
(***************************************************************************)
(* Proofs about collector and diagnostician at work in the pipeline, for   *)
(* any templates, any number of rollouts and any answers of the model.     *)
(***************************************************************************)
EXTENDS Triage, SequenceTheorems, TLAPS

(***************************************************************************)
(* The cluster: a rollout gives its ReplicaSet the highest revision of the *)
(* Deployment, so the revisions stay in the order of the rollouts.         *)
(***************************************************************************)
ClusterInv ==
    /\ revision \in [Templates -> Nat]
    /\ rolledOut \in [Templates -> Nat]
    /\ rollouts \in Nat
    /\ ran \subseteq Templates
    /\ Col!RevisionsInOrder
    /\ Col!RolledOutSoFar

LEMMA RollOutKeepsOrder ==
    ASSUME ClusterInv, NEW t \in Templates, Col!Cluster!RollOut(t)
    PROVE  ClusterInv'
<1>1. PICK u \in Templates \ {t} :
        /\ Col!Cluster!SameDeployment(t, u)
        /\ Col!Cluster!IsNewest(u)
        /\ revision' = [revision EXCEPT ![t] = revision[u] + 1]
  BY DEF Col!Cluster!RollOut
<1>2. /\ rollouts' = rollouts + 1
      /\ rolledOut' = [rolledOut EXCEPT ![t] = rollouts + 1]
      /\ ran' = ran
  BY DEF Col!Cluster!RollOut
<1>3. /\ revision' \in [Templates -> Nat]
      /\ rolledOut' \in [Templates -> Nat]
      /\ rollouts' \in Nat
      /\ ran' \subseteq Templates
  BY <1>1, <1>2 DEF ClusterInv
<1>4. Col!RolledOutSoFar'
  BY <1>2, <1>3 DEF ClusterInv, Col!RolledOutSoFar
<1>5. ASSUME NEW v \in Templates, v # t, revision[v] > 0,
             Col!Cluster!SameDeployment(t, v)
      PROVE  /\ revision'[v] < revision'[t]
             /\ rolledOut'[v] < rolledOut'[t]
  <2>1. revision[v] <= revision[u]
    BY <1>1, <1>5 DEF Col!Cluster!IsNewest, Col!Cluster!ReplicaSets,
                      Col!Cluster!SameDeployment
  <2>2. rolledOut[v] <= rollouts
    BY DEF ClusterInv, Col!RolledOutSoFar
  <2>3. revision'[v] = revision[v] /\ rolledOut'[v] = rolledOut[v]
    BY <1>1, <1>2, <1>5 DEF ClusterInv
  <2>4. revision'[t] = revision[u] + 1 /\ rolledOut'[t] = rollouts + 1
    BY <1>1, <1>2 DEF ClusterInv
  <2> QED BY <2>1, <2>2, <2>3, <2>4 DEF ClusterInv
<1>6. ASSUME NEW v \in Templates, NEW w \in Templates,
             revision'[v] > 0, revision'[w] > 0,
             Col!Cluster!SameDeployment(v, w)
      PROVE  revision'[v] <= revision'[w] <=> rolledOut'[v] <= rolledOut'[w]
  <2>1. CASE v = t /\ w = t
    BY <1>3, <2>1
  <2>2. CASE v # t /\ w # t
    BY <1>1, <1>2, <1>6, <2>2
       DEF ClusterInv, Col!RevisionsInOrder, Col!Cluster!ReplicaSets
  <2>3. CASE v = t /\ w # t
    <3>1. revision[w] > 0
      BY <1>1, <1>6, <2>3 DEF ClusterInv
    <3> QED BY <1>3, <1>5, <1>6, <2>3, <3>1
  <2>4. CASE v # t /\ w = t
    <3>1. revision[v] > 0 /\ Col!Cluster!SameDeployment(t, v)
      BY <1>1, <1>6, <2>4 DEF ClusterInv, Col!Cluster!SameDeployment
    <3> QED BY <1>3, <1>5, <1>6, <2>4, <3>1
  <2> QED BY <2>1, <2>2, <2>3, <2>4
<1>7. Col!RevisionsInOrder'
  BY <1>6 DEF Col!RevisionsInOrder, Col!Cluster!ReplicaSets,
              Col!Cluster!SameDeployment
<1> QED BY <1>3, <1>4, <1>7 DEF ClusterInv

LEMMA ClusterKeepsOrder ==
    ASSUME ClusterInv, Col!Cluster!Next PROVE ClusterInv'
<1>1. PICK t \in Templates : \/ Col!Cluster!RollOut(t)
                             \/ Col!Cluster!RunsSuccessfully(t)
                             \/ Col!Cluster!CleanUp(t)
  BY DEF Col!Cluster!Next
<1>2. CASE Col!Cluster!RollOut(t)
  BY <1>2, RollOutKeepsOrder
<1>3. CASE Col!Cluster!RunsSuccessfully(t)
  BY <1>3 DEF Col!Cluster!RunsSuccessfully, ClusterInv, Col!RevisionsInOrder,
              Col!RolledOutSoFar, Col!Cluster!ReplicaSets,
              Col!Cluster!SameDeployment
<1>4. CASE Col!Cluster!CleanUp(t)
  BY <1>4 DEF Col!Cluster!CleanUp, ClusterInv, Col!RevisionsInOrder,
              Col!RolledOutSoFar, Col!Cluster!ReplicaSets,
              Col!Cluster!SameDeployment
<1> QED BY <1>1, <1>2, <1>3, <1>4

(***************************************************************************)
(* The reading of an answer.  A content with one object and no brace       *)
(* beside it is reduced to that object, whatever text surrounds it; and    *)
(* what is reduced to one object contains no other.                        *)
(***************************************************************************)
LEMMA OneObjectDecides ==
    ASSUME NEW content \in Seq(Diag!Tokens), NEW i \in DOMAIN content,
           Diag!ObjectsIn(content) = {i}, Diag!BracesIn(content) = {}
    PROVE  Diag!Stripped(content) = {i}
<1> DEFINE cut == {x \in DOMAIN content :
                    /\ \E j \in 1 .. x : Diag!Opens(content[j])
                    /\ \E k \in x .. Len(content) : Diag!Closes(content[k])}
<1>1. DOMAIN content = 1 .. Len(content) /\ Len(content) \in Nat
  OBVIOUS
<1>2. \A x \in DOMAIN content :
        Diag!Opens(content[x]) \/ Diag!Closes(content[x]) => x = i
  <2> SUFFICES ASSUME NEW x \in DOMAIN content,
                      Diag!Opens(content[x]) \/ Diag!Closes(content[x])
               PROVE  x = i
    OBVIOUS
  <2>1. content[x].kind \in {"object", "misfit", "{", "}"}
    BY DEF Diag!Opens, Diag!Closes
  <2>2. content[x].kind \notin {"{", "}"}
    BY DEF Diag!BracesIn
  <2> QED BY <2>1, <2>2 DEF Diag!ObjectsIn
<1>3. Diag!Opens(content[i]) /\ Diag!Closes(content[i])
  BY DEF Diag!ObjectsIn, Diag!Opens, Diag!Closes
<1>4. i \in cut
  BY <1>1, <1>3
<1>5. ASSUME NEW x \in cut PROVE x = i
  <2>1. PICK j \in 1 .. x : Diag!Opens(content[j])
    OBVIOUS
  <2>2. PICK k \in x .. Len(content) : Diag!Closes(content[k])
    OBVIOUS
  <2>3. j \in DOMAIN content /\ k \in DOMAIN content
    BY <1>1
  <2>4. j = i /\ k = i
    BY <1>2, <2>1, <2>2, <2>3
  <2> QED BY <1>1, <2>4
<1>6. cut = {i}
  BY <1>4, <1>5
<1> QED BY <1>6 DEF Diag!Stripped

LEMMA OneIsLeftOfOne ==
    ASSUME NEW content \in Seq(Diag!Tokens), NEW i \in DOMAIN content,
           Diag!Stripped(content) = {i},
           content[i].kind \in {"object", "misfit"}
    PROVE  Diag!ObjectsIn(content) = {i}
<1> DEFINE cut == {x \in DOMAIN content :
                    /\ \E j \in 1 .. x : Diag!Opens(content[j])
                    /\ \E k \in x .. Len(content) : Diag!Closes(content[k])}
<1>1. DOMAIN content = 1 .. Len(content) /\ Len(content) \in Nat
  OBVIOUS
<1>2. \A x \in Diag!ObjectsIn(content) : x \in cut
  <2> SUFFICES ASSUME NEW x \in Diag!ObjectsIn(content) PROVE x \in cut
    OBVIOUS
  <2>1. /\ x \in DOMAIN content
        /\ Diag!Opens(content[x]) /\ Diag!Closes(content[x])
    BY DEF Diag!ObjectsIn, Diag!Opens, Diag!Closes
  <2>2. x \in 1 .. x /\ x \in x .. Len(content)
    BY <1>1, <2>1
  <2> QED BY <2>1, <2>2
<1>3. i \in Diag!ObjectsIn(content)
  BY DEF Diag!ObjectsIn
<1>4. cut = {i}
  BY <1>2, <1>3 DEF Diag!Stripped
<1> QED BY <1>2, <1>3, <1>4

LEMMA VerdictOfOne ==
    ASSUME NEW content, NEW i \in DOMAIN content, Diag!Stripped(content) = {i}
    PROVE  Diag!Verdict(content) = Diag!Reading(content[i])
<1> DEFINE c == CHOOSE x \in DOMAIN content : Diag!Stripped(content) = {x}
<1>1. c \in DOMAIN content /\ Diag!Stripped(content) = {c}
  OBVIOUS
<1>2. c = i
  BY <1>1
<1> QED BY <1>2 DEF Diag!Verdict

LEMMA VerdictIsRead ==
    ASSUME NEW content \in Seq(Diag!Tokens)
    PROVE  /\ Diag!Verdict(content) \in
                    {"failed", "escalated"} \cup FailureTypes
           /\ Diag!Verdict(content) \in FailureTypes =>
                \E i \in DOMAIN content :
                    /\ Diag!ObjectsIn(content) = {i}
                    /\ content[i].kind = "object"
                    /\ content[i].remediable
                    /\ Diag!Verdict(content) = content[i].type
<1>1. FailureTypes \cap {"none", "failed", "escalated"} = {}
  BY TriageAssumption DEF Diag!DiagnosticianAssumption
<1>2. CASE \E i \in DOMAIN content : Diag!Stripped(content) = {i}
  <2>1. PICK i \in DOMAIN content : Diag!Stripped(content) = {i}
    BY <1>2
  <2>2. Diag!Verdict(content) = Diag!Reading(content[i])
    BY <2>1, VerdictOfOne
  <2>3. content[i] \in Diag!Tokens
    OBVIOUS
  <2>4. CASE content[i].kind = "object"
    <3>1. content[i] \in Diag!Objects
      BY <2>3, <2>4 DEF Diag!Tokens
    <3>2. content[i].remediable \in BOOLEAN /\ content[i].type \in FailureTypes
      BY <3>1 DEF Diag!Objects
    <3>3. Diag!Verdict(content) = IF content[i].remediable
                                  THEN content[i].type ELSE "escalated"
      BY <2>2, <2>4 DEF Diag!Reading
    <3>4. Diag!ObjectsIn(content) = {i}
      BY <2>1, <2>4, OneIsLeftOfOne
    <3> QED BY <1>1, <2>4, <3>2, <3>3, <3>4
  <2>5. CASE content[i].kind # "object"
    <3>1. Diag!Verdict(content) \in {"escalated", "failed"}
      BY <2>2, <2>5 DEF Diag!Reading
    <3> QED BY <1>1, <3>1
  <2> QED BY <2>4, <2>5
<1>3. CASE ~ \E i \in DOMAIN content : Diag!Stripped(content) = {i}
  BY <1>1, <1>3 DEF Diag!Verdict
<1> QED BY <1>2, <1>3

LEMMA VerdictIsOne ==
    ASSUME NEW content \in Seq(Diag!Tokens), NEW i \in DOMAIN content,
           Diag!ObjectsIn(content) = {i}, Diag!BracesIn(content) = {}
    PROVE  Diag!Verdict(content) = IF content[i].kind = "misfit" THEN "failed"
                                   ELSE IF content[i].remediable
                                   THEN content[i].type ELSE "escalated"
<1>1. Diag!Stripped(content) = {i}
  BY OneObjectDecides
<1>2. content[i].kind \in {"object", "misfit"}
  BY DEF Diag!ObjectsIn
<1>3. Diag!Verdict(content) = Diag!Reading(content[i])
  BY <1>1, VerdictOfOne
<1> QED BY <1>2, <1>3 DEF Diag!Reading

(***************************************************************************)
(* The diagnostician's call.  What it answers follows from Progress and    *)
(* the lemmas above, so that a step has the rest of the invariant to keep. *)
(***************************************************************************)
DiagInv == Diag!TypeOK /\ Diag!Progress /\ Diag!AnswerIsOnRecord

LEMMA AnswersAreTokens ==
    ASSUME DiagInv PROVE answer.content \in Seq(Diag!Tokens)
<1>1. Answers \subseteq [content : Seq(Diag!Tokens), thinking : BOOLEAN]
  BY TriageAssumption DEF Diag!DiagnosticianAssumption
<1>2. Diag!Unanswered.content = <<>>
  BY DEF Diag!Unanswered
<1>3. <<>> \in Seq(Diag!Tokens)
  OBVIOUS
<1> QED BY <1>1, <1>2, <1>3 DEF DiagInv, Diag!TypeOK

LEMMA DiagInvSuffices ==
    ASSUME DiagInv PROVE Diag!IInv
<1>1. Diag!VerdictIsTheAnswers
  <2> SUFFICES ASSUME step = "idle", answer # Diag!Unanswered
               PROVE  /\ verdict \in FailureTypes =>
                            \E i \in Diag!ObjectsIn(answer.content) :
                                /\ Diag!ObjectsIn(answer.content) = {i}
                                /\ verdict =
                                    IF answer.content[i].kind = "misfit"
                                    THEN "failed"
                                    ELSE IF answer.content[i].remediable
                                    THEN answer.content[i].type
                                    ELSE "escalated"
                      /\ Diag!BracesIn(answer.content) = {} =>
                            \A i \in Diag!ObjectsIn(answer.content) :
                                Diag!ObjectsIn(answer.content) = {i} =>
                                verdict =
                                    IF answer.content[i].kind = "misfit"
                                    THEN "failed"
                                    ELSE IF answer.content[i].remediable
                                    THEN answer.content[i].type
                                    ELSE "escalated"
    BY DEF Diag!VerdictIsTheAnswers
  <2>1. verdict = Diag!Verdict(answer.content)
    BY DEF DiagInv, Diag!Progress
  <2>2. answer.content \in Seq(Diag!Tokens)
    BY AnswersAreTokens
  <2>3. verdict \in FailureTypes =>
            \E i \in DOMAIN answer.content :
                /\ Diag!ObjectsIn(answer.content) = {i}
                /\ answer.content[i].kind = "object"
                /\ answer.content[i].remediable
                /\ verdict = answer.content[i].type
    BY <2>1, <2>2, VerdictIsRead
  <2>4. \A i \in Diag!ObjectsIn(answer.content) : i \in DOMAIN answer.content
    BY DEF Diag!ObjectsIn
  <2>5. ASSUME Diag!BracesIn(answer.content) = {},
               NEW i \in Diag!ObjectsIn(answer.content),
               Diag!ObjectsIn(answer.content) = {i}
        PROVE  verdict = IF answer.content[i].kind = "misfit" THEN "failed"
                         ELSE IF answer.content[i].remediable
                         THEN answer.content[i].type ELSE "escalated"
    BY <2>1, <2>2, <2>4, <2>5, VerdictIsOne
  <2> QED BY <2>3, <2>5
<1> QED BY <1>1 DEF DiagInv, Diag!IInv

LEMMA AppendsToOne ==
    ASSUME NEW S, NEW a \in S, NEW b \in S PROVE Append(<<a>>, b) = <<a, b>>
<1> DEFINE s == Append(<<a>>, b)
           t == <<a, b>>
<1>1. <<a>> \in Seq(S) /\ t \in Seq(S) /\ Len(t) = 2
  OBVIOUS
<1>2. /\ s \in Seq(S) /\ Len(s) = Len(<<a>>) + 1
      /\ \A i \in 1 .. Len(<<a>>) : s[i] = <<a>>[i]
      /\ s[Len(<<a>>) + 1] = b
  BY <1>1, AppendProperties
<1>3. Len(s) = 2 /\ s[1] = a /\ s[2] = b
  BY <1>2
<1>4. t[1] = a /\ t[2] = b
  OBVIOUS
<1> HIDE DEF s, t
<1>5. \A i \in 1 .. Len(s) : s[i] = t[i]
  BY <1>3, <1>4
<1>6. s = t
  BY <1>1, <1>2, <1>3, <1>5, SeqEqual
<1> QED BY <1>6 DEF s, t

LEMMA AppendsToTwo ==
    ASSUME NEW S, NEW a \in S, NEW b \in S, NEW c \in S
    PROVE  Append(<<a, b>>, c) = <<a, b, c>>
<1> DEFINE s == Append(<<a, b>>, c)
           t == <<a, b, c>>
<1>1. <<a, b>> \in Seq(S) /\ t \in Seq(S) /\ Len(t) = 3
  OBVIOUS
<1>2. /\ s \in Seq(S) /\ Len(s) = Len(<<a, b>>) + 1
      /\ \A i \in 1 .. Len(<<a, b>>) : s[i] = <<a, b>>[i]
      /\ s[Len(<<a, b>>) + 1] = c
  BY <1>1, AppendProperties
<1>3. Len(s) = 3 /\ s[1] = a /\ s[2] = b /\ s[3] = c
  BY <1>2
<1>4. t[1] = a /\ t[2] = b /\ t[3] = c
  OBVIOUS
<1> HIDE DEF s, t
<1>5. \A i \in 1 .. Len(s) : s[i] = t[i]
  BY <1>3, <1>4
<1>6. s = t
  BY <1>1, <1>2, <1>3, <1>5, SeqEqual
<1> QED BY <1>6 DEF s, t

LEMMA EntriesOfTheRecord ==
    \A label \in {"PROMPT", "RESPONSE", "THINKING"} :
        Diag!Entry(label) \in Diag!Entries
BY DEF Diag!Entry, Diag!Entries

\* An entry that is not lost is the next of the record.
LEMMA DiagLogAppends ==
    ASSUME NEW label, Diag!DiagLog(label), ~logDisabled, ~lost'
    PROVE  log' = Append(log, Diag!Entry(label)) /\ ~lost
BY DEF Diag!DiagLog, Diag!Entry

LEMMA DiagLogTyped ==
    ASSUME Diag!TypeOK, NEW label \in {"PROMPT", "RESPONSE", "THINKING"},
           Diag!DiagLog(label)
    PROVE  log' \in Seq(Diag!Entries) /\ lost' \in BOOLEAN
<1>1. \A w \in BOOLEAN : [label |-> label, whole |-> w] \in Diag!Entries
  BY DEF Diag!Entries
<1>2. log \in Seq(Diag!Entries) /\ lost \in BOOLEAN
  BY DEF Diag!TypeOK
<1>3. \A e \in Diag!Entries : Append(log, e) \in Seq(Diag!Entries)
  BY <1>2
<1>4. \A w \in BOOLEAN : Append(log, [label |-> label, whole |-> w])
                            \in Seq(Diag!Entries)
  BY <1>1, <1>3
<1> QED BY <1>2, <1>4 DEF Diag!DiagLog

LEMMA DiagStepKeeps ==
    ASSUME DiagInv, Diag!Step PROVE DiagInv'
<1> USE DEF Diag!Goto, Diag!Return
<1>1. CASE Diag!LogPrompt
  <2>1. log' \in Seq(Diag!Entries) /\ lost' \in BOOLEAN
    BY <1>1, DiagLogTyped DEF Diag!LogPrompt, DiagInv
  <2>2. Diag!TypeOK' /\ Diag!Progress'
    BY <1>1, <2>1 DEF Diag!LogPrompt, DiagInv, Diag!TypeOK, Diag!Progress
  <2>3. ASSUME ~logDisabled, ~lost' PROVE log' = <<Diag!Entry("PROMPT")>>
    <3>1. log' = Append(log, Diag!Entry("PROMPT")) /\ ~lost
      BY <1>1, <2>3, DiagLogAppends DEF Diag!LogPrompt
    <3>2. log = <<>>
      BY <1>1, <2>3, <3>1 DEF Diag!LogPrompt, DiagInv, Diag!AnswerIsOnRecord,
                              Diag!Record
    <3> QED BY <3>1, <3>2
  <2>4. Diag!AnswerIsOnRecord'
    BY <1>1, <2>3 DEF Diag!LogPrompt, Diag!AnswerIsOnRecord, Diag!Record,
                      Diag!Entry
  <2> QED BY <2>2, <2>4 DEF DiagInv
<1>2. CASE Diag!Answered
  BY <1>2 DEF Diag!Answered, DiagInv, Diag!TypeOK, Diag!Progress,
              Diag!AnswerIsOnRecord, Diag!Record, Diag!Entry
<1>3. CASE Diag!RequestFails
  BY <1>3 DEF Diag!RequestFails, DiagInv, Diag!TypeOK, Diag!Progress,
              Diag!AnswerIsOnRecord, Diag!Record, Diag!Entry
<1>4. CASE Diag!LogResponse
  <2>1. log' \in Seq(Diag!Entries) /\ lost' \in BOOLEAN
    BY <1>4, DiagLogTyped DEF Diag!LogResponse, DiagInv
  <2>2. Diag!TypeOK' /\ Diag!Progress'
    BY <1>4, <2>1 DEF Diag!LogResponse, DiagInv, Diag!TypeOK, Diag!Progress
  <2>3. ASSUME ~logDisabled, ~lost'
        PROVE  log' = <<Diag!Entry("PROMPT"), Diag!Entry("RESPONSE")>>
    <3>1. log' = Append(log, Diag!Entry("RESPONSE")) /\ ~lost
      BY <1>4, <2>3, DiagLogAppends DEF Diag!LogResponse
    <3>2. log = <<Diag!Entry("PROMPT")>>
      BY <1>4, <2>3, <3>1 DEF Diag!LogResponse, DiagInv, Diag!AnswerIsOnRecord,
                              Diag!Record
    <3> QED BY <3>1, <3>2, EntriesOfTheRecord, AppendsToOne
  <2>4. Diag!AnswerIsOnRecord'
    BY <1>4, <2>3 DEF Diag!LogResponse, Diag!AnswerIsOnRecord, Diag!Record,
                      Diag!Entry
  <2> QED BY <2>2, <2>4 DEF DiagInv
<1>5. CASE Diag!LogThinking
  <2>1. log' \in Seq(Diag!Entries) /\ lost' \in BOOLEAN
    BY <1>5, DiagLogTyped DEF Diag!LogThinking, DiagInv
  <2>2. Diag!TypeOK' /\ Diag!Progress'
    BY <1>5, <2>1 DEF Diag!LogThinking, DiagInv, Diag!TypeOK, Diag!Progress
  <2>3. ASSUME ~logDisabled, ~lost'
        PROVE  log' = <<Diag!Entry("PROMPT"), Diag!Entry("RESPONSE"),
                        Diag!Entry("THINKING")>>
    <3>1. log' = Append(log, Diag!Entry("THINKING")) /\ ~lost
      BY <1>5, <2>3, DiagLogAppends DEF Diag!LogThinking
    <3>2. log = <<Diag!Entry("PROMPT"), Diag!Entry("RESPONSE")>>
      BY <1>5, <2>3, <3>1 DEF Diag!LogThinking, DiagInv, Diag!AnswerIsOnRecord,
                              Diag!Record
    <3> QED BY <3>1, <3>2, EntriesOfTheRecord, AppendsToTwo
  <2>4. answer.thinking
    BY <1>5 DEF Diag!LogThinking, DiagInv, Diag!Progress
  <2>5. Diag!AnswerIsOnRecord'
    BY <1>5, <2>3, <2>4 DEF Diag!LogThinking, Diag!AnswerIsOnRecord,
                            Diag!Record, Diag!Entry
  <2> QED BY <2>2, <2>5 DEF DiagInv
<1>6. CASE Diag!Parse
  <2>1. verdict' \in {"none", "failed", "escalated"} \cup FailureTypes
    BY <1>6, AnswersAreTokens, VerdictIsRead DEF Diag!Parse
  <2>2. UNCHANGED <<ctxDone, logDisabled, answer, log, lost>> /\ step' = "idle"
        /\ step = "parse" /\ verdict' = Diag!Verdict(answer.content)
    BY <1>6 DEF Diag!Parse
  <2>3. Diag!TypeOK' /\ Diag!Progress'
    BY <2>1, <2>2 DEF DiagInv, Diag!TypeOK, Diag!Progress
  <2>4. Diag!AnswerIsOnRecord'
    BY <2>2 DEF DiagInv, Diag!AnswerIsOnRecord, Diag!Record, Diag!Entry
  <2> QED BY <2>3, <2>4 DEF DiagInv
<1> QED BY <1>1, <1>2, <1>3, <1>4, <1>5, <1>6 DEF Diag!Step

\* A call begins with nothing, and so does the process.
LEMMA DiagBegins ==
    ASSUME ctxDone' \in BOOLEAN, logDisabled' \in BOOLEAN,
           step' \in {"idle", "prompt"},
           answer' = Diag!Unanswered, log' = <<>>, lost' = FALSE,
           verdict' = "none"
    PROVE  DiagInv'
<1>1. <<>> \in Seq(Diag!Entries)
  OBVIOUS
<1>2. Diag!TypeOK'
  BY <1>1 DEF Diag!TypeOK
<1>3. Diag!Unanswered' = Diag!Unanswered
  BY DEF Diag!Unanswered
<1>4. Diag!Progress'
  BY <1>3 DEF Diag!Progress
<1>5. Diag!Record' = <<>>
  BY <1>3 DEF Diag!Record
<1> QED BY <1>2, <1>4, <1>5 DEF DiagInv, Diag!AnswerIsOnRecord

LEMMA DiagRests ==
    ASSUME DiagInv, UNCHANGED diagnostician, ctxDone' \in BOOLEAN
    PROVE  DiagInv'
<1>1. Diag!TypeOK' /\ Diag!Progress'
  BY DEF DiagInv, diagnostician, Diag!TypeOK, Diag!Progress
<1>2. Diag!Record' = Diag!Record
  BY DEF diagnostician, Diag!Record
<1>3. Diag!AnswerIsOnRecord'
  BY <1>2 DEF DiagInv, diagnostician, Diag!AnswerIsOnRecord
<1> QED BY <1>1, <1>3 DEF DiagInv

(***************************************************************************)
(* The collector's call.                                                   *)
(***************************************************************************)

\* The templates have containers with names that are known, and the tag of a
\* container is never None.
LEMMA TemplatesTyped ==
    ASSUME NEW t \in Templates
    PROVE  /\ t # None
           /\ t.containers \in Seq([name : Names, image : Seq(Parts) \ {<<>>}])
BY TriageAssumption DEF Col!CollectorAssumption

CallInv ==
    /\ ctxDone \in BOOLEAN
    /\ pc \in Col!Reads
    /\ owner \in Templates \cup {None}
    /\ pc # "idle" => owner # None
    /\ container \in Names \cup {None}
    /\ hint \in Col!Tags \cup {None}
    /\ unread \in Seq(Names)
    /\ holes \subseteq Names \cup {"events"}
    /\ outcome \in {"none", "bundle", "gone", "failed"}
    /\ Col!HintIsAnotherTag
    /\ Col!FailedAtThePod

LEMMA LogsWantedTyped ==
    ASSUME CallInv, owner \in Templates PROVE Col!LogsWanted \in Seq(Names)
<1>1. CASE container # None
  <2>1. container \in Names
    BY <1>1 DEF CallInv
  <2> QED BY <1>1, <2>1 DEF Col!LogsWanted
<1>2. CASE container = None
  <2> DEFINE C == [name : Names, image : Seq(Parts) \ {<<>>}]
             cs == owner.containers
  <2>1. cs \in Seq(C)
    BY TemplatesTyped
  <2>2. \A x \in C : x.name \in Names
    OBVIOUS
  <2> HIDE DEF cs, C
  <2>3. Len(cs) \in Nat /\ DOMAIN cs = 1 .. Len(cs)
    BY <2>1, LenProperties
  <2>4. \A i \in 1 .. Len(cs) : cs[i].name \in Names
    BY <2>1, <2>2, ElementOfSeq
  <2>5. [i \in 1 .. Len(cs) |-> cs[i].name] \in Seq(Names)
    BY <2>3, <2>4
  <2> QED BY <1>2, <2>3, <2>5 DEF Col!LogsWanted, cs
<1> QED BY <1>1, <1>2

LEMMA HintTyped ==
    ASSUME CallInv, NEW t \in Templates
    PROVE  Col!ImageTag(t, container) \in Col!Tags
BY DEF CallInv, Col!Tags

\* The cluster is left alone by the call, and the call by the cluster.
LEMMA ClusterRests ==
    ASSUME ClusterInv, UNCHANGED cluster PROVE ClusterInv'
BY DEF ClusterInv, cluster, Col!RevisionsInOrder, Col!RolledOutSoFar,
       Col!Cluster!ReplicaSets, Col!Cluster!SameDeployment

LEMMA ColInvSplits == Col!IInv <=> ClusterInv /\ CallInv
BY DEF Col!IInv, ClusterInv, CallInv, Col!TypeOK

LEMMA CallRests ==
    ASSUME CallInv, UNCHANGED collector, ctxDone' \in BOOLEAN PROVE CallInv'
BY DEF CallInv, collector, Col!HintIsAnotherTag, Col!FailedAtThePod

LEMMA CallBegins ==
    ASSUME NEW t \in Templates, NEW c \in Names \cup {None},
           ctxDone \in BOOLEAN, Col!Collect(t, c)
    PROVE  CallInv'
<1>1. t # None
  BY TemplatesTyped
<1>2. <<>> \in Seq(Names)
  OBVIOUS
<1> QED BY <1>1, <1>2 DEF Col!Collect, CallInv, Col!Reads,
                          Col!HintIsAnotherTag, Col!FailedAtThePod

LEMMA CallForgotten ==
    ASSUME ctxDone' \in BOOLEAN, pc' = "idle",
           owner' = None, container' = None, hint' = None, unread' = <<>>,
           holes' = {}, outcome' = "none"
    PROVE  CallInv'
<1>1. <<>> \in Seq(Names)
  OBVIOUS
<1> QED BY <1>1 DEF CallInv, Col!Reads, Col!HintIsAnotherTag,
                    Col!FailedAtThePod

LEMMA CallStepKeeps ==
    ASSUME CallInv, Col!Step PROVE CallInv'
<1> USE DEF Col!Goto, Col!Return, Col!request, Col!Reads
<1>1. CASE Col!PodRead
  BY <1>1 DEF Col!PodRead, CallInv, Col!HintIsAnotherTag, Col!FailedAtThePod
<1>2. CASE Col!PodUnread
  BY <1>2 DEF Col!PodUnread, CallInv, Col!HintIsAnotherTag, Col!FailedAtThePod
<1>3. CASE Col!ReplicaSetRead
  BY <1>3 DEF Col!ReplicaSetRead, CallInv, Col!HintIsAnotherTag,
              Col!FailedAtThePod
<1>4. CASE Col!ReplicaSetsListed
  <2>1. CASE UNCHANGED hint
    BY <1>4, <2>1 DEF Col!ReplicaSetsListed, CallInv, Col!HintIsAnotherTag,
                      Col!FailedAtThePod
  <2>2. CASE hint' # hint
    <3>1. PICK t \in Col!Candidates : hint' = Col!ImageTag(t, container)
      BY <1>4, <2>2 DEF Col!ReplicaSetsListed
    <3>2. /\ t \in Templates
          /\ \/ Col!FailingTag(owner, container) = None
             \/ hint' # Col!FailingTag(owner, container)
      BY <3>1 DEF Col!Candidates, Col!Siblings, Col!Cluster!ReplicaSets
    <3>3. hint' \in Col!Tags
      BY <3>1, <3>2, HintTyped
    <3> QED BY <1>4, <3>2, <3>3
            DEF Col!ReplicaSetsListed, CallInv, Col!HintIsAnotherTag,
                Col!FailedAtThePod
  <2> QED BY <2>1, <2>2
<1>5. CASE Col!NoHint
  BY <1>5 DEF Col!NoHint, CallInv, Col!HintIsAnotherTag, Col!FailedAtThePod
<1>6. CASE Col!EventsRead
  <2>1. owner \in Templates
    BY <1>6 DEF Col!EventsRead, CallInv
  <2>2. unread' \in Seq(Names)
    BY <1>6, <2>1, LogsWantedTyped DEF Col!EventsRead
  <2> QED BY <1>6, <2>2 DEF Col!EventsRead, CallInv, Col!HintIsAnotherTag,
                            Col!FailedAtThePod
<1>7. CASE Col!LogsRead
  <2>1. unread' \in Seq(Names) /\ Head(unread) \in Names
    BY <1>7 DEF Col!LogsRead, CallInv
  <2> QED BY <1>7, <2>1 DEF Col!LogsRead, CallInv, Col!HintIsAnotherTag,
                            Col!FailedAtThePod
<1>8. CASE Col!Bundled
  BY <1>8 DEF Col!Bundled, CallInv, Col!HintIsAnotherTag, Col!FailedAtThePod
<1> QED BY <1>1, <1>2, <1>3, <1>4, <1>5, <1>6, <1>7, <1>8 DEF Col!Step

(***************************************************************************)
(* The goroutine.                                                          *)
(***************************************************************************)
Turns ==
    /\ turn \in {"receive", "collect", "diagnose", "open"}
    /\ turn # "collect" => pc = "idle"
    /\ turn # "diagnose" => step = "idle"
    /\ turn = "collect" /\ pc = "idle" => outcome # "none"
    /\ turn = "open" => verdict \in FailureTypes

Inductive == Turns /\ ClusterInv /\ CallInv /\ DiagInv

LEMMA InductiveIsIInv == Inductive <=> IInv
<1>1. DiagInv <=> Diag!IInv
  BY DiagInvSuffices DEF DiagInv, Diag!IInv
<1> QED BY <1>1, ColInvSplits DEF Inductive, IInv, Turns

LEMMA InitInductive == Init => Inductive
<1> SUFFICES ASSUME Init PROVE Inductive
  OBVIOUS
<1>1. ClusterInv
  BY TriageAssumption
     DEF Init, Col!Init, Col!Cluster!Init, Col!Cluster!RolloutAssumption,
         ClusterInv, Col!RevisionsInOrder, Col!RolledOutSoFar
<1>2. CallInv
  <2>1. <<>> \in Seq(Names)
    OBVIOUS
  <2> QED BY <2>1 DEF Init, Col!Init, CallInv, Col!Reads,
                      Col!HintIsAnotherTag, Col!FailedAtThePod
<1>3. DiagInv
  <2>1. <<>> \in Seq(Diag!Entries)
    OBVIOUS
  <2> QED BY <2>1 DEF Init, Diag!Init, DiagInv, Diag!TypeOK, Diag!Progress,
                      Diag!AnswerIsOnRecord, Diag!Record
<1>4. Turns
  BY DEF Init, Col!Init, Diag!Init, Turns
<1> QED BY <1>1, <1>2, <1>3, <1>4 DEF Inductive

LEMMA CallOnly ==
    ASSUME Inductive, UNCHANGED <<cluster, diagnostician>>,
           ctxDone' \in BOOLEAN
    PROVE  ClusterInv' /\ DiagInv'
BY ClusterRests, DiagRests DEF Inductive, diagnostician

LEMMA ReceiveKeeps ==
    ASSUME Inductive, NEW t \in Templates, NEW c \in Names \cup {None},
           Receive(t, c)
    PROVE  Inductive'
<1>1. UNCHANGED <<cluster, ctxDone>> /\ ctxDone \in BOOLEAN
  BY DEF Receive, Col!Collect, Col!cluster, cluster, Inductive, CallInv
<1>2. ClusterInv'
  BY <1>1, ClusterRests DEF Inductive
<1>3. CallInv'
  BY <1>1, CallBegins DEF Receive
<1>4. DiagInv'
  <2>1. logDisabled' \in BOOLEAN
    BY DEF Receive, Inductive, DiagInv, Diag!TypeOK
  <2> QED BY <1>1, <2>1, DiagBegins DEF Receive
<1>5. Turns'
  BY DEF Receive, Turns, Col!Collect
<1> QED BY <1>2, <1>3, <1>4, <1>5 DEF Inductive

LEMMA CollectingKeeps == ASSUME Inductive, Collecting PROVE Inductive'
<1>1. UNCHANGED <<cluster, ctxDone>>
  BY DEF Collecting, Col!Step, Col!PodRead, Col!PodUnread, Col!ReplicaSetRead,
         Col!ReplicaSetsListed, Col!NoHint, Col!EventsRead, Col!LogsRead,
         Col!Bundled, Col!Goto, Col!Return, Col!cluster, cluster
<1>2. ClusterInv' /\ DiagInv'
  BY <1>1, CallOnly DEF Collecting, Inductive, CallInv
<1>3. CallInv'
  BY CallStepKeeps DEF Collecting, Inductive
<1>4. pc' = "idle" => outcome' # "none"
  BY DEF Collecting, Col!Step, Col!PodRead, Col!PodUnread, Col!ReplicaSetRead,
         Col!ReplicaSetsListed, Col!NoHint, Col!EventsRead, Col!LogsRead,
         Col!Bundled, Col!Goto, Col!Return
<1>5. Turns'
  BY <1>4 DEF Collecting, Inductive, Turns, diagnostician
<1> QED BY <1>2, <1>3, <1>5 DEF Inductive

LEMMA CollectedKeeps == ASSUME Inductive, Collected PROVE Inductive'
<1>1. UNCHANGED <<cluster, ctxDone, logDisabled>> /\ ctxDone \in BOOLEAN
      /\ logDisabled \in BOOLEAN
  BY DEF Collected, Diag!Diagnose, Inductive, CallInv, DiagInv, Diag!TypeOK
<1>2. ClusterInv'
  BY <1>1, ClusterRests DEF Inductive
<1>3. CallInv'
  BY <1>1, CallForgotten DEF Collected
<1>4. DiagInv'
  BY <1>1, DiagBegins DEF Collected, Diag!Diagnose
<1>5. Turns'
  BY DEF Collected, Turns, Diag!Diagnose
<1> QED BY <1>2, <1>3, <1>4, <1>5 DEF Inductive

LEMMA DiagnosingKeeps == ASSUME Inductive, Diagnosing PROVE Inductive'
<1>1. UNCHANGED ctxDone
  BY DEF Diagnosing, Diag!Step, Diag!LogPrompt, Diag!Answered,
         Diag!RequestFails, Diag!LogResponse, Diag!LogThinking, Diag!Parse,
         Diag!Goto, Diag!Return
<1>2. ClusterInv' /\ CallInv'
  BY <1>1, ClusterRests, CallRests DEF Diagnosing, Inductive, CallInv
<1>3. DiagInv'
  BY DiagStepKeeps DEF Diagnosing, Inductive
<1>4. Turns'
  BY DEF Diagnosing, Inductive, Turns, collector
<1> QED BY <1>2, <1>3, <1>4 DEF Inductive

\* The other actions leave both components alone.
LEMMA OthersRest ==
    ASSUME Inductive, UNCHANGED <<cluster, collector, diagnostician>>,
           ctxDone' \in BOOLEAN, Turns'
    PROVE  Inductive'
BY ClusterRests, CallRests, DiagRests DEF Inductive

LEMMA NextKeeps == Inductive /\ [Next]_vars => Inductive'
<1> SUFFICES ASSUME Inductive, [Next]_vars PROVE Inductive'
  OBVIOUS
<1>1. ctxDone \in BOOLEAN
  BY DEF Inductive, CallInv
<1>2. CASE \E t \in Templates, c \in Names \cup {None} : Receive(t, c)
  BY <1>2, ReceiveKeeps
<1>3. CASE Collecting
  BY <1>3, CollectingKeeps
<1>4. CASE Collected
  BY <1>4, CollectedKeeps
<1>5. CASE Diagnosing
  BY <1>5, DiagnosingKeeps
<1>6. CASE Skip \/ Diagnosed \/ Opened
  <2>1. Turns'
    BY <1>6 DEF Inductive, Turns, Skip, Diagnosed, Opened, collector,
                diagnostician
  <2> QED BY <1>1, <1>6, <2>1, OthersRest DEF Skip, Diagnosed, Opened
<1>7. CASE Cancel
  <2>1. Turns'
    BY <1>7 DEF Inductive, Turns, Cancel, collector, diagnostician
  <2> QED BY <1>7, <2>1, OthersRest DEF Cancel
<1>8. CASE ClusterMoves
  <2>1. ClusterInv'
    BY <1>8, ClusterKeepsOrder DEF ClusterMoves, Inductive
  <2>2. CallInv' /\ DiagInv'
    BY <1>1, <1>8, CallRests, DiagRests DEF ClusterMoves, Inductive
  <2>3. Turns'
    BY <1>8 DEF Inductive, Turns, ClusterMoves, collector, diagnostician
  <2> QED BY <2>1, <2>2, <2>3 DEF Inductive
<1>9. CASE UNCHANGED vars
  <2>1. Turns'
    BY <1>9 DEF Inductive, Turns, vars, collector, diagnostician
  <2> QED BY <1>1, <1>9, <2>1, OthersRest DEF vars
<1> QED BY <1>2, <1>3, <1>4, <1>5, <1>6, <1>7, <1>8, <1>9 DEF Next

(***************************************************************************)
(* The theorems.                                                           *)
(***************************************************************************)
LEMMA Invariance == Spec => []Inductive
<1>1. Init => Inductive
  BY InitInductive
<1>2. Inductive /\ [Next]_vars => Inductive'
  BY NextKeeps
<1> QED BY <1>1, <1>2, PTL DEF Spec

\* Collector and diagnostician keep their invariants in the pipeline, one at
\* work at a time, and OpenPR is called with a verdict that asks for it.
THEOREM TriageInvariant == Spec => []IInv
<1>1. Inductive => IInv
  BY InductiveIsIInv
<1> QED BY <1>1, Invariance, PTL

\* The hint is never the tag that the pod is failing with, whatever is rolled
\* out or cleaned up during the call (docs/bugs.md:103).
THEOREM NeverTheFailingTag == Spec => []HintIsAnotherTag
<1>1. Inductive => HintIsAnotherTag
  BY DEF Inductive, CallInv, HintIsAnotherTag
<1> QED BY <1>1, Invariance, PTL

\* Whatever becomes of an answer, it is on record after its prompt and before
\* its thinking, and so before anybody acts on it (diagnostician.go:216-232).
THEOREM RecordedBeforeUse == Spec => []AnswerIsOnRecord
<1>1. Inductive => AnswerIsOnRecord
  BY DEF Inductive, DiagInv, AnswerIsOnRecord
<1> QED BY <1>1, Invariance, PTL

\* The verdict is that of the one object in the answer, whatever surrounds it,
\* and of any other answer nothing is made up (diagnostician.go:225-245).
THEOREM VerdictIsFaithful == Spec => []VerdictIsTheAnswers
<1>1. Inductive => VerdictIsTheAnswers
  BY InductiveIsIInv DEF IInv, Diag!IInv, VerdictIsTheAnswers
<1> QED BY <1>1, Invariance, PTL

(***************************************************************************)
(* The listing is the only step that finds a hint, and it takes the first  *)
(* candidate by revision; a sibling that was rolled out later has a higher *)
(* revision, so it is not a candidate, so it has the failing tag.          *)
(***************************************************************************)
LastRolledOut ==
    pc = "list" /\ hint' # None =>
        \E t \in Col!Siblings :
            /\ hint' = Col!ImageTag(t, container)
            /\ \A u \in Col!Siblings :
                rolledOut[u] > rolledOut[t] =>
                    Col!ImageTag(u, container) =
                        Col!FailingTag(owner, container)

LEMMA FirstIsLastRolledOut ==
    ASSUME ClusterInv, NEW t \in Col!Candidates, Col!FirstByRevision(t),
           NEW u \in Col!Siblings, rolledOut[u] > rolledOut[t]
    PROVE  Col!ImageTag(u, container) = Col!FailingTag(owner, container)
<1>1. /\ t \in Col!Cluster!ReplicaSets /\ u \in Col!Cluster!ReplicaSets
      /\ Col!Cluster!SameDeployment(t, u)
  BY DEF Col!Candidates, Col!Siblings, Col!Cluster!SameDeployment
<1>2. /\ revision[t] \in Nat /\ revision[u] \in Nat
      /\ rolledOut[t] \in Nat /\ rolledOut[u] \in Nat
  BY <1>1 DEF ClusterInv, Col!Cluster!ReplicaSets
<1>3. revision[u] > revision[t]
  <2>1. Col!Cluster!SameDeployment(u, t)
    BY <1>1 DEF Col!Cluster!SameDeployment
  <2>2. revision[u] <= revision[t] <=> rolledOut[u] <= rolledOut[t]
    BY <1>1, <2>1 DEF ClusterInv, Col!RevisionsInOrder
  <2> QED BY <1>2, <2>2
<1>4. u \notin Col!Candidates
  BY <1>2, <1>3 DEF Col!FirstByRevision
<1> QED BY <1>4 DEF Col!Candidates

LEMMA ListingFindsTheLast ==
    ASSUME Inductive, [Next]_vars PROVE LastRolledOut
<1> SUFFICES ASSUME pc = "list", hint' # None
             PROVE  \E t \in Col!Siblings :
                /\ hint' = Col!ImageTag(t, container)
                /\ \A u \in Col!Siblings :
                    rolledOut[u] > rolledOut[t] =>
                        Col!ImageTag(u, container) =
                            Col!FailingTag(owner, container)
  BY DEF LastRolledOut
<1>1. hint' # hint
  BY DEF Inductive, CallInv, Col!FailedAtThePod
<1>2. Collecting
  BY <1>1 DEF Inductive, Turns, Next, vars, Receive, Skip, Collected,
              Diagnosing, Diagnosed, Opened, Cancel, ClusterMoves, collector
<1>3. Col!ReplicaSetsListed
  BY <1>1, <1>2 DEF Collecting, Col!Step, Col!PodRead, Col!PodUnread,
                    Col!ReplicaSetRead, Col!NoHint, Col!EventsRead,
                    Col!LogsRead, Col!Bundled, Col!Goto, Col!Return
<1>4. PICK t \in Col!Candidates :
        Col!FirstByRevision(t) /\ hint' = Col!ImageTag(t, container)
  BY <1>1, <1>3 DEF Col!ReplicaSetsListed
<1>5. t \in Col!Siblings
  BY DEF Col!Candidates
<1>6. \A u \in Col!Siblings :
        rolledOut[u] > rolledOut[t] =>
            Col!ImageTag(u, container) = Col!FailingTag(owner, container)
  BY <1>4, FirstIsLastRolledOut DEF Inductive
<1> QED BY <1>4, <1>5, <1>6

\* The hint is what the Deployment ran last, among what does not have the
\* failing tag, by the rollouts there have been up to the listing, rollbacks
\* and reused ReplicaSets included (collector.go:303-307, docs/bugs.md:10).
THEOREM LastRolledOutIsTheHint == Spec => HintIsLastRolledOut
<1>1. Inductive /\ [Next]_vars => LastRolledOut
  BY ListingFindsTheLast
<1> QED BY <1>1, Invariance, PTL
        DEF Spec, HintIsLastRolledOut, Col!HintIsLastRolledOut, LastRolledOut

(***************************************************************************)
(* The refinement: every step is one of Analysis or none.                  *)
(***************************************************************************)
LEMMA InitIsAnalysis == Init => Stages!Init
BY DEF Init, Col!Init, Stages!Init, StageReached

LEMMA CollectingIsAnalysis ==
    ASSUME Inductive, Collecting
    PROVE  Stages!Next \/ UNCHANGED Stages!vars
<1> USE DEF Col!Goto, Col!Return
<1>1. turn = "collect" /\ turn' = "collect"
  BY DEF Collecting
<1>2. pc # "idle" => outcome = "none"
  BY DEF Inductive, CallInv, Col!FailedAtThePod
<1>3. CASE Col!PodRead
  <2>1. Stages!Collected
    BY <1>1, <1>2, <1>3 DEF Col!PodRead, Stages!Collected, Stages!Move,
                            StageReached
  <2> QED BY <2>1 DEF Stages!Next
<1>4. CASE Col!PodUnread
  <2>1. Stages!CollectFails
    BY <1>1, <1>2, <1>4 DEF Col!PodUnread, Stages!CollectFails, Stages!Move,
                            StageReached
  <2> QED BY <2>1 DEF Stages!Next
<1>5. CASE \/ Col!ReplicaSetRead
           \/ Col!ReplicaSetsListed
           \/ Col!NoHint
           \/ Col!EventsRead
           \/ Col!LogsRead
           \/ Col!Bundled
  <2>1. StageReached = "diagnose" /\ StageReached' = "diagnose"
    BY <1>1, <1>2, <1>5
       DEF Col!ReplicaSetRead, Col!ReplicaSetsListed, Col!NoHint,
           Col!EventsRead, Col!LogsRead, Col!Bundled, StageReached
  <2>2. UNCHANGED ctxDone
    BY <1>5 DEF Col!ReplicaSetRead, Col!ReplicaSetsListed, Col!NoHint,
                Col!EventsRead, Col!LogsRead, Col!Bundled
  <2> QED BY <2>1, <2>2 DEF Stages!vars
<1> QED BY <1>3, <1>4, <1>5 DEF Collecting, Col!Step

LEMMA DiagnosingIsAnalysis ==
    ASSUME Inductive, Diagnosing
    PROVE  Stages!Next \/ UNCHANGED Stages!vars
<1> USE DEF Diag!Goto, Diag!Return
<1>1. turn = "diagnose" /\ turn' = "diagnose"
  BY DEF Diagnosing
<1>2. CASE Diag!Answered
  <2>1. Stages!Remediate \/ Stages!Escalate
    BY <1>1, <1>2 DEF Diag!Answered, Stages!Remediate, Stages!Escalate,
                      Stages!Move, StageReached
  <2> QED BY <2>1 DEF Stages!Next
<1>3. CASE Diag!RequestFails
  <2>1. "failed" \notin FailureTypes
    BY TriageAssumption DEF Diag!DiagnosticianAssumption
  <2>2. Stages!DiagnoseFails
    BY <1>1, <1>3, <2>1 DEF Diag!RequestFails, Stages!DiagnoseFails,
                            Stages!Move, StageReached
  <2> QED BY <2>2 DEF Stages!Next
<1>4. CASE \/ Diag!LogPrompt
           \/ Diag!LogResponse
           \/ Diag!LogThinking
           \/ Diag!Parse
  <2>1. UNCHANGED StageReached
    BY <1>1, <1>4 DEF Diag!LogPrompt, Diag!LogResponse, Diag!LogThinking,
                      Diag!Parse, StageReached
  <2>2. UNCHANGED ctxDone
    BY <1>4 DEF Diag!LogPrompt, Diag!LogResponse, Diag!LogThinking,
                Diag!Parse
  <2> QED BY <2>1, <2>2 DEF Stages!vars
<1> QED BY <1>2, <1>3, <1>4 DEF Diagnosing, Diag!Step

LEMMA NextIsAnalysis ==
    ASSUME Inductive, [Next]_vars
    PROVE  Stages!Next \/ UNCHANGED Stages!vars
<1>1. CASE \E t \in Templates, c \in Names \cup {None} : Receive(t, c)
  <2>1. Stages!Begin
    BY <1>1 DEF Receive, Col!Collect, Stages!Begin, Stages!Move, StageReached
  <2> QED BY <2>1 DEF Stages!Next
<1>2. CASE Collecting
  BY <1>2, CollectingIsAnalysis
<1>3. CASE Diagnosing
  BY <1>3, DiagnosingIsAnalysis
<1>4. CASE Skip
  BY <1>4 DEF Skip, Stages!vars, StageReached
<1>5. CASE Collected
  BY <1>5 DEF Collected, Diag!Diagnose, Stages!vars, StageReached
<1>6. CASE Diagnosed
  BY <1>6 DEF Diagnosed, Stages!vars, StageReached
<1>7. CASE Opened
  <2>1. Stages!Finish
    BY <1>7 DEF Opened, Stages!Finish, Stages!Move, StageReached
  <2> QED BY <2>1 DEF Stages!Next
<1>8. CASE Cancel
  <2>1. UNCHANGED StageReached
    BY <1>8 DEF Cancel, collector, diagnostician, StageReached
  <2> QED BY <1>8, <2>1 DEF Cancel, Stages!Cancel, Stages!Next
<1>9. CASE ClusterMoves \/ UNCHANGED vars
  BY <1>9 DEF ClusterMoves, vars, collector, diagnostician, Stages!vars,
              StageReached
<1> QED BY <1>1, <1>2, <1>3, <1>4, <1>5, <1>6, <1>7, <1>8, <1>9 DEF Next

\* Collector and diagnostician implement the stages that the pipeline takes
\* them for: no diagnosis without the pod, no OpenPR without an answer that
\* asks for it, and neither after the signal.
THEOREM TriageImplementsAnalysis == Spec => ImplementsAnalysis
<1>1. Init => Stages!Init
  BY InitIsAnalysis
<1>2. Inductive /\ [Next]_vars => [Stages!Next]_Stages!vars
  BY NextIsAnalysis
<1> QED BY <1>1, <1>2, Invariance, PTL
        DEF Spec, ImplementsAnalysis, Stages!Spec
=============================================================================
