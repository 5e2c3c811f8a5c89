---------------------------- MODULE Diagnostician ----------------------------
(***************************************************************************)
(* OpenRouterDiagnostician.Diagnose (internal/diagnostician): it logs the  *)
(* prompt, asks the model once, logs the answer and the thinking, and only *)
(* then looks for a diagnosis in the answer.  Every write to the log can   *)
(* fail, halfway too, and none of that may matter to the caller.           *)
(*                                                                         *)
(* The content of an answer is a sequence of tokens: whole JSON objects,   *)
(* braces outside them, and other text.                                    *)
(***************************************************************************)
EXTENDS Integers, Sequences

CONSTANTS
    FailureTypes,   \* diagnosis.FailureType
    Answers         \* of the API: records [content, thinking]

\* A JSON object by the fields that decide what becomes of it, a missing one
\* having the zero value.  The other tokens carry nothing; a misfit is an object
\* too, with a field of another type than the one of Diagnosis.
Objects == [kind : {"object"}, remediable : BOOLEAN, type : FailureTypes]
Tokens == Objects \cup [kind : {"misfit", "{", "}", "null", "text"}]

Unanswered == [content |-> <<>>, thinking |-> FALSE]

\* What is assumed of the constants; Triage assumes it.
DiagnosticianAssumption ==
    /\ Answers \subseteq [content : Seq(Tokens), thinking : BOOLEAN]
    /\ FailureTypes \cap {"none", "failed", "escalated"} = {}

VARIABLES
    ctxDone,        \* the context is cancelled
    logDisabled,    \* LogDisabled, decided by the constructor
    step,           \* what Diagnose does next, or "idle"
    answer,         \* what the API answered
    log,            \* the entries that the call has written
    lost,           \* history: a write of the call has failed
    verdict         \* what the last call came to

vars == <<ctxDone, logDisabled, step, answer, log, lost, verdict>>

\* The log is disabled when its path is a directory or its directory cannot be
\* created.
Init ==
    /\ ctxDone = FALSE
    /\ logDisabled \in BOOLEAN
    /\ step = "idle" /\ answer = Unanswered
    /\ log = <<>> /\ lost = FALSE /\ verdict = "none"
-----------------------------------------------------------------------------
(* Reading an answer. *)

Opens(token) == token.kind \in {"object", "misfit", "{"}
Closes(token) == token.kind \in {"object", "misfit", "}"}

\* Mutant: the object ends at the first closing brace.
StrippedAtFirst(content) ==
    LET cut == {i \in DOMAIN content :
                    /\ \E j \in 1 .. i : Opens(content[j])
                    /\ \E k \in i .. Len(content) : Closes(content[k])
                    /\ \A k \in 1 .. i - 1 : ~Closes(content[k])}
    IN  IF cut = {} THEN DOMAIN content ELSE cut

\* What is left of the content: everything from the first opening brace to the
\* last closing one; all of it, if there is nothing between them.
Stripped(content) ==
    LET cut == {i \in DOMAIN content :
                    /\ \E j \in 1 .. i : Opens(content[j])
                    /\ \E k \in i .. Len(content) : Closes(content[k])}
    IN  IF cut = {} THEN DOMAIN content ELSE cut

\* json.Unmarshal into a Diagnosis accepts one object that fits it, and null,
\* which leaves the zero Diagnosis: not remediable.
Reading(token) ==
    CASE token.kind = "object" ->
            IF token.remediable THEN token.type ELSE "escalated"
      [] token.kind = "null" -> "escalated"
      [] OTHER -> "failed"

Verdict(content) ==
    IF \E i \in DOMAIN content : Stripped(content) = {i}
    THEN Reading(content[CHOOSE i \in DOMAIN content : Stripped(content) = {i}])
    ELSE "failed"
-----------------------------------------------------------------------------
(* The log. *)

\* diagLog: nothing is written when the log is disabled or cannot be opened, and
\* an entry is cut short when a write fails.  No error is returned.
DiagLog(label) ==
    \/ /\ ~logDisabled
       /\ log' = Append(log, [label |-> label, whole |-> TRUE])
       /\ UNCHANGED lost
    \/ /\ ~logDisabled
       /\ \/ UNCHANGED log
          \/ log' = Append(log, [label |-> label, whole |-> FALSE])
       /\ lost' = TRUE
    \/ logDisabled /\ UNCHANGED <<log, lost>>

Diagnose ==
    /\ step = "idle"
    /\ step' = "prompt" /\ answer' = Unanswered
    /\ log' = <<>> /\ lost' = FALSE /\ verdict' = "none"
    /\ UNCHANGED <<ctxDone, logDisabled>>

Goto(next) ==
    /\ step' = next
    /\ UNCHANGED <<ctxDone, logDisabled, verdict>>

Return(v) ==
    /\ step' = "idle"
    /\ verdict' = v
    /\ UNCHANGED <<ctxDone, logDisabled, answer, log, lost>>

LogPrompt ==
    /\ step = "prompt"
    /\ DiagLog("PROMPT")
    /\ Goto("request")
    /\ UNCHANGED answer

\* Mutant: an answer is logged once it has been understood.
AnsweredLegibly ==
    /\ step = "request"
    /\ ~ctxDone
    /\ answer' \in Answers
    /\ Goto(IF Verdict(answer'.content) = "failed" THEN "parse"
            ELSE "response")
    /\ UNCHANGED <<log, lost>>

\* The answer is complete, decodes and has a choice.
Answered ==
    /\ step = "request"
    /\ ~ctxDone
    /\ answer' \in Answers
    /\ Goto("response")
    /\ UNCHANGED <<log, lost>>

\* Mutant: a client without a timeout.
UnansweredOnceCancelled ==
    /\ step = "request"
    /\ ctxDone
    /\ Return("failed")

\* The request fails, its body cannot be read, its status is not 200, its JSON
\* does not decode or holds no choice; at the latest when the client's timeout
\* of 120 s is up or the context is cancelled.
RequestFails ==
    /\ step = "request"
    /\ Return("failed")

LogResponse ==
    /\ step = "response"
    /\ DiagLog("RESPONSE")
    /\ Goto(IF answer.thinking THEN "thinking" ELSE "parse")
    /\ UNCHANGED answer

LogThinking ==
    /\ step = "thinking"
    /\ DiagLog("THINKING")
    /\ Goto("parse")
    /\ UNCHANGED answer

Parse ==
    /\ step = "parse"
    /\ Return(Verdict(answer.content))

Step ==
    \/ LogPrompt
    \/ Answered
    \/ RequestFails
    \/ LogResponse
    \/ LogThinking
    \/ Parse

Next ==
    \/ Diagnose
    \/ Step
    \/ /\ ctxDone' = TRUE
       /\ UNCHANGED <<logDisabled, step, answer, log, lost, verdict>>

Spec == Init /\ [][Next]_vars
-----------------------------------------------------------------------------
Entries == [label : {"PROMPT", "RESPONSE", "THINKING"}, whole : BOOLEAN]

TypeOK ==
    /\ ctxDone \in BOOLEAN /\ logDisabled \in BOOLEAN /\ lost \in BOOLEAN
    /\ step \in {"idle", "prompt", "request", "response", "thinking", "parse"}
    /\ answer \in Answers \cup {Unanswered}
    /\ log \in Seq(Entries)
    /\ verdict \in {"none", "failed", "escalated"} \cup FailureTypes

Entry(label) == [label |-> label, whole |-> TRUE]

\* What a call that loses nothing writes up to each of its steps; at the end, if
\* it was answered.
Record ==
    CASE step = "prompt" -> <<>>
      [] step \in {"request", "response"} -> <<Entry("PROMPT")>>
      [] step = "thinking" -> <<Entry("PROMPT"), Entry("RESPONSE")>>
      [] step \in {"parse", "idle"} ->
         IF answer = Unanswered THEN log
         ELSE IF answer.thinking
         THEN <<Entry("PROMPT"), Entry("RESPONSE"), Entry("THINKING")>>
         ELSE <<Entry("PROMPT"), Entry("RESPONSE")>>

\* Whatever becomes of an answer, it is on record after its prompt and before
\* its thinking, and so before anybody acts on it; an answer that cannot be
\* parsed, too (diagnostician.go:216-232).
AnswerIsOnRecord == ~logDisabled /\ ~lost => log = Record

\* The places of the objects in an answer, and of braces outside them.
ObjectsIn(content) ==
    {i \in DOMAIN content : content[i].kind \in {"object", "misfit"}}
BracesIn(content) == {i \in DOMAIN content : content[i].kind \in {"{", "}"}}

\* What a call knows of the answer.
Progress ==
    /\ step \in {"prompt", "request"} => answer = Unanswered
    /\ step = "thinking" => answer.thinking
    /\ step = "idle" /\ answer # Unanswered => verdict = Verdict(answer.content)

\* The verdict is that of the one object in the answer, whatever text or fence
\* surrounds it; of an answer with two objects or none, or with one that does
\* not fit, nothing is made up; and what happened to the log does not matter
\* (diagnostician.go:225-245).
VerdictIsTheAnswers ==
    step = "idle" /\ answer # Unanswered =>
        LET objects == ObjectsIn(answer.content)
            says(i) == LET object == answer.content[i]
                       IN  IF object.kind = "misfit" THEN "failed"
                           ELSE IF object.remediable THEN object.type
                           ELSE "escalated"
        IN  /\ verdict \in FailureTypes =>
                \E i \in objects : objects = {i} /\ verdict = says(i)
            /\ BracesIn(answer.content) = {} =>
                \A i \in objects : objects = {i} => verdict = says(i)

IInv ==
    /\ TypeOK
    /\ Progress
    /\ AnswerIsOnRecord
    /\ VerdictIsTheAnswers
=============================================================================
