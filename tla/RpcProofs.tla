------------------------------ MODULE RpcProofs ------------------------------
(***************************************************************************)
(* Proofs about Rpc, for every number of concurrent calls, every language  *)
(* code and every length of source that clients send.                      *)
(*                                                                         *)
(* RpcInv is inductive.  It needs two facts that no call can see by itself *)
(* (Loaded): calls are served after the templates were loaded, and clients *)
(* are only told of languages with a compiler.                             *)
(***************************************************************************)
EXTENDS Rpc, TLAPS

CallType ==
  /\ stage \in [Call -> {"none", "validate", "method", "done"}]
  /\ req \in [Call -> Request \cup {None}]
  /\ reply \in [Call -> {None, "OK", "InvalidArgument", "Unknown", "Unimplemented"}]

\* LoadEmbeddedTemplateFiles comes before Serve; GetSupportedLanguages reads
\* sandbox.Compilers.
Loaded ==
  /\ \A c \in Call : stage[c] # "none" => main # "load"
  /\ main # "load" => template = Compilers
  /\ listed \subseteq Compilers

\* A GetTemplate call that was answered with anything but OK asked for a
\* language without a compiler.
TemplateAnswered ==
  \A c \in Call :
    stage[c] = "done" /\ req[c].method = "GetTemplate"
      => reply[c] = "OK" \/ req[c].language \notin Compilers

RpcInv == CallType /\ Loaded /\ TemplateAnswered

-----------------------------------------------------------------------------
(* Lemmas *)

\* The two generated lookup tables, the map of compilers and the embedded
\* files agree on the languages.
LEMMA Tables ==
  /\ TemplateInLookup = Compilers /\ CompileInLookup = Compilers
  /\ Compilers \cap Embedded = Compilers
BY DEF TemplateInLookup, CompileInLookup, Compilers, Interpreted, Compiled, Embedded

\* What an answer does to the calls.
LEMMA AnswerType ==
  ASSUME CallType, NEW c \in Call,
         NEW code \in {None, "OK", "InvalidArgument", "Unknown", "Unimplemented"},
         NEW next \in {"none", "validate", "method", "done"}, Answer(c, code, next)
  PROVE  /\ CallType' /\ main' = main /\ template' = template /\ req' = req
         /\ stage'[c] = next /\ reply'[c] = code
         /\ \A d \in Call \ {c} : stage'[d] = stage[d] /\ reply'[d] = reply[d]
BY DEF CallType, Answer

\* One call: it arrives, is validated, is answered, or returns.
LEMMA CallKeeps ==
  ASSUME RpcInv, NEW c \in Call, Arrive(c) \/ CallStep(c) \/ Return(c)
  PROVE  RpcInv'
<1> USE DEF RpcInv
<1>1. CASE Arrive(c)
  <2>1. PICK r \in Request : req' = [req EXCEPT ![c] = r]  BY <1>1 DEF Arrive
  <2>2. /\ main = "serve" /\ stage' = [stage EXCEPT ![c] = "validate"]
        /\ UNCHANGED <<main, template, reply, listed>>
    BY <1>1 DEF Arrive
  <2>3. CallType'  BY <2>1, <2>2 DEF CallType
  <2>4. /\ stage'[c] = "validate"
        /\ \A d \in Call \ {c} : stage'[d] = stage[d] /\ req'[d] = req[d]
    BY <2>1, <2>2 DEF CallType
  <2> QED BY <2>2, <2>3, <2>4 DEF Loaded, TemplateAnswered
<1>2. CASE Validate(c)
  <2>1. stage[c] = "validate" /\ UNCHANGED listed  BY <1>2 DEF Validate
  <2>2. CASE Valid(req[c])
    <3>1. Answer(c, None, "method")  BY <1>2, <2>2 DEF Validate
    <3>2. /\ CallType' /\ main' = main /\ template' = template /\ req' = req
          /\ stage'[c] = "method"
          /\ \A d \in Call \ {c} : stage'[d] = stage[d] /\ reply'[d] = reply[d]
      BY <3>1, AnswerType
    <3> QED BY <2>1, <3>2 DEF Loaded, TemplateAnswered
  <2>3. CASE ~Valid(req[c])
    <3>1. Answer(c, "InvalidArgument", "done")  BY <1>2, <2>3 DEF Validate
    <3>2. /\ CallType' /\ main' = main /\ template' = template /\ req' = req
          /\ stage'[c] = "done"
          /\ \A d \in Call \ {c} : stage'[d] = stage[d] /\ reply'[d] = reply[d]
      BY <3>1, AnswerType
    <3>3. req[c].method = "GetTemplate" => req[c].language \notin Compilers
      BY <2>3, Tables DEF Valid, ValidTemplate
    <3> QED BY <2>1, <3>2, <3>3 DEF Loaded, TemplateAnswered
  <2> QED BY <2>2, <2>3
<1>3. CASE GetTemplate(c)
  <2> DEFINE code == IF req[c].language \in template THEN "OK" ELSE "Unknown"
  <2>1. stage[c] = "method" /\ Answer(c, code, "done") /\ UNCHANGED listed
    BY <1>3 DEF GetTemplate
  <2>2. code \in {None, "OK", "InvalidArgument", "Unknown", "Unimplemented"}  OBVIOUS
  <2>3. template = Compilers  BY <2>1 DEF Loaded
  <2>4. code = "OK" \/ req[c].language \notin Compilers  BY <2>3
  <2> HIDE DEF code
  <2>5. /\ CallType' /\ main' = main /\ template' = template /\ req' = req
        /\ stage'[c] = "done" /\ reply'[c] = code
        /\ \A d \in Call \ {c} : stage'[d] = stage[d] /\ reply'[d] = reply[d]
    BY <2>1, <2>2, AnswerType
  <2> QED BY <2>1, <2>4, <2>5 DEF Loaded, TemplateAnswered
<1>4. CASE GetSupportedLanguages(c) \/ Ping(c)
  <2>1. /\ stage[c] = "method" /\ req[c].method # "GetTemplate"
        /\ Answer(c, "OK", "done") /\ listed' \in {listed, listed \cup Compilers}
    BY <1>4 DEF GetSupportedLanguages, Ping
  <2>2. /\ CallType' /\ main' = main /\ template' = template /\ req' = req
        /\ stage'[c] = "done"
        /\ \A d \in Call \ {c} : stage'[d] = stage[d] /\ reply'[d] = reply[d]
    BY <2>1, AnswerType
  <2> QED BY <2>1, <2>2 DEF Loaded, TemplateAnswered
<1>5. CASE Unimplemented(c)
  <2>1. /\ stage[c] = "method" /\ req[c].method # "GetTemplate"
        /\ Answer(c, "Unimplemented", "done") /\ UNCHANGED listed
    BY <1>5 DEF Unimplemented, Resolves, ServerMethod
  <2>2. /\ CallType' /\ main' = main /\ template' = template /\ req' = req
        /\ stage'[c] = "done"
        /\ \A d \in Call \ {c} : stage'[d] = stage[d] /\ reply'[d] = reply[d]
    BY <2>1, AnswerType
  <2> QED BY <2>1, <2>2 DEF Loaded, TemplateAnswered
<1>6. CASE Return(c)
  <2>1. /\ CallType' /\ UNCHANGED <<main, template, listed>> /\ stage'[c] = "none"
        /\ \A d \in Call \ {c} : stage'[d] = stage[d] /\ req'[d] = req[d] /\ reply'[d] = reply[d]
    BY <1>6 DEF Return, CallType
  <2> QED BY <2>1 DEF Loaded, TemplateAnswered
<1> QED BY <1>1, <1>2, <1>3, <1>4, <1>5, <1>6 DEF CallStep

-----------------------------------------------------------------------------
(* The theorems *)

\* The invariant over main, the templates and the calls is inductive.
THEOREM RpcInvariance == Spec => []RpcInv
<1>1. Init => RpcInv
  BY DEF Init, RpcInv, CallType, Loaded, TemplateAnswered
<1>2. RpcInv /\ [Next]_vars => RpcInv'
  <2> SUFFICES ASSUME RpcInv, [Next]_vars PROVE RpcInv'  OBVIOUS
  <2>1. CASE LoadEmbeddedTemplateFiles
    BY <2>1, Tables DEF LoadEmbeddedTemplateFiles, callVars, RpcInv, CallType, Loaded,
                        TemplateAnswered
  <2>2. CASE Listen
    BY <2>2 DEF Listen, callVars, RpcInv, CallType, Loaded, TemplateAnswered
  <2>3. CASE UNCHANGED vars
    BY <2>3 DEF vars, callVars, RpcInv, CallType, Loaded, TemplateAnswered
  <2> QED BY <2>1, <2>2, <2>3, CallKeeps DEF Next
<1> QED BY <1>1, <1>2, PTL DEF Spec

\* A client gets the template of every language it was told of.
THEOREM ListedHasTemplate == Spec => []ListedIsServed
<1>1. RpcInv => ListedIsServed  BY DEF RpcInv, Loaded, TemplateAnswered, ListedIsServed
<1> QED BY <1>1, RpcInvariance, PTL
=============================================================================
