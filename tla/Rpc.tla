-------------------------------- MODULE Rpc --------------------------------
(***************************************************************************)
(* The gRPC side of cars-api: start-up of main, the way of a call through  *)
(* the generated handler, the validator and recovery interceptors and the  *)
(* method that Go's method resolution finds, and the stateless methods of  *)
(* consumer.Server over the table of languages.                            *)
(*                                                                         *)
(* A source is represented by its number of runes, the only thing the      *)
(* validation looks at.                                                    *)
(***************************************************************************)
EXTENDS Naturals, FiniteSets

CONSTANTS
  Call,     \* concurrent calls
  Code,     \* the language strings clients send
  Length,   \* the source lengths clients send
  None

ASSUME RpcAssumption == Length \subseteq Nat /\ None \notin Code

\* The keys of sandbox.Compilers, interpreted and compiled.
Interpreted == {"python2", "python", "node", "ruby", "php"}
Compiled    == {"rust", "go", "c", "cpp", "fsharp", "csharp", "java", "scala", "kotlin"}
Compilers   == Interpreted \cup Compiled

\* The files embedded from templates/.
Embedded == Compilers \cup {"haskell"}

\* _GetTemplateRequest_Language_InLookup
TemplateInLookup == {"python2", "python", "node", "rust", "ruby", "go", "c", "cpp", "fsharp",
                     "csharp", "java", "kotlin", "scala", "php"}

\* _CreateCompileRequest_Language_InLookup
CompileInLookup == {"python2", "python", "node", "rust", "ruby", "go", "c", "cpp", "fsharp",
                    "csharp", "java", "kotlin", "scala", "php"}

\* The methods of ConsumerServiceServer, and those consumer.Server declares.
ServiceMethod == {"Ping", "GetTemplate", "GetSupportedLanguages", "CreateCompile",
                  "GetCompileResult"}
ServerMethod  == {"Ping", "GetTemplate", "GetSupportedLanguages", "CreateCompileRequest",
                  "GetCompileResultRequest"}

VARIABLES
  main,      \* what main does next: load, listen, serve
  template,  \* the keys of CompilerTemplate
  stage,     \* where a call is
  req,       \* its request
  reply,     \* its answer
  listed     \* language codes some client has been told of

callVars == <<stage, req, reply, listed>>
vars == <<main, template, callVars>>

Init ==
  /\ main = "load"
  /\ template = {}
  /\ stage = [c \in Call |-> "none"]
  /\ req = [c \in Call |-> None]
  /\ reply = [c \in Call |-> None]
  /\ listed = {}

-----------------------------------------------------------------------------
(* main *)

\* Mutant: the templates are loaded by the first call that needs them.
LoadEmbeddedTemplateFiles_Later ==
  /\ main = "load"
  /\ main' = "listen"
  /\ UNCHANGED <<template, callVars>>

\* A language without a template is only logged.
LoadEmbeddedTemplateFiles ==
  /\ main = "load"
  /\ template' = Compilers \cap Embedded
  /\ main' = "listen"
  /\ UNCHANGED callVars

\* Queue, repository, file store and listener; any error of them is fatal.
Listen ==
  /\ main = "listen"
  /\ main' \in {"serve", "exit"}
  /\ UNCHANGED <<template, callVars>>

-----------------------------------------------------------------------------
(* A call *)

GetTemplateRequest   == [method : {"GetTemplate"}, language : Code]
CreateCompileRequest == [method : {"CreateCompile"}, language : Code, length : Length]
Request == GetTemplateRequest \cup CreateCompileRequest
             \cup [method : ServiceMethod \ {"GetTemplate", "CreateCompile"}]

\* The generated handler decodes the request and enters the interceptors.
Arrive(c) ==
  /\ main = "serve" /\ stage[c] = "none"
  /\ \E r \in Request : req' = [req EXCEPT ![c] = r]
  /\ stage' = [stage EXCEPT ![c] = "validate"]
  /\ UNCHANGED <<main, template, reply, listed>>

Answer(c, code, next) ==
  /\ reply' = [reply EXCEPT ![c] = code]
  /\ stage' = [stage EXCEPT ![c] = next]
  /\ UNCHANGED <<main, template, req>>

\* The generated Validate methods; Empty and GetCompileResultRequest have no rules.
ValidTemplate(r) == r.language \in TemplateInLookup
ValidCompile(r)  == r.length \in 5 .. 1024 /\ r.language \in CompileInLookup
Valid(r) ==
  /\ r.method = "GetTemplate" => ValidTemplate(r)
  /\ r.method = "CreateCompile" => ValidCompile(r)

\* grpc_validator: the call goes on, or is answered with InvalidArgument.
Validate(c) ==
  /\ stage[c] = "validate"
  /\ IF Valid(req[c]) THEN Answer(c, None, "method")
     ELSE Answer(c, "InvalidArgument", "done")
  /\ UNCHANGED listed

\* The method set of *consumer.Server: its own methods come before those of
\* the embedded UnimplementedConsumerServiceServer.
Resolves(m) == m \in ServerMethod

\* Server.GetTemplate
GetTemplate(c) ==
  /\ stage[c] = "method" /\ req[c].method = "GetTemplate" /\ Resolves("GetTemplate")
  /\ Answer(c, IF req[c].language \in template THEN "OK" ELSE "Unknown", "done")
  /\ UNCHANGED listed

\* Server.GetSupportedLanguages
GetSupportedLanguages(c) ==
  /\ stage[c] = "method" /\ req[c].method = "GetSupportedLanguages"
  /\ Resolves("GetSupportedLanguages")
  /\ Answer(c, "OK", "done")
  /\ listed' = listed \cup Compilers

\* Server.Ping
Ping(c) ==
  /\ stage[c] = "method" /\ req[c].method = "Ping" /\ Resolves("Ping")
  /\ Answer(c, "OK", "done")
  /\ UNCHANGED listed

\* A method that the server does not declare is the embedded one.
Unimplemented(c) ==
  /\ stage[c] = "method" /\ ~Resolves(req[c].method)
  /\ Answer(c, "Unimplemented", "done")
  /\ UNCHANGED listed

\* The client calls again.
Return(c) ==
  /\ stage[c] = "done"
  /\ stage' = [stage EXCEPT ![c] = "none"]
  /\ req' = [req EXCEPT ![c] = None]
  /\ reply' = [reply EXCEPT ![c] = None]
  /\ UNCHANGED <<main, template, listed>>

CallStep(c) ==
  \/ Validate(c) \/ GetTemplate(c) \/ GetSupportedLanguages(c) \/ Ping(c)
  \/ Unimplemented(c)

Next ==
  \/ LoadEmbeddedTemplateFiles \/ Listen
  \/ \E c \in Call : Arrive(c) \/ CallStep(c) \/ Return(c)

Spec == Init /\ [][Next]_vars
-----------------------------------------------------------------------------
(* Properties *)

\* A client that takes a language code from GetSupportedLanguages gets its
\* template, whatever calls are served at the same time (consumer.proto:89-90,
\* "This is also the code used to get the template").
ListedIsServed ==
  \A c \in Call :
    stage[c] = "done" /\ req[c].method = "GetTemplate" /\ req[c].language \in listed
      => reply[c] = "OK"
=============================================================================
