-------------------------------- MODULE LLM --------------------------------
(***************************************************************************)
(* The LLM router and its providers (internal/llm), as the llm.call of the *)
(* gateway uses them.  A call selects its provider under the lock, asks it *)
(* with the lock released, and on an error asks the fallback once.  The    *)
(* caller's context may be cancelled at any moment; the API may answer,    *)
(* refuse or time out, and is billed for every answer.                     *)
(***************************************************************************)
EXTENDS Naturals, FiniteSets

CONSTANTS
    Calls,      \* llm.call requests
    Configs     \* [key, default, fallback, roles]: what newLLMRouter and
                \* SetRoleProvider leave in the router

Registered == {"mock", "deepseek"}

VARIABLES
    config,     \* the router's configuration; key: DEEPSEEK_API_KEY is set
    llmCall,    \* call -> its request, selection and response
    cancelled,  \* calls whose context is done
    answers     \* call -> how often the API answered it

llmvars == <<config, llmCall, cancelled, answers>>

None == "none"
NoReply == [text |-> None, provider |-> None, requested |-> None, from |-> None,
            fallback |-> FALSE, evidence |-> None]
Unasked == [step |-> "new", provider |-> "", role |-> "", name |-> "", fallback |-> "",
            reply |-> NoReply]

LLMInit ==
    /\ config \in Configs
    /\ llmCall = [c \in Calls |-> Unasked]
    /\ cancelled = {}
    /\ answers = [c \in Calls |-> 0]

\* selectProvider: the request's provider, else the role's, else the default.
Name(provider, role) ==
    CASE provider # "" -> provider
      [] role \in DOMAIN config.roles -> config.roles[role]
      [] OTHER -> config.default

selectProvider(c, provider, role) ==
    /\ llmCall[c].step = "new"
    /\ LET name == Name(provider, role) IN
       llmCall' = [llmCall EXCEPT ![c] =
          [Unasked EXCEPT !.step = IF name \in Registered THEN "ask" ELSE "error",
                          !.provider = provider, !.role = role,
                          !.name = name, !.fallback = config.fallback]]
    /\ UNCHANGED <<config, cancelled, answers>>

\* What a provider may do.  The mock answers unless the context is done;
\* DeepSeek needs a key and a server that answers in time with a choice.
Answers(c, name) ==
    CASE name = "mock" -> {c \notin cancelled}
      [] config.key /\ c \notin cancelled -> BOOLEAN
      [] OTHER -> {FALSE}

Text(name) == IF name = "deepseek" THEN "api" ELSE "mock"

\* A provider labels its own answer.
Reply(name) ==
    [NoReply EXCEPT !.text = Text(name), !.provider = name,
                    !.evidence = IF name = "deepseek" THEN "real-api" ELSE "mock"]

Billed(c, name, ok) ==
    answers' = [answers EXCEPT ![c] = @ + (IF ok /\ name = "deepseek" THEN 1 ELSE 0)]

\* Fault: the fallback is asked whatever it is.
AskAgain(c) == llmCall[c].fallback \in Registered

\* Complete asks the fallback only if it is registered and another provider.
HasFallback(c) == llmCall[c].fallback \in Registered /\ llmCall[c].fallback # llmCall[c].name

\* An answer that was charged for can still be lost on its way back.
Ask(c, ok, lost) ==
    /\ llmCall[c].step = "ask" /\ ok \in Answers(c, llmCall[c].name)
    /\ lost => ok /\ llmCall[c].name = "deepseek"
    /\ Billed(c, llmCall[c].name, ok)
    /\ llmCall' = [llmCall EXCEPT
         ![c].step = CASE ok /\ ~lost -> "done"
                       [] HasFallback(c) -> "fallback"
                       [] OTHER -> "error",
         ![c].reply = IF ok /\ ~lost THEN Reply(llmCall[c].name) ELSE NoReply]
    /\ UNCHANGED <<config, cancelled>>

\* Fault: a fallback answer is passed on as if it had been asked for.
Unmarked(c) == Reply(llmCall[c].fallback)

\* Complete marks the answer of the fallback, and calls it a mock.
Marked(c) ==
    [Reply(llmCall[c].fallback) EXCEPT !.requested = llmCall[c].name, !.from = llmCall[c].name,
                                       !.fallback = TRUE, !.evidence = "mock"]

AskFallback(c, ok) ==
    /\ llmCall[c].step = "fallback" /\ ok \in Answers(c, llmCall[c].fallback)
    /\ Billed(c, llmCall[c].fallback, ok)
    /\ llmCall' = [llmCall EXCEPT ![c].step = IF ok THEN "done" ELSE "error",
                                  ![c].reply = IF ok THEN Marked(c) ELSE NoReply]
    /\ UNCHANGED <<config, cancelled>>

Cancel(c) ==
    /\ c \notin cancelled
    /\ cancelled' = cancelled \cup {c}
    /\ UNCHANGED <<config, llmCall, answers>>

LLMNext ==
    \E c \in Calls :
      \/ \E p \in {"", "mock", "deepseek", "other"}, r \in {"", "planner"} : selectProvider(c, p, r)
      \/ \E ok, lost \in BOOLEAN : Ask(c, ok, lost)
      \/ \E ok \in BOOLEAN : AskFallback(c, ok)
      \/ Cancel(c)

LLMSpec == LLMInit /\ [][LLMNext]_llmvars

(***************************************************************************)
(* Properties.                                                             *)
(***************************************************************************)
\* No answer is presented as more than it is: the label real-api stands on
\* text of the API only, and text of another provider than the one selected
\* is marked as a fallback from it (EvidenceMode, Fallback, FallbackFrom).
EvidenceHonest ==
    \A c \in Calls : llmCall[c].step = "done" =>
      /\ llmCall[c].reply.evidence = "real-api" => llmCall[c].reply.text = "api"
      /\ llmCall[c].reply.text # Text(llmCall[c].name) =>
           llmCall[c].reply.fallback /\ llmCall[c].reply.from = llmCall[c].name
      /\ llmCall[c].reply.fallback => llmCall[c].name # llmCall[c].reply.provider

\* A call is answered by the API at most once, even when an answer is lost
\* and Complete goes on to the fallback.
BilledOnce == \A c \in Calls : answers[c] <= 1
=============================================================================
