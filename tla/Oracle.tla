------------------------------- MODULE Oracle -------------------------------
(***************************************************************************)
(* The insight on one symbol: requests whose prompt is the same share one  *)
(* walk of the chain of language models (llm_fallback.go), each behind a   *)
(* ladder of retries (llm_providers.go); the text, or the heuristic that   *)
(* stands in for it, is cached for every later reader.                     *)
(***************************************************************************)
EXTENDS Integers, Sequences

CONSTANTS
  Requests,  \* GET /v1/ai-insight for the symbol
  Clients,   \* the clients a deployment may have a key for
  Attempts   \* rungs of a ladder

OracleAssumption == Attempts \in Nat \ {0} /\ "none" \notin Requests

VARIABLES
  chain,    \* the clients of this deployment
  request,  \* the requests: where, and what they are about to store
  gone,     \* waiting requests whose context has ended: the browser left, or 30 seconds passed
  flight,   \* the walk: the request that began it, the client and model it is at, the attempts made there
  insight,  \* gse:llm:ai-insight:<symbol> in Redis
  facts     \* history: what happened in the walk

vars == <<chain, request, gone, flight, insight, facts>>

MaxClients == 4
Rank(c) == CASE c = "gemini" -> 1 [] c = "anthropic" -> 2 [] c = "openai" -> 3 [] c = "compatible" -> 4

\* NewServer: a client for each key that is configured, in this order.
Deployments == {s \in UNION {[1 .. n -> Clients] : n \in 0 .. MaxClients} :
                  \A i, j \in DOMAIN s : i < j => Rank(s[i]) < Rank(s[j])}

\* geminiModelChain.
Models(c) == IF c = "gemini" THEN 2 ELSE 1

Failures == (1 .. MaxClients) \X (1 .. 2) \X (1 .. Attempts)

\* What failed and could be tried again, did anybody refuse, and had the request that began the walk left?
Facts == [failed : SUBSET Failures, refused : BOOLEAN, left : BOOLEAN]
NoFacts == [failed |-> {}, refused |-> FALSE, left |-> FALSE]

Values == [text : {"none", "model", "heuristic"}, of : Facts]
Nothing == [text |-> "none", of |-> NoFacts]

Positions ==
  [owner : Requests \cup {"none"}, client : 1 .. MaxClients, model : 1 .. 2, tries : 0 .. Attempts - 1]
NoFlight == [owner |-> "none", client |-> 1, model |-> 1, tries |-> 0]
Idle == [at |-> "idle", val |-> Nothing]

TypeOK ==
  /\ chain \in Deployments
  /\ request \in [Requests -> [at : {"idle", "wait", "store"}, val : Values]]
  /\ gone \subseteq {r \in Requests : request[r].at = "wait"}
  /\ flight \in Positions
  /\ insight \in Values /\ facts \in Facts

Init ==
  /\ chain \in Deployments
  /\ request = [r \in Requests |-> Idle] /\ gone = {}
  /\ flight = NoFlight /\ insight = Nothing /\ facts = NoFacts

-----------------------------------------------------------------------------
(* One attempt.  The answer is a text, a blank text, 200 with anything     *)
(* else, a 4xx, a 429 or 5xx, or none (the transport failed).              *)
Answers == {"text", "blank", "malformed", "refusal", "overload", "lost"}

\* generateOnce takes a blank text for a text.
GeminiOnce(a) ==
  IF a \in {"overload", "lost"} THEN "transient"
  ELSE IF a \in {"text", "blank"} THEN a ELSE "permanent"

AnthropicOnce(a) ==
  IF a \in {"overload", "lost"} THEN "transient"
  ELSE IF a = "text" THEN a ELSE "permanent"

\* OpenAI's client, and any other of its kind.
CompatibleOnce(a) ==
  CASE a = "text" -> "text"
    [] a \in {"overload", "lost"} -> "transient"
    [] a \in {"blank", "malformed", "refusal"} -> "permanent"

Once(c, a) == CASE c = "gemini" -> GeminiOnce(a)
                [] c = "anthropic" -> AnthropicOnce(a)
                [] OTHER -> CompatibleOnce(a)

-----------------------------------------------------------------------------
(* Requests.                                                               *)

Waiting == {r \in Requests : request[r].at = "wait"}

\* HandleGetAIInsight: a miss, or a failed read.  Without enough prices it ends here.  Generate begins a walk or
\* joins one; without a client the heuristic is all there is.
Ask(r) ==
  /\ request[r].at = "idle"
  /\ IF chain = <<>>
     THEN /\ request' = [request EXCEPT ![r] = [at |-> "store", val |-> [text |-> "heuristic", of |-> NoFacts]]]
          /\ UNCHANGED flight
     ELSE /\ request' = [request EXCEPT ![r].at = "wait"]
          /\ flight' = IF flight = NoFlight THEN [NoFlight EXCEPT !.owner = r] ELSE flight
  /\ UNCHANGED <<chain, gone, insight, facts>>

\* A request that waits for another's walk does not look at its own context.
Leave(r) ==
  /\ request[r].at = "wait" /\ r \notin gone
  /\ gone' = gone \cup {r}
  /\ UNCHANGED <<chain, request, flight, insight, facts>>

\* The walk ends with a text, or with a failure or a blank one: summarize then has the heuristic.
Land(text, seen) ==
  /\ request' = [r \in Requests |->
                   IF request[r].at # "wait" THEN request[r]
                   ELSE [at |-> "store", val |-> [text |-> text, of |-> seen]]]
  /\ flight' = NoFlight /\ gone' = {} /\ facts' = NoFacts
  /\ UNCHANGED <<chain, insight>>

Left == flight.owner \in gone
Seen(failed, refused) == [failed |-> failed, refused |-> refused, left |-> Left]

-----------------------------------------------------------------------------
(* The walk.  Its context is that of the request that began it.            *)

\* Gemini's next model has a ladder of its own.
HasModel(f) == f.model < Models(chain[f.client])

LastClient(f) == FALSE

\* generateSequential goes on from a client that is unavailable.
HasClient(f) == f.client < Len(chain)

\* Where a ladder that is used up leads.
Onward(f) ==
  IF HasModel(f) THEN [f EXCEPT !.model = f.model + 1, !.tries = 0]
  ELSE [f EXCEPT !.client = f.client + 1, !.model = 1, !.tries = 0]

\* retryLLMCall and generateWithRetries: a transient failure leads to the next rung; after the last one the context
\* is looked at before the next model and the next client.
Fail(failed) ==
  IF flight.tries + 1 < Attempts
  THEN /\ flight' = [flight EXCEPT !.tries = flight.tries + 1]
       /\ facts' = [facts EXCEPT !.failed = failed]
       /\ UNCHANGED <<chain, request, gone, insight>>
  ELSE IF ~Left /\ (HasModel(flight) \/ HasClient(flight))
  THEN /\ flight' = Onward(flight)
       /\ facts' = [facts EXCEPT !.failed = failed]
       /\ UNCHANGED <<chain, request, gone, insight>>
  ELSE Land("heuristic", Seen(failed, FALSE))

\* A request whose context has ended cuts the attempt off before the answer, or in its body.
Attempt(a) ==
  /\ flight # NoFlight
  /\ Left => a \in {"lost", "malformed"}
  /\ LET out == Once(chain[flight.client], a)
     IN CASE out = "text" -> Land("model", NoFacts)
          [] out = "transient" -> Fail(facts.failed \cup {<<flight.client, flight.model, flight.tries + 1>>})
          [] OTHER -> Land("heuristic", Seen(facts.failed, a \in {"blank", "malformed", "refusal"}))

\* Between two rungs the context ends the wait.
GiveUp ==
  /\ flight # NoFlight /\ flight.tries > 0 /\ Left
  /\ Land("heuristic", Seen(facts.failed, FALSE))

-----------------------------------------------------------------------------
(* The cache.                                                              *)

\* cachedJSONBytesTTL stores whatever it got, by a detached write that may fail, also for a browser that left.
Store(r) ==
  /\ request[r].at = "store"
  /\ insight' \in {insight, request[r].val}
  /\ request' = [request EXCEPT ![r] = Idle]
  /\ UNCHANGED <<chain, gone, flight, facts>>

\* After aiInsightCacheTTL, or by an upload.
Forget ==
  /\ insight # Nothing /\ insight' = Nothing
  /\ UNCHANGED <<chain, request, gone, flight, facts>>

Restart ==
  /\ request' = [r \in Requests |-> Idle] /\ gone' = {}
  /\ flight' = NoFlight /\ facts' = NoFacts
  /\ UNCHANGED <<chain, insight>>

Next ==
  \/ \E r \in Requests : Ask(r) \/ Leave(r) \/ Store(r)
  \/ \E a \in Answers : Attempt(a)
  \/ GiveUp \/ Forget \/ Restart

Spec == Init /\ [][Next]_vars

-----------------------------------------------------------------------------
(* Properties.                                                             *)

\* FallbackLLMClient ends its walk at a permanent error and goes on past an unavailable client.  The heuristic is then
\* cached in a model's place, for twelve hours, for one of three reasons only: a client refused, or the request that
\* began the walk left (whoever else waited), or each rung of the ladder of each model of each client failed.
Rungs == {s \in Failures : s[1] <= Len(chain) /\ s[2] <= Models(chain[s[1]])}
HeuristicIsExplained ==
  insight.text = "heuristic" => insight.of.refused \/ insight.of.left \/ Rungs \subseteq insight.of.failed
=============================================================================
