--------------------------- MODULE RequestPipeline ---------------------------
(***************************************************************************)
(* The layers around every request of the backend: the middleware main.py  *)
(* adds and the handlers it registers (backend/app/main.py,                *)
(* backend/app/middleware).  A request passes the layers inwards; what     *)
(* answers it, a layer, a route or a handler, is passed back outwards, and *)
(* each layer the answer passes adds its headers.  The framework puts the  *)
(* middleware that was added last outermost, its own fallback around it    *)
(* and the layer that runs the handlers inside.                            *)
(***************************************************************************)
LOCAL INSTANCE Integers
LOCAL INSTANCE Sequences
LOCAL INSTANCE SequencesExt

\* In the order of create_app.
Added == <<"cors", "rate_limit", "request_context", "observability">>

\* Outermost first.
Stack == <<"fallback">> \o Reverse(Added) \o <<"handlers", "route">>

Depth(layer) == CHOOSE i \in DOMAIN Stack : Stack[i] = layer

\* Exceptions, by where they are raised.
ServiceErrors == {"ResourceNotFound", "ResourceConflict", "AuthenticationError", "IngestionError",
                  "EmbeddingError", "VectorStoreError", "LLMError", "BaseApplicationError"}
Exceptions == ServiceErrors \cup {"RateLimitExceeded", "ServiceError"}

RaisedAt(exc) == IF exc = "RateLimitExceeded" THEN "rate_limit" ELSE "route"

\* The registered handlers; a plain ServiceError has none.
HandlerStatus ==
    [exc \in ServiceErrors \cup {"RateLimitExceeded"} |->
        CASE exc = "ResourceNotFound" -> 404
          [] exc = "ResourceConflict" -> 409
          [] exc = "AuthenticationError" -> 401
          [] exc = "RateLimitExceeded" -> 429
          [] exc \in {"EmbeddingError", "LLMError"} -> 503
          [] OTHER -> 500]

\* The headers a layer adds to what it passes on.
HeadersOf(layer) ==
    CASE layer = "cors" -> {"Access-Control-Allow-Origin"}
      [] layer = "rate_limit" -> {"X-RateLimit-Limit", "X-RateLimit-Remaining", "X-RateLimit-Reset"}
      [] layer = "request_context" -> {"X-Request-ID"}
      [] layer = "observability" -> {"X-Trace-ID", "X-Span-ID"}
      [] OTHER -> {}

\* An answer that is made at a layer, with the headers it gathers on its way.
AnsweredAt(layer, code, own) ==
    [status |-> code,
     headers |-> own \cup UNION {HeadersOf(Stack[i]) : i \in 1..(Depth(layer) - 1)}]

\* The handlers catch what is raised inside them; the rest falls through to
\* the framework's fallback.
Handled(exc) == exc \in DOMAIN HandlerStatus /\ Depth(RaisedAt(exc)) > Depth("handlers")

ExceptionAnswer(exc) ==
    IF Handled(exc)
    THEN AnsweredAt("handlers", HandlerStatus[exc],
                    IF exc = "RateLimitExceeded" THEN {"Retry-After"} ELSE {})
    ELSE AnsweredAt("fallback", 500, {})

\* A browser shows a page of another origin only an answer that allows it.
Readable(answer) == "Access-Control-Allow-Origin" \in answer.headers

\* What a layer finds in request.state.request_id.
KnowsRequestId(layer) == Depth("request_context") < Depth(layer)

-----------------------------------------------------------------------------

\* Every error a route raises by its name is answered with the status of its
\* handler, and the frontend can read it.
ASSUME RouteErrorsAnswered ==
    \A exc \in ServiceErrors :
        /\ ExceptionAnswer(exc).status = HandlerStatus[exc]
        /\ Readable(ExceptionAnswer(exc))
        /\ {"X-Request-ID", "X-RateLimit-Remaining"} \subseteq ExceptionAnswer(exc).headers

\* A rejected request is not answered as the documents say (backend/docs/
\* backend-architecture.md:239, "HTTP 429 Too Many Requests"; README.md:110,
\* "with Retry-After header"): the exception is raised outside the layer that
\* runs its handler, and outside the one that lets a browser read the answer.
ASSUME RejectionFallsThrough ==
    LET answer == ExceptionAnswer("RateLimitExceeded")
    IN  /\ answer.status = 500 /\ "Retry-After" \notin answer.headers
        /\ ~Readable(answer)

\* The observability layer never knows the request's id, which is given inside
\* it (request_context.py:19 means it to be read there); the limiter does.
ASSUME IdComesTooLate == ~KnowsRequestId("observability") /\ KnowsRequestId("rate_limit")
=============================================================================
