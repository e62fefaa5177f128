-------------------------- MODULE CompletionStream --------------------------
(***************************************************************************)
(* One POST /query/stream: the handler, the goroutine that runs Answer and *)
(* the goroutine of the LLM provider that reads the upstream body.  They   *)
(* share the request's context, a result channel of capacity one and the   *)
(* unbuffered channel of completion chunks.  The client may go away at any *)
(* moment; the model may end cleanly, cut off or break.                    *)
(***************************************************************************)
EXTENDS Naturals, Sequences, FiniteSets, SequencesExt

CONSTANTS
  MaxTokens,        \* bound: tokens the model generates
  Providers,        \* the LLM clients a workspace may have selected
  StoreFails        \* AppendMessage may fail

ASSUME CompletionStreamAssumption ==
  /\ MaxTokens \in Nat
  /\ Providers \subseteq {"openaicompat", "anthropic", "ollama"}
  /\ StoreFails \in BOOLEAN

VARIABLES
  request,    \* the provider it is answered by, and whether it names a conversation
  client,     \* "reading" or "gone"
  ctx,        \* r.Context(): cancelled when the client is gone or the handler returned
  handler,    \* where QueryStream is
  answerer,   \* the goroutine around Answer
  answerCh,   \* its result: "empty", "stream", "error" or "taken"
  producer,   \* the provider's streamChunks
  offered,    \* the chunk it is blocked on sending, or "none"
  closed,     \* the chunk channel is closed
  produced,   \* tokens read from the body
  body,       \* history: how the body ended, "open" until then
  answer,     \* tokens in the handler's builder
  sent,       \* the SSE events written
  messages    \* the messages stored by this request

vars == <<request, client, ctx, handler, answerer, answerCh, producer, offered, closed,
          produced, body, answer, sent, messages>>

\* A clean end of the body yields a Done chunk.
SendsDoneAtEOF == request.provider # "ollama"
HasConversation == request.conversation

Init ==
  /\ request \in [provider: Providers, conversation: BOOLEAN]
  /\ client = "reading" /\ ctx = "live"
  /\ handler = "awaiting"
  /\ answerer = "working" /\ answerCh = "empty"
  /\ producer = "none" /\ offered = "none" /\ closed = FALSE
  /\ produced = 0 /\ body = "open" /\ answer = 0
  /\ sent = <<>> /\ messages = <<>>

-----------------------------------------------------------------------------
(* The client, and the goroutine around Answer.                             *)

Disconnect ==
  /\ client = "reading" /\ handler # "returned"
  /\ client' = "gone" /\ ctx' = "cancelled"
  /\ UNCHANGED <<request, handler, answerer, answerCh, producer, offered, closed,
                 produced, body, answer, sent, messages>>

\* Mutant: an error is not put on the channel.
ErrorNotSent == answerCh
ErrorSent == "error"

\* Retrieve, ResolveLLM or Stream fails: under a cancelled context they do.
AnswerFails ==
  /\ answerer = "working"
  /\ answerer' = "ended" /\ answerCh' = ErrorSent
  /\ UNCHANGED <<request, client, ctx, handler, producer, offered, closed, produced, body,
                 answer, sent, messages>>

\* Stream got its 200: the body is read by a goroutine from here on.
AnswerStarts ==
  /\ answerer = "working" /\ ctx = "live"
  /\ answerer' = "ended" /\ answerCh' = "stream"
  /\ producer' = "reading"
  /\ UNCHANGED <<request, client, ctx, handler, offered, closed, produced, body, answer, sent,
                 messages>>

-----------------------------------------------------------------------------
(* streamChunks of the providers: a send on the chunk channel waits for the  *)
(* handler whatever has become of the context.                              *)

producerOnly == <<request, client, ctx, handler, answerer, answerCh, answer, sent,
                  messages>>

Offer(chunk) ==
  /\ producer = "reading"
  /\ producer' = "sending" /\ offered' = chunk
  /\ UNCHANGED <<closed, producerOnly>>

\* A line the scanner holds is still read after the context was cancelled.
ReadToken ==
  /\ produced < MaxTokens
  /\ produced' = produced + 1
  /\ Offer("token")
  /\ UNCHANGED body

\* message_stop, [DONE], or Ollama's line with done set, whose text is empty.
ReadDone == Offer("done") /\ body' = "terminated" /\ UNCHANGED produced

\* A malformed frame, an error frame, or a read that fails.
ReadError == Offer("error") /\ body' = "broken" /\ UNCHANGED produced

CloseChunks ==
  /\ producer' = "ended" /\ closed' = TRUE /\ offered' = "none"

\* The body ends without a terminator.
ReadEOF ==
  /\ IF SendsDoneAtEOF THEN Offer("done")
     ELSE producer = "reading" /\ CloseChunks /\ UNCHANGED producerOnly
  /\ body' = "cut"
  /\ UNCHANGED produced

-----------------------------------------------------------------------------
(* QueryStream.                                                             *)

\* The server cancels the context of a request whose handler returned.
Go(next) ==
  /\ handler' = next
  /\ ctx' = IF next = "returned" THEN "cancelled" ELSE ctx
Return == Go("returned")

Emit(event) == sent' = Append(sent, event)

\* Mutant: the error is logged and the stream just ends.
RefuseSilently == UNCHANGED sent /\ Return
Refuse == Emit("error") /\ Return

Store(role) == messages' = Append(messages, [role |-> role, tokens |-> answer])
CanStore == ctx = "live"

\* The handler's selects: a cancelled context is one of the ready cases.
GiveUp ==
  /\ handler \in {"awaiting", "streaming"}
  /\ ctx = "cancelled"
  /\ Return
  /\ UNCHANGED <<request, client, answerer, answerCh, producer, offered, closed,
                 produced, body, answer, sent, messages>>

TakeAnswer ==
  /\ handler = "awaiting"
  /\ answerCh \in {"stream", "error"}
  /\ answerCh' = "taken"
  /\ IF answerCh = "error"
     THEN Refuse
     ELSE Go(IF HasConversation THEN "question" ELSE "sources") /\ UNCHANGED sent
  /\ UNCHANGED <<request, client, answerer, producer, offered, closed, produced, body, answer,
                 messages>>

\* Mutant: a conversation's turn goes to the tokens at once.
AfterQuestionTokens == "streaming"
AfterQuestion == "sources"

\* Without the question stored there is no answer: the chunks have no reader.
PersistQuestion ==
  /\ handler = "question"
  /\ \/ /\ CanStore /\ Store("user")
        /\ Go(AfterQuestion)
        /\ UNCHANGED sent
     \/ /\ StoreFails \/ ~ CanStore
        /\ Refuse
        /\ UNCHANGED messages
  /\ UNCHANGED <<request, client, answerer, answerCh, producer, offered, closed,
                 produced, body, answer>>

SendSources ==
  /\ handler = "sources"
  /\ handler' = "streaming"
  /\ Emit("sources")
  /\ UNCHANGED <<request, client, ctx, answerer, answerCh, producer, offered, closed,
                 produced, body, answer, messages>>

AnswerAfter(chunk) == IF chunk = "token" THEN answer + 1 ELSE answer

\* Where a terminal chunk takes the handler.
\* Mutant: an answer that ended in an error is stored too.
AfterAnyEnd(chunk) == IF HasConversation THEN "persisting" ELSE "returned"
AfterEnd(chunk) == IF chunk = "done" /\ HasConversation THEN "persisting"
                   ELSE "returned"

\* The rendezvous on the chunk channel; a terminal chunk is the producer's
\* last.  done is written before the answer is stored.
TakeChunk ==
  /\ handler = "streaming" /\ offered # "none"
  /\ Emit(offered)
  /\ answer' = AnswerAfter(offered)
  /\ IF offered = "token"
     THEN /\ producer' = "reading" /\ offered' = "none"
          /\ UNCHANGED <<closed, handler, ctx>>
     ELSE CloseChunks /\ Go(AfterEnd(offered))
  /\ UNCHANGED <<request, client, answerer, answerCh, produced, body, messages>>

\* The channel was closed without a terminal chunk: nothing is said.
SeeClosed ==
  /\ handler = "streaming" /\ closed
  /\ Return
  /\ UNCHANGED <<request, client, answerer, answerCh, producer, offered, closed,
                 produced, body, answer, sent, messages>>

\* AppendMessage with the request's context; a failure is only logged.
PersistAnswer ==
  /\ handler = "persisting"
  /\ \/ CanStore /\ Store("assistant")
     \/ (StoreFails \/ ~ CanStore) /\ UNCHANGED messages
  /\ Return
  /\ UNCHANGED <<request, client, answerer, answerCh, producer, offered, closed,
                 produced, body, answer, sent>>

HandlerStep ==
  \/ GiveUp \/ TakeAnswer \/ PersistQuestion \/ SendSources \/ TakeChunk
  \/ SeeClosed \/ PersistAnswer
AnswererStep == AnswerFails \/ AnswerStarts
ProducerStep == ReadToken \/ ReadDone \/ ReadError \/ ReadEOF

Next == Disconnect \/ HandlerStep \/ AnswererStep \/ ProducerStep
Spec == Init /\ [][Next]_vars

\* The goroutines run; the model and the stores answer in the end, if only
\* with an error.  The client is not counted on.
FairSpec == Spec /\ WF_vars(HandlerStep) /\ WF_vars(AnswererStep)
                 /\ WF_vars(ProducerStep)

-----------------------------------------------------------------------------
(* Properties.                                                             *)

Count(event) == Cardinality({i \in DOMAIN sent : sent[i] = event})

TypeOK ==
  /\ request \in [provider: Providers, conversation: BOOLEAN]
  /\ client \in {"reading", "gone"} /\ ctx \in {"live", "cancelled"}
  /\ handler \in {"awaiting", "question", "sources", "streaming", "persisting",
                  "returned"}
  /\ answerer \in {"working", "ended"}
  /\ answerCh \in {"empty", "stream", "error", "taken"}
  /\ producer \in {"none", "reading", "sending", "ended"}
  /\ offered \in {"none", "token", "done", "error"}
  /\ closed \in BOOLEAN /\ body \in {"open", "terminated", "cut", "broken"}
  /\ produced \in 0..MaxTokens /\ answer \in 0..MaxTokens
  /\ \A i \in DOMAIN sent : sent[i] \in {"sources", "token", "done", "error"}
  /\ \A i \in DOMAIN messages :
       messages[i] \in [role : {"user", "assistant"}, tokens : 0..MaxTokens]

\* The ends of a body that the provider's client makes a done of.
TakenForWhole == body = "terminated" \/ (body = "cut" /\ SendsDoneAtEOF)

\* What is stored of an answer is what the client was told to be all of it: each
\* token the model made and the client was sent, after a question that is
\* stored too, and done with no error.  A turn whose body broke is never stored.
\* One whose body was cut off at a clean EOF is, for the OpenAI-compatible and
\* Anthropic clients: they take it "as a normal end" (openaicompat.go:273-274).
StoredAsTold ==
  \A i \in DOMAIN messages : messages[i].role = "assistant" =>
    /\ messages[i].tokens = produced /\ Count("token") = produced
    /\ Count("done") = 1 /\ Count("error") = 0 /\ TakenForWhole
    /\ i = 2 /\ messages[1].role = "user"

\* "A partial answer isn't persisted — only completed turns are"
\* (retrieval/handler.go:370): what is stored came to the model's own end.
PartialIsNotStored ==
  (\E i \in DOMAIN messages : messages[i].role = "assistant") => body = "terminated"

\* The protocol of the stream, whatever the goroutines do: sources, then the
\* tokens in the order the model made them, then one done or error; before the
\* sources only an error (QueryStream's doc comment, handler.go:213-215).
StreamProtocol ==
  /\ \A i \in DOMAIN sent : sent[i] = "sources" => i = 1
  /\ \A i \in DOMAIN sent : sent[i] \in {"token", "done"} => sent[1] = "sources"
  /\ \A i \in DOMAIN sent : sent[i] \in {"done", "error"} => i = Len(sent)
  /\ Count("token") = answer
  /\ produced - answer \in {0, 1}

Told == sent # <<>> /\ Last(sent) \in {"done", "error"}

\* A client that stays to the end is told the end, since "either way exactly
\* one Done chunk is emitted before the channel closes" (openaicompat.go:274-276):
\* whatever fails, when the provider's client keeps that.
EndIsTold ==
  handler = "returned" /\ client = "reading" /\ SendsDoneAtEOF => Told

\* The same of every provider: "finally a terminal done (or error) event"
\* (handler.go:214-215).  The code does not have it: Ollama's channel may close
\* without one (ollama.go:327).
EndIsAlwaysTold == handler = "returned" /\ client = "reading" => Told

\* The handler always returns, even when nobody told it the client is gone.
HandlerReturns == <>(handler = "returned")

\* "Cancelling ctx stops generation and closes the channel early"
\* (llm.go:55): the provider's goroutine ends.  The code does not have it: a
\* goroutine that sends to a handler that has returned blocks for ever.
CancelEndsProducer ==
  ctx = "cancelled" /\ producer \in {"reading", "sending"} ~> producer = "ended"
=============================================================================
