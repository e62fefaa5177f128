-------------------------- MODULE CompletionProofs --------------------------
(***************************************************************************)
(* What the client of a query stream is sent and what is stored of it, for *)
(* any number of tokens, any set of providers and a store that may fail.   *)
(***************************************************************************)
EXTENDS CompletionStream, FiniteSetTheorems, TLAPS

USE CompletionStreamAssumption DEF CompletionStreamAssumption

-----------------------------------------------------------------------------
(* The types, with the two logs as sequences.                               *)

Event == {"sources", "token", "done", "error"}
Turn == [role : {"user", "assistant"}, tokens : 0..MaxTokens]

Typed ==
  /\ request \in [provider: Providers, conversation: BOOLEAN]
  /\ client \in {"reading", "gone"} /\ ctx \in {"live", "cancelled"}
  /\ handler \in {"awaiting", "question", "sources", "streaming", "persisting",
                  "returned"}
  /\ answerer \in {"working", "ended"}
  /\ answerCh \in {"empty", "stream", "error", "taken"}
  /\ producer \in {"none", "reading", "sending", "ended"}
  /\ offered \in {"none", "token", "done", "error"}
  /\ closed \in BOOLEAN /\ body \in {"open", "terminated", "cut", "broken"}
  /\ produced \in 0..MaxTokens /\ answer \in 0..MaxTokens
  /\ sent \in Seq(Event) /\ messages \in Seq(Turn)

-----------------------------------------------------------------------------
(* The inductive invariant.  How far the stream has come can be read off    *)
(* the events: nothing, a refusal, sources and the tokens of the answer, or *)
(* those and a terminal event.  The handler's place says which of them it   *)
(* is, the producer's which chunk is on its way, and the messages stored    *)
(* which stage of the turn is over.                                         *)

Refused == sent = <<"error">>
Talking == /\ Len(sent) = answer + 1 /\ sent[1] = "sources"
           /\ \A i \in 2..(answer + 1) : sent[i] = "token"
EndedBy(e) == /\ Len(sent) = answer + 2 /\ sent[1] = "sources"
              /\ \A i \in 2..(answer + 1) : sent[i] = "token"
              /\ sent[answer + 2] = e
Over == EndedBy("done") \/ EndedBy("error")

Said ==
  /\ sent = <<>> \/ Refused => answer = 0
  /\ handler \in {"awaiting", "question", "sources"} => sent = <<>>
  /\ handler = "streaming" => Talking
  /\ handler = "persisting" => EndedBy("done")
  /\ handler = "returned" => sent = <<>> \/ Refused \/ Talking \/ Over
  /\ handler = "returned" /\ client = "reading" /\ SendsDoneAtEOF => Refused \/ Over

Produced ==
  /\ offered # "none" <=> producer = "sending"
  /\ closed <=> producer = "ended"
  /\ answerer = "working" => producer = "none"
  /\ produced = IF offered = "token" THEN answer + 1 ELSE answer
  /\ Over => closed
  /\ offered = "done" \/ EndedBy("done") => TakenForWhole
  /\ closed /\ SendsDoneAtEOF => Over
  /\ ctx = "cancelled" => client = "gone" \/ handler = "returned"

Question == [role |-> "user", tokens |-> 0]
Answer == [role |-> "assistant", tokens |-> answer]

Stored ==
  /\ handler \in {"question", "persisting"} => HasConversation
  /\ handler \in {"awaiting", "question"} => messages = <<>>
  /\ handler \in {"sources", "streaming", "persisting"} =>
       messages = IF HasConversation THEN <<Question>> ELSE <<>>
  /\ handler = "returned" =>
       \/ messages \in {<<>>, <<Question>>}
       \/ messages = <<Question, Answer>> /\ EndedBy("done")

Streamed == Typed /\ Said /\ Produced /\ Stored

LEMMA InitStreamed == Init => Streamed
<1> SUFFICES ASSUME Init PROVE Streamed
  OBVIOUS
<1>1. Typed
  <2>1. sent \in Seq(Event) /\ messages \in Seq(Turn)
    BY DEF Init
  <2>2. produced \in 0..MaxTokens /\ answer \in 0..MaxTokens
    BY DEF Init
  <2>3. closed \in BOOLEAN /\ request \in [provider: Providers, conversation: BOOLEAN]
    BY DEF Init
  <2> QED
    BY ONLY <2>1, <2>2, <2>3, Init DEF Init, Typed
<1>2. Said /\ Stored
  BY DEF Init, Said, Stored
<1>3. ~ Over
  BY DEF Init, Over, EndedBy
<1>4. Produced
  BY <1>3 DEF Init, Produced, Over
<1> QED
  BY <1>1, <1>2, <1>4 DEF Streamed

\* What the phases depend on.
LEMMA SamePhase ==
  ASSUME UNCHANGED <<sent, answer>>
  PROVE  /\ Talking' <=> Talking
         /\ Refused' <=> Refused
         /\ Over' <=> Over
         /\ \A e \in Event : EndedBy(e)' <=> EndedBy(e)
         /\ Answer' = Answer
  BY DEF Talking, Refused, Over, EndedBy, Answer

LEMMA DisconnectStreamed == ASSUME Streamed, Disconnect PROVE Streamed'
<1>1. Typed'
  BY DEF Streamed, Typed, Disconnect
<1>2. UNCHANGED <<sent, answer, handler, messages, producer, offered, closed, produced, body,
                  answerer, request>>
  BY DEF Disconnect
<1>3. Said'
  BY <1>2, SamePhase DEF Streamed, Said, Disconnect, SendsDoneAtEOF, Event
<1>4. Produced'
  BY <1>2, SamePhase DEF Streamed, Produced, Disconnect, SendsDoneAtEOF, TakenForWhole, Event
<1>5. Stored'
  BY <1>2, SamePhase DEF Streamed, Stored, HasConversation, Event
<1> QED
  BY <1>1, <1>3, <1>4, <1>5 DEF Streamed

-----------------------------------------------------------------------------
(* The goroutines beside the handler.                                       *)

\* A step that neither writes an event nor moves the handler.
LEMMA BesideStreamed ==
  ASSUME Streamed, Typed', Produced',
         UNCHANGED <<request, client, handler, answer, sent, messages>>
  PROVE  Streamed'
<1>1. Said'
  BY SamePhase DEF Streamed, Said, SendsDoneAtEOF, Event
<1>2. Stored'
  BY SamePhase DEF Streamed, Stored, HasConversation, Event
<1> QED
  BY <1>1, <1>2 DEF Streamed

LEMMA AnswererStreamed == ASSUME Streamed, AnswererStep PROVE Streamed'
<1>1. Typed'
  <2>1. CASE AnswerFails
    BY <2>1 DEF AnswerFails, ErrorSent, Streamed, Typed
  <2>2. CASE AnswerStarts
    BY <2>2 DEF AnswerStarts, Streamed, Typed
  <2> QED
    BY <2>1, <2>2 DEF AnswererStep
<1>2. /\ UNCHANGED <<request, client, ctx, handler, answer, sent, messages, offered, closed,
                    produced, body>>
      /\ answerer = "working" /\ answerer' = "ended"
      /\ producer' \in {producer, "reading"}
  BY DEF AnswererStep, AnswerFails, AnswerStarts
<1>3. Produced'
  BY <1>2, SamePhase DEF Streamed, Produced, SendsDoneAtEOF, TakenForWhole, Event
<1> QED
  BY <1>1, <1>2, <1>3, BesideStreamed

LEMMA ProducerStreamed == ASSUME Streamed, ProducerStep PROVE Streamed'
<1>1. Typed'
  <2>1. CASE ReadToken
    BY <2>1 DEF ReadToken, Offer, producerOnly, Streamed, Typed
  <2>2. CASE ReadDone \/ ReadError
    BY <2>2 DEF ReadDone, ReadError, Offer, producerOnly, Streamed, Typed
  <2>3. CASE ReadEOF
    BY <2>3 DEF ReadEOF, CloseChunks, Offer, producerOnly, Streamed, Typed
  <2> QED
    BY <2>1, <2>2, <2>3 DEF ProducerStep
<1>2. /\ UNCHANGED <<request, client, ctx, handler, answerer, answer, sent, messages>>
      /\ producer = "reading"
      /\ \/ producer' = "sending" /\ offered' # "none" /\ UNCHANGED closed
         \/ producer' = "ended" /\ offered' = "none" /\ closed' = TRUE /\ ~ SendsDoneAtEOF
      /\ offered' = "token" => produced' = produced + 1
      /\ offered' # "token" => produced' = produced
      /\ offered' = "done" => TakenForWhole'
  BY DEF ProducerStep, ReadToken, ReadDone, ReadError, ReadEOF, Offer, CloseChunks,
     producerOnly, TakenForWhole, SendsDoneAtEOF
<1>3. produced = answer /\ ~ closed /\ ~ Over /\ answerer = "ended"
  BY <1>2 DEF Streamed, Typed, Produced
<1>4. Produced'
  <2>1. ~ Over' /\ ~ EndedBy("done")'
    BY <1>2, <1>3, SamePhase DEF Over
  <2> QED
    BY <1>2, <1>3, <2>1 DEF Streamed, Produced, SendsDoneAtEOF
<1> QED
  BY <1>1, <1>2, <1>4, BesideStreamed

-----------------------------------------------------------------------------
(* The handler.                                                             *)

\* Returning cancels the context, and says nothing.
LEMMA ReturnStreamed ==
  ASSUME Streamed, Return, UNCHANGED <<request, client, answerer, answerCh, producer,
           offered, closed, produced, body, answer, sent, messages>>,
         handler # "returned",
         client = "reading" /\ SendsDoneAtEOF => Refused \/ Over
  PROVE  Streamed'
<1>0. handler' = "returned" /\ ctx' = "cancelled"
  BY DEF Return, Go
<1>1. Typed'
  BY <1>0 DEF Streamed, Typed
<1>2. Said'
  BY <1>0, SamePhase DEF Streamed, Typed, Said, SendsDoneAtEOF, Over
<1>3. Produced'
  BY <1>0, SamePhase DEF Streamed, Produced, SendsDoneAtEOF, TakenForWhole, Event
<1>4. Stored'
  BY <1>0, SamePhase DEF Streamed, Typed, Stored, HasConversation
<1> QED
  BY <1>1, <1>2, <1>3, <1>4 DEF Streamed

LEMMA LeaveStreamed == ASSUME Streamed, GiveUp \/ SeeClosed PROVE Streamed'
<1>1. CASE GiveUp
  <2>1. client = "gone" /\ handler # "returned"
    BY <1>1 DEF GiveUp, Streamed, Produced
  <2> QED
    BY <1>1, <2>1, ReturnStreamed DEF GiveUp
<1>2. CASE SeeClosed
  <2>1. handler # "returned" /\ (SendsDoneAtEOF => Over)
    BY <1>2 DEF SeeClosed, Streamed, Produced
  <2> QED
    BY <1>2, <2>1, ReturnStreamed DEF SeeClosed
<1> QED
  BY <1>1, <1>2

\* A refusal is the only event of its stream.
LEMMA RefuseStreamed ==
  ASSUME Streamed, Refuse, handler \in {"awaiting", "question"},
         answerCh' \in {answerCh, "taken"},
         UNCHANGED <<request, client, answerer, producer, offered, closed, produced, body,
           answer, messages>>
  PROVE  Streamed'
<1>0. /\ handler' = "returned" /\ ctx' = "cancelled" /\ sent' = <<"error">>
      /\ sent = <<>> /\ answer = 0 /\ messages = <<>>
  <2>1. handler' = "returned" /\ ctx' = "cancelled" /\ sent' = Append(sent, "error")
    BY DEF Refuse, Return, Go, Emit
  <2>2. sent = <<>> /\ answer = 0 /\ messages = <<>>
    BY DEF Streamed, Said, Stored
  <2>3. Append(<<>>, "error") = <<"error">>
    OBVIOUS
  <2> QED
    BY <2>1, <2>2, <2>3
<1>1. Typed'
  BY <1>0 DEF Streamed, Typed, Event
<1>2. Refused' /\ ~ Over /\ ~ Over'
  BY <1>0 DEF Refused, Over, EndedBy
<1>3. Said'
  BY <1>0, <1>2 DEF Said
<1>4. Produced'
  BY <1>0, <1>2 DEF Streamed, Produced, SendsDoneAtEOF, TakenForWhole, Over
<1>5. Stored'
  BY <1>0 DEF Stored
<1> QED
  BY <1>1, <1>3, <1>4, <1>5 DEF Streamed

LEMMA TakeAnswerStreamed == ASSUME Streamed, TakeAnswer PROVE Streamed'
<1>1. CASE answerCh = "error"
  BY <1>1, RefuseStreamed DEF TakeAnswer
<1>2. CASE answerCh # "error"
  <2>1. /\ handler = "awaiting" /\ answerCh' = "taken"
        /\ handler' = IF HasConversation THEN "question" ELSE "sources"
        /\ UNCHANGED <<request, client, ctx, answerer, producer, offered, closed, produced, body,
                       answer, sent, messages>>
    BY <1>2 DEF TakeAnswer, Go
  <2>2. Typed'
    BY <2>1 DEF Streamed, Typed
  <2>3. Said'
    BY <2>1, SamePhase DEF Streamed, Said
  <2>4. Produced'
    BY <2>1, SamePhase DEF Streamed, Produced, SendsDoneAtEOF, TakenForWhole, Event
  <2>5. Stored'
    BY <2>1 DEF Streamed, Stored, HasConversation
  <2> QED
    BY <2>2, <2>3, <2>4, <2>5 DEF Streamed
<1> QED
  BY <1>1, <1>2

LEMMA PersistQuestionStreamed == ASSUME Streamed, PersistQuestion PROVE Streamed'
<1>1. CASE Refuse /\ UNCHANGED messages
  BY <1>1, RefuseStreamed DEF PersistQuestion
<1>2. CASE Store("user") /\ Go(AfterQuestion) /\ UNCHANGED sent
  <2>1. /\ handler = "question" /\ handler' = "sources" /\ answer = 0 /\ sent = <<>>
        /\ messages = <<>> /\ messages' = <<Question>>
        /\ UNCHANGED <<request, client, ctx, answerer, answerCh, producer, offered, closed,
                       produced, body, answer, sent>>
    BY <1>2 DEF PersistQuestion, Store, Go, AfterQuestion, Question, Streamed, Said, Stored
  <2>2. Typed'
    <3>1. Question \in Turn
      BY DEF Question, Turn
    <3> QED
      BY <2>1, <3>1 DEF Streamed, Typed
  <2>3. Said'
    BY <2>1, SamePhase DEF Streamed, Said
  <2>4. Produced'
    BY <2>1, SamePhase DEF Streamed, Produced, SendsDoneAtEOF, TakenForWhole, Event
  <2>5. Stored'
    BY <2>1 DEF Streamed, Stored, HasConversation
  <2> QED
    BY <2>2, <2>3, <2>4, <2>5 DEF Streamed
<1> QED
  BY <1>1, <1>2 DEF PersistQuestion

LEMMA SendSourcesStreamed == ASSUME Streamed, SendSources PROVE Streamed'
<1>1. /\ handler = "sources" /\ handler' = "streaming" /\ answer = 0
      /\ sent = <<>> /\ sent' = <<"sources">>
      /\ UNCHANGED <<request, client, ctx, answerer, answerCh, producer, offered, closed,
                     produced, body, answer, messages>>
  BY DEF SendSources, Emit, Streamed, Said
<1>2. Typed'
  BY <1>1 DEF Streamed, Typed, Event
<1>3. Talking' /\ ~ Over /\ ~ Over' /\ ~ Refused'
  BY <1>1 DEF Talking, Over, EndedBy, Refused
<1>4. Said'
  BY <1>1, <1>3 DEF Said
<1>5. Produced'
  BY <1>1, <1>3 DEF Streamed, Produced, SendsDoneAtEOF, TakenForWhole, Over
<1>6. Stored'
  BY <1>1 DEF Streamed, Stored, HasConversation
<1> QED
  BY <1>2, <1>4, <1>5, <1>6 DEF Streamed

LEMMA TakeChunkStreamed == ASSUME Streamed, TakeChunk PROVE Streamed'
<1>0. /\ handler = "streaming" /\ offered \in {"token", "done", "error"}
      /\ producer = "sending" /\ ~ closed /\ answerer = "ended"
      /\ Talking /\ sent \in Seq(Event) /\ sent' = Append(sent, offered)
      /\ UNCHANGED <<request, client, answerer, answerCh, produced, body, messages>>
      /\ answer \in Nat
  BY DEF TakeChunk, Emit, Streamed, Typed, Said, Produced
<1>1. /\ sent' \in Seq(Event) /\ Len(sent') = answer + 2
      /\ \A i \in 1..(answer + 1) : sent'[i] = sent[i]
      /\ sent'[answer + 2] = offered
  BY <1>0 DEF Talking, Event
<1>2. /\ sent'[1] = "sources" /\ \A i \in 2..(answer + 1) : sent'[i] = "token"
      /\ sent' # <<>> /\ ~ Refused'
  <2>1. sent'[1] = "sources" /\ \A i \in 2..(answer + 1) : sent'[i] = "token"
    BY <1>0, <1>1 DEF Talking
  <2>2. Len(<<>>) = 0 /\ Len(<<"error">>) = 1
    OBVIOUS
  <2> QED
    BY <1>0, <1>1, <2>1, <2>2 DEF Refused
<1>3. CASE offered = "token"
  <2>1. /\ answer' = answer + 1 /\ producer' = "reading" /\ offered' = "none"
        /\ UNCHANGED <<closed, handler, ctx>> /\ produced = answer + 1
    BY <1>0, <1>3 DEF TakeChunk, AnswerAfter, Streamed, Produced
  <2>2. Typed'
    BY <1>0, <1>1, <2>1 DEF Streamed, Typed
  <2>3. Talking' /\ ~ Over'
    BY <1>0, <1>1, <1>2, <1>3, <2>1 DEF Talking, Over, EndedBy
  <2>4. Said'
    BY <1>0, <1>2, <2>1, <2>3 DEF Said
  <2>5. Produced'
    BY <1>0, <2>1, <2>3 DEF Streamed, Typed, Produced, SendsDoneAtEOF, TakenForWhole, Over
  <2>6. Stored'
    BY <1>0, <2>1 DEF Streamed, Stored, HasConversation
  <2> QED
    BY <2>2, <2>4, <2>5, <2>6 DEF Streamed
<1>4. CASE offered # "token"
  <2>1. /\ answer' = answer /\ producer' = "ended" /\ offered' = "none" /\ closed' = TRUE
        /\ handler' = AfterEnd(offered)
        /\ ctx' = IF handler' = "returned" THEN "cancelled" ELSE ctx
        /\ produced = answer
    BY <1>0, <1>4 DEF TakeChunk, AnswerAfter, CloseChunks, Go, Streamed, Produced
  <2>2. Typed'
    BY <1>0, <1>1, <2>1 DEF Streamed, Typed, AfterEnd
  <2>3. /\ Over' /\ (offered = "done" => EndedBy("done")')
    <3>1. /\ Len(sent') = answer' + 2 /\ sent'[answer' + 2] = offered
          /\ sent'[1] = "sources" /\ \A i \in 2..(answer' + 1) : sent'[i] = "token"
      BY <1>1, <1>2, <2>1
    <3> QED
      BY <1>0, <1>4, <3>1 DEF EndedBy, Over
  <2>4. handler' = IF offered = "done" /\ HasConversation THEN "persisting" ELSE "returned"
    BY <2>1 DEF AfterEnd
  <2>5. Said'
    BY <1>2, <2>3, <2>4 DEF Said
  <2>6. Produced'
    <3>1. EndedBy("done")' => offered = "done"
      BY <1>1, <2>1 DEF EndedBy
    <3>2. offered = "done" => TakenForWhole'
      BY <1>0 DEF Streamed, Produced, TakenForWhole, SendsDoneAtEOF
    <3> QED
      BY <1>0, <2>1, <2>3, <2>4, <3>1, <3>2 DEF Streamed, Produced, SendsDoneAtEOF
  <2>7. Stored'
    BY <1>0, <2>3, <2>4 DEF Streamed, Stored, HasConversation
  <2> QED
    BY <2>2, <2>5, <2>6, <2>7 DEF Streamed
<1> QED
  BY <1>0, <1>3, <1>4

LEMMA TwoLong ==
  ASSUME NEW S, NEW s \in Seq(S), NEW a \in S, NEW b \in S, Len(s) = 2, s[1] = a, s[2] = b
  PROVE  s = <<a, b>>
  OBVIOUS

LEMMA AppendToOne ==
  ASSUME NEW S, NEW a \in S, NEW b \in S
  PROVE  Append(<<a>>, b) = <<a, b>> /\ <<a, b>> \in Seq(S)
<1> DEFINE t == Append(<<a>>, b)
<1>1. t \in Seq(S) /\ Len(t) = 2 /\ t[1] = a /\ t[2] = b
  OBVIOUS
<1>2. <<a, b>> \in Seq(S)
  OBVIOUS
<1> HIDE DEF t
<1>3. t = <<a, b>>
  BY ONLY <1>1, a \in S, b \in S, TwoLong
<1> QED
  BY <1>2, <1>3 DEF t

LEMMA PersistAnswerStreamed == ASSUME Streamed, PersistAnswer PROVE Streamed'
<1>0. /\ handler = "persisting" /\ EndedBy("done") /\ HasConversation
      /\ messages = <<Question>> /\ handler' = "returned" /\ ctx' = "cancelled"
      /\ UNCHANGED <<request, client, answerer, answerCh, producer, offered, closed,
                     produced, body, answer, sent>>
      /\ messages' \in {messages, Append(messages, Answer)}
  BY DEF PersistAnswer, Return, Go, Store, Answer, Streamed, Said, Stored
<1>1. /\ messages' \in {<<Question>>, <<Question, Answer>>}
      /\ messages' \in Seq(Turn)
  <2>1. Question \in Turn /\ Answer \in Turn
    BY DEF Question, Answer, Turn, Streamed, Typed
  <2>2. /\ Append(<<Question>>, Answer) = <<Question, Answer>>
        /\ <<Question, Answer>> \in Seq(Turn) /\ <<Question>> \in Seq(Turn)
    BY <2>1, AppendToOne
  <2> HIDE DEF Question, Answer, Turn
  <2> QED
    BY <1>0, <2>2
<1>2. Typed'
  BY <1>0, <1>1 DEF Streamed, Typed
<1>3. Over /\ Over' /\ EndedBy("done")'
  BY <1>0, SamePhase DEF Over, Event
<1>4. Said'
  BY <1>0, <1>3, SamePhase DEF Streamed, Said
<1>5. Produced'
  BY <1>0, <1>3 DEF Streamed, Produced, SendsDoneAtEOF, TakenForWhole, Event
<1>6. Stored'
  BY <1>0, <1>1, <1>3, SamePhase DEF Stored
<1> QED
  BY <1>2, <1>4, <1>5, <1>6 DEF Streamed

LEMMA StreamedInvariant == Spec => []Streamed
<1>1. ASSUME Streamed, [Next]_vars
      PROVE  Streamed'
  <2>1. CASE UNCHANGED vars
    <3>1. Typed'
      BY <1>1, <2>1 DEF vars, Streamed, Typed
    <3>2. Produced'
      BY <1>1, <2>1, SamePhase DEF vars, Streamed, Produced, SendsDoneAtEOF, TakenForWhole, Event
    <3> QED
      BY <1>1, <2>1, <3>1, <3>2, BesideStreamed DEF vars
  <2>2. CASE HandlerStep
    BY <1>1, <2>2, LeaveStreamed, TakeAnswerStreamed, PersistQuestionStreamed,
       SendSourcesStreamed, TakeChunkStreamed, PersistAnswerStreamed DEF HandlerStep
  <2> QED
    BY <1>1, <2>1, <2>2, DisconnectStreamed, AnswererStreamed, ProducerStreamed DEF Next
<1> QED
  BY <1>1, InitStreamed, PTL DEF Spec

-----------------------------------------------------------------------------
(* What the invariant says of the events and the messages.                  *)

LEMMA CountOf ==
  ASSUME Typed, sent = <<>> \/ Refused \/ Talking \/ Over,
         sent = <<>> \/ Refused => answer = 0
  PROVE  /\ Count("token") = answer
         /\ EndedBy("done") => Count("done") = 1 /\ Count("error") = 0
<1>0. answer \in Nat /\ DOMAIN sent = 1..Len(sent) /\ Len(sent) \in Nat
  BY DEF Typed
<1>1. {i \in DOMAIN sent : sent[i] = "token"} = 2..(answer + 1)
  <2>1. CASE sent = <<>>
    BY <2>1
  <2>2. CASE Refused
    <3>1. DOMAIN sent = {1} /\ sent[1] = "error"
      BY <2>2 DEF Refused
    <3>2. 2..(answer + 1) = {}
      BY <2>2
    <3> QED
      BY <3>1, <3>2
  <2>3. CASE Talking
    <3>1. DOMAIN sent = {1} \cup 2..(answer + 1)
      BY <1>0, <2>3 DEF Talking
    <3> QED
      BY <2>3, <3>1 DEF Talking
  <2>4. CASE Over
    <3>1. PICK e \in {"done", "error"} : EndedBy(e)
      BY <2>4 DEF Over
    <3>2. Len(sent) = answer + 2
      BY <3>1 DEF EndedBy
    <3>3. 1..(answer + 2) = {1, answer + 2} \cup 2..(answer + 1)
      BY <1>0
    <3> QED
      BY <1>0, <3>1, <3>2, <3>3 DEF EndedBy
  <2> QED
    BY <2>1, <2>2, <2>3, <2>4
<1>2. Cardinality(2..(answer + 1)) = answer
  <2>1. PICK hi \in Int : hi = answer + 1
    BY <1>0
  <2>2. 2 \in Int
    OBVIOUS
  <2>3. Cardinality(2..hi) = IF 2 > hi THEN 0 ELSE hi - 2 + 1
    BY ONLY <2>2, hi \in Int, FS_Interval
  <2> QED
    BY <1>0, <2>1, <2>3
<1>3. ASSUME EndedBy("done")
      PROVE  Count("done") = 1 /\ Count("error") = 0
  <2>1. /\ {i \in DOMAIN sent : sent[i] = "done"} = {answer + 2}
        /\ {i \in DOMAIN sent : sent[i] = "error"} = {}
    BY <1>0, <1>3 DEF EndedBy
  <2> QED
    BY <2>1, FS_EmptySet, FS_Singleton DEF Count
<1> QED
  BY <1>1, <1>2, <1>3 DEF Count

LEMMA PhaseOf ==
  ASSUME Streamed
  PROVE  sent = <<>> \/ Refused \/ Talking \/ Over
  BY DEF Streamed, Typed, Said, Over

\* What is stored of an answer is every token the model made and the client was
\* sent, after its question, and only of a turn that ended in done: its body had
\* its terminator, or ended without one and was taken for whole by a client that
\* takes a clean EOF so.  Never one whose body broke, and none of Ollama's cut off.
THEOREM StoredIsTold == Spec => []StoredAsTold
<1>1. ASSUME Streamed
      PROVE  StoredAsTold
  <2> SUFFICES ASSUME NEW i \in DOMAIN messages, messages[i].role = "assistant"
               PROVE  /\ messages[i].tokens = produced /\ Count("token") = produced
                      /\ Count("done") = 1 /\ Count("error") = 0 /\ TakenForWhole
                      /\ i = 2 /\ messages[1].role = "user"
    BY DEF StoredAsTold
  <2>1. messages = <<Question, Answer>> /\ EndedBy("done") /\ i = 2
    BY <1>1 DEF Streamed, Typed, Stored, Question
  <2>2. produced = answer
    BY <1>1, <2>1 DEF Streamed, Produced, Over
  <2>3. Count("token") = answer /\ Count("done") = 1 /\ Count("error") = 0
    BY <1>1, <2>1, PhaseOf, CountOf DEF Streamed, Said
  <2>4. TakenForWhole
    BY <1>1, <2>1 DEF Streamed, Produced
  <2> QED
    BY <2>1, <2>2, <2>3, <2>4 DEF Question, Answer
<1> QED
  BY <1>1, StreamedInvariant, PTL

\* Sources come first, then the tokens in order, then one terminal event: no
\* interleaving of the client, the handler and the two goroutines writes a
\* second terminal event, loses a token or sends one twice.
THEOREM ProtocolIsKept == Spec => []StreamProtocol
<1>1. ASSUME Streamed
      PROVE  StreamProtocol
  <2>0. DOMAIN sent = 1..Len(sent) /\ answer \in Nat
    BY <1>1 DEF Streamed, Typed
  <2>1. /\ \A i \in DOMAIN sent : sent[i] = "sources" => i = 1
        /\ \A i \in DOMAIN sent : sent[i] \in {"token", "done"} => sent[1] = "sources"
        /\ \A i \in DOMAIN sent : sent[i] \in {"done", "error"} => i = Len(sent)
    <3>1. CASE sent = <<>> \/ Refused
      <4>1. \A i \in DOMAIN sent : sent[i] = "error" /\ i = 1 /\ Len(sent) = 1
        BY <3>1 DEF Refused
      <4> QED
        BY <4>1
    <3>2. CASE Talking
      <4>1. \A i \in DOMAIN sent : i = 1 \/ i \in 2..(answer + 1)
        BY <2>0, <3>2 DEF Talking
      <4>2. \A i \in DOMAIN sent : \/ i = 1 /\ sent[i] = "sources"
                                   \/ sent[i] = "token"
        BY <3>2, <4>1 DEF Talking
      <4> QED
        BY <3>2, <4>2 DEF Talking
    <3>3. CASE Over
      <4>0. PICK e \in {"done", "error"} : EndedBy(e)
        BY <3>3 DEF Over
      <4>1. Len(sent) = answer + 2 /\ sent[1] = "sources"
        BY <4>0 DEF EndedBy
      <4>2. \A i \in 1..(answer + 2) : i = 1 \/ i \in 2..(answer + 1) \/ i = answer + 2
        BY <2>0
      <4>3. \A i \in DOMAIN sent : \/ i = 1 /\ sent[i] = "sources"
                                   \/ sent[i] = "token"
                                   \/ i = Len(sent) /\ sent[i] = e
        BY <2>0, <4>0, <4>1, <4>2 DEF EndedBy
      <4> QED
        BY <4>1, <4>3
    <3> QED
      BY <1>1, <3>1, <3>2, <3>3, PhaseOf
  <2>2. Count("token") = answer
    BY <1>1, PhaseOf, CountOf DEF Streamed, Said
  <2>3. produced - answer \in {0, 1}
    BY <1>1, <2>0 DEF Streamed, Produced
  <2> QED
    BY <2>1, <2>2, <2>3 DEF StreamProtocol
<1> QED
  BY <1>1, StreamedInvariant, PTL

\* A client that stays to the end is told the end, whatever fails, as long as
\* the provider's client makes a terminal chunk of the end of the body.
THEOREM StayersAreTold == Spec => []EndIsTold
<1>1. ASSUME Streamed
      PROVE  EndIsTold
  <2> SUFFICES ASSUME handler = "returned", client = "reading", SendsDoneAtEOF
               PROVE  Told
    BY DEF EndIsTold
  <2>1. Refused \/ Over
    BY <1>1 DEF Streamed, Said
  <2>2. CASE Refused
    BY <2>2 DEF Refused, Told, Last
  <2>3. CASE Over
    BY <1>1, <2>3 DEF Streamed, Typed, Over, EndedBy, Told, Last
  <2> QED
    BY <2>1, <2>2, <2>3
<1> QED
  BY <1>1, StreamedInvariant, PTL
=============================================================================
