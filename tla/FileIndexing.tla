---------------------------- MODULE FileIndexing ----------------------------
(***************************************************************************)
(* One file of a run, from its lines to its points: the splitter cuts it   *)
(* into spans, the spans become chunk rows, the LLM captions those with a  *)
(* fence or a table, the embedder turns the texts into vectors, again      *)
(* after a 429, and the vectors are upserted under the chunks' ids.        *)
(* A line is its kind; a text is the sequence of the numbers of its lines. *)
(***************************************************************************)
EXTENDS Integers, Sequences, FiniteSets, SequencesExt

CONSTANTS
  MaxLines,             \* bound: lines of a file
  SizeOf,               \* characters of a line of each kind
  TargetChars, MaxChars,
  MaxRetries, InitialDelay,  \* openaicompat.go:33-38
  RetryAfters,          \* seconds a 429 may ask for; -1 where it does not
  Durations,            \* seconds an HTTP round trip may take
  Deadline              \* seconds the run has left when it embeds this file

Kinds == {"heading", "fence", "row", "prose", "blank"}

ASSUME FileIndexingAssumption ==
  /\ SizeOf \in [Kinds -> Nat] /\ SizeOf["blank"] = 0
  /\ MaxLines \in Nat /\ TargetChars \in Nat /\ MaxChars \in Nat
  /\ MaxRetries \in Nat /\ InitialDelay \in Nat
  /\ RetryAfters \subseteq Nat \cup {-1} /\ Durations \subseteq Nat /\ Deadline \in Nat

VARIABLES
  file,     \* its extension, its lines
  backend,  \* the embedder of the run: its API, and whether its model wants a role prefix
  pc,
  spans,
  rows,     \* the committed chunk rows, in the order of chunk_index
  chunks,   \* the copy in memory: has it a caption
  next,     \* the chunk that captioning has reached
  attempt, delay, wait, clock,  \* of embed
  vectors,  \* what EmbedBatch answered
  points    \* in Qdrant: the vector of each chunk's id

vars == <<file, backend, pc, spans, rows, chunks, next, attempt, delay, wait, clock, vectors, points>>
embedding == <<attempt, delay, wait, clock, vectors>>

-----------------------------------------------------------------------------
(* Texts.                                                                   *)

Is(lines, n, kind) == lines[n] = kind
Blank(lines, n) == Is(lines, n, "blank")

\* Characters of some lines joined by newlines, of some paragraphs by two.
Size(lines, text) ==
  FoldLeft(LAMBDA sum, n : sum + SizeOf[lines[n]] + 1, -1, text)
Joined(lines, paragraphs) ==
  FoldLeft(LAMBDA sum, p : sum + Size(lines, p) + 2, -2, paragraphs)

\* strings.TrimSpace, which takes the blank lines at both ends.
TrimSpace(lines, text) ==
  LET said == {k \in DOMAIN text : ~Blank(lines, text[k])}
      first == CHOOSE k \in said : \A j \in said : k <= j
      last == CHOOSE k \in said : \A j \in said : k >= j
  IN  IF said = {} THEN <<>> ELSE SubSeq(text, first, last)

\* The paragraph that ends, unless it is empty.
Some(paragraph) == IF paragraph = <<>> THEN <<>> ELSE <<paragraph>>

\* What is still held at the end goes last.  Mutant: it is forgotten.
Unflushed(done, rest) == done
Flushed(done, rest) == done \o rest

\* Of plain text: an empty line always ends a paragraph.  Mutant of the next too.
PlainLine(lines, acc, n) ==
  IF Blank(lines, n) THEN [done |-> acc.done \o Some(acc.current), current |-> <<>>]
  ELSE [acc EXCEPT !.current = Append(@, n)]

splitParagraphs(lines, text) ==
  LET end == FoldLeft(LAMBDA acc, n : PlainLine(lines, acc, n),
                      [done |-> <<>>, current |-> <<>>], text)
  IN  Flushed(end.done, Some(end.current))

\* Of a Markdown section: a blank line within a fence is content.
SectionLine(lines, acc, n) ==
  IF Is(lines, n, "fence")
  THEN [acc EXCEPT !.current = Append(@, n), !.inFence = ~@]
  ELSE IF ~acc.inFence /\ Blank(lines, n)
  THEN [acc EXCEPT !.done = @ \o Some(TrimSpace(lines, acc.current)), !.current = <<>>]
  ELSE [acc EXCEPT !.current = Append(@, n)]

splitByParagraph(lines, text) ==
  LET end == FoldLeft(LAMBDA acc, n : SectionLine(lines, acc, n),
                      [done |-> <<>>, current |-> <<>>, inFence |-> FALSE], text)
  IN  Flushed(end.done, Some(TrimSpace(lines, end.current)))

Span(paragraphs, heading, repeats, start, end) ==
  [paragraphs |-> paragraphs, heading |-> heading, repeats |-> repeats,
   start |-> start, end |-> end]

-----------------------------------------------------------------------------
(* The splitters.                                                           *)

\* text.Split.  Mutant: the cap is looked at when the paragraph is in.
FlushedLate(lines, buf, p) == FALSE
FlushedFirst(lines, buf, p) == buf # <<>> /\ Joined(lines, Append(buf, p)) > MaxChars

FlushBuf(acc) ==
  [spans |-> acc.spans \o IF acc.buf = <<>> THEN <<>> ELSE <<Span(acc.buf, 0, FALSE, 0, 0)>>,
   buf |-> <<>>]

PackParagraph(lines, acc, p) ==
  LET room == IF FlushedFirst(lines, acc.buf, p) THEN FlushBuf(acc) ELSE acc
      with == [room EXCEPT !.buf = Append(@, p)]
  IN  IF Joined(lines, with.buf) >= TargetChars THEN FlushBuf(with) ELSE with

SplitText(lines) ==
  FlushBuf(FoldLeft(LAMBDA acc, p : PackParagraph(lines, acc, p), [spans |-> <<>>, buf |-> <<>>],
                    splitParagraphs(lines, [n \in DOMAIN lines |-> n]))).spans

\* markdown.Split's flush of a section: whole when it fits, else a span for each
\* paragraph, with the heading line before all but the first.  The line numbers
\* of those take a single blank line between paragraphs, and none at the start.
\* Mutant: the heading is left behind.
NeverRepeats(i, heading) == FALSE
Repeats(i, heading) == i > 1 /\ heading # 0

NextLine(line, p) == line + Len(p) + 1

SpanOfParagraph(heading, acc, p) ==
  [spans |-> Append(acc.spans, Span(<<p>>, heading, Repeats(Len(acc.spans) + 1, heading),
                                    acc.line, acc.line + Len(p) - 1)),
   line |-> NextLine(acc.line, p)]

SpansOf(lines, section, end) ==
  LET content == TrimSpace(lines, section.text)
  IN  IF content = <<>> THEN <<>>
      ELSE IF Size(lines, content) <= MaxChars
      THEN <<Span(<<content>>, section.heading, FALSE, section.start, end)>>
      ELSE FoldLeft(LAMBDA acc, p : SpanOfParagraph(section.heading, acc, p),
                    [spans |-> <<>>, line |-> section.start],
                    splitByParagraph(lines, content)).spans

\* Mutant: a # line within a fence is taken for a heading.
AnyHeading(lines, n, inFence) == Is(lines, n, "heading")
StartsSection(lines, n, inFence) == ~inFence /\ Is(lines, n, "heading")

MarkdownLine(lines, acc, n) ==
  IF StartsSection(lines, n, acc.inFence)
  THEN [acc EXCEPT !.spans = @ \o SpansOf(lines, acc.section, n - 1),
                   !.section = [text |-> <<n>>, heading |-> n, start |-> n]]
  ELSE [acc EXCEPT !.inFence = IF Is(lines, n, "fence") THEN ~@ ELSE @,
                   !.section.text = Append(@, n)]

SplitMarkdown(lines) ==
  LET start == [spans |-> <<>>, inFence |-> FALSE,
                section |-> [text |-> <<>>, heading |-> 0, start |-> 1]]
      end == FoldLeft(LAMBDA acc, n : MarkdownLine(lines, acc, n), start,
                      [n \in DOMAIN lines |-> n])
  IN  Flushed(end.spans, SpansOf(lines, end.section, Len(lines)))

\* The lines of a span's content, less a repeated heading.
Lines(span) == FlattenSeq(span.paragraphs)
Content(span) == (IF span.repeats THEN <<span.heading>> ELSE <<>>) \o Lines(span)

\* hasStructuredContent: a fence, or two rows of a table.
hasStructuredContent(lines, span) ==
  \/ \E n \in ToSet(Content(span)) : Is(lines, n, "fence")
  \/ \E n \in ToSet(Content(span)), m \in ToSet(Content(span)) :
       n # m /\ Is(lines, n, "row") /\ Is(lines, m, "row")

-----------------------------------------------------------------------------
(* The pipeline of the file.                                                *)

contentTypeForExt(ext) ==
  IF ext = ".md" THEN "markdown" ELSE IF ext = ".txt" THEN "plaintext" ELSE "unsupported"

Backends == [api: {"ollama", "openaicompat"}, prefixes: BOOLEAN]

Init ==
  /\ file \in [ext: {".md", ".txt", ".pdf"}, lines: UNION {[1..n -> Kinds] : n \in 0..MaxLines}]
  /\ backend \in {b \in Backends : b.prefixes => b.api = "ollama"}
  /\ pc = "read"
  /\ spans = <<>> /\ rows = <<>> /\ chunks = <<>> /\ next = 1
  /\ attempt = 0 /\ delay = InitialDelay /\ wait = 0 /\ clock = 0
  /\ vectors = <<>> /\ points = <<>>

\* FileReader.Read takes the files of two extensions; ChunkSource splits them.
Split ==
  /\ pc = "read"
  /\ LET type == contentTypeForExt(file.ext) IN
     /\ pc' = IF type = "unsupported" THEN "skipped" ELSE "insert"
     /\ spans' = CASE type = "markdown" -> SplitMarkdown(file.lines)
                   [] type = "plaintext" -> SplitText(file.lines)
                   [] OTHER -> <<>>
  /\ UNCHANGED <<file, backend, rows, chunks, next, embedding, points>>

Fail == pc' = "failed"

\* One transaction for the spans of the file.
ChunkSource ==
  /\ pc = "insert"
  /\ \/ /\ rows' = [i \in DOMAIN spans |-> [span |-> spans[i], caption |-> FALSE]]
        /\ chunks' = rows'
        /\ pc' = IF spans = <<>> THEN "indexed" ELSE "caption"
     \/ Fail /\ UNCHANGED <<rows, chunks>>
  /\ UNCHANGED <<file, backend, spans, next, embedding, points>>

\* captionStructuredChunks: a caption that cannot be had or stored is left out.
\* The UPDATE is stored or it fails; that it is stored and its reply lost is not
\* modelled.
CaptionedIfStored(i, stored) == [chunks EXCEPT ![i].caption = stored]

Caption ==
  /\ pc = "caption" /\ next <= Len(chunks)
  /\ next' = next + 1
  /\ IF hasStructuredContent(file.lines, chunks[next].span)
     THEN \/ UNCHANGED <<rows, chunks>>
          \/ \E stored \in BOOLEAN :
               /\ rows' = [rows EXCEPT ![next].caption = stored]
               /\ chunks' = CaptionedIfStored(next, stored)
     ELSE UNCHANGED <<rows, chunks>>
  /\ UNCHANGED <<file, backend, pc, spans, embedding, points>>

StartEmbedding ==
  /\ pc = "caption" /\ next > Len(chunks)
  /\ pc' = "request"
  /\ UNCHANGED <<file, backend, spans, rows, chunks, next, embedding, points>>

\* The text that is embedded for each chunk; nomic-embed-text wants it prefixed.
Texts == [i \in DOMAIN chunks |-> [role |-> IF backend.prefixes THEN "document" ELSE "none",
                                   of |-> chunks[i]]]
NoVector == [role |-> "empty", of |-> [span |-> Span(<<>>, 0, FALSE, 0, 0), caption |-> FALSE]]

\* External: the provider's data, in an order of its own where the API has an
\* index; now and then an item short, or with an empty vector.
Orders == IF backend.api = "ollama" THEN {[i \in DOMAIN Texts |-> i]}
          ELSE SetToSeqs(DOMAIN Texts)
Data ==
  LET Item(i) == [index |-> i, embedding |-> Texts[i]]
      Whole(order) == [k \in DOMAIN order |-> Item(order[k])]
  IN  UNION {{Whole(order), Front(Whole(order)),
              [Whole(order) EXCEPT ![1].embedding = NoVector]} : order \in Orders}

\* toVectors and validateEmbedResponse; <<>> is an error.  Mutant: positional.
AsTheyCome(data) == data
ByIndex(data) ==
  [i \in DOMAIN data |->
     CHOOSE d \in ToSet(data) : Cardinality({e \in ToSet(data) : e.index < d.index}) = i - 1]

toVectors(data) ==
  LET ordered == IF backend.api = "ollama" THEN data ELSE ByIndex(data)
  IN  IF Len(data) # Len(chunks) \/ \E d \in ToSet(data) : d.embedding = NoVector
      THEN <<>> ELSE [i \in DOMAIN ordered |-> ordered[i].embedding]

\* A round trip takes its time, unless the run's context ends it.
Request(outcome(_)) ==
  /\ pc = "request"
  /\ \E d \in Durations :
       IF clock + d >= Deadline
       THEN Fail /\ clock' = Deadline /\ UNCHANGED <<attempt, delay, wait, vectors>>
       ELSE clock' = clock + d /\ outcome(d)
  /\ UNCHANGED <<file, backend, spans, rows, chunks, next, points>>

Answered ==
  LET Outcome(d) ==
        /\ \E data \in Data : vectors' = toVectors(data)
        /\ pc' = IF vectors' = <<>> THEN "failed" ELSE "upsert"
        /\ UNCHANGED <<attempt, delay, wait>>
  IN  Request(Outcome)

\* Any other status, or none.
Refused ==
  LET Outcome(d) == Fail /\ UNCHANGED <<attempt, delay, wait, vectors>> IN Request(Outcome)

MayRetry(n) == n < MaxRetries
Backoff(hint) == IF hint >= 0 THEN hint ELSE delay

RateLimited ==
  LET Outcome(d) ==
        /\ IF backend.api = "openaicompat" /\ MayRetry(attempt)
           THEN /\ pc' = "sleep"
                /\ \E hint \in RetryAfters : wait' = Backoff(hint)
           ELSE Fail /\ UNCHANGED wait
        /\ UNCHANGED <<attempt, delay, vectors>>
  IN  Request(Outcome)

\* sleepContext.
Awake == IF clock + wait < Deadline THEN clock + wait ELSE Deadline

Sleep ==
  /\ pc = "sleep"
  /\ clock' = Awake
  /\ IF clock' >= Deadline THEN Fail /\ UNCHANGED <<attempt, delay>>
     ELSE pc' = "request" /\ attempt' = attempt + 1 /\ delay' = 2 * delay
  /\ UNCHANGED <<file, backend, spans, rows, chunks, next, wait, vectors, points>>

\* toEmbeddingChunks kept the order of the chunks: vector i is of chunk i.
upsertChunkVectors ==
  /\ pc = "upsert"
  /\ \/ points' = vectors /\ pc' = "label"
     \/ Fail /\ UNCHANGED points
  /\ UNCHANGED <<file, backend, spans, rows, chunks, next, embedding>>

updateEmbeddingModel ==
  /\ pc = "label"
  /\ pc' = "indexed" \/ Fail
  /\ UNCHANGED <<file, backend, spans, rows, chunks, next, embedding, points>>

Ended == pc \in {"skipped", "failed", "indexed"}

Next ==
  \/ Split \/ ChunkSource \/ Caption \/ StartEmbedding
  \/ Answered \/ Refused \/ RateLimited \/ Sleep
  \/ upsertChunkVectors \/ updateEmbeddingModel
  \/ Ended /\ UNCHANGED vars

Spec == Init /\ [][Next]_vars

-----------------------------------------------------------------------------
(* Properties.                                                              *)

Markdown == contentTypeForExt(file.ext) = "markdown"
\* Line n lies within a fence, or opens one.
Fences(n) == {m \in 1..(n - 1) : Is(file.lines, m, "fence")}
Fenced(n) == Cardinality(Fences(n)) % 2 = 1
IsSplit == pc = "insert"

\* Types; no span has an empty paragraph.
TypeOK ==
  /\ pc \in {"read", "insert", "caption", "request", "sleep", "upsert", "label",
             "skipped", "failed", "indexed"}
  /\ \A s \in ToSet(spans) :
       /\ s.paragraphs # <<>>
       /\ \A p \in ToSet(s.paragraphs) : p # <<>> /\ ToSet(p) \subseteq DOMAIN file.lines
  /\ next \in 1..(Len(rows) + 1) /\ attempt \in 0..MaxRetries
  /\ delay \in Nat /\ wait \in Nat /\ clock \in Nat
  /\ Len(points) \in {0, Len(rows)}

\* Every line that says something is in exactly one span, in the file's order
\* ("ordered, non-overlapping spans", chunking.go:1-3), whichever way the file
\* is cut into sections and paragraphs.  The line numbers of Markdown spans do
\* not overlap either nor run ahead of the lines, though they are counted, not
\* looked up, in a section that is cut.
NothingIsLost ==
  IsSplit =>
    /\ \A n \in DOMAIN file.lines : ~Blank(file.lines, n) =>
         \E s \in ToSet(spans) : n \in ToSet(Lines(s))
    /\ \A i, j \in DOMAIN spans :
         \A a \in DOMAIN Lines(spans[i]), b \in DOMAIN Lines(spans[j]) :
           i < j \/ (i = j /\ a < b) => Lines(spans[i])[a] < Lines(spans[j])[b]
    /\ Markdown => \A i \in DOMAIN spans :
         /\ spans[i].start <= Lines(spans[i])[1]
         /\ \A j \in 1..(i - 1) : spans[j].end < spans[i].start

\* A fenced block is never cut, whatever blank lines, headings and sizes it has
\* ("never end up split across paragraphs", markdown.go:125-127).
FencesStayWhole ==
  IsSplit /\ Markdown =>
    \A a, b \in DOMAIN file.lines :
      /\ a < b /\ Is(file.lines, a, "fence") /\ ~Fenced(a)
      /\ Is(file.lines, b, "fence") /\ \A n \in (a + 1)..(b - 1) : ~Is(file.lines, n, "fence")
      => \E s \in ToSet(spans) : a..b \subseteq ToSet(Lines(s))

\* A span names the last heading above it that no fence holds, and its content
\* says it, however small the section was cut (markdown.go:51-54).
SectionsAreNamed ==
  IsSplit /\ Markdown =>
    \A s \in ToSet(spans) :
      LET above == {n \in 1..Lines(s)[1] : Is(file.lines, n, "heading") /\ ~Fenced(n)} IN
      /\ s.heading = (IF above = {} THEN 0 ELSE CHOOSE n \in above : \A m \in above : m <= n)
      /\ s.heading # 0 => s.heading \in ToSet(Content(s))

\* Plain text is packed: a span is over the cap only when it is one paragraph,
\* and under the target only when the next paragraph would burst it.
TextIsPacked ==
  IsSplit /\ ~Markdown =>
    \A i \in DOMAIN spans : LET ps == spans[i].paragraphs IN
      /\ Joined(file.lines, ps) > MaxChars => Len(ps) = 1
      /\ i < Len(spans) /\ Joined(file.lines, ps) < TargetChars =>
           Joined(file.lines, Append(ps, spans[i + 1].paragraphs[1])) > MaxChars

\* In whatever order the provider answers, and after however many retries, a
\* chunk's point has the vector of that chunk's text, in a document's role
\* ("must preserve the input order", embedding.go:31-33), and of the text as the
\* row has it, also where a caption could not be had or stored ("stored,
\* displayed, lexically searchable, and embedded consistently",
\* caption.go:24-30).  A caption whose UPDATE took effect and lost its reply is
\* in the row and not in the vector's text; it is no step of Caption.  Of runs
\* that give up, nothing is said.
EachPointIsItsRow ==
  \A i \in DOMAIN points :
    /\ points[i].of = rows[i]
    /\ points[i].role = IF backend.prefixes THEN "document" ELSE "none"

=============================================================================
