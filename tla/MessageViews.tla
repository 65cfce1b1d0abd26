----------------------------- MODULE MessageViews -----------------------------
(***************************************************************************)
(* What a message shows: the sources of an answer as use-messages.ts maps  *)
(* them from the answer and lib/types.ts from the stored history, and what *)
(* chat-message.tsx and source-card.tsx make of them; functions of the     *)
(* message, checked over every small one.                                  *)
(***************************************************************************)
LOCAL INSTANCE Integers
LOCAL INSTANCE Sequences
LOCAL INSTANCE SequencesExt

-----------------------------------------------------------------------------
(* The sources of an answer. *)

\* A field holds text, the empty text, something that is not text, or nothing.
Fields == {"text", "", "number", "absent"}

IsText == {"text"}
IsTruthy == {"text", "number"}

\* The first of the fields that counts, or the last resort.
FirstThat(counts, fields, otherwise) ==
    LET i == SelectInSeq(fields, LAMBDA v : v \in counts)
    IN  IF i = 0 THEN otherwise ELSE fields[i]

Payloads == [chunk_id : Fields, source_name : Fields, chunk_text : Fields, text : Fields]

\* The shape both mappers give a source; the place stands for "source-n".
Card(counts, payload) ==
    LET id == FirstThat(counts, <<payload.chunk_id>>, "place")
    IN  [id |-> id,
         title |-> FirstThat(counts, <<payload.source_name>>, id),
         snippet |-> FirstThat(counts, <<payload.chunk_text, payload.text>>, "absent")]

\* mapResponseSources: asString lets nothing but text through.
MapResponseSource(payload) == Card(IsText, payload)

\* mapChatMessageReadToMessage: whatever is truthy.
MapStoredSource(payload) == Card(IsTruthy, payload)

\* Reloading a chat shows the sources it showed before, whichever fields are
\* missing, as long as those that are there hold text.
ASSUME ReloadKeepsSources ==
    \A p \in Payloads :
        (\A f \in DOMAIN p : p[f] # "number") => MapResponseSource(p) = MapStoredSource(p)

\* An address, by what can be found in it.
Uris == {u \in SUBSET {"youtube", "youtube.com", "youtu.be", ".pdf"} :
            "youtube.com" \in u => "youtube" \in u}

\* inferSourceType.
InferSourceType(uri) ==
    CASE {"youtube.com", "youtu.be"} \cap uri # {} -> "youtube"
      [] {"youtube.com", "youtu.be", ".pdf"} \cap uri = {".pdf"} -> "pdf"
      [] OTHER -> "text"

\* The same in mapChatMessageReadToMessage.
StoredSourceType(uri) ==
    CASE "youtube" \in uri -> "youtube"
      [] {"youtube", ".pdf"} \cap uri = {".pdf"} -> "pdf"
      [] OTHER -> "text"

\* The two agree on what a reload shows, but for the short addresses of
\* YouTube, and for others that have its name in them.
ASSUME TypesAgree ==
    \A u \in Uris :
        InferSourceType(u) # StoredSourceType(u) <=>
            \/ "youtu.be" \in u /\ "youtube" \notin u
            \/ "youtube" \in u /\ {"youtube.com", "youtu.be"} \cap u = {}

-----------------------------------------------------------------------------
(* The card of a source. *)

\* An address is absolute, or a path on the server, as a PDF's is.
Links == {"absolute", "path", "", "absent"}

\* source.url || source.source_uri || '#'.
SourceLink(source) ==
    CASE source.url \in {"absolute", "path"} -> source.url
      [] source.url \notin {"absolute", "path"} /\ source.source_uri \in {"absolute", "path"}
            -> source.source_uri
      [] OTHER -> "#"

\* getFaviconUrl and getDomain: what new URL cannot parse shows as it is.
Domain(link) ==
    IF link = "absolute" THEN [icon |-> "favicon", domain |-> "hostname"]
                         ELSE [icon |-> "globe", domain |-> link]

\* The card above the answer, and the one in the grid below it.
CompactCard(source, index) ==
    [href |-> SourceLink(source), address |-> Domain(SourceLink(source)), number |-> index + 1]

FullCard(source, index) ==
    [href |-> SourceLink(source), address |-> Domain(SourceLink(source)), number |-> index + 1,
     rows |-> {"domain", "title", "badge"} \cup (IF source.snippet = "" THEN {} ELSE {"snippet"})]

\* A card has a link whenever the source has an address in either field.
ASSUME CardHasLink ==
    \A s \in [url : Links, source_uri : Links, snippet : {"", "text"}] :
        \A card \in {CompactCard(s, 0), FullCard(s, 0)} :
            card.href = "#" <=> {s.url, s.source_uri} \subseteq {"", "absent"}

-----------------------------------------------------------------------------
(* The message. *)

\* visibleSources.
VisibleSources(sources, showAllSources) ==
    IF showAllSources \/ Len(sources) <= 4 THEN sources ELSE SubSeq(sources, 1, 4)

\* The button beside them: the number it offers to show, "less", or no button.
MoreButton(sources, showAllSources) ==
    IF Len(sources) <= 4 THEN "none" ELSE IF showAllSources THEN "less" ELSE Len(sources) - 4

\* SourcesGrid, below the answer.
GridSources(sources, showAllSources) == IF showAllSources THEN sources ELSE <<>>

\* No source of an answer is out of reach: those that are not shown are as
\* many as the button promises.
ASSUME SourcesInReach ==
    \A n \in 0..7 :
        LET sources == [i \in 1..n |-> i]
            hidden == n - Len(VisibleSources(sources, FALSE))
        IN  /\ VisibleSources(sources, TRUE) = sources
            /\ IF hidden = 0 THEN MoreButton(sources, FALSE) = "none"
                             ELSE MoreButton(sources, FALSE) = hidden
            /\ MoreButton(sources, TRUE) = "less" <=> hidden > 0

\* parseContentWithCitations: a line is text and references; CitationInline
\* shows the number of each reference, in their order.
Citations(line) ==
    LET references == SelectSeq(line, LAMBDA part : part.cites # 0)
    IN  [i \in DOMAIN references |-> references[i].cites]

\* A reference bears the number of the card of the source it cites, on the
\* cards above the answer and on those in the grid; one that no source
\* answers to is shown all the same.
ASSUME CitationsMeetCards ==
    \A n \in 0..6, cited \in 1..7, showAllSources \in BOOLEAN :
        LET source(i) == [url |-> "path", source_uri |-> "", snippet |-> "", place |-> i]
            sources == [i \in 1..n |-> source(i)]
            shown == VisibleSources(sources, showAllSources)
            grid == GridSources(sources, showAllSources)
            number == Citations(<<[cites |-> 0], [cites |-> cited]>>)[1]
        IN  /\ \A i \in DOMAIN shown :
                  CompactCard(shown[i], i - 1).number = number <=> shown[i].place = cited
            /\ \A i \in DOMAIN grid :
                  FullCard(grid[i], i - 1).number = number <=> grid[i].place = cited

\* What is rendered of a message besides its text.
Parts(role, isStreaming, sources, offersRegenerate) ==
    CASE role = "user" -> {}
      [] role # "user" /\ isStreaming -> {"indicator"}
      [] OTHER -> {"copy", "thumbs"} \cup (IF offersRegenerate THEN {"regenerate"} ELSE {})
                    \cup (IF role = "assistant" /\ sources # <<>> THEN {"sources"} ELSE {})

CopyDelay == 4    \* bound: the 2000 ms of handleCopy, in half seconds

\* handleCopy: every press sets the tick, and every press's timer resets it,
\* another press's tick as well.
Copied(presses, now) ==
    \E p \in presses :
        p <= now /\ \A q \in presses : q + CopyDelay \notin p + 1 .. now

\* The tick appears with every press and never stays longer than the delay; a
\* press that comes during an earlier tick loses it early.
ASSUME TickEnds ==
    \A presses \in SUBSET (0..6), now \in 0..12 :
        LET recent == {p \in presses : p <= now /\ now < p + CopyDelay}
        IN  /\ now \in presses => Copied(presses, now)
            /\ Copied(presses, now) => recent # {}
            /\ (\A p \in recent, q \in presses : p = q \/ q + CopyDelay <= p \/ q > now)
                  => (Copied(presses, now) <=> recent # {})

\* The thumbs: pressing the one that is set resets it.  Nothing is sent.
Feedback(current, pressed) == IF current = pressed THEN "none" ELSE pressed

\* A line by its beginning, whether it ends in "**", and whether more than
\* four characters lie in it.
LineKind(line) ==
    CASE line.begins \in {"### ", "## "} -> "heading"
      [] line.begins = "**" /\ line.closes /\ line.long -> "bold"
      [] line.begins \in {"- ", "(bullet) "} -> "bullet"
      [] line.begins = "1. " -> "numbered"
      [] line.begins = "" -> "gap"
      [] OTHER -> "paragraph"

\* The text the interval shows: the words so far, joined by single blanks.
Partial(lines, index) == <<SubSeq(FlattenSeq(lines), 1, index)>>

SmallTexts == UNION {[1..n -> {<<>>, <<"w">>, <<"## ", "w">>}] : n \in 1..3}

\* The words appear in their order and all of them in the end; but they stand
\* in one line until the reload after the stream, so an answer that begins
\* with a heading is shown as one heading.
ASSUME WordsInOrder ==
    \A lines \in SmallTexts :
        LET words == FlattenSeq(lines)
        IN  /\ \A i \in 0..Len(words) : FlattenSeq(Partial(lines, i)) = SubSeq(words, 1, i)
            /\ (Partial(lines, Len(words)) = lines) = (Len(lines) = 1)
=============================================================================
