------------------------------- MODULE Chunking -------------------------------
(***************************************************************************)
(* How an extraction is cut into chunks (backend/app/rag/chunking.py);     *)
(* functions of the text, checked over every small one.  A text is a       *)
(* sequence of paragraphs, a paragraph of sentences, a sentence of tokens. *)
(* The tokenizer is taken to count a text that is put together from parts  *)
(* as it counts the parts.                                                 *)
(***************************************************************************)
LOCAL INSTANCE Integers
LOCAL INSTANCE Sequences
LOCAL INSTANCE SequencesExt

LastTokens(tokens, n) ==
    IF Len(tokens) <= n THEN tokens ELSE SubSeq(tokens, Len(tokens) - n + 1, Len(tokens))

-----------------------------------------------------------------------------
(* Text. *)

\* A paragraph is one piece, or one for each sentence when it is too long; a
\* sentence that is too long loses its end.
Pieces(para, max) ==
    IF Len(FlattenSeq(para)) <= max THEN <<FlattenSeq(para)>>
    ELSE [s \in DOMAIN para |-> SubSeq(para[s], 1, IF Len(para[s]) < max THEN Len(para[s]) ELSE max)]

AllPieces(text, max) == FlattenSeq([p \in DOMAIN text |-> Pieces(text[p], max)])

\* chunks so far, and current_parts with the tokens carried over.
FlushChunk(st, overlap) ==
    [chunks |-> IF st.current = <<>> THEN st.chunks ELSE Append(st.chunks, st.current),
     current |-> LastTokens(st.current, overlap)]

AddPiece(st, piece, max, overlap) ==
    LET room == Len(st.current) + Len(piece) <= max
        next == IF room THEN st ELSE FlushChunk(st, overlap)
    IN  [next EXCEPT !.current = @ \o piece]

\* chunk_text.
ChunkText(text, max, overlap) ==
    LET end == FoldLeft(LAMBDA st, piece : AddPiece(st, piece, max, overlap),
                        [chunks |-> <<>>, current |-> <<>>], AllPieces(text, max))
    IN  FlushChunk(end, overlap).chunks

\* chunk_pdf_extraction: the chunks of each page, numbered through.
ChunkPdf(pages, max, overlap) ==
    LET paged == FlattenSeq([p \in DOMAIN pages |->
                    LET chunks == ChunkText(pages[p], max, overlap)
                    IN  [i \in DOMAIN chunks |-> [page |-> p, text |-> chunks[i]]]])
    IN  [i \in DOMAIN paged |-> [index |-> i - 1, page |-> paged[i].page, text |-> paged[i].text]]

-----------------------------------------------------------------------------
(* Transcripts. *)

\* A segment: its tokens, none when it is blank, and its time.
TakeSegment(st, seg, max) ==
    LET started == IF st.start = -1 THEN [st EXCEPT !.start = seg.start] ELSE st
        full == Len(st.current) + Len(seg.text) > max
        flushed == [chunks |-> Append(started.chunks, [text |-> started.current,
                                        start |-> started.start, end |-> seg.start]),
                    current |-> <<>>, start |-> seg.start]
        next == IF full THEN flushed ELSE started
    IN  IF seg.text = <<>> THEN st ELSE [next EXCEPT !.current = @ \o seg.text]

\* chunk_youtube_extraction.
ChunkYoutube(segments, max) ==
    LET end == FoldLeft(LAMBDA st, seg : TakeSegment(st, seg, max),
                        [chunks |-> <<>>, current |-> <<>>, start |-> -1], segments)
        last == segments[Len(segments)]
    IN  IF end.current = <<>> THEN end.chunks
        ELSE Append(end.chunks, [text |-> end.current, start |-> end.start,
                                 end |-> last.start + last.duration])

-----------------------------------------------------------------------------
(* What the chunks are good for. *)

\* Texts of up to two paragraphs of up to two sentences; every token is another.
Sizes(n) == {s \in BoundedSeq(1..n, 2) : s # <<>>}

TextOf(sizes) ==
    [p \in DOMAIN sizes |-> [s \in DOMAIN sizes[p] |-> [k \in 1..sizes[p][s] |-> <<p, s, k>>]]]

Texts == {TextOf(sizes) : sizes \in BoundedSeq(Sizes(4), 2)}

Limits == {<<3, 0>>, <<3, 1>>, <<3, 2>>, <<2, 3>>}

\* How much of chunk i repeats the end of the one before it.
Echo(chunks, i, overlap) == IF i = 1 THEN 0 ELSE Len(LastTokens(chunks[i - 1], overlap))

\* Without what they repeat, the chunks are the text: in order, nothing lost
\* but the ends of sentences longer than a chunk, and every chunk has something
\* of its own.
ASSUME ChunksAreTheText ==
    \A text \in Texts, l \in Limits :
        LET chunks == ChunkText(text, l[1], l[2])
            own == [i \in DOMAIN chunks |->
                        SubSeq(chunks[i], Echo(chunks, i, l[2]) + 1, Len(chunks[i]))]
        IN  /\ FlattenSeq(own) = FlattenSeq(AllPieces(text, l[1]))
            /\ \A i \in DOMAIN own : own[i] # <<>>

\* A chunk exceeds max_tokens by no more than it repeats: flush_chunk starts
\* the next one with the overlap without making room for it.
ASSUME ChunkSize ==
    \A text \in Texts, l \in Limits :
        LET chunks == ChunkText(text, l[1], l[2])
        IN  \A i \in DOMAIN chunks : Len(chunks[i]) <= l[1] + Echo(chunks, i, l[2])

\* Chunks of a PDF are numbered from 0 without a gap, in the order of the
\* pages, and none spans two: the ids that Ingestion relies on to be unique.
ASSUME PdfChunksNumbered ==
    \A first, second \in {TextOf(sizes) : sizes \in BoundedSeq({<<1>>, <<4>>, <<2, 2>>}, 2)}, l \in Limits :
        LET chunks == ChunkPdf(<<first, second>>, l[1], l[2])
        IN  /\ \A i \in DOMAIN chunks : chunks[i].index = i - 1
            /\ \A i, j \in DOMAIN chunks : i < j => chunks[i].page <= chunks[j].page
            /\ SelectSeq(chunks, LAMBDA c : c.page = 2) = <<>> <=> second = <<>>

\* Transcripts of three segments of up to four tokens, five ticks apart.
Transcripts ==
    {[i \in 1..3 |-> [text |-> [k \in 1..sizes[i] |-> <<i, k>>], start |-> 5 * i, duration |-> 5]] :
        sizes \in [1..3 -> 0..4]}

\* The chunks of a transcript are its words and follow each other in time; one
\* that is longer than the limit is a single segment.  Only the first can be
\* empty, and is when the first segment alone is longer than the limit.
ASSUME TranscriptChunks ==
    \A segments \in Transcripts :
        LET chunks == ChunkYoutube(segments, 3)
            spoken == SelectSeq(segments, LAMBDA seg : seg.text # <<>>)
            TextsOf(parts) == [i \in DOMAIN parts |-> parts[i].text]
        IN  /\ FlattenSeq(TextsOf(chunks)) = FlattenSeq(TextsOf(spoken))
            /\ \A i \in DOMAIN chunks :
                  /\ Len(chunks[i].text) <= 3 \/ \E j \in DOMAIN spoken : spoken[j].text = chunks[i].text
                  /\ chunks[i].text = <<>> <=> (i = 1 /\ Len(spoken[1].text) > 3)
                  /\ i < Len(chunks) => chunks[i].end = chunks[i + 1].start
=============================================================================
