------------------------------ MODULE Chunking ------------------------------
(***************************************************************************)
(* From the text of a filing to the rows that are searched: sections at    *)
(* the Item headings, token windows in each section (rag/chunking), the    *)
(* batches they are embedded in (rag/embeddings) and the rows of the       *)
(* ingestion (rag/ingest).  A text is a sequence of tokens, each the       *)
(* heading of an item or a word; lengths in characters count tokens here,  *)
(* and the white space that is stripped is left out.                       *)
(***************************************************************************)
EXTENDS Integers, Sequences, FiniteSets, SequencesExt

CONSTANTS Items,     \* item numbers that headings name
          Titled,    \* those in SECTION_TITLES
          Word,      \* any token that is no heading
          MinBody,   \* a shorter section is a stub
          Size,      \* chunk_size_tokens
          Overlap,   \* chunk_overlap_tokens
          MinTail,   \* a later window that is shorter is left out
          MaxChunks, \* max_chunks
          BatchSize  \* _BATCH_SIZE

ASSUME ChunkingConstants ==
    /\ Titled \subseteq Items /\ Word \notin Items /\ "FULL" \notin Items
    /\ MinBody \in Nat /\ MaxChunks \in Nat \ {0} /\ BatchSize \in Nat \ {0}
    /\ Overlap \in Nat /\ Size \in Nat /\ Overlap < Size
    /\ MinTail \in Nat /\ MinTail <= Overlap

\* Plausible bugs, each a variant of the operator that follows it.
Step_NoOverlap          == Size
Boundaries_Titled(text) == {Max({i \in DOMAIN text : text[i] = item}) : item \in Titled \cap Range(text)}

Step == Size - Overlap

\* The last heading of each item: tables of contents and cross-references come first.
Boundaries(text) == {Max({i \in DOMAIN text : text[i] = item}) : item \in Items \cap Range(text)}

\* A section runs to the next boundary, of whatever item.
Body(text, start) ==
    LET later == {b \in Boundaries(text) : b > start}
    IN  start .. (IF later = {} THEN Len(text) ELSE Min(later) - 1)

\* The k-th of some positions.
Nth(k, positions) == CHOOSE b \in positions : Cardinality({c \in positions : c <= b}) = k

\* split_sections: the titled items that are no stubs, or the whole text.
Sections(text) ==
    LET kept == {b \in Boundaries(text) : text[b] \in Titled /\ Cardinality(Body(text, b)) >= MinBody}
    IN  IF kept = {} THEN <<[item |-> "FULL", body |-> DOMAIN text]>>
        ELSE [k \in 1 .. Cardinality(kept) |->
                 [item |-> text[Nth(k, kept)], body |-> Body(text, Nth(k, kept))]]

\* The windows of n tokens: every Step tokens, until one but the first is tiny.
Windows(n) == {i \in 0 .. n : i * Step < n /\ (i > 0 => n - i * Step >= MinTail)}

\* chunk_section: each window with its index and the tokens it holds.
SectionChunks(section) ==
    LET first == Min(section.body)
    IN  [k \in 1 .. Cardinality(Windows(Cardinality(section.body))) |->
            [item |-> section.item, index |-> k - 1,
             tokens |-> {p \in section.body : p - first \in (k - 1) * Step .. (k - 1) * Step + Size - 1}]]

\* chunk_filing: all sections' chunks in order, cut at the cap.
AllChunks(text) == LET sections == Sections(text)
                   IN  FlattenSeq([k \in DOMAIN sections |-> SectionChunks(sections[k])])
Chunks(text)    == SubSeq(AllChunks(text), 1, Min({MaxChunks, Len(AllChunks(text))}))

\* embed_texts: batch after batch; each response lists its vectors in input order.  The
\* vector of a chunk is the chunk here.
Vectors(chunks) ==
    FlattenSeq([b \in 1 .. (Len(chunks) + BatchSize - 1) \div BatchSize |->
                   SubSeq(chunks, (b - 1) * BatchSize + 1, Min({b * BatchSize, Len(chunks)}))])

\* The rows: chunks and vectors zipped, which must be equally many.
Rows(text) ==
    LET chunks == Chunks(text) vectors == Vectors(chunks)
    IN  [k \in DOMAIN chunks |-> [chunk |-> chunks[k], vector |-> vectors[k]]]
-----------------------------------------------------------------------------
\* The heading at h is the last one of its item.
IsFinal(text, h) == text[h] \in Items /\ \A l \in h + 1 .. Len(text) : text[l] # text[h]

\* Nothing of a section is lost between windows, at tiny tails or in batches: unless
\* the cap cuts the filing, every token of every kept section is in a row that cites
\* the section's item; and always a row's tokens are its own item's, its vector its
\* own text's, and (item, chunk_index) names it.
CoveredFiling(text) ==
    LET rows == Rows(text) sections == Sections(text) IN
    /\ Len(AllChunks(text)) <= MaxChunks =>
          \A s \in Range(sections) :
             s.body \subseteq UNION {r.chunk.tokens : r \in {q \in Range(rows) : q.chunk.item = s.item}}
    /\ \A k \in DOMAIN rows :
          /\ rows[k].vector = rows[k].chunk
          /\ rows[k].chunk.tokens # {}
          /\ rows[k].chunk.item # "FULL" => \A p \in rows[k].chunk.tokens :
                text[Max({h \in 1 .. p : IsFinal(text, h)})] = rows[k].chunk.item
          /\ \A j \in DOMAIN rows \ {k} :
                rows[j].chunk.item # rows[k].chunk.item \/ rows[j].chunk.index # rows[k].chunk.index
=============================================================================
