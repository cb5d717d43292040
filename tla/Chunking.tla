------------------------------ MODULE Chunking ------------------------------
(***************************************************************************)
(* RagIngestionPipeline._split and ingest_segments (rag.py): one extracted  *)
(* document is cut, page by page, into overlapping windows of tokens that   *)
(* end, where they can, at the end of a sentence or heading.                *)
(*                                                                          *)
(* A page is the number of its tokens and the set of the positions after    *)
(* which one that ends in . ! ? or : is cut.  A chunk is the half-open      *)
(* interval tokens[from:to] of a page.  The rewriting of role labels and    *)
(* white space before the split only decides what the tokens are.           *)
(***************************************************************************)
EXTENDS Naturals, Sequences

CONSTANTS
    ChunkSize,  \* chunk_size, in tokens
    Overlap,    \* overlap, in tokens
    MaxPages,   \* bound: pages of a document
    MaxTokens   \* bound: tokens of a page

\* Checked by RagIngestionPipeline.__init__.
ASSUME ChunkingAssumption ==
    /\ ChunkSize \in Nat \ {0} /\ Overlap \in Nat /\ Overlap < ChunkSize
    /\ MaxPages \in Nat /\ MaxTokens \in Nat

VARIABLES
    pages,   \* the document: a sequence of pages
    page,    \* the page that is being split
    start,   \* the first token of the next window
    chunks   \* the pieces so far, over all pages

vars == <<pages, page, start, chunks>>

Page == UNION {[tokens : {n}, ends : SUBSET (1..n)] : n \in 0..MaxTokens}

Chunk == [page : 1..MaxPages, from : 0..MaxTokens, to : 0..MaxTokens]

-----------------------------------------------------------------------------

Init == /\ \E n \in 0..MaxPages : pages \in [1..n -> Page]
        /\ page = 1 /\ start = 0 /\ chunks = <<>>

Larger(a, b) == IF a >= b THEN a ELSE b

\* The end of the window, when the page goes on after it: the last boundary in
\* the latter half of the window, or the last one anywhere in it, or its full
\* length.
Boundary(p, s) ==
    LET end == s + ChunkSize
        floor == s + Larger(1, ChunkSize \div 2)
        boundaries == {b \in p.ends : s < b /\ b <= end}
        late == {b \in boundaries : b >= floor}
        Latest(S) == CHOOSE b \in S : \A d \in S : d <= b
    IN  IF late # {} THEN Latest(late)
        ELSE IF boundaries # {} THEN Latest(boundaries)
        ELSE end

End(p, s) == IF s + ChunkSize < p.tokens THEN Boundary(p, s) ELSE p.tokens

\* Mutant: the overlap may take the window back to where it began.
NextStart_NoProgress(s, end) == IF end >= Overlap THEN end - Overlap ELSE 0

\* Mutant: the next window begins after the overlap instead of before it.
NextStart_Skip(s, end) == Larger(end + Overlap, s + 1)

\* max(end - overlap, start + 1).
NextStart(s, end) == IF end >= Overlap THEN Larger(end - Overlap, s + 1) ELSE s + 1

\* One window: append its chunk, then stop at the end of the page or go on.
Cut ==
    /\ page <= Len(pages)
    /\ start < pages[page].tokens
    /\ LET end == End(pages[page], start)
       IN  /\ chunks' = Append(chunks, [page |-> page, from |-> start, to |-> end])
           /\ IF end = pages[page].tokens
              THEN page' = page + 1 /\ start' = 0
              ELSE page' = page /\ start' = NextStart(start, end)
    /\ UNCHANGED pages

\* A page without tokens gives no chunk.
EmptyPage ==
    /\ page <= Len(pages)
    /\ pages[page].tokens = 0
    /\ page' = page + 1
    /\ UNCHANGED <<pages, start, chunks>>

Done == page > Len(pages) /\ UNCHANGED vars

Next == Cut \/ EmptyPage \/ Done

Spec == Init /\ [][Next]_vars

-----------------------------------------------------------------------------
(* Properties.                                                             *)

\* The document, the position and the pieces have their types; the loop never
\* runs past the end of a page.
TypeOK == /\ pages \in Seq(Page) /\ Len(pages) <= MaxPages
          /\ page \in 1..(Len(pages) + 1)
          /\ start \in 0..MaxTokens
          /\ page <= Len(pages) => start <= pages[page].tokens
          /\ chunks \in Seq(Chunk)

\* No token is lost: a page that is split has every token in some piece, and
\* of the page at hand everything before the next window is in one.
TokensKept ==
    \A i \in 1..Len(pages) : \A t \in 1..pages[i].tokens :
        i < page \/ (i = page /\ t <= start) =>
            \E j \in 1..Len(chunks) : chunks[j].page = i /\ chunks[j].from < t /\ t <= chunks[j].to

\* No piece is empty or longer than a window, and no piece repeats an earlier
\* one: within a page each begins further on (so the loop ends), shares at most
\* the overlap with the one before, and does not end before it.
ChunksAdvance ==
    /\ \A j \in 1..Len(chunks) : /\ chunks[j].from < chunks[j].to
                                 /\ chunks[j].to - chunks[j].from <= ChunkSize
    /\ \A j \in 2..Len(chunks) :
           chunks[j].page = chunks[j - 1].page =>
               /\ chunks[j - 1].from < chunks[j].from
               /\ chunks[j].from <= chunks[j - 1].to
               /\ chunks[j - 1].to <= chunks[j].from + Overlap
               /\ chunks[j - 1].to <= chunks[j].to

=============================================================================
