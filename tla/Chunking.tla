------------------------------ MODULE Chunking ------------------------------
(***************************************************************************)
(* DeterministicChunker.chunk_document.  A text is a number of tokens; what *)
(* the chunker looks at is where its parts end, which are its headed        *)
(* sections or, when it has no heading, its paragraphs.  Sections and       *)
(* chunks are intervals of token positions.                                 *)
(***************************************************************************)
EXTENDS Integers, Sequences

CONSTANTS Target, MaxTokens, Overlap, MaxChunks  \* of the constructor, which checks them

VARIABLES text,      \* [headed, parts]: the token counts of the parts
          part,      \* the part that is looked at
          at,        \* where it begins
          buffer,    \* where the paragraphs that wait to be joined begin
          sections,
          start,     \* where the next chunk begins
          chunks,
          chunkpc

chunkVars == <<text, part, at, buffer, sections, start, chunks, chunkpc>>

ASSUME ChunkAssumption ==
    /\ Target \in Nat \ {0} /\ MaxTokens \in Nat /\ MaxTokens >= Target
    /\ Overlap \in 0..(Target - 1)
    /\ MaxChunks \in Nat \ {0}

Interval(a, b) == [from |-> a, to |-> b]
Size(i) == i.to - i.from
NoText == [headed |-> FALSE, parts |-> <<>>]
Texts == [headed : BOOLEAN, parts : Seq(Nat \ {0})]

ChunkInit ==
    /\ text = NoText /\ part = 1 /\ at = 0 /\ buffer = 0
    /\ sections = <<>> /\ start = 0 /\ chunks = <<>> /\ chunkpc = "idle"

Chunk(t) ==
    /\ text' = t /\ part' = 1 /\ at' = 0 /\ buffer' = 0
    /\ sections' = <<>> /\ start' = 0 /\ chunks' = <<>>
    /\ chunkpc' = "partition"

\* The paragraphs in the buffer become a section.
Flushed == IF buffer < at THEN Append(sections, Interval(buffer, at)) ELSE sections

TakePart ==
    /\ chunkpc = "partition" /\ part <= Len(text.parts)
    /\ LET end == at + text.parts[part]
       IN  /\ at' = end /\ part' = part + 1
           /\ IF text.headed
              THEN sections' = Append(sections, Interval(at, end)) /\ buffer' = end
              ELSE IF end - buffer <= Target
              THEN UNCHANGED <<sections, buffer>>
              ELSE IF text.parts[part] <= MaxTokens
              THEN sections' = Flushed /\ buffer' = at
              ELSE sections' = Append(Flushed, Interval(at, end)) /\ buffer' = end
    /\ UNCHANGED <<text, start, chunks, chunkpc>>

EndPartition ==
    /\ chunkpc = "partition" /\ part > Len(text.parts)
    /\ sections' = Flushed /\ part' = 1 /\ buffer' = at
    /\ chunkpc' = "split"
    /\ UNCHANGED <<text, at, start, chunks>>

\* Bug: the overlap is added where it must be taken off.
SkippingStep == Target + Overlap

Step == Target - Overlap

\* A section that fits is a chunk; a longer one is cut into windows.
SplitSection ==
    /\ chunkpc = "split" /\ part <= Len(sections)
    /\ LET end == sections[part].to
           cut == start + Target
       IN  IF Size(sections[part]) <= MaxTokens \/ cut >= end
           THEN /\ chunks' = Append(chunks, Interval(start, end))
                /\ start' = end /\ part' = part + 1
           ELSE /\ chunks' = Append(chunks, Interval(start, cut))
                /\ start' = start + Step /\ UNCHANGED part
    /\ UNCHANGED <<text, at, buffer, sections, chunkpc>>

EndSplit ==
    /\ chunkpc = "split" /\ part > Len(sections)
    /\ chunkpc' = IF chunks = <<>> \/ Len(chunks) > MaxChunks THEN "failed" ELSE "done"
    /\ UNCHANGED <<text, part, at, buffer, sections, start, chunks>>

ChunkStep == TakePart \/ EndPartition \/ SplitSection \/ EndSplit
-----------------------------------------------------------------------------
\* A text that is chunked loses nothing and says nothing three times over: every token is in a
\* chunk; a chunk has at most MaxTokens tokens, begins where the one before it ends or exactly
\* Overlap tokens earlier, and ends later; no chunk reaches from one section into the next.
ChunksCover ==
    chunkpc = "done" =>
        /\ \A t \in 0..(at - 1) : \E k \in DOMAIN chunks : chunks[k].from <= t /\ t < chunks[k].to
        /\ \A k \in DOMAIN chunks :
              /\ Size(chunks[k]) \in 1..MaxTokens
              /\ \E s \in DOMAIN sections :
                    sections[s].from <= chunks[k].from /\ chunks[k].to <= sections[s].to
        /\ \A k \in 2..Len(chunks) :
              /\ chunks[k].from \in {chunks[k-1].to, chunks[k-1].to - Overlap}
              /\ chunks[k-1].to < chunks[k].to
=============================================================================
