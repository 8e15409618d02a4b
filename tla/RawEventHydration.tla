------------------------- MODULE RawEventHydration -------------------------
(***************************************************************************)
(* What an event looks like once it is prepared for raw_events: its        *)
(* address normalized, an empty text filled in, language and topics        *)
(* inferred when they are missing, and what was done noted as its quality. *)
(* A row is a record [title, text, kind, url, site, lang, meta, published, *)
(* tags, topics, quality]:                                                 *)
(*   kind   what the text is: "prose", "comments" (the placeholder of a    *)
(*          link post), "url" (an address only) or "blank";                *)
(*   url    "none", "blank", "bad", "noisy" (normalization changes it) or  *)
(*          "clean";                                                       *)
(*   lang   "none" or a language, meta what sourceMeta says the language is. *)
(*   quality  {} when the row was never prepared, else {what was noted}.    *)
(* Titles, when there are any, are prose.                                  *)
(***************************************************************************)
EXTENDS TopicExtraction

UrlAfter(url) ==
    CASE url \in {"noisy", "clean"} -> "clean"
      [] OTHER -> "none"

\* The title stands in for the text, or is put in front of the address.
NeedsTitle(row) == row.kind # "prose" /\ row.title # {}
TextAfter(row) ==
    CASE ~NeedsTitle(row)  -> row.text
      [] row.kind = "url"  -> row.title \cup row.text
      [] OTHER             -> row.title

Content(row) == [title |-> row.title, text |-> row.text,
                 site |-> IF row.url = "none" THEN "none" ELSE row.site]

\* The language given, else the one of sourceMeta, else English when the words
\* look like it.
Language(row) ==
    CASE row.lang # "none" -> row.lang
      [] row.meta # "none" -> row.meta
      [] "the" \in row.title \cup TextAfter(row) -> "en"
      [] OTHER -> "none"

Quality(row, tags) ==
    [stale      |-> row.published,
     invalidUrl |-> row.url \in {"blank", "bad"},
     normalized |-> row.url = "noisy",
     original   |-> row.url \in {"blank", "bad", "noisy"},
     lowInformation |-> row.kind # "prose",
     replaced   |-> NeedsTitle(row),
     inferredTopics |-> row.tags = <<>> /\ tags # <<>>,
     inferredLang   |-> row.lang = "none" /\ Language(row) # "none"]

\* prepareRawEventForPersistence
Prepare(row) ==
    LET filled == [row EXCEPT !.text = TextAfter(row), !.url = UrlAfter(row.url)]
        tags   == IF row.tags # <<>> THEN row.tags ELSE InferTopics(Content(filled))
    IN  [filled EXCEPT !.kind = IF NeedsTitle(row) THEN "prose" ELSE @,
                       !.lang = Language(row),
                       !.tags = tags, !.topics = tags,
                       !.quality = {Quality(row, tags)}]

=============================================================================
