--------------------------------- MODULE Search ---------------------------------
(***************************************************************************)
(* search_engine/: one index of the ElasticsearchClient over an             *)
(* InvertedIndex, the queries and aggregations run on it, and what a user   *)
(* who types a query is offered: completions, corrected terms and facets.   *)
(*                                                                          *)
(* A text is the sequence of terms its analysis gives; what FacetedSearch,  *)
(* which looks for the query as a stretch of characters, is asked for is    *)
(* whole terms, none of which is part of another.  A score is only whether  *)
(* there is one: order and pages of the hits are left out, and the clauses  *)
(* of a bool query are queries of the other kinds.                          *)
(***************************************************************************)
EXTENDS Integers, FiniteSets, Sequences, SequencesExt, FiniteSetsExt

CONSTANTS
  Ids, Sources,         \* documents: [name, description, category, price]
  lower,                \* of every category
  MaxTotal,             \* bound on the index() calls to one index
  agg_size,             \* the `size` of a terms aggregation
  Dictionary,           \* words, as sequences of letters
  Phrases,              \* texts for completion: [text, words, weight]
  Letters, MaxTyped,
  min_prefix_len, max_prefix_len, max_suggestions

VARIABLES
  index,         \* "absent", "mapped" by create_index, or "dynamic"
  documents,     \* the live documents: [source, version] of some Ids
  term_freq,     \* the posting lists: term, then document, to count
  total_docs,
  keyword_fields,   \* <<field, value>> to the documents it was indexed for
  times          \* history: how often each document was indexed

indexVars == <<index, documents, term_freq, total_docs, keyword_fields, times>>

VARIABLES
  edge_ngrams,   \* the entries [ngram, weight, text]
  typed          \* what the user has typed so far

typedVars == <<edge_ngrams, typed>>

Categories == {s.category : s \in Sources}
Prices     == {s.price : s \in Sources}
Terms == UNION {ToSet(s.name) \cup ToSet(s.description) \cup {lower[s.category]} : s \in Sources}
ASSUME SearchAssumption ==
  /\ IsFiniteSet(Sources) /\ agg_size \in Nat
  /\ \A s \in Sources : /\ s.name \in Seq(Terms) /\ s.description \in Seq(Terms)
                        /\ s.price \in Nat

\* A text determines its words: they are what it splits into.
ASSUME TypingAssumption ==
  /\ Dictionary \subseteq Seq(Letters)
  /\ {min_prefix_len, max_prefix_len, max_suggestions} \subseteq Nat
  /\ \A p \in Phrases :
       /\ p.weight \in Nat /\ IsFiniteSet(p.words)
       /\ \A w \in p.words \cup {p.text} : Len(w) \in Nat
       /\ \A q \in Phrases : p.text = q.text => p.words = q.words

Keywords == ({"category"} \X Categories) \cup ({"price"} \X Prices)

Empty(kind) ==
  /\ index' = kind
  /\ documents' = <<>> /\ total_docs' = 0
  /\ term_freq' = [t \in Terms |-> [d \in Ids |-> 0]]
  /\ keyword_fields' = [k \in Keywords |-> {}]
  /\ times' = [d \in Ids |-> 0]

SearchInit ==
  /\ index = "absent" /\ documents = <<>> /\ total_docs = 0
  /\ term_freq = [t \in Terms |-> [d \in Ids |-> 0]]
  /\ keyword_fields = [k \in Keywords |-> {}]
  /\ times = [d \in Ids |-> 0]
  /\ edge_ngrams = {} /\ typed = <<>>

-----------------------------------------------------------------------------
(* Indexing *)

\* Of an existing index it leaves nothing.
CreateIndex == Empty("mapped") /\ UNCHANGED typedVars

\* The text fields of the mapping, or every string field.
TextOf(source, kind) ==
  source.name \o source.description
    \o (IF kind = "dynamic" THEN <<lower[source.category]>> ELSE <<>>)

Occurrences(term, text) == Cardinality({i \in DOMAIN text : text[i] = term})

AddDocument(d, source, kind) ==
  /\ term_freq' = [t \in Terms |-> [term_freq[t] EXCEPT ![d] =
                                      @ + Occurrences(t, TextOf(source, kind))]]
  /\ total_docs' = total_docs + 1

KeysOf(source, kind) ==
  IF kind = "dynamic" THEN {}
  ELSE {<<"category", source.category>>, <<"price", source.price>>}

\* Mutant: a document that exists is not indexed again.
AddKeysOnce(d, source, kind) ==
  keyword_fields' = [k \in Keywords |->
    keyword_fields[k] \cup (IF k \in KeysOf(source, kind) /\ d \notin DOMAIN documents
                            THEN {d} ELSE {})]

\* The entries for the values a document had before stay.
AddKeys(d, source, kind) ==
  keyword_fields' = [k \in Keywords |->
    keyword_fields[k] \cup (IF k \in KeysOf(source, kind) THEN {d} ELSE {})]

IndexDocument(d, source) ==
  /\ total_docs < MaxTotal
  /\ LET kind == IF index = "absent" THEN "dynamic" ELSE index
         version == IF d \in DOMAIN documents THEN documents[d].version + 1 ELSE 1
     IN  /\ index' = kind
         /\ documents' = [e \in DOMAIN documents \cup {d} |->
                            IF e = d THEN [source |-> source, version |-> version]
                            ELSE documents[e]]
         /\ AddDocument(d, source, kind)
         /\ AddKeys(d, source, kind)
  /\ times' = [times EXCEPT ![d] = @ + 1]
  /\ UNCHANGED typedVars

\* The inverted index and the keyword entries keep the document.
DeleteDocument(d) ==
  /\ d \in DOMAIN documents
  /\ documents' = Restrict(documents, DOMAIN documents \ {d})
  /\ UNCHANGED <<index, term_freq, total_docs, keyword_fields, times, typedVars>>

-----------------------------------------------------------------------------
(* Queries: the documents each gives a score *)

Live == DOMAIN documents
Postings(term) == {d \in Ids : term_freq[term][d] > 0}
DocFrequency(term) == Cardinality(Postings(term))

SearchAny(terms) == UNION {Postings(t) : t \in terms}
SearchAll(terms) == {d \in Ids : terms # {} /\ \A t \in terms : d \in Postings(t)}

\* _match and _multi_match search every text field, whichever is asked for.
Scores(q) ==
  CASE q.kind = "match_all" -> Live
    [] q.kind \in {"match", "multi_match"} -> SearchAny(q.terms)
    [] q.kind = "match_phrase" -> SearchAll(q.terms)
    [] q.kind = "terms" -> UNION {keyword_fields[k] : k \in q.keys}
    [] q.kind = "range" -> {d \in Live : q.gte <= documents[d].source.price
                                         /\ documents[d].source.price < q.lt}

Bool(q) ==
  LET must   == {d \in Ids : \A c \in q.must : d \in Scores(c)}
      scored == {d \in IF q.must = {} THEN Live ELSE must :
                   /\ \A c \in q.filter : d \in Scores(c)
                   /\ \A c \in q.must_not : d \notin Scores(c)}
  IN  IF q.should # {} /\ q.must = {} /\ q.filter = {}
      THEN UNION {Scores(c) : c \in q.should}
      ELSE scored

\* Of the documents with a score, those that exist.
Execute(q) == {d \in Live : d \in IF q.kind = "bool" THEN Bool(q) ELSE Scores(q)}

\* Aggregations, over the sources of every hit.
Values(hits) == {documents[d].source.category : d \in hits}
Counts(hits) == [v \in Values(hits) |-> Cardinality({d \in hits : documents[d].source.category = v})]

\* The first agg_size buckets, most frequent first: any of them, where counts are equal.
TermsAgg(hits) ==
  {Restrict(Counts(hits), B) :
     B \in {B \in SUBSET Values(hits) :
              /\ Cardinality(B) = Min({agg_size, Cardinality(Values(hits))})
              /\ \A v \in B : \A u \in Values(hits) \ B : Counts(hits)[v] >= Counts(hits)[u]}}

\* Mutant: both ends of a range belong to it.
RangeAggInclusive(hits, from, to) ==
  Cardinality({d \in hits : /\ from <= documents[d].source.price
                            /\ documents[d].source.price <= to})

RangeAgg(hits, from, to) == Cardinality({d \in hits : /\ from <= documents[d].source.price
                                                      /\ documents[d].source.price < to})

TotalOf(counts, values) == FoldFunctionOnSet(+, 0, counts, values)

\* The query, word after word, somewhere in the text.
Within(query, text) ==
  \E i \in 0..Len(text) - Len(query) : \A j \in 1..Len(query) : text[i + j] = query[j]

\* FacetedSearch over the same sources, its facets the Counts of what it finds: the
\* filter does not tell cases apart, the facets do.
FacetedSearch(query, filters) ==
  {d \in Live :
     /\ query = <<>> \/ Within(query, documents[d].source.name)
                     \/ Within(query, documents[d].source.description)
     /\ \A v \in filters : lower[documents[d].source.category] = lower[v]}

-----------------------------------------------------------------------------
(* Completion and correction *)

Ngrams(word) == {SubSeq(word, 1, n) : n \in min_prefix_len..Min({Len(word), max_prefix_len})}

Entries(word, weight, text) ==
  {[ngram |-> p, weight |-> weight, text |-> text] : p \in Ngrams(word)}

\* A word weighs 0.8 of its phrase; weights are in tenths.
IndexText(phrase) ==
  /\ edge_ngrams' = edge_ngrams
       \cup Entries(phrase.text, 10 * phrase.weight, phrase.text)
       \cup (UNION {Entries(w, 8 * phrase.weight, phrase.text) :
                      w \in {w \in phrase.words : Len(w) >= min_prefix_len}})
  /\ UNCHANGED <<typed, indexVars>>

Type(letter) ==
  /\ Len(typed) < MaxTyped
  /\ typed' = Append(typed, letter)
  /\ UNCHANGED <<edge_ngrams, indexVars>>

EntriesFor(prefix) ==
  IF Len(prefix) < min_prefix_len THEN {} ELSE {e \in edge_ngrams : e.ngram = prefix}

BestWeight(prefix, text) ==
  Max({e.weight : e \in {e \in EntriesFor(prefix) : e.text = text}})

\* The first max_suggestions texts, by the weight of their heaviest entry.
Suggest(prefix) ==
  LET texts == {e.text : e \in EntriesFor(prefix)}
  IN  {t \in texts :
         Cardinality({u \in texts : BestWeight(prefix, u) > BestWeight(prefix, t)})
           < max_suggestions}

EditDistance(a, b) ==
  LET dp[p \in (0..Len(a)) \X (0..Len(b))] ==
        LET i == p[1]
            j == p[2]
        IN  IF i = 0 THEN j ELSE IF j = 0 THEN i
            ELSE IF a[i] = b[j] THEN dp[<<i - 1, j - 1>>]
            ELSE 1 + Min({dp[<<i - 1, j>>], dp[<<i, j - 1>>], dp[<<i - 1, j - 1>>]})
  IN  dp[<<Len(a), Len(b)>>]

AutoFuzziness(word) == IF Len(word) <= 2 THEN 0 ELSE IF Len(word) <= 5 THEN 1 ELSE 2

\* The first letter has to agree.
FuzzySearch(query) ==
  {c \in Dictionary : /\ query # <<>> => c[1] = query[1]
                      /\ EditDistance(query, c) <= AutoFuzziness(query)}

ESIndex == CreateIndex
           \/ \E d \in Ids : DeleteDocument(d) \/ \E s \in Sources : IndexDocument(d, s)
AutocompleteEngine == \E p \in Phrases : IndexText(p)
Typing == \E l \in Letters : Type(l)

SearchNext == ESIndex \/ AutocompleteEngine \/ Typing
-----------------------------------------------------------------------------
\* What the current source of a document says of a query.
Answers(d, q) ==
  LET source == documents[d].source
      text   == ToSet(TextOf(source, index))
  IN  CASE q.kind = "match_all" -> TRUE
        [] q.kind \in {"match", "multi_match"} -> q.terms \cap text # {}
        [] q.kind = "match_phrase" -> q.terms # {} /\ q.terms \subseteq text
        [] q.kind = "terms" -> q.keys \cap KeysOf(source, index) # {}
        [] q.kind = "range" -> q.gte <= source.price /\ source.price < q.lt

\* The reading of a bool query its documentation gives.
AnswersBool(d, q) ==
  /\ \A c \in q.must \cup q.filter : Answers(d, c)
  /\ \A c \in q.must_not : ~Answers(d, c)
  /\ q.should # {} /\ q.must = {} /\ q.filter = {} => \E c \in q.should : Answers(d, c)

Wanted(q) == {d \in Live : IF q.kind = "bool" THEN AnswersBool(d, q) ELSE Answers(d, q)}

Pairs == {t \in SUBSET Terms : Cardinality(t) = 2}
Atoms == {[kind |-> k, terms |-> t] : k \in {"match", "match_phrase"}, t \in Pairs}
         \cup {[kind |-> "terms", keys |-> {<<"category", v>>}] : v \in Categories}
         \cup {[kind |-> "range", gte |-> 0, lt |-> p] : p \in Prices}
Clauses == {[kind |-> "bool", must |-> m, filter |-> {b}, must_not |-> {}, should |-> {}]
              : m \in {{}} \cup {{a} : a \in Atoms}, b \in Atoms}
Exclusions == {[kind |-> "bool", must |-> {a}, filter |-> {}, must_not |-> {b}, should |-> {}]
                 : a \in Atoms, b \in Atoms}
Preferences == {[kind |-> "bool", must |-> {}, filter |-> {}, must_not |-> {b}, should |-> {a}]
                 : a \in Atoms, b \in Atoms}

\* However documents were indexed, indexed again and deleted, a query without
\* must_not finds every document that answers it and only documents that exist; of
\* the documents indexed once it finds exactly those that answer it, must_not or not.
\* And the rarity of a term is defined: it is in no more documents than there are.
FindsMatches ==
  /\ \A q \in Atoms \cup Clauses : Wanted(q) \subseteq Execute(q) /\ Execute(q) \subseteq Live
  /\ \A q \in Atoms \cup Clauses \cup Exclusions : \A d \in Live :
       times[d] = 1 => (d \in Execute(q) <=> d \in Wanted(q))
  /\ \A t \in Terms : DocFrequency(t) <= total_docs

\* "must_not: Must not match -> excludes from results".
MustNotExcludes ==
  \A q \in Preferences : \A d \in Execute(q) : times[d] = 1 => \A c \in q.must_not : ~Answers(d, c)

\* The search of q with a bucket's filter added.
Narrowed(q, f) == [kind |-> "bool", must |-> {q}, filter |-> {f}, must_not |-> {}, should |-> {}]

Queries == {<<>>} \cup {<<t>> : t \in Terms} \cup {<<t, u>> : t, u \in Terms}

\* What a facet shows is what clicking it leads to.  Searching again with a category as
\* a filter goes by the keyword entries, which remember values a document no longer has:
\* on an index with a mapping it finds all the bucket counted, and no more when what it
\* finds was indexed once.  A price range finds what it counted, always.  The buckets
\* shown account for every hit unless there are more values than `size`.  And a filter
\* of FacetedSearch leaves what the facets of the unfiltered search count for its value
\* and those that differ from it in case only.
FacetsDrillDown ==
  /\ \A q \in Atoms : \A agg \in TermsAgg(Execute(q)) :
       /\ \A v \in DOMAIN agg :
            LET drilled == Execute(Narrowed(q, [kind |-> "terms", keys |-> {<<"category", v>>}]))
            IN  index = "mapped" =>
                  /\ agg[v] <= Cardinality(drilled)
                  /\ (\A d \in drilled : times[d] = 1) => agg[v] = Cardinality(drilled)
       /\ TotalOf(agg, DOMAIN agg) <= Cardinality(Execute(q))
       /\ TotalOf(agg, DOMAIN agg) = Cardinality(Execute(q))
            <=> Cardinality(Values(Execute(q))) <= agg_size
  /\ \A q \in Atoms : \A from \in Prices : \A to \in Prices :
       RangeAgg(Execute(q), from, to)
         = Cardinality(Execute(Narrowed(q, [kind |-> "range", gte |-> from, lt |-> to])))
  /\ \A query \in Queries : \A v \in Categories :
       LET found == FacetedSearch(query, {})
       IN  Cardinality(FacetedSearch(query, {v}))
             = TotalOf(Counts(found), {u \in Values(found) : lower[u] = lower[v]})

\* "MATCH PHRASE: All terms must appear in ORDER and ADJACENT".
PhraseInOrder ==
  \A t, u \in Terms : \A d \in Execute([kind |-> "match_phrase", terms |-> {t, u}]) :
    times[d] = 1 => \/ Within(<<t, u>>, documents[d].source.name)
                    \/ Within(<<t, u>>, documents[d].source.description)

\* 'User clicks "Nike" -> Re-search + filter brand=Nike -> 15 results', of "Nike (15)".
FacetCountsItsResults ==
  \A query \in Queries : \A v \in Values(FacetedSearch(query, {})) :
    Cardinality(FacetedSearch(query, {v})) = Counts(FacetedSearch(query, {}))[v]

\* The suggestions are the best of the texts indexed that begin, or have a word that
\* begins, with what is typed.
BestSuggested ==
  Len(typed) \in min_prefix_len..max_prefix_len =>
    LET Begins(p) == typed \in Ngrams(p.text) \/ \E w \in p.words : typed \in Ngrams(w)
        known == {p \in Phrases : \E e \in edge_ngrams : e.text = p.text}
        given == Suggest(typed)
    IN  /\ given \subseteq {p.text : p \in {p \in known : Begins(p)}}
        /\ \A p \in known : Begins(p) =>
             \/ p.text \in given
             \/ /\ Cardinality(given) >= max_suggestions
                /\ \A t \in given : BestWeight(typed, t) >= BestWeight(typed, p.text)

\* Every word one edit away from word.
Edits(word) ==
  LET n == Len(word)
  IN  {RemoveAt(word, i) : i \in 1..n}
      \cup {[word EXCEPT ![i] = l] : i \in 1..n, l \in Letters}
      \cup {InsertAt(word, i, l) : i \in 1..n + 1, l \in Letters}

\* A typed word that is one slip away from a word of the dictionary, after its first
\* letter, is put right, unless it is too short; and nothing farther off is offered.
TyposFound ==
  \A w \in Dictionary :
    /\ Len(typed) > 2 /\ typed \in Edits(w) /\ typed[1] = w[1] => w \in FuzzySearch(typed)
    /\ w \in FuzzySearch(typed) => typed = w \/ typed \in Edits(w) \/ Len(typed) > 5

\* '"shoe" -> "sheo" = 1 edit (swap 'o' and 'e')': a word of three letters or more typed
\* with two neighbours swapped, after its first letter, is put right like any other slip.
SwapIsOneEdit ==
  \A w \in Dictionary : \A i \in 2..Len(w) - 1 :
    typed = [w EXCEPT ![i] = w[i + 1], ![i + 1] = w[i]] => w \in FuzzySearch(typed)

\* What a search promises.
SearchAnswers == FindsMatches /\ FacetsDrillDown

\* What the search box promises.
TypingHelped == BestSuggested /\ TyposFound
=============================================================================
