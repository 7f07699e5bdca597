---------------------------- MODULE InvertedIndex ----------------------------
(***************************************************************************)
(* The inverted index (engine/index.rs): a token leads to its postings, a  *)
(* sorted vector of entity ids without repetition that every operation     *)
(* looks up by binary search.  A text is the sequence of its tokens.       *)
(***************************************************************************)
EXTENDS Integers, Sequences, Functions

CONSTANTS Ids, Texts

\* What the constants must be.
IndexConstants ==
    /\ Ids \subseteq Nat
    /\ \A text \in Texts : text \in Seq(Range(text))

VARIABLES
    index,   \* [tokens met so far -> their postings]
    indexed  \* history: the pairs of a token and an id that are in the index

indexVars == <<index, indexed>>

Tokens == UNION {Range(text) : text \in Texts}

IndexTypeOK ==
    /\ DOMAIN index \subseteq Tokens
    /\ \A t \in DOMAIN index : index[t] \in Seq(Ids)
    /\ indexed \subseteq Tokens \X Ids

IndexInit ==
    /\ index = [t \in {} |-> <<>>]
    /\ indexed = {}

\* A step of a binary search for x: the half of the part that may hold it.
Halved(s, x, part) ==
    LET half == part.size \div 2
    IN  IF part.size <= 1 THEN part
        ELSE [base |-> IF s[part.base + half] > x THEN part.base ELSE part.base + half,
              size |-> part.size - half]

\* Where the search ends: no more than Len(s) steps leave one place.
Narrowed(s, x) ==
    LET part[n \in 0 .. Len(s)] ==
            IF n = 0 THEN [base |-> 1, size |-> Len(s)] ELSE Halved(s, x, part[n - 1])
    IN  part[Len(s)].base

\* binary_search: the place of x in s, or the place to insert it at.
BinarySearch(s, x) ==
    LET last == Narrowed(s, x)
    IN  IF s = <<>> THEN [found |-> FALSE, pos |-> 1]
        ELSE [found |-> s[last] = x, pos |-> IF s[last] < x THEN last + 1 ELSE last]

Has(s, x) == BinarySearch(s, x).found

\* The postings with one more id.  Mutant: put at the end.
AtEnd(s, x) == IF Has(s, x) THEN s ELSE Append(s, x)
Inserted(s, x) ==
    LET pos == BinarySearch(s, x).pos
    IN  IF Has(s, x) THEN s ELSE SubSeq(s, 1, pos - 1) \o <<x>> \o SubSeq(s, pos, Len(s))

Removed(s, x) ==
    LET pos == BinarySearch(s, x).pos
    IN  IF Has(s, x) THEN SubSeq(s, 1, pos - 1) \o SubSeq(s, pos + 1, Len(s)) ELSE s

\* The postings of a token, none for one never met.
Postings(t) == IF t \in DOMAIN index THEN index[t] ELSE <<>>
-----------------------------------------------------------------------------
InsertDocument(id, text) ==
    /\ index' = [t \in DOMAIN index \cup Range(text) |->
                    IF t \in Range(text) THEN Inserted(Postings(t), id) ELSE index[t]]
    /\ indexed' = indexed \cup (Range(text) \X {id})

RemoveDocument(id, text) ==
    /\ index' = [t \in DOMAIN index |->
                    IF t \in Range(text) THEN Removed(index[t], id) ELSE index[t]]
    /\ indexed' = indexed \ (Range(text) \X {id})

IndexNext == \E id \in Ids, text \in Texts : InsertDocument(id, text) \/ RemoveDocument(id, text)

IndexSpec == IndexInit /\ [][IndexNext]_indexVars
-----------------------------------------------------------------------------
\* retain: the ids of r that are among the postings s.
Retained(r, s) ==
    LET kept[n \in 0 .. Len(r)] ==
            IF n = 0 THEN <<>>
            ELSE IF Has(s, r[n]) THEN Append(kept[n - 1], r[n]) ELSE kept[n - 1]
    IN  kept[Len(r)]

\* search_and starts from the first token met before and keeps what the others
\* have too; tokens never met are passed over.
AndAlso(result, t) ==
    IF t \notin DOMAIN index THEN result
    ELSE [begun |-> TRUE,
          ids |-> IF result.begun THEN Retained(result.ids, index[t]) ELSE index[t]]

SearchAnd(query) ==
    LET result[n \in 0 .. Len(query)] ==
            IF n = 0 THEN [begun |-> FALSE, ids |-> <<>>] ELSE AndAlso(result[n - 1], query[n])
    IN  result[Len(query)].ids

\* The ids of r and the postings s, inserted one by one.
Merged(r, s) ==
    LET all[n \in 0 .. Len(s)] == IF n = 0 THEN r ELSE Inserted(all[n - 1], s[n])
    IN  all[Len(s)]

SearchOr(query) ==
    LET result[n \in 0 .. Len(query)] ==
            IF n = 0 THEN <<>> ELSE Merged(result[n - 1], Postings(query[n]))
    IN  result[Len(query)]

\* In order and without repetition.
Ascending(s) == \A i, j \in DOMAIN s : i < j => s[i] < s[j]

\* After any inserts and removals, with texts and queries that repeat a token,
\* the searches return, in order and without repetition, the entities indexed
\* under some token of the query, and, when the index has met all its tokens,
\* those under every token of it (engine/index.rs).
SearchesFind ==
    \A query \in Texts :
        /\ Ascending(SearchOr(query))
        /\ Range(SearchOr(query)) = {id \in Ids : \E t \in Range(query) : <<t, id>> \in indexed}
        /\ Ascending(SearchAnd(query))
        /\ query = <<>> => SearchAnd(query) = <<>>
        /\ (query # <<>> /\ Range(query) \subseteq DOMAIN index) =>
              Range(SearchAnd(query)) = {id \in Ids : \A t \in Range(query) : <<t, id>> \in indexed}

\* "Returns a list of entity IDs that match all tokens" (engine/index.rs, of
\* search_and), tokens the index has never met included.
SearchAndMatchesAll ==
    \A query \in Texts : \A id \in Range(SearchAnd(query)), t \in Range(query) :
        <<t, id>> \in indexed
=============================================================================
