--------------------------- MODULE IntentListing ---------------------------
(***************************************************************************)
(* `inventory` and `inventory_with_capabilities` of intents.rs: one        *)
(* listing per language asked for, a retry in the language's usual form,   *)
(* the hub's whole manifest at most once, the engines' names when the      *)
(* listing is refused or silent, and the fallback skills.                  *)
(* The hub keeps to one manifest, keyed by exact tag; any request may be   *)
(* refused, answered `ok: false`, left unanswered or cut off.              *)
(***************************************************************************)
EXTENDS Naturals, Sequences, FiniteSets, SequencesExt

CONSTANTS
    Asked,          \* the languages asked for, in order (`chosen_languages`)
    Tags,           \* every tag in play, in the order the hub lists them
    Usual,          \* [tag |-> its usual form, or None]
    Language,       \* [tag |-> its language]: equal for two spellings of one
    Distance,       \* [<<tag, tag>> |-> the locale distance]
    None

TagSet == Range(Tags)

IntentListingAssumption ==
    /\ Tags \in Seq(TagSet)
    /\ Asked \in Seq(TagSet) /\ Asked # <<>>
    /\ Usual \in [TagSet -> TagSet \cup {None}]
    /\ DOMAIN Language = TagSet
    /\ Distance \in [TagSet \X TagSet -> Nat]
    /\ \A i, j \in DOMAIN Asked : i # j => Language[Asked[i]] # Language[Asked[j]]

\* A listing, by how many of its rows can carry sentences and how many cannot.
MaxSentenceRows == 2
Listings == [names : 0..1, sentences : 0..MaxSentenceRows]

NoListing == [names |-> 0, sentences |-> 0]

VARIABLES
    hub,            \* the hub's manifest: a listing per tag
    own,            \* the hub's own language, or None
    nearest, fallback,  \* options
    at,             \* the request under way, or how the call ended
    first,          \* the first listing of each language asked
    holding,        \* the tag and the listing this language has so far
    given,          \* what each language was given
    listed,         \* by language: a tag and a listing, or None
    listedIn,       \* `listed_in`: the tag each language was listed under
    whole           \* `hub_languages`: "unasked", "unknown" or "known"

listingVars == <<hub, own, nearest, fallback, at, first, holding, given, listed,
                 listedIn, whole>>

manifest == <<hub, own, nearest, fallback>>
result == <<given, listed, listedIn>>

IntentListingInit ==
    /\ hub \in [TagSet -> Listings] /\ own \in TagSet \cup {None}
    /\ nearest \in BOOLEAN /\ fallback \in BOOLEAN
    /\ at = "first" /\ whole = "unasked"
    /\ first = <<>> /\ holding = None /\ given = <<>> /\ listedIn = <<>>
    /\ listed = [l \in Range(Language) |-> None]

CarriesSentences(listing) == listing.sentences > 0

Asking == Asked[Len(given) + 1]

-----------------------------------------------------------------------------
(* The hub's languages.                                                    *)

\* The hub lists in one order, and the first of several is taken.
FirstListed(tags) ==
    Tags[CHOOSE n \in DOMAIN Tags :
            Tags[n] \in tags /\ \A m \in 1 .. n - 1 : Tags[m] \notin tags]

\* The whole manifest by language: the first spelling listed, and every row.
ManifestTag(l) == FirstListed({t \in TagSet : Language[t] = l /\ hub[t] # NoListing})

ManifestRows(l) ==
    LET rows == {row \in TagSet \X (1 .. MaxSentenceRows) : Language[row[1]] = l}
    IN  [names |-> Cardinality({row \in rows : row[2] <= hub[row[1]].names}),
         sentences |-> Cardinality({row \in rows : row[2] <= hub[row[1]].sentences})]

\* The languages with a sentence to show, each by the tag it is listed under.
Candidates ==
    {t \in TagSet :
        /\ hub[t] # NoListing /\ ManifestTag(Language[t]) = t
        /\ CarriesSentences(ManifestRows(Language[t]))}

\* The first of the nearest within a distance of ten.
Closest(wanted, tags) ==
    LET near == {t \in tags :
                    /\ Distance[wanted, t] <= 10
                    /\ \A u \in tags : Distance[wanted, t] <= Distance[wanted, u]}
    IN  IF near = {} THEN None ELSE FirstListed(near)

MostSentences(tags) ==
    FirstListed({t \in tags : \A u \in tags :
        ManifestRows(Language[t]).sentences >= ManifestRows(Language[u]).sentences})

\* The language asked for, else the hub's own, else the one with most to say.
NearestHubLanguage(wanted) ==
    LET tags == Candidates
    IN  IF tags = {} THEN None
        ELSE IF Closest(wanted, tags) # None THEN Closest(wanted, tags)
        ELSE IF own # None /\ Closest(own, tags) # None THEN Closest(own, tags)
        ELSE MostSentences(tags)

-----------------------------------------------------------------------------
(* One language.                                                           *)

\* `request_reply`: how a query ends that has no answer: the hub is silent or
\* refuses it, says `ok: false`, or the link is lost.
Failures == {"timeout", "refused", "not_ok", "lost"}

\* The listing failed.  A refusal of it or silence sends the call to the
\* engines' names, when it may.
GivesUp(why) ==
    /\ at' = IF fallback /\ why \in {"timeout", "refused"} THEN "names" ELSE "failed"
    /\ UNCHANGED holding

FirstAnswered ==
    /\ at = "first"
    /\ first' = Append(first, hub[Asking])
    /\ holding' = [tag |-> Asking, rows |-> hub[Asking]]
    /\ at' = IF ~nearest \/ CarriesSentences(hub[Asking]) THEN "settled"
             ELSE IF Usual[Asking] = None THEN "look" ELSE "usual"
    /\ UNCHANGED <<manifest, result, whole>>

FirstFails ==
    /\ at = "first"
    /\ \E why \in Failures : GivesUp(why)
    /\ UNCHANGED <<manifest, first, result, whole>>

\* Taken only when it can carry sentences, or when there was nothing.
UsualAnswered ==
    /\ at = "usual"
    /\ LET retried == hub[Usual[Asking]]
       IN  holding' = IF CarriesSentences(retried) \/ (retried # NoListing /\ holding.rows = NoListing)
                      THEN [tag |-> Usual[Asking], rows |-> retried] ELSE holding
    /\ at' = IF CarriesSentences(holding'.rows) THEN "settled" ELSE "look"
    /\ UNCHANGED <<manifest, first, result, whole>>

UsualFails_AlwaysTells ==
    /\ at = "usual"
    /\ \E why \in Failures : GivesUp(why)
    /\ UNCHANGED <<manifest, first, result, whole>>

\* A retry that fails leaves what the first listing gave, if it gave anything.
UsualFails ==
    /\ at = "usual"
    /\ \E why \in Failures :
          IF why # "lost" /\ holding.rows # NoListing
          THEN at' = "look" /\ UNCHANGED holding ELSE GivesUp(why)
    /\ UNCHANGED <<manifest, first, result, whole>>

\* The hub's whole manifest is asked for once in a call, and not having it
\* takes nothing away.
WholeAsked ==
    /\ at = "look" /\ whole = "unasked"
    /\ \/ whole' \in {"known", "unknown"} /\ UNCHANGED at
       \/ at' = "failed" /\ UNCHANGED whole
    /\ UNCHANGED <<manifest, first, holding, result>>

\* Listed in the language nearest to it that has a sentence to show.
Improves ==
    /\ at = "look" /\ whole # "unasked" /\ at' = "settled"
    /\ LET tag == NearestHubLanguage(Asking)
       IN  holding' = IF whole = "known" /\ tag # None
                      THEN [tag |-> tag, rows |-> ManifestRows(Language[tag])] ELSE holding
    /\ UNCHANGED <<manifest, first, result, whole>>

\* One listing per language, whatever its spelling: the tag that was first,
\* with the rows that were last.
Settles ==
    /\ at = "settled"
    /\ LET l == Language[holding.tag]
           key == IF listed[l] = None THEN holding.tag ELSE listed[l].tag
       IN  /\ listed' = [listed EXCEPT ![l] = [tag |-> key, rows |-> holding.rows]]
           /\ listedIn' = Append(listedIn, key)
    /\ given' = Append(given, holding.rows) /\ holding' = None
    /\ at' = IF Len(given') = Len(Asked) THEN "describe" ELSE "first"
    /\ UNCHANGED <<manifest, first, whole>>

-----------------------------------------------------------------------------
(* After the listings.                                                     *)

\* The names of both engines, each of which may fail the call.
NamesAsked ==
    /\ at = "names" /\ at' \in {"names_only", "failed"}
    /\ UNCHANGED <<manifest, first, holding, result, whole>>

\* `describe_many` is a module of its own.
Described ==
    /\ at = "describe" /\ at' \in {"fallbacks", "failed"}
    /\ UNCHANGED <<manifest, first, holding, result, whole>>

\* `list_fallbacks`: what the hub cannot say is unknown, and only a link that
\* is lost fails the call.
FallbacksAsked ==
    /\ at \in {"fallbacks", "names_only"} /\ at' \in {"fallbacks_known", "fallbacks_unknown", "failed"}
    /\ UNCHANGED <<manifest, first, holding, result, whole>>

IntentListingNext ==
    \/ FirstAnswered \/ FirstFails \/ UsualAnswered \/ UsualFails \/ WholeAsked
    \/ Improves \/ Settles \/ NamesAsked \/ Described \/ FallbacksAsked

IntentListingSpec == IntentListingInit /\ [][IntentListingNext]_listingVars

-----------------------------------------------------------------------------
Worth(listing) == IF CarriesSentences(listing) THEN 2 ELSE IF listing # NoListing THEN 1 ELSE 0

\* Looking further never makes an answer worse: what a language is given is
\* worth at least its first listing, and a retry that fails ends the call only
\* when that listing was empty or the link is gone.
NeverWorse ==
    /\ \A i \in DOMAIN given : Worth(given[i]) >= Worth(first[i])
    /\ at = "names" /\ Len(first) > Len(given) => first[Len(first)] = NoListing

\* What a language was given can be read under the tag `listed_in` names: no
\* other language's listing replaces it with less.
GivenStands ==
    \A i \in DOMAIN listedIn :
        \E l \in DOMAIN listed :
            /\ listed[l] # None /\ listed[l].tag = listedIn[i]
            /\ Worth(listed[l].rows) >= Worth(given[i])
=============================================================================
