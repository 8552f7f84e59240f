--------------------------- MODULE InventoryMerge ---------------------------
(***************************************************************************)
(* How `inventory` of intents.rs makes one intent of the rows that name    *)
(* it: rows of several languages, of either engine, enabled or not, with   *)
(* the sentences the hub attached or described, or none.                   *)
(***************************************************************************)
EXTENDS Naturals, Sequences

CONSTANTS Languages, Sentences, None, MaxRows

InventoryMergeAssumption == MaxRows \in Nat /\ None \notin Sentences

Rows == [lang : Languages, method : {"template", "keyword"}, enabled : BOOLEAN,
         says : Sentences \cup {None}]

VARIABLES
    read,           \* the rows so far
    engine,         \* the engine the intent is listed under
    enabled,
    phrases         \* by language: its sentences, None for listed without any

mergeVars == <<read, engine, enabled, phrases>>

InventoryMergeInit ==
    read = <<>> /\ engine = None /\ enabled = FALSE /\ phrases = [l \in {} |-> None]

\* A row without sentences marks its language as listed and erases nothing.
Keeps(row) == row.says # None \/ row.lang \notin DOMAIN phrases

\* A keyword row carries no sentences; the first row names the engine, any
\* enabled row enables the intent.
Merge(row) ==
    /\ Len(read) < MaxRows
    /\ row.method = "keyword" => row.says = None
    /\ read' = Append(read, row)
    /\ engine' = IF engine = None THEN row.method ELSE engine
    /\ enabled' = (enabled \/ row.enabled)
    /\ phrases' = IF Keeps(row)
                  THEN [l \in DOMAIN phrases \cup {row.lang} |->
                           IF l = row.lang THEN row.says ELSE phrases[l]]
                  ELSE phrases

InventoryMergeNext == \E row \in Rows : Merge(row)

InventoryMergeSpec == InventoryMergeInit /\ [][InventoryMergeNext]_mergeVars

-----------------------------------------------------------------------------
\* Whichever order the rows arrive in, an intent has sentences in a language
\* exactly when one of its rows there does, is listed in exactly the languages
\* of its rows, and can be asked when any of them is enabled.
RowOrderFree ==
    LET of(l) == {read[i].says : i \in {j \in DOMAIN read : read[j].lang = l}}
    IN  /\ DOMAIN phrases = {read[i].lang : i \in DOMAIN read}
        /\ \A l \in DOMAIN phrases :
              IF of(l) = {None} THEN phrases[l] = None ELSE phrases[l] \in of(l) \ {None}
        /\ enabled <=> \E i \in DOMAIN read : read[i].enabled
=============================================================================
