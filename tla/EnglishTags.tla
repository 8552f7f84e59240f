---------------------------- MODULE EnglishTags ----------------------------
(* Canadian and American English asked of a hub that keys its manifest by  *)
(* exact tag, and may speak French only.                                   *)
EXTENDS Naturals, Sequences, SequencesExt

CanadianAndAmerican == <<"en-CA", "en-US">>
HubTags == <<"en-CA", "en-US", "en-us", "fr-FR">>
UsualForm(none) == [t \in Range(HubTags) |->
    IF t \in {"en-CA", "en-US"} THEN "en-us" ELSE none]
LanguageOf == [t \in Range(HubTags) |-> IF t = "en-us" THEN "en-US" ELSE t]
LocaleDistance == [p \in Range(HubTags) \X Range(HubTags) |->
    IF LanguageOf[p[1]] = LanguageOf[p[2]] THEN 0
    ELSE IF "fr-FR" \in {p[1], p[2]} THEN 80 ELSE 4]
=============================================================================
