-------------------------- MODULE MCIntentListing --------------------------
(* IntentListing for the tags of EnglishTags.                              *)
EXTENDS IntentListing, EnglishTags

EnglishForm == UsualForm(None)
=============================================================================
