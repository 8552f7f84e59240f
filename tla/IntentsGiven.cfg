CONSTANTS
    Asked <- CanadianAndAmerican
    Tags <- HubTags
    Usual <- EnglishForm
    Language <- LanguageOf
    Distance <- LocaleDistance
    None = None
SPECIFICATION IntentListingSpec
INVARIANT GivenStands
CHECK_DEADLOCK FALSE
