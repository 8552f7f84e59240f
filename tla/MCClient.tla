------------------------------- MODULE MCClient -------------------------------
(*****************************************************************************)
(* The client over one link: asks and queries, conversations, the            *)
(* description of intents, their listing and its merge, and the home link    *)
(* that answers the hub.                                                     *)
(*****************************************************************************)
EXTENDS HomeLink, EnglishTags, TLC

CONSTANTS
    Ops, Ids, ReplyTimeout, EmptyWait, Settle, Grace, Ring, MaxStart, ReplyTime,
    MaxEvents,
    SessionIds, Carries, Nothing, MaxConversations, MaxAliases, MaxTurns,
    Wanted, Batch, Deadline, Capacity, MaxCopies,
    Asked, Tags, Usual, Language, Distance,
    Languages, Sentences, MaxRows

VARIABLES
    component,      \* the one this behaviour is of
    repliesNow, pc, kind, id, deadline, seen, repliesHeard, soft, emptyAt,
    settleAt, write, sentAt, log, result, refusedBy,
    conversations, sequence, carried,
    describeNow, sent, describeAt, window, found, kept, queue, copies,
    lastSend,
    hub, own, nearest, fallback, listingAt, first, holding, given, listed,
    listedIn, whole,
    read, engine, enabled, phrases

Asks == INSTANCE Replies WITH
    Timeout <- ReplyTimeout, MaxTime <- ReplyTime, now <- repliesNow, heard <-
    repliesHeard

Turns == INSTANCE Conversations

Describing == INSTANCE Describe WITH now <- describeNow, at <- describeAt

Listing == INSTANCE IntentListing WITH at <- listingAt

Merging == INSTANCE InventoryMerge

\* Three registrations, described two at a time.
ThreeKeys == <<"k1", "k2", "k3">>

UsualForms == UsualForm(None)

ASSUME ComponentAssumptions ==
    /\ Asks!RepliesAssumption
    /\ Turns!ConversationsAssumption
    /\ Describing!DescribeAssumption
    /\ Listing!IntentListingAssumption
    /\ Merging!InventoryMergeAssumption

asksVars == <<repliesNow, pc, kind, id, deadline, seen, repliesHeard, soft,
    emptyAt, settleAt, write, sentAt, log, result, refusedBy>>
turnsVars == <<conversations, sequence, carried>>
describingVars == <<describeNow, sent, describeAt, window, found, kept, queue,
    copies, lastSend>>
listingVars == <<hub, own, nearest, fallback, listingAt, first, holding,
    given, listed, listedIn, whole>>
mergingVars == <<read, engine, enabled, phrases>>
ClientVars == <<component, homeVars, asksVars, turnsVars, describingVars, listingVars, mergingVars>>

Symmetry == Permutations(Ops) \cup Permutations(Ids)

\* The components share no state: only the one chosen moves, and the others rest
\* in one of their initial states.
ClientInit ==
    /\ component \in {"home", "replies", "conversations", "describe",
          "listing", "merge"}
    /\ HomeLinkInit
    /\ Asks!RepliesInit
    /\ Turns!ConversationsInit
    /\ Describing!DescribeInit
    /\ Listing!IntentListingInit
    /\ component # "listing" => hub = [t \in Listing!TagSet |-> Listing!NoListing] /\ own = None
                          /\ ~nearest /\ ~fallback
    /\ Merging!InventoryMergeInit

ClientNext ==
    /\ UNCHANGED component
    /\ \/ component = "home" /\ HomeLinkNext
          /\ UNCHANGED <<asksVars, turnsVars, describingVars, listingVars,
                        mergingVars>>
       \/ component = "replies" /\ Asks!RepliesNext
          /\ UNCHANGED <<homeVars, turnsVars, describingVars, listingVars,
                        mergingVars>>
       \/ component = "conversations" /\ Turns!ConversationsNext
          /\ UNCHANGED <<homeVars, asksVars, describingVars, listingVars,
                        mergingVars>>
       \/ component = "describe" /\ Describing!DescribeNext
          /\ UNCHANGED <<homeVars, asksVars, turnsVars, listingVars,
                        mergingVars>>
       \/ component = "listing" /\ Listing!IntentListingNext
          /\ UNCHANGED <<homeVars, asksVars, turnsVars, describingVars,
                        mergingVars>>
       \/ component = "merge" /\ Merging!InventoryMergeNext
          /\ UNCHANGED <<homeVars, asksVars, turnsVars, describingVars,
                        listingVars>>

ClientSpec == ClientInit /\ [][ClientNext]_ClientVars

-----------------------------------------------------------------------------
\* What an ask or a query returns was said to it; one that returns nothing was
\* told nothing in time; and whatever arrives, it ends in time.
AnswersAreTrue ==
    Asks!AnswerIsOwn /\ Asks!NothingMissed /\ Asks!WindowsRunOnce

\* A refusal that names no request ends an ask only when it refused that ask, or
\* an operation the client was no longer waiting for.
RefusalNotStolen == Asks!RefusalNotStolen

\* The map keyed by alias behaves as a set of conversations: Conversations
\* implements ConversationSet.
OneMemory == Turns!OneMemory

\* A registration is described only by an answer the hub gave to it, and a
\* partial answer is an answer, across windows as within one.
DescribedByOwn == Describing!DescribedByOwn /\ Describing!PartialSurvives

\* Looking further never makes a listing worse; and in which languages an intent
\* is listed, in which it has sentences, and whether it is enabled does not depend
\* on the order its rows arrive in.  (Which of several sentences it keeps does:
\* the last row's.)
ListingIsSteady == Listing!NeverWorse /\ Merging!RowOrderFree
===============================================================================
