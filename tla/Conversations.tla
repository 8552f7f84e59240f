---------------------------- MODULE Conversations ----------------------------
(***************************************************************************)
(* The conversations a client remembers (client.rs): a map from every       *)
(* session id that reaches a conversation to the same entry, the group of   *)
(* its ids among them.  It implements ConversationSet.                      *)
(***************************************************************************)
EXTENDS Naturals, Sequences, FiniteSets, Functions

CONSTANTS
    SessionIds,
    Carries,             \* the carried session fields, Nothing among them
    Nothing,             \* no field worth carrying
    MaxConversations,    \* MAX_REMEMBERED_CONVERSATIONS
    MaxAliases,          \* MAX_CONVERSATION_ALIASES
    MaxTurns             \* bound on the turns

ConversationsAssumption ==
    /\ Nothing \in Carries
    /\ MaxConversations \in Nat \ {0} /\ MaxAliases \in Nat \ {0, 1}

VARIABLES
    conversations,   \* ConversationStore: id -> [inserted, group, kept]
    sequence,        \* conversation_sequence
    carried          \* what continue_conversation last returned

conversationVars == <<conversations, sequence, carried>>

NoConversations == [id \in {} |-> Nothing]

ConversationsInit ==
    /\ conversations = NoConversations
    /\ sequence = 0
    /\ carried = Nothing

Without(store, ids) == [id \in DOMAIN store \ ids |-> store[id]]

Distinct(store) == {store[id].inserted : id \in DOMAIN store}

TakenOver_Nothing(used) == used

\* The ids of a group, those known already left out.
Joined(keys, group) ==
    LET joined[n \in 0 .. Len(group)] ==
            IF n = 0 THEN keys
            ELSE IF group[n] \in Range(joined[n - 1]) THEN joined[n - 1]
            ELSE Append(joined[n - 1], group[n])
    IN  joined[Len(group)]

Reached(keys, id) ==
    IF id \in DOMAIN conversations THEN Joined(keys, conversations[id].group) ELSE keys

\* The ids of a turn, one or two, then those of every group they reach.
TakenOver(used) == Reached(Reached(used, used[1]), used[Len(used)])

\* One conversation too many: the oldest goes, under all its ids.
Evicted(store) ==
    IF Cardinality(Distinct(store)) <= MaxConversations THEN store
    ELSE LET oldest == CHOOSE id \in DOMAIN store :
                          \A other \in DOMAIN store : store[id].inserted <= store[other].inserted
         IN Without(store, Range(store[oldest].group))

\* remember_conversation, at the end of a turn asked under one id and answered
\* under the other (ask_with_hints passes one id when they are the same).
Remember(asked, answered, kept) ==
    /\ sequence < MaxTurns
    /\ LET used == IF asked = answered THEN <<asked>> ELSE <<asked, answered>>
           keys == TakenOver(used)
           group == SubSeq(keys, 1, IF Len(keys) > MaxAliases THEN MaxAliases ELSE Len(keys))
           rest == Without(conversations, Range(keys))
           entry == [inserted |-> sequence, group |-> group, kept |-> kept]
       IN IF kept = Nothing
          THEN /\ conversations' = rest
               /\ UNCHANGED sequence
          ELSE /\ conversations' =
                     Evicted([id \in DOMAIN rest \cup Range(group) |->
                                IF id \in Range(group) THEN entry ELSE rest[id]])
               /\ sequence' = sequence + 1
    /\ UNCHANGED carried

\* continue_conversation, as the next turn is asked.
Continue(id) ==
    /\ carried' = IF id \in DOMAIN conversations THEN conversations[id].kept ELSE Nothing
    /\ UNCHANGED <<conversations, sequence>>

ConversationsNext ==
    \/ \E asked, answered \in SessionIds, kept \in Carries : Remember(asked, answered, kept)
    \/ \E id \in SessionIds : Continue(id)

ConversationsSpec == ConversationsInit /\ [][ConversationsNext]_conversationVars

Memory == INSTANCE ConversationSet WITH
    held <- {[ids |-> {i \in DOMAIN conversations :
                          conversations[i].inserted = conversations[id].inserted},
              carry |-> conversations[id].kept,
              turn |-> conversations[id].inserted] : id \in DOMAIN conversations},
    sent <- carried

\* The map keyed by alias behaves as a set of conversations: a turn continues
\* whatever goes by one of its ids, under every alias at once, a turn that ends
\* with nothing leaves nothing to resurrect, and a full store loses the oldest
\* conversation whole.
OneMemory == Memory!Spec

\* An entry's group names the ids that hold it, each once: what eviction and
\* take-over rely on to find them.
GroupsAgree ==
    \A id \in DOMAIN conversations :
       LET group == conversations[id].group IN
       /\ Range(group) = {i \in DOMAIN conversations :
                             conversations[i].inserted = conversations[id].inserted}
       /\ Cardinality(Range(group)) = Len(group)
=============================================================================
