--------------------------- MODULE ConversationSet ---------------------------
(***************************************************************************)
(* What a client's memory of its conversations promises: a set of           *)
(* conversations, each known by some session ids of its own and carrying    *)
(* what the hub said last.  A turn ends under one id or two; it continues   *)
(* every conversation that goes by one of them, and leaves one.             *)
(***************************************************************************)
EXTENDS Naturals, FiniteSets

CONSTANTS SessionIds, Carries, Nothing, MaxConversations, MaxAliases

VARIABLES held,    \* a set of [ids, carry, turn]
          sent     \* the carry the last ask put into its context

memoryVars == <<held, sent>>

TypeOK ==
    /\ held \subseteq [ids : SUBSET SessionIds, carry : Carries \ {Nothing}, turn : Nat]
    /\ sent \in Carries

Init == held = {} /\ sent = Nothing

Oldest(convs) == CHOOSE c \in convs : \A d \in convs : c.turn <= d.turn

\* Every id that is kept goes with the turn that has just ended; ids may be
\* forgotten above MaxAliases, but never those of the turn itself.
TurnEnds(used, carry) ==
    LET continued == {c \in held : c.ids \cap used # {}}
        others == held \ continued
        known == used \cup UNION {c.ids : c \in continued}
    IN IF carry = Nothing
       THEN held' = others
       ELSE \E new \in held' :
              LET now == others \cup {new} IN
              /\ new.carry = carry
              /\ used \subseteq new.ids /\ new.ids \subseteq known
              /\ Cardinality(new.ids) =
                    IF Cardinality(known) > MaxAliases THEN MaxAliases
                    ELSE Cardinality(known)
              /\ \A c \in held : c.turn < new.turn
              /\ held' = IF Cardinality(now) > MaxConversations
                         THEN now \ {Oldest(now)} ELSE now

Asks(id) ==
    /\ sent' = IF \E c \in held : id \in c.ids
               THEN (CHOOSE c \in held : id \in c.ids).carry ELSE Nothing
    /\ UNCHANGED held

Next ==
    \/ \E id \in SessionIds : Asks(id)
    \/ /\ \E a, b \in SessionIds, carry \in Carries : TurnEnds({a, b}, carry)
       /\ UNCHANGED sent

Spec == Init /\ [][Next]_memoryVars
=============================================================================
