------------------------------- MODULE MCPages ------------------------------
(***************************************************************************)
(* Two stores that Redis keeps for the pages of users, each of which       *)
(* follows the rows of the database by tasks of its own: lists, and users  *)
(* who are suggested.  A behaviour is one of either.                       *)
(***************************************************************************)
EXTENDS ListsStreams, TLC

CONSTANTS
  Here,          \* users of this server; the others are at times of another
  Clerks,        \* workers for suggestions
  ClerkOrders    \* may tasks about suggestions overtake each other?

ASSUME PagesAssumption == Here \subseteq Users

\* Values for TLC: every list is somebody's, and more events happen when tasks
\* keep their order.
OfOther      == [x \in Lists |-> CHOOSE u \in Users : u # GroupOwner]
SomeEvents   == [o \in BOOLEAN |-> IF o THEN 4 ELSE 2]
AlikeWorkers == Permutations(Workers)

VARIABLE store    \* which of the stores the behaviour is about

-----------------------------------------------------------------------------
VARIABLES
  su_inOrder, discoverable, su_active, su_follows, asked, su_blocks, server,
  suggested, su_queue, su_work, su_events, su_unheard, everFit

Advice == INSTANCE SuggestedUsers WITH
  Locals <- Here, Workers <- Clerks, Orders <- ClerkOrders,
  inOrder <- su_inOrder, active <- su_active, follows <- su_follows,
  blocks <- su_blocks, store <- suggested, queue <- su_queue, work <- su_work,
  events <- su_events, unheard <- su_unheard
suggestionVars == <<su_inOrder, discoverable, su_active, su_follows, asked, su_blocks,
                    server, suggested, su_queue, su_work, su_events, su_unheard, everFit>>

-----------------------------------------------------------------------------
MCInit ==
  /\ store \in {"lists", "suggestions"}
  /\ Init /\ Advice!Init
  /\ store # "lists" => inOrder
  /\ store # "suggestions" => discoverable = {}

MCNext ==
  /\ UNCHANGED store
  /\ \/ store = "lists" /\ Next /\ UNCHANGED suggestionVars
     \/ store = "suggestions" /\ Advice!Next /\ UNCHANGED vars

mcVars == <<store, vars, suggestionVars>>
MCSpec == MCInit /\ [][MCNext]_mcVars

-----------------------------------------------------------------------------
\* Nobody is suggested who was never to be; and when tasks keep their order and
\* are done, who is suggested is right, but for changes that no task follows
\* (suggested_users.py:61).
SuggestionsAreExact ==
  store = "suggestions" => Advice!OnlyEverFit /\ Advice!SuggestionsAreExact
=============================================================================
