------------------------------ MODULE ListPage ------------------------------
(***************************************************************************)
(* A set-up page of the browser application: a searchable list, loaded     *)
(* anew whenever the search changes and after every save                   *)
(* (components/items/item-setup-page.tsx).  The answers of the server      *)
(* arrive in any order or not at all; a counter tells the page which call  *)
(* was the last.  The pages of units, departments and branches have the    *)
(* same calls without that counter.                                        *)
(***************************************************************************)
EXTENDS Naturals

CONSTANTS
  Searches,   \* what the user may look for
  MaxCalls,   \* bound on the list calls of one exploration
  MaxInputs,  \* bound on how often the user types or saves
  None

(* What is assumed of the constants.                                      *)
ListPageAssumption ==
  MaxCalls \in Nat /\ MaxInputs \in Nat /\ None \notin Searches

VARIABLES
  typed,   \* the search box
  inputs,  \* how often the user has typed or saved
  search,  \* the search the page has applied
  latest,  \* loadRequestIdRef: the number of the last list call
  calls,   \* list calls under way: [id, search, seen], seen once the server has read
  shown,   \* what the list shows: the search it answers and the saves it contains
  saving,  \* the save under way, or None: the search the page had when it was
           \* clicked, and whether the server has made it
  saved,   \* saves the server has made
  own,     \* those of them up to the last one the page has been told of
  former   \* whether the last call was made for a search already replaced
vars == <<typed, inputs, search, latest, calls, shown, saving, saved, own, former>>

Call == [id : Nat, search : Searches, seen : Nat \cup {None}]

-----------------------------------------------------------------------------

(* loadItems as the page had it at some rendering: with that search.       *)
Load(s) ==
  /\ latest < MaxCalls
  /\ latest' = latest + 1
  /\ calls' = calls \cup {[id |-> latest + 1, search |-> s, seen |-> None]}

Init ==
  \E s \in Searches :
    /\ typed = s /\ search = s
    /\ inputs = 0
    /\ latest = 1
    /\ calls = {[id |-> 1, search |-> s, seen |-> None]}
    /\ shown = None
    /\ saving = None
    /\ saved = 0 /\ own = 0
    /\ former = FALSE

Type(s) ==
  /\ inputs < MaxInputs
  /\ s # typed
  /\ typed' = s
  /\ inputs' = inputs + 1
  /\ UNCHANGED <<search, latest, calls, shown, saving, saved, own, former>>

(* 300 ms after the last key the search is applied, and the list loaded.   *)
ApplySearch ==
  /\ search # typed
  /\ search' = typed
  /\ Load(typed)
  /\ former' = FALSE
  /\ UNCHANGED <<typed, inputs, shown, saving, saved, own>>

(* The server reads the list at some moment of the call...                 *)
ServerReads(c) ==
  /\ c.seen = None
  /\ calls' = (calls \ {c}) \cup {[c EXCEPT !.seen = saved]}
  /\ UNCHANGED <<typed, inputs, search, latest, shown, saving, saved, own, former>>

(* A page without the counter shows every answer.                          *)
IsLatest_Unguarded(c) == TRUE

(* ... and its answer is shown only if no other call was made since.       *)
IsLatest(c) == c.id = latest

Answered(c) ==
  /\ c.seen # None
  /\ calls' = calls \ {c}
  /\ shown' = IF IsLatest(c) THEN [search |-> c.search, seen |-> c.seen] ELSE shown
  /\ UNCHANGED <<typed, inputs, search, latest, saving, saved, own, former>>

(* A call that fails clears the list, under the same condition.            *)
CallFails(c) ==
  /\ calls' = calls \ {c}
  /\ shown' = IF IsLatest(c) THEN None ELSE shown
  /\ UNCHANGED <<typed, inputs, search, latest, saving, saved, own, former>>

(* handleToggleStatus: the click keeps the loadItems of its rendering.     *)
ToggleStatus ==
  /\ saving = None
  /\ inputs < MaxInputs
  /\ inputs' = inputs + 1
  /\ saving' = [search |-> search, made |-> FALSE]
  /\ UNCHANGED <<typed, search, latest, calls, shown, saved, own, former>>

ServerSaves ==
  /\ saving # None /\ ~saving.made
  /\ saved' = saved + 1
  /\ saving' = [saving EXCEPT !.made = TRUE]
  /\ UNCHANGED <<typed, inputs, search, latest, calls, shown, own, former>>

(* The save fails, or its answer is lost: an error, and no reload.         *)
SaveFails ==
  /\ saving # None
  /\ saving' = None
  /\ UNCHANGED <<typed, inputs, search, latest, calls, shown, saved, own, former>>

(* Reloading as soon as the button is clicked would miss the save.         *)
ReloadAfterSave_AtTheClick ==
  /\ saving # None /\ saving.made
  /\ own' = saved
  /\ former' = former
  /\ saving' = None
  /\ UNCHANGED <<typed, inputs, search, latest, calls, shown, saved>>

(* The answer arrives, and the page reloads with the search of the click.  *)
ReloadAfterSave ==
  /\ saving # None /\ saving.made
  /\ own' = saved
  /\ Load(saving.search)
  /\ former' = (saving.search # search)
  /\ saving' = None
  /\ UNCHANGED <<typed, inputs, search, shown, saved>>

Next ==
  \/ \E s \in Searches : Type(s)
  \/ ApplySearch
  \/ \E c \in calls : ServerReads(c) \/ Answered(c) \/ CallFails(c)
  \/ ToggleStatus
  \/ ServerSaves
  \/ SaveFails
  \/ ReloadAfterSave

Spec == Init /\ [][Next]_vars

-----------------------------------------------------------------------------

TypeOK ==
  /\ typed \in Searches /\ search \in Searches
  /\ inputs \in Nat /\ latest \in Nat
  /\ calls \subseteq Call
  /\ shown \in [search : Searches, seen : Nat] \cup {None}
  /\ saving \in [search : Searches, made : BOOLEAN] \cup {None}
  /\ saved \in Nat /\ own \in Nat
  /\ former \in BOOLEAN

Settled == calls = {} /\ saving = None /\ shown # None

(* Once nothing is under way any more, the list answers the search that is *)
(* applied, whatever the order in which the answers came.  There is one    *)
(* way out: a save that was clicked before the search changed reloads the  *)
(* list for the old search, and is then the last call.  (loadRequestIdRef  *)
(* orders the calls, but handleToggleStatus keeps an old loadItems.)       *)
SettledListAnswersTheSearch ==
  Settled => shown.search = search \/ former

(* Once nothing is under way any more, the list contains every save the    *)
(* page has been told of.  (Each save is followed by a load, and an answer *)
(* read before the save cannot replace the one read after it.)             *)
SettledListShowsOwnSaves ==
  Settled => shown.seen >= own

=============================================================================
