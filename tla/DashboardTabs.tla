---------------------------- MODULE DashboardTabs ----------------------------
(***************************************************************************)
(* The cards hidden in a browser (src/web/lib/hidden-sessions.ts and its   *)
(* use in src/web/app.tsx): each tab keeps a set in memory, writes all of  *)
(* it to localStorage on a change, and reads localStorage again when told  *)
(* that another tab has written.                                           *)
(***************************************************************************)
EXTENDS FiniteSets, Naturals

CONSTANTS
    Tab,
    Card,
    MaxWrites   \* bound on writes

ASSUME TabsBound == MaxWrites \in Nat

VARIABLES
    stored,      \* localStorage
    hiddenSet,   \* per tab
    showHidden,  \* per tab: the view of the hidden cards
    told,        \* tabs with a storage event under way
    writes

tabVars == <<stored, hiddenSet, showHidden, told, writes>>

TabsInit ==
    /\ stored = {} /\ hiddenSet = [t \in Tab |-> {}]
    /\ showHidden = [t \in Tab |-> FALSE] /\ told = {} /\ writes = 0

\* The view of hidden cards ends with the last of them.
ViewAfter(t, set) == showHidden[t] /\ set # {}

\* addHidden and removeHidden: the tab's own set, changed, replaces what is
\* stored, and every other tab is told.
ToldNobodyNew(t) == told \ {t}
ToldAfter(t) == told \cup (Tab \ {t})
Changes(t, set) ==
    /\ writes < MaxWrites /\ writes' = writes + 1
    /\ hiddenSet' = [hiddenSet EXCEPT ![t] = set]
    /\ showHidden' = [showHidden EXCEPT ![t] = ViewAfter(t, set)]
    /\ stored' = set
    /\ told' = ToldAfter(t)

hideSession(t, c) == c \notin hiddenSet[t] /\ Changes(t, hiddenSet[t] \cup {c})
unhideSession(t, c) == c \in hiddenSet[t] /\ Changes(t, hiddenSet[t] \ {c})

ToggleView(t) ==
    /\ hiddenSet[t] # {}
    /\ showHidden' = [showHidden EXCEPT ![t] = ~@]
    /\ UNCHANGED <<stored, hiddenSet, told, writes>>

onStorage(t) ==
    /\ t \in told
    /\ told' = told \ {t}
    /\ hiddenSet' = [hiddenSet EXCEPT ![t] = stored]
    /\ showHidden' = [showHidden EXCEPT ![t] = ViewAfter(t, stored)]
    /\ UNCHANGED <<stored, writes>>

TabsNext ==
    \E t \in Tab :
        \/ \E c \in Card : hideSession(t, c) \/ unhideSession(t, c)
        \/ ToggleView(t) \/ onStorage(t)

TabsSpec == TabsInit /\ [][TabsNext]_tabVars

TabsTypeOK ==
    /\ stored \subseteq Card /\ hiddenSet \in [Tab -> SUBSET Card]
    /\ showHidden \in [Tab -> BOOLEAN] /\ told \subseteq Tab
    /\ writes \in 0..MaxWrites

\* A tab that no event is on its way to hides what is stored, and never shows an
\* empty view of hidden cards, however the writes of the tabs cross.
TabsAgree ==
    \A t \in Tab : /\ t \notin told => hiddenSet[t] = stored
                   /\ showHidden[t] => hiddenSet[t] # {}
=============================================================================
