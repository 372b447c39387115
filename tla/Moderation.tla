----------------------------- MODULE Moderation -----------------------------
(***************************************************************************)
(* What this device hides besides blocks: what the user hid when           *)
(* reporting, and the maintainer's list if the user follows it             *)
(* (packages/ui/src/moderation.js).  Both are in localStorage; the views   *)
(* see neither, but the filter that was last pushed to the replica         *)
(* (S2S#setFilter).                                                        *)
(*                                                                         *)
(* Pushing is one step with the change before it: no other handler runs    *)
(* between them, and a snapshot asked for later is answered later.  What   *)
(* is hidden stays below MAX_ENTRIES.                                      *)
(***************************************************************************)
EXTENDS Naturals

CONSTANTS
    Author, Event,
    Hides,          \* what the user may come to hide
    Lists,          \* what the maintainer may publish
    Storing,        \* localStorage takes writes: not full, not private browsing
    MaxRefreshes    \* bound: calls of refreshList that wait at once

\* What a hide list names.
Name == Author \cup Event

ASSUME ModerationAssumption ==
    /\ Author \cap Event = {}      \* ids of people begin with @, of events with %
    /\ Hides \subseteq Name /\ Lists \subseteq SUBSET Name
    /\ Storing \in BOOLEAN /\ MaxRefreshes \in Nat

VARIABLES
    wished,         \* what the user hid and has not reset (no code)
    hidden,         \* KEY_HIDDEN
    following,      \* KEY_FOLLOW
    list, fresh,    \* KEY_LIST: its names, and whether it is under six hours old
    refreshing,     \* calls of refreshList that wait for the list
    filter          \* what the views leave out

deviceVars == <<wished, hidden, following, list, fresh, refreshing, filter>>

\* write: an exception is swallowed
Write(old, new) == IF Storing THEN new ELSE old

EffectiveFilter == IF following THEN hidden \cup list ELSE hidden

\* applyFilter, and the setFilter of the replica
ApplyFilter == filter' = EffectiveFilter'

\* The report of a post or a person, with "hide" ticked
HideLocally(n) ==
    /\ wished' = wished \cup {n}
    /\ hidden' = Write(hidden, hidden \cup {n})
    /\ UNCHANGED <<following, list, fresh, refreshing>>
    /\ ApplyFilter

\* reset of the settings
ClearHiddenLocally ==
    /\ hidden # {}
    /\ wished' = {} /\ hidden' = Write(hidden, {})
    /\ UNCHANGED <<following, list, fresh, refreshing>>
    /\ ApplyFilter

(***************************************************************************)
(* toggle: a list that is switched off goes at once; one that is switched  *)
(* on is asked for first, whatever its age.                                *)
(***************************************************************************)
Unfollow ==
    /\ following
    /\ following' = Write(following, FALSE)
    /\ UNCHANGED <<wished, hidden, list, fresh, refreshing>>
    /\ ApplyFilter

Follow ==
    /\ ~following /\ refreshing < MaxRefreshes
    /\ following' = Write(following, TRUE)
    /\ refreshing' = refreshing + 1
    /\ UNCHANGED <<wished, hidden, list, fresh, filter>>

\* The effect of App.jsx, at the start and every hour
HourlySync ==
    /\ UNCHANGED <<wished, hidden, following, list, fresh>>
    /\ \/ /\ following /\ ~fresh /\ refreshing < MaxRefreshes
          /\ refreshing' = refreshing + 1
          /\ UNCHANGED filter
       \/ /\ ~following \/ fresh
          /\ UNCHANGED refreshing
          /\ ApplyFilter

\* The bug of pushing the filter only where the list could be fetched.
RefreshedOrForgotten ==
    /\ refreshing > 0 /\ refreshing' = refreshing - 1
    /\ UNCHANGED <<wished, hidden, following>>
    /\ \/ \E l \in Lists :
              /\ list' = Write(list, l) /\ fresh' = Write(fresh, TRUE)
              /\ ApplyFilter
       \/ UNCHANGED <<list, fresh, filter>>

\* refreshList ends, for either caller: the list came, or the last one is kept.
Refreshed ==
    /\ refreshing > 0 /\ refreshing' = refreshing - 1
    /\ UNCHANGED <<wished, hidden, following>>
    /\ \/ \E l \in Lists : list' = Write(list, l) /\ fresh' = Write(fresh, TRUE)
       \/ UNCHANGED <<list, fresh>>
    /\ ApplyFilter

\* Six hours pass.
ListAges ==
    /\ fresh /\ fresh' = FALSE
    /\ UNCHANGED <<wished, hidden, following, list, refreshing, filter>>

\* The lists of an earlier run of the page are applied before anything is shown.
DeviceInit ==
    /\ hidden \in SUBSET Hides /\ wished = hidden
    /\ following \in BOOLEAN
    /\ list \in Lists \cup {{}} /\ fresh \in {b \in BOOLEAN : b => list \in Lists}
    /\ refreshing = 0
    /\ filter = EffectiveFilter

DeviceNext ==
    \/ \E n \in Hides : HideLocally(n)
    \/ ClearHiddenLocally \/ Unfollow \/ Follow
    \/ HourlySync \/ Refreshed \/ ListAges

-----------------------------------------------------------------------------

\* The range of every variable.
DeviceTypeOK ==
    /\ {wished, hidden, list, filter} \subseteq SUBSET Name
    /\ {following, fresh} \subseteq BOOLEAN
    /\ refreshing \in Nat

\* What the user, or a list the user follows, wants hidden: a list that is being
\* switched on counts when it has been asked for.
WantedHidden == IF following /\ refreshing = 0 THEN wished \cup list ELSE wished
=============================================================================
