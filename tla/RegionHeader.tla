----------------------------- MODULE RegionHeader -----------------------------
(***************************************************************************)
(* The header of a LocalStack service's page: the selected region, kept in *)
(* the browser's storage, its searchable dropdown, and the poll of the     *)
(* emulator's health in that region.                                       *)
(***************************************************************************)
EXTENDS AsyncLoad, Integers, Sequences, FiniteSets

CONSTANTS
  Regions, ConfigRegion,   \* AWS regions, and the one in the service's config
  Texts, Matches,          \* search texts; [Texts -> Seq(Regions)]: regions matching
  NoText                   \* the empty search text, which matches all

ASSUME HeaderAssumption ==
  /\ ConfigRegion \in Regions /\ NoText \in Texts
  /\ Matches \in [Texts -> Seq(Regions)]

VARIABLES
  header,         \* the region, its dropdown and the health
  storedRegion    \* what localStorage has for this service, or Nothing

ClosedSelect == [open |-> FALSE, text |-> NoText, active |-> 1]

\* The region is the stored one, else the configured one.
FreshHeader(stored) ==
  LET r == IF stored = Nothing THEN ConfigRegion ELSE stored IN
  [region |-> r, health |-> Mounted(r), polling |-> "call", select |-> ClosedSelect]
-----------------------------------------------------------------------------
\* Health: a poll is on its way or a timer is armed for the next one.  A poll updates
\* the state in place; a change of the region, or Retry, starts over.

Restarted(w, r) ==
  [w EXCEPT !.polling = "call",
     !.health = [Mounted(r) EXCEPT !.late = IF w.polling = "call" THEN w.health.key ELSE w.health.late]]

HealthAnswered ==
  /\ header.polling = "call"
  /\ \/ header' = [header EXCEPT !.polling = "timer", !.health = Succeeded(@, [of |-> @.key])]
     \/ header' = [header EXCEPT !.polling = "timer", !.health = Failed(@)]
  /\ UNCHANGED storedRegion

HealthAnsweredLate ==
  /\ header.health.late # Nothing
  /\ header' = [header EXCEPT !.health = LateAnswer(@, [of |-> @.late])]
  /\ UNCHANGED storedRegion

PollTimer ==
  /\ header.polling = "timer"
  /\ header' = [header EXCEPT !.polling = "call"]
  /\ UNCHANGED storedRegion

RetryHealth ==
  /\ header.health.status = "error" /\ ~header.select.open
  /\ header' = Restarted(header, header.region)
  /\ UNCHANGED storedRegion
-----------------------------------------------------------------------------
\* The region's dropdown: a search box over a list with one option highlighted.

Shown(s) == Matches[s.text]

OpenSelect ==
  /\ ~header.select.open
  /\ header' = [header EXCEPT !.select = [ClosedSelect EXCEPT !.open = TRUE]]
  /\ UNCHANGED storedRegion

\* Escape, the button, or a click anywhere else.
CloseSelect ==
  /\ header.select.open
  /\ header' = [header EXCEPT !.select.open = FALSE]
  /\ UNCHANGED storedRegion

Search(t) ==
  /\ header.select.open
  /\ header' = [header EXCEPT !.select = [@ EXCEPT !.text = t, !.active = 1]]
  /\ UNCHANGED storedRegion

\* Arrow keys; on an empty list the highlight goes off it (0 here, -1 there).
Highlight(i) ==
  LET s == header.select
      Down == IF s.active + 1 <= Len(Shown(s)) THEN s.active + 1 ELSE Len(Shown(s))
      Up == IF s.active > 1 THEN s.active - 1 ELSE 1
  IN /\ s.open /\ i \in {Down, Up}
     /\ header' = [header EXCEPT !.select.active = i]
     /\ UNCHANGED storedRegion

\* Enter, or a click, picks an option: it is stored, if the storage works, and the
\* poll starts over in that region.
Choose ==
  /\ header.select.open /\ header.select.active \in DOMAIN Shown(header.select)
  /\ LET r == Shown(header.select)[header.select.active]
         closed == [header EXCEPT !.select.open = FALSE]
     IN /\ header' = IF r = header.region THEN closed
                    ELSE Restarted([closed EXCEPT !.region = r], r)
        /\ storedRegion' \in {r, storedRegion}

HeaderInit ==
  /\ storedRegion = Nothing
  /\ header = FreshHeader(Nothing)

HeaderActs ==
  \/ HealthAnswered \/ HealthAnsweredLate \/ PollTimer \/ RetryHealth
  \/ OpenSelect \/ CloseSelect \/ Choose
  \/ \E t \in Texts : Search(t)
  \/ \E i \in 0..Cardinality(Regions) : Highlight(i)

HeaderSpec == HeaderInit /\ [][HeaderActs]_<<header, storedRegion>>
-----------------------------------------------------------------------------
\* The health on the screen is that of the selected region, however often the region
\* is changed while polls are on their way.
HealthIsCurrent == ShownFor(header.health, header.region)

\* Enter picks an option that the list shows, whatever was typed and however the
\* highlight moved; only an empty list has none.
HighlightIsListed ==
  header.select.open /\ Shown(header.select) # <<>> =>
    header.select.active \in DOMAIN Shown(header.select)
=============================================================================
