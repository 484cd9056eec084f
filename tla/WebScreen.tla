----------------------------- MODULE WebScreen -----------------------------
(* What a page or a dialog of the web interface is made of: the data it       *)
(* shows, the requests its controls send, and the draft a form of it keeps.   *)
EXTENDS WebApi, Sequences

-----------------------------------------------------------------------------
\* useQuery: the cache entry a component shows, and the call that fills it.  The variable
\* parts of a key (a page, a filter, an id) are the word "any".
Shows(key, call) == [key |-> key, reads |-> call.reads, polled |-> FALSE]
\* refetchInterval.
Polled(query) == [query EXCEPT !.polled = TRUE]

\* useMutation, or a handler that awaits the call: its success invalidates the entries whose
\* key starts with one of these.
Sends(call, refreshes) == [writes |-> call.writes, refreshes |-> refreshes, within |-> <<>>]
\* The request names a host that the page looks up with a query of its own; without the answer
\* it goes out for all hosts.
Within(key, request) == [request EXCEPT !.within = key]

-----------------------------------------------------------------------------
\* A control of a page that may be used again while its request is in flight.
Free == [again |-> TRUE, dialog |-> FALSE, closes |-> "nothing", held |-> FALSE, waits |-> FALSE, own |-> FALSE]
\* A control that is disabled while its request is in flight.
Busy == [Free EXCEPT !.again = FALSE]
\* The same for a dialog with a state of its own: opened anew, the control is enabled again.
BusyHere == [Busy EXCEPT !.own = TRUE]

\* A control that is disabled until the answer its request depends on is there.
Waits(control) == [control EXCEPT !.waits = TRUE]

\* The control stands in a dialog, which closes as the request starts.
ClosesFirst(control) == [control EXCEPT !.dialog = TRUE, !.closes = "first"]
\* The answer closes or fills the dialog: whichever is then shown, as its state is the page's,
ClosesAfter(control) == [control EXCEPT !.dialog = TRUE, !.closes = "shown"]
\* or, as its state is its own, the one the request came from.
ClosesOwn(control) == [control EXCEPT !.dialog = TRUE, !.closes = "own"]
\* The dialog stays open.
StaysOpen(control) == [control EXCEPT !.dialog = TRUE]
\* The dialog cannot be closed while the request is in flight.
Held(control) == [control EXCEPT !.held = TRUE]

-----------------------------------------------------------------------------
\* The draft of a form, filled from an entry.  Edits outlive a change of the entry,
KeepsEdits(key) == [key |-> key, drops |-> FALSE, clears |-> FALSE]
\* or an effect fills the form anew and drops them.
DropsEdits(key) == [KeepsEdits(key) EXCEPT !.drops = TRUE]
\* The success of the request clears them.
Cleared(draft) == [draft EXCEPT !.clears = TRUE]
\* The pattern of the settings pages: the edits are kept apart from what is shown, and cleared.
EditsApart(key) == Cleared(KeepsEdits(key))

\* No requests, no controls, no drafts.
Nothing == [request \in {} |-> Free]
NoDrafts == Nothing

\* A page: the requests take the place their controls give them.
Page(shows, sends, view, drafts) ==
  [shows  |-> shows,
   sends  |-> [request \in DOMAIN sends |-> sends[request] @@ view[request]],
   drafts |-> drafts]
=============================================================================
