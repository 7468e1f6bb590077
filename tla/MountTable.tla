----------------------------- MODULE MountTable -----------------------------
(***************************************************************************)
(* What a mount service promises while it is up: a MNT call for a query    *)
(* grants the client a handle; the same query is always given the same     *)
(* handle, no two handles share a mount id, and nothing granted is taken   *)
(* back.  A restart may come back with any consistent table.  MountCache   *)
(* implements this specification.                                          *)
(***************************************************************************)
CONSTANTS Client, Query, Handle

VARIABLES
  up,        \* is the service running?
  handles,   \* the handles it knows
  answers,   \* pairs <<q, h>>: query q is answered with handle h
  granted    \* pairs <<c, h>>: client c was given handle h

vars == <<up, handles, answers, granted>>

Consistent ==
  /\ handles \subseteq Handle
  /\ \A g, h \in handles : g.mount_id = h.mount_id => g = h
  /\ answers \subseteq Query \X handles
  /\ \A a, b \in answers : a[1] = b[1] => a = b
  /\ granted \subseteq Client \X handles

Init ==
  /\ up = FALSE
  /\ handles = {}
  /\ answers = {}
  /\ granted = {}

Known(q, h) == <<q, h>> \in answers

Unanswered(q) == \A a \in answers : a[1] # q

\* A handle that may answer a new query: one in use, or one with a new id.
Usable(h) == h \in handles \/ \A g \in handles : g.mount_id # h.mount_id

Grant(c, q, h) ==
  /\ up
  /\ Known(q, h) \/ (Unanswered(q) /\ Usable(h))
  /\ handles' = handles \cup {h}
  /\ answers' = answers \cup {<<q, h>>}
  /\ granted' = granted \cup {<<c, h>>}
  /\ UNCHANGED up

Up ==
  /\ ~up
  /\ up' = TRUE
  /\ Consistent'

Down ==
  /\ up
  /\ up' = FALSE
  /\ handles' = {}
  /\ answers' = {}
  /\ granted' = {}

Next ==
  \/ \E c \in Client, q \in Query, h \in Handle : Grant(c, q, h)
  \/ Up
  \/ Down

Spec == Init /\ [][Next]_vars

=============================================================================
