----------------------------- MODULE PublishedFeed -----------------------------
(***************************************************************************)
(* What the event stream promises one reader of the playback state: the    *)
(* bridge publishes a growing log of contents, numbered from 1, and the    *)
(* reader moves forward in that log.  It may skip entries, it never goes   *)
(* back, and what it shows under a number is what was published under it.  *)
(***************************************************************************)
EXTENDS Naturals, Sequences

CONSTANTS Contents, InitialContent

VARIABLES log, shown

feedVars == <<log, shown>>

Entry(n) == [sequence |-> n, content |-> IF n = 0 THEN InitialContent ELSE log[n]]

FeedInit ==
    /\ log = <<>>
    /\ shown = [sequence |-> 0, content |-> InitialContent]

Publish ==
    /\ \E content \in Contents : log' = Append(log, content)
    /\ shown' = shown

Observe ==
    /\ \E n \in shown.sequence..Len(log) : shown' = Entry(n)
    /\ log' = log

FeedSpec == FeedInit /\ [][Publish \/ Observe]_feedVars
=============================================================================
