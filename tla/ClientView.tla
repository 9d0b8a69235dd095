----------------------------- MODULE ClientView -----------------------------
(***************************************************************************)
(* What the WebSocket server promises one client about one market whose    *)
(* book is sent as increments: either the client holds exactly the book    *)
(* that was published, as soon as all that is on its way has arrived, or   *)
(* the server knows that it does not, and bootstraps it.                   *)
(***************************************************************************)
CONSTANTS
  Book,         \* the books
  Gone, Dark, Torn

VARIABLES
  published,    \* the book the market's batches add up to; Gone before the first batch
                \* and after the market was dropped
  wanted,       \* the client is connected and the market is in its scope
  view          \* the client's book; Dark: it is owed a bootstrap; Torn: it lost something
                \* that the server does not make up for

viewVars == <<published, wanted, view>>

ViewInit == published = Gone /\ ~wanted /\ view = Dark

\* The market moves on, and a client that holds its book moves with it or loses the batch.
\* A batch that restates the whole book may serve the others.
Publish ==
  /\ published' \in Book /\ UNCHANGED wanted
  /\ view' \in {published', Torn} \cup ({view} \ {published})

\* The market is dropped: nobody holds its book until it is sent whole.
Withdraw == published' = Gone /\ view' = Dark /\ UNCHANGED wanted

\* The client joins or leaves, or its scope does or no longer does hold the market.
Ask == wanted' \in BOOLEAN /\ view' \in {Dark, Torn, published} \ {Gone} /\ UNCHANGED published

Lose == view' \in {Dark, Torn} /\ UNCHANGED <<published, wanted>>

\* The client is sent the whole book; in the middle of an event, without that event.
Bootstrap ==
  /\ wanted /\ published # Gone /\ view' \in {published, Torn}
  /\ UNCHANGED <<published, wanted>>

ViewNext == Publish \/ Withdraw \/ Ask \/ Lose \/ Bootstrap

ViewSpec == ViewInit /\ [][ViewNext]_viewVars

\* No client that wants a published market stays Dark.
Owed == wanted /\ published # Gone /\ view = Dark
BootstrapComes == Owed ~> ~Owed
=============================================================================
