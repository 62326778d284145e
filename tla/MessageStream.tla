---------------------------- MODULE MessageStream ---------------------------
(***************************************************************************)
(* What publisher and receive loop promise their users, with no frames,    *)
(* sockets or threads in it: messages are numbered as they are published,  *)
(* one after another; each is lost, or is on its way to the message        *)
(* handler, which gets those that are, once each and in order.  Where one  *)
(* publish begins inside another or fails half-way the stream is torn, and *)
(* nothing is promised any more.                                           *)
(***************************************************************************)
EXTENDS Naturals, Sequences

VARIABLES
  published,   \* the messages published, or begun
  open,        \* the last of them is not complete
  transit,     \* the messages on their way
  delivered,   \* the messages the message handler got
  torn

streamVars == <<published, open, transit, delivered, torn>>

StreamInit ==
  /\ published = 0 /\ open = FALSE
  /\ transit = <<>> /\ delivered = <<>>
  /\ torn = FALSE

BeginMessage ==
  /\ ~open
  /\ published' = published + 1 /\ open' = TRUE
  /\ UNCHANGED <<transit, delivered>>

\* A complete message goes on its way or is lost.
EndMessage ==
  /\ open
  /\ open' = FALSE
  /\ transit' = transit \/ transit' = Append(transit, published)
  /\ UNCHANGED <<published, delivered>>

Deliver ==
  /\ transit # <<>>
  /\ delivered' = Append(delivered, Head(transit))
  /\ transit' = Tail(transit)
  /\ UNCHANGED <<published, open>>

StreamNext ==
  \/ ~torn /\ ~torn' /\ (BeginMessage \/ EndMessage \/ Deliver)
  \/ torn'

StreamSpec == StreamInit /\ [][StreamNext]_streamVars
=============================================================================
