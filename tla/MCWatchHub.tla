---------------------------- MODULE MCWatchHub ----------------------------
(* WatchHub with two watch requests.                                       *)
EXTENDS WatchHub

CONSTANTS s1, s2

MCStreams == {s1, s2}

\* The second request asks for no revision and for no snapshot: it is there to be
\* published to beside the first one, whose request is any.  No action under
\* fairness is cut off, for Subscribe is not one.
S2AsksForNothing ==
  pc[s2] = "new" /\ pc'[s2] # "new" => since'[s2] = 0 /\ pc'[s2] = "live"

=============================================================================
