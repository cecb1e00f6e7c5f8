---------------------------- MODULE MCStreamPump ----------------------------
(* Small instances of StreamPump for TLC. *)
EXTENDS StreamPump

\* Chunks that bring one text, or at most one piece of each call.  The upstream
\* writes out empty fields ("" and null) in all of a chunk or leaves them out.
MCFrames ==
  {f \in [text: {0, 1},
          args: UNION {[S -> {<<>>, <<"open">>, <<"close">>}] : S \in SUBSET Calls},
          finish: {"null", "", "stop", "length"},
          usage: {"absent", "null", "some"}] :
     /\ f.text = 1 => f.args = NoCalls
     /\ f.usage = "null" <=> f.finish = "" /\ f.usage # "some"}
=============================================================================
