----------------------------- MODULE StreamPump -----------------------------
(***************************************************************************)
(* One streamed chat request: the goroutine of executorExecuteStream       *)
(* (executor_dispatch.go), ExecuteStream with its retry (executor.go),     *)
(* streamWithBody, pumpStream (pump.go) and the tool calls it holds back   *)
(* (toolcall_hold.go).  Beside it the state Aggregate (sse.go) would have  *)
(* reached on the same lines: Execute answers a client that does not       *)
(* stream from the same upstream response through Aggregate.               *)
(*                                                                         *)
(* A frame is reduced to whether it has text, the piece of arguments it    *)
(* brings for each tool call, finish_reason and usage.  Role, id, type and *)
(* name do not decide anything and are left out.                           *)
(***************************************************************************)
EXTENDS Naturals, Sequences

CONSTANTS
  Calls,       \* indices of tool calls
  Frames,      \* the chunks the upstream may send
  FlatTail,    \* whether a chunk after the one with finish_reason may have a
               \* choice with all fields written out empty (normalize_test.go)
  MaxFrames    \* bound on the chunks of one response

Pieces == {"open", "close"}   \* the halves of a JSON object, as text
IsArguments(args) == DOMAIN args \subseteq Calls /\ args \in [DOMAIN args -> Seq(Pieces)]
IsChunk(f) ==
  /\ f \in [text: Nat, args: {f.args}, finish: {"null", "", "stop", "length"},
             usage: {"absent", "null", "some"}]
  /\ IsArguments(f.args)

ASSUME FrameAssumption ==
  /\ \A f \in Frames : IsChunk(f)
  /\ FlatTail \in BOOLEAN
  /\ MaxFrames \in Nat

VARIABLES
  pc,         \* where the goroutine is
  neutral,    \* executeStream: neutralized, or the second attempt
  err,        \* the class of the error the last attempt returned
  hold,       \* toolCallHold: arguments held back; active iff there are any
  sawData, sawDone,   \* pumpStream's locals
  client,     \* what the chunks the host accepted add up to
  closes,     \* the closes of the host's stream, "clean" or "error"
  assembly,   \* what Aggregate has collected from the same lines
  events,     \* Aggregate: whether validEvents > 0
  frames      \* the chunks read, of all attempts

pump == <<hold, sawData, sawDone, assembly, events>>
vars == <<pc, neutral, err, pump, client, closes, frames>>

NoCalls == [c \in {} |-> <<>>]
Blank == [text |-> 0, args |-> NoCalls, finish |-> "null", usage |-> "absent"]

(***************************************************************************)
(* The data.                                                               *)
(***************************************************************************)
ArgumentsIn(args, c) == IF c \in DOMAIN args THEN args[c] ELSE <<>>

\* Arguments of one call are joined in the order they arrive.
Merge(args, more) ==
  [c \in DOMAIN args \cup DOMAIN more |-> ArgumentsIn(args, c) \o ArgumentsIn(more, c)]

\* A reader of chunks keeps the last finish_reason that is not null and the
\* last usage that is present, null included.
Absorb(view, f) ==
  [text   |-> view.text + f.text,
   args   |-> Merge(view.args, f.args),
   finish |-> IF f.finish = "null" THEN view.finish ELSE f.finish,
   usage  |-> IF f.usage = "absent" THEN view.usage ELSE f.usage]

\* Absorbs the chunks of a sequence of at most two.
AbsorbAll(view, fs) ==
  CASE Len(fs) = 0 -> view
    [] Len(fs) = 1 -> Absorb(view, fs[1])
    [] OTHER       -> Absorb(Absorb(view, fs[1]), fs[2])

\* isTruncatedArguments: not empty and not an object.
Truncated(arguments) == arguments \notin {<<>>, <<"open", "close">>}

DropTruncated(args) ==
  [c \in {d \in DOMAIN args : ~Truncated(args[d])} |-> args[c]]

NormalizeChunk(f) ==
  [f EXCEPT !.finish = IF @ = "" THEN "null" ELSE @,
            !.usage  = IF @ = "null" THEN "absent" ELSE @]

\* The answer Aggregate makes of what it has collected.
Assembled ==
  IF assembly.finish = "length"
    THEN [assembly EXCEPT !.args = DropTruncated(@)] ELSE assembly

(***************************************************************************)
(* toolCallHold: what a chunk makes it emit, and what it holds then.       *)
(***************************************************************************)
\* flush: the calls in one chunk, without the truncated ones if filter.
Flush(held, filter) ==
  LET kept == IF filter THEN DropTruncated(held) ELSE held
  IN  IF kept = NoCalls THEN <<>> ELSE <<[Blank EXCEPT !.args = kept]>>

WorthEmitting(f) == f.usage # "absent" \/ f.text > 0

Held(held, f) == IF f.finish = "null" THEN Merge(held, f.args) ELSE NoCalls

\* feed, given the calls held including those of f.
Feed(held, f) ==
  LET rest == [f EXCEPT !.args = NoCalls]
  IN  IF held = NoCalls THEN <<f>>
      ELSE IF f.finish # "null" THEN Flush(held, f.finish = "length") \o <<rest>>
      ELSE IF WorthEmitting(rest) THEN <<rest>>
      ELSE <<>>

(***************************************************************************)
(* Before the stream.                                                      *)
(***************************************************************************)
Init ==
  /\ pc = "enter" /\ neutral = FALSE /\ err = "none"
  /\ hold = NoCalls /\ sawData = FALSE /\ sawDone = FALSE
  /\ client = Blank /\ closes = <<>>
  /\ assembly = Blank /\ events = FALSE /\ frames = 0

\* A gate, a missing configuration or an unknown model refuses the request.
Refuse ==
  /\ pc = "enter"
  /\ pc' = "report" /\ err' = "refused"
  /\ UNCHANGED <<neutral, pump, client, closes, frames>>

\* The prompt is neutral at once if the content gate's window is open.
Begin ==
  /\ pc = "enter"
  /\ pc' = "attempt"
  /\ neutral' \in BOOLEAN
  /\ UNCHANGED <<err, pump, client, closes, frames>>

\* Wrong variant: an upstream without an answer is tried again, too.
RetryableServer(kind) == kind \in {"blocked", "server"}

\* degradeTriggerKind
Retryable(kind) == kind = "blocked"

\* streamWithBody returns an error: executeStream repeats it once with a
\* neutral prompt, or hands the error to the goroutine.
Fail(kind) ==
  /\ err' = kind
  /\ IF Retryable(kind) /\ ~neutral
       THEN pc' = "attempt" /\ neutral' = TRUE
       ELSE pc' = "report" /\ neutral' = neutral

\* doErr, a status of 400 or more, a business error in a response with
\* status 200, or a read error before the first byte.
Rejected ==
  /\ pc = "attempt"
  /\ \E kind \in {"transport", "blocked", "other"} : Fail(kind)
  /\ UNCHANGED <<pump, client, closes, frames>>

Close(how) == closes' = Append(closes, how)

\* The upstream's stream ends before its first byte.
EmptyBody ==
  /\ pc = "attempt"
  /\ Close("error")
  /\ Fail("server")
  /\ UNCHANGED <<pump, client, frames>>

\* pumpStream starts.  A JSON body that is no business error has been read
\* up to its end, which EndOfStream then finds.
Opened ==
  /\ pc = "attempt"
  /\ pc' = "pump"
  /\ hold' = NoCalls /\ sawData' = FALSE /\ sawDone' = FALSE
  /\ assembly' = Blank /\ events' = FALSE
  /\ UNCHANGED <<neutral, err, client, closes, frames>>

(***************************************************************************)
(* The lines of the stream.                                                *)
(***************************************************************************)
\* The host takes all chunks of a step, or refuses one of them: then the
\* pump returns ErrClient and closes nothing.
Emit(fs) ==
  \/ client' = AbsorbAll(client, fs)
     /\ UNCHANGED <<pc, neutral, err>>
  \/ \E i \in DOMAIN fs :
       /\ client' = AbsorbAll(client, SubSeq(fs, 1, i - 1))
       /\ Fail("client")

\* The protocol of the upstream: finish_reason ends the content, and the usage
\* ends the response.  Neither reader checks it.
Finished == assembly.finish \in {"stop", "length"}
InOrder(f) ==
  /\ assembly.usage # "some"
  /\ Finished => /\ f.text = 0 /\ f.args = NoCalls
                 /\ f.finish = "null" \/ (FlatTail /\ f.finish = "")

Data(f) ==
  /\ pc = "pump" /\ frames < MaxFrames
  /\ InOrder(f)
  /\ frames' = frames + 1
  /\ sawData' = TRUE /\ events' = TRUE
  /\ assembly' = Absorb(assembly, f)
  /\ LET chunk == NormalizeChunk(f)
     IN  /\ hold' = Held(hold, chunk)
         /\ Emit(Feed(Merge(hold, chunk.args), chunk))
  /\ UNCHANGED <<sawDone, closes>>

\* A data line that is no JSON, or the first part of a line cut off: the pump
\* passes it on, Aggregate skips it, and a client can do nothing with it.
Garbage ==
  /\ pc = "pump"
  /\ sawData' = TRUE
  /\ \/ UNCHANGED <<pc, neutral, err>>
     \/ Fail("client")
  /\ UNCHANGED <<hold, sawDone, assembly, events, client, closes, frames>>

\* Wrong variant: any data makes a stream complete.
CloseIfData(done) ==
  IF done \/ sawData
    THEN Close("clean") /\ pc' = "over" /\ UNCHANGED <<neutral, err>>
    ELSE Close("error") /\ Fail("server")

\* The last lines of pumpStream.  The error of a stream without any data has
\* another text and the same class.
CloseByVerdict(done) ==
  IF done THEN Close("clean") /\ pc' = "over" /\ UNCHANGED <<neutral, err>>
          ELSE Close("error") /\ Fail("server")

\* Wrong variant: [DONE] only leaves the loop.
DoneUnflushed ==
  /\ pc = "pump"
  /\ sawDone' = TRUE
  /\ hold' = NoCalls
  /\ CloseByVerdict(TRUE)
  /\ UNCHANGED <<client, sawData, assembly, events, frames>>

\* [DONE]: the calls held are let go as they are.
Done ==
  /\ pc = "pump"
  /\ sawDone' = TRUE
  /\ hold' = NoCalls
  /\ \/ /\ client' = AbsorbAll(client, Flush(hold, FALSE))
        /\ CloseByVerdict(TRUE)
     \/ /\ hold # NoCalls
        /\ Fail("client")
        /\ UNCHANGED <<client, closes>>
  /\ UNCHANGED <<sawData, assembly, events, frames>>

\* Wrong variant: the calls held are let go at the end of the stream, too.
EndOfStreamFlushed ==
  /\ pc = "pump"
  /\ hold' = NoCalls
  /\ client' = AbsorbAll(client, Flush(hold, FALSE))
  /\ CloseByVerdict(FALSE)
  /\ UNCHANGED <<sawData, sawDone, assembly, events, frames>>

\* The stream ends without [DONE]: the calls held are dropped.
EndOfStream ==
  /\ pc = "pump"
  /\ hold' = NoCalls
  /\ CloseByVerdict(FALSE)
  /\ UNCHANGED <<client, sawData, sawDone, assembly, events, frames>>

ReadError ==
  /\ pc = "pump"
  /\ Fail("transport")
  /\ UNCHANGED <<pump, client, closes, frames>>

\* The goroutine closes the host's stream with the error it was returned.
Report ==
  /\ pc = "report"
  /\ Close("error")
  /\ pc' = "over"
  /\ UNCHANGED <<neutral, err, pump, client, frames>>

Over == pc = "over" /\ UNCHANGED vars

Next ==
  \/ Refuse \/ Begin
  \/ Rejected \/ EmptyBody \/ Opened
  \/ \E f \in Frames : Data(f)
  \/ Garbage \/ Done \/ EndOfStream \/ ReadError
  \/ Report \/ Over

Spec == Init /\ [][Next]_vars

(***************************************************************************)
(* Properties.                                                             *)
(***************************************************************************)
\* Types; the host's stream is closed at most twice (by the pump, and by the
\* goroutine for the error the pump returned), by the pump only once it is
\* done with it, and an attempt that has closed it is the last.
StreamTypeOK ==
  /\ pc \in {"enter", "attempt", "pump", "report", "over"}
  /\ neutral \in BOOLEAN
  /\ err \in {"none", "refused", "transport", "blocked", "other", "server", "client"}
  /\ IsArguments(hold)
  /\ {sawData, sawDone, events} \subseteq BOOLEAN
  /\ IsChunk(client) /\ IsChunk(assembly)
  /\ closes \in Seq({"clean", "error"}) /\ Len(closes) <= 2
  /\ frames \in 0..MaxFrames
  /\ closes # <<>> => pc \in {"report", "over"}

\* What two views tell a user: the upstream writes "" and null for nothing.
SameAnswer(view, other) == NormalizeChunk(view) = NormalizeChunk(other)

\* A client that streams ends up with the answer Execute and Aggregate would
\* have given it for the same upstream response: holding calls back, the
\* synthetic chunk, the filter and the normalisation lose and invent nothing.
\* (toolcall_hold.go against sse.go 71-219)
StreamMatchesAssembly ==
  closes = <<"clean">> /\ events => SameAnswer(client, Assembled)

\* A client sees no call before the upstream has given its verdict, by a
\* finish_reason or [DONE], and then with all its arguments, half ones only if
\* the verdict is not "length"; if the stream breaks off first, it sees none.
\* (toolcall_hold.go: feed and flush; pump.go 54-55)
CallsAwaitVerdict ==
  /\ client.args # NoCalls => Finished \/ sawDone
  /\ \A c \in DOMAIN client.args :
       /\ client.args[c] = ArgumentsIn(assembly.args, c)
       /\ assembly.finish = "length" => ~Truncated(client.args[c])

\* Once the host's stream is closed the client gets nothing more, and a stream
\* closed as complete is not closed again as failed: an attempt that has closed
\* it is not repeated, and the goroutine reports no error after a success.
\* (executor.go 139-143, executor_dispatch.go 124-128)
NothingAfterClose ==
  [][closes # <<>> =>
       /\ client' = client
       /\ closes[1] = "clean" => closes' = closes]_vars

\* A request that is over has closed the host's stream, as complete if and only
\* if the upstream ended with [DONE] and the host took every chunk.
\* (pump.go 54-65, executor_dispatch.go 125-127)
FirstCloseTells ==
  pc = "over" =>
    closes # <<>> /\ (closes[1] = "clean" <=> sawDone /\ err # "client")

\* truncation.go 5-9, of the answer Aggregate makes: a response the upstream cut
\* off at its length limit, which a streaming client was told, has no call with
\* half a JSON object for arguments.
AssemblyDropsHalves ==
  closes = <<"clean">> /\ client.finish = "length" =>
    \A c \in DOMAIN Assembled.args : ~Truncated(Assembled.args[c])
=============================================================================
