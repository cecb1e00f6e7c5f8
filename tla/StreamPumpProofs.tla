-------------------------- MODULE StreamPumpProofs --------------------------
(***************************************************************************)
(* Proofs about StreamPump, for any calls, chunks and number of chunks.    *)
(* ControlInv is about who has closed the host's stream and why; DataInv   *)
(* about what the client has, what is held back and what Aggregate would   *)
(* have, under the upstream's protocol without flat tails; TypesInv holds  *)
(* with them, too.                                                         *)
(***************************************************************************)
EXTENDS StreamPump, SequenceTheorems, TLAPS

Errors == {"none", "refused", "transport", "blocked", "other", "server", "client"}

\* The pump closes the stream as its last act; an error it has not closed the
\* stream for is the only way for [DONE] to have been read and not be told.
ControlInv ==
  /\ pc \in {"enter", "attempt", "pump", "report", "over"}
  /\ neutral \in BOOLEAN /\ err \in Errors
  /\ {sawData, sawDone, events} \subseteq BOOLEAN
  /\ pc \in {"enter", "attempt", "pump"} => closes = <<>> /\ ~sawDone
  /\ pc = "report" =>
       /\ closes \in {<<>>, <<"error">>}
       /\ sawDone => err = "client"
  /\ pc = "over" =>
       \/ closes = <<"clean">> /\ sawDone /\ err # "client"
       \/ /\ closes \in {<<"error">>, <<"error", "error">>}
          /\ sawDone => err = "client"
  /\ pc \in {"enter", "attempt", "pump"} => err # "client"

\* In the beginning nothing is closed.
LEMMA InitControl == Init => ControlInv
  BY DEF Init, ControlInv, Errors

\* A second close follows the first.
LEMMA AppendedTwo ==
  ASSUME NEW S, NEW x \in S, NEW y \in S
  PROVE  Append(<<x>>, y) = <<x, y>>
<1>1. /\ <<x>> \in Seq(S) /\ Len(<<x>>) = 1 /\ <<x>>[1] = x
      /\ <<x, y>> \in Seq(S) /\ Len(<<x, y>>) = 2 /\ <<x, y>>[1] = x /\ <<x, y>>[2] = y
  OBVIOUS
<1>2. /\ Append(<<x>>, y) \in Seq(S) /\ Len(Append(<<x>>, y)) = 2
      /\ Append(<<x>>, y)[1] = x /\ Append(<<x>>, y)[2] = y
  BY <1>1, AppendProperties
<1>3. \A i \in 1..2 : i = 1 \/ i = 2
  OBVIOUS
<1>4. QED
  BY <1>1, <1>2, <1>3, SeqEqual

\* The closes there can be.
LEMMA Appended ==
  /\ Append(<<>>, "error") = <<"error">>
  /\ Append(<<>>, "clean") = <<"clean">>
  /\ Append(<<"error">>, "error") = <<"error", "error">>
<1>1. Append(<<>>, "error") = <<"error">>
  BY SMT
<1>2. Append(<<>>, "clean") = <<"clean">>
  BY SMT
<1>3. QED
  BY <1>1, <1>2, AppendedTwo

\* Every step keeps the control.
LEMMA NextControl == ControlInv /\ [Next]_vars => ControlInv'
<1> SUFFICES ASSUME ControlInv, [Next]_vars PROVE ControlInv'
  OBVIOUS
<1> USE DEF ControlInv, Errors, Fail, Retryable, Close, pump
<1>1. CASE Refuse
  BY <1>1 DEF Refuse
<1>2. CASE Begin
  BY <1>2 DEF Begin
<1>3. CASE Rejected
  BY <1>3 DEF Rejected
<1>4. CASE EmptyBody
  BY <1>4, Appended DEF EmptyBody
<1>5. CASE Opened
  BY <1>5 DEF Opened
<1>6. ASSUME NEW f \in Frames, Data(f) PROVE ControlInv'
  BY <1>6 DEF Data, Emit
<1>7. CASE Garbage
  BY <1>7 DEF Garbage
<1>8. CASE Done
  BY <1>8, Appended DEF Done, CloseByVerdict
<1>9. CASE EndOfStream
  BY <1>9, Appended DEF EndOfStream, CloseByVerdict
<1>10. CASE ReadError
  BY <1>10 DEF ReadError
<1>11. CASE Report
  BY <1>11, Appended DEF Report
<1>12. CASE Over \/ UNCHANGED vars
  BY <1>12 DEF Over, vars
<1>13. QED
  BY <1>1, <1>2, <1>3, <1>4, <1>5, <1>6, <1>7, <1>8, <1>9, <1>10, <1>11, <1>12 DEF Next

\* The control invariant holds in every behaviour.
LEMMA ControlHolds == Spec => []ControlInv
  BY InitControl, NextControl, PTL DEF Spec

\* A request that is over has closed the host's stream, as complete if and only
\* if [DONE] was read and the host took every chunk.
THEOREM FirstCloseIsTold == Spec => []FirstCloseTells
<1>1. ControlInv => FirstCloseTells
  BY DEF ControlInv, FirstCloseTells
<1>2. QED
  BY <1>1, ControlHolds, PTL

\* A closed stream gets no further chunk, and one closed as complete no second
\* close.
THEOREM ClosedIsClosed == Spec => NothingAfterClose
<1> DEFINE Kept == closes # <<>> =>
                     client' = client /\ (closes[1] = "clean" => closes' = closes)
<1>1. ASSUME ControlInv, [Next]_vars PROVE [Kept]_vars
  <2> USE DEF ControlInv
  <2>1. CASE pc \in {"enter", "attempt", "pump"}
    BY <1>1, <2>1
  <2>2. CASE pc \in {"report", "over"}
    <3>1. Report \/ UNCHANGED vars
      BY <1>1, <2>2 DEF Next, Over, Refuse, Begin, Rejected, EmptyBody, Opened, Data,
         Garbage, Done, EndOfStream, ReadError
    <3>2. client' = client
      BY <3>1 DEF Report, vars
    <3>3. CASE UNCHANGED vars
      BY <3>3 DEF vars
    <3>4. CASE Report
      <4>1. closes \in {<<>>, <<"error">>}
        BY <1>1, <3>4 DEF Report
      <4>2. closes # <<>> => closes[1] = "error"
        BY <4>1
      <4>3. QED
        BY <3>2, <4>2
    <3>5. QED
      BY <3>1, <3>3, <3>4
  <2>3. QED
    BY <1>1, <2>1, <2>2
<1>2. QED
  BY <1>1, ControlHolds, PTL DEF Spec, NothingAfterClose

(***************************************************************************)
(* The operators on calls and chunks.                                      *)
(***************************************************************************)
\* Joining arguments gives arguments.
LEMMA MergeType ==
  ASSUME NEW a, NEW b, IsArguments(a), IsArguments(b)
  PROVE  IsArguments(Merge(a, b))
<1>1. ASSUME NEW c \in DOMAIN a \cup DOMAIN b
      PROVE  ArgumentsIn(a, c) \o ArgumentsIn(b, c) \in Seq(Pieces)
  <2>1. ArgumentsIn(a, c) \in Seq(Pieces) /\ ArgumentsIn(b, c) \in Seq(Pieces)
    BY EmptySeq DEF ArgumentsIn, IsArguments
  <2>2. QED
    BY <2>1, ConcatProperties
<1>2. QED
  BY <1>1 DEF Merge, IsArguments

\* Joining no calls changes nothing, and only no calls join to none.
LEMMA MergeNone ==
  ASSUME NEW a, IsArguments(a)
  PROVE  Merge(NoCalls, a) = a /\ Merge(a, NoCalls) = a
<1>1. DOMAIN NoCalls = {}
  BY DEF NoCalls
<1>2. ASSUME NEW c \in DOMAIN a
      PROVE  /\ ArgumentsIn(NoCalls, c) \o ArgumentsIn(a, c) = a[c]
             /\ ArgumentsIn(a, c) \o ArgumentsIn(NoCalls, c) = a[c]
  <2>1. a[c] \in Seq(Pieces)
    BY DEF IsArguments
  <2>2. ArgumentsIn(a, c) = a[c] /\ ArgumentsIn(NoCalls, c) = <<>>
    BY <1>1 DEF ArgumentsIn
  <2>3. QED
    BY <2>1, <2>2, ConcatEmptySeq
<1>3. a = [c \in DOMAIN a |-> a[c]]
  BY DEF IsArguments
<1>4. QED
  BY <1>1, <1>2, <1>3 DEF Merge

\* No calls are arguments, the only ones without a call.
LEMMA NoCallsType == IsArguments(NoCalls) /\ \A a : IsArguments(a) /\ DOMAIN a = {} => a = NoCalls
  BY DEF IsArguments, NoCalls

\* Arguments that merge to none are none themselves.
LEMMA MergeToNone ==
  ASSUME NEW a, NEW b, IsArguments(a), IsArguments(b), Merge(a, b) = NoCalls
  PROVE  a = NoCalls /\ b = NoCalls
<1>1. DOMAIN Merge(a, b) = DOMAIN a \cup DOMAIN b
  BY DEF Merge
<1>2. DOMAIN a = {} /\ DOMAIN b = {}
  BY <1>1 DEF NoCalls
<1>3. QED
  BY <1>2, NoCallsType

\* Dropping the truncated calls leaves whole ones with their arguments.
LEMMA DropType ==
  ASSUME NEW a, IsArguments(a)
  PROVE  /\ IsArguments(DropTruncated(a))
         /\ \A c \in DOMAIN DropTruncated(a) :
              c \in DOMAIN a /\ DropTruncated(a)[c] = a[c] /\ ~Truncated(a[c])
  BY DEF DropTruncated, IsArguments

\* Of no calls none is dropped.
LEMMA DropNone == DropTruncated(NoCalls) = NoCalls
  BY DEF DropTruncated, NoCalls

\* A view that absorbs a chunk is a chunk.
LEMMA AbsorbType ==
  ASSUME NEW v, NEW f, IsChunk(v), IsChunk(f)
  PROVE  /\ IsChunk(Absorb(v, f))
         /\ Absorb(v, f).text = v.text + f.text
         /\ Absorb(v, f).args = Merge(v.args, f.args)
         /\ Absorb(v, f).finish = IF f.finish = "null" THEN v.finish ELSE f.finish
         /\ Absorb(v, f).usage = IF f.usage = "absent" THEN v.usage ELSE f.usage
<1>1. IsArguments(Merge(v.args, f.args))
  BY MergeType DEF IsChunk
<1>2. /\ Absorb(v, f).text = v.text + f.text
      /\ Absorb(v, f).args = Merge(v.args, f.args)
      /\ Absorb(v, f).finish = IF f.finish = "null" THEN v.finish ELSE f.finish
      /\ Absorb(v, f).usage = IF f.usage = "absent" THEN v.usage ELSE f.usage
  BY DEF Absorb
<1>3. /\ v.text \in Nat /\ f.text \in Nat
      /\ v.finish \in {"null", "", "stop", "length"} /\ f.finish \in {"null", "", "stop", "length"}
      /\ v.usage \in {"absent", "null", "some"} /\ f.usage \in {"absent", "null", "some"}
  BY DEF IsChunk
<1>4. /\ Absorb(v, f).text \in Nat
      /\ Absorb(v, f).finish \in {"null", "", "stop", "length"}
      /\ Absorb(v, f).usage \in {"absent", "null", "some"}
  <2>1. Absorb(v, f).text \in Nat
    <3>1. \A m, n \in Nat : m + n \in Nat
      OBVIOUS
    <3>2. v.text + f.text \in Nat
      BY <1>3, <3>1, Zenon
    <3>3. QED
      BY <1>2, <3>2
  <2>2. Absorb(v, f).finish \in {"null", "", "stop", "length"}
    BY <1>2, <1>3
  <2>3. Absorb(v, f).usage \in {"absent", "null", "some"}
    BY <1>2, <1>3
  <2>4. QED
    BY <2>1, <2>2, <2>3
<1>5. Absorb(v, f) \in [text: Nat, args: {Absorb(v, f).args},
         finish: {"null", "", "stop", "length"}, usage: {"absent", "null", "some"}]
  BY <1>4, <1>2 DEF Absorb
<1>6. QED
  BY <1>1, <1>2, <1>5 DEF IsChunk

\* A chunk without text adds none.
LEMMA NoText == ASSUME NEW v, IsChunk(v) PROVE v.text + 0 = v.text
<1>1. v.text \in Nat
  BY DEF IsChunk
<1>2. \A n \in Nat : n + 0 = n
  OBVIOUS
<1>3. QED
  BY <1>1, <1>2, Zenon

\* Normalising a chunk leaves its text and its calls alone.
LEMMA NormalizeType ==
  ASSUME NEW f, IsChunk(f)
  PROVE  /\ IsChunk(NormalizeChunk(f))
         /\ NormalizeChunk(f).text = f.text
         /\ NormalizeChunk(f).args = f.args
         /\ NormalizeChunk(f).finish = IF f.finish = "" THEN "null" ELSE f.finish
         /\ NormalizeChunk(f).usage = IF f.usage = "null" THEN "absent" ELSE f.usage
  BY DEF NormalizeChunk, IsChunk

\* What the client has after the host took some of at most two chunks.
LEMMA Taken ==
  ASSUME NEW v, NEW x, NEW y
  PROVE  /\ AbsorbAll(v, <<>>) = v
         /\ AbsorbAll(v, <<x>>) = Absorb(v, x)
         /\ AbsorbAll(v, <<x>> \o <<y>>) = Absorb(Absorb(v, x), y)
         /\ <<>> \o <<y>> = <<y>>
         /\ AbsorbAll(v, SubSeq(<<x>>, 1, 0)) = v
         /\ AbsorbAll(v, SubSeq(<<x>> \o <<y>>, 1, 0)) = v
         /\ AbsorbAll(v, SubSeq(<<x>> \o <<y>>, 1, 1)) = Absorb(v, x)
         /\ DOMAIN (<<x>> \o <<y>>) = 1..2
<1> DEFINE S == {x, y}
<1>1. /\ <<x>> \in Seq(S) /\ Len(<<x>>) = 1 /\ <<x>>[1] = x
      /\ <<y>> \in Seq(S) /\ Len(<<y>>) = 1 /\ <<y>>[1] = y
      /\ Len(<<>>) = 0
  OBVIOUS
<1> DEFINE xy == <<x>> \o <<y>>
<1>2. xy \in Seq(S) /\ Len(xy) = 2 /\ xy[1] = x /\ xy[2] = y
  BY <1>1, ConcatProperties
<1>3. SubSeq(<<x>>, 1, 0) = <<>> /\ SubSeq(xy, 1, 0) = <<>>
  BY SubSeqEmpty
<1>4. Len(SubSeq(xy, 1, 1)) = 1 /\ SubSeq(xy, 1, 1)[1] = x
  BY <1>2, SubSeqProperties
<1>5. <<>> \o <<y>> = <<y>>
  BY <1>1, ConcatEmptySeq
<1>6. DOMAIN xy = 1..2
  BY <1>2, LenProperties
<1>7. QED
  BY <1>1, <1>2, <1>3, <1>4, <1>5, <1>6 DEF AbsorbAll

(***************************************************************************)
(* The views of the client and of Aggregate.                               *)
(***************************************************************************)
\* The client has no call, or the calls Aggregate would answer with.
CallsDecided ==
  \/ client.args = NoCalls
  \/ client.args = Assembled.args /\ (Finished \/ sawDone)

\* While the pump runs, what the client has and what is held back add up to
\* what Aggregate has collected.
Agree ==
  /\ client.text = assembly.text
  /\ client.usage = IF assembly.usage = "some" THEN "some" ELSE "absent"
  /\ IF Finished
       THEN hold = NoCalls /\ client.args = Assembled.args /\ client.finish = assembly.finish
       ELSE hold = assembly.args /\ client.args = NoCalls /\ client.finish = "null"

DataInv ==
  /\ IsArguments(hold) /\ IsChunk(client) /\ IsChunk(assembly)
  /\ CallsDecided
  /\ pc \in {"enter", "attempt"} => client = Blank
  /\ pc = "pump" => Agree
  /\ closes = <<"clean">> => SameAnswer(client, Assembled)

\* The calls of an answer of Aggregate.
LEMMA AssembledArgs ==
  ASSUME IsChunk(assembly)
  PROVE  /\ Assembled.args = IF assembly.finish = "length"
                               THEN DropTruncated(assembly.args) ELSE assembly.args
         /\ Assembled.text = assembly.text
         /\ Assembled.finish = assembly.finish
         /\ Assembled.usage = assembly.usage
         /\ IsChunk(Assembled)
<1>1. IsArguments(DropTruncated(assembly.args))
  BY DropType DEF IsChunk
<1>2. QED
  BY <1>1 DEF Assembled, IsChunk

\* The blank chunk is a chunk without calls.
LEMMA BlankType == IsChunk(Blank) /\ Blank.args = NoCalls
  BY NoCallsType DEF Blank, IsChunk

\* In the beginning nothing has been read.
LEMMA InitData == Init => DataInv
  BY BlankType, NoCallsType DEF Init, DataInv, CallsDecided

\* Two views with the same fields give the same answer.
LEMMA AgreedAnswer ==
  ASSUME NEW v, NEW w, IsChunk(v), IsChunk(w),
         v.text = w.text, v.args = w.args,
         v.usage = IF w.usage = "some" THEN "some" ELSE "absent",
         v.finish = IF w.finish = "" THEN "null" ELSE w.finish
  PROVE  SameAnswer(v, w)
<1>1. NormalizeChunk(v) = [text |-> v.text, args |-> v.args, finish |-> v.finish,
                           usage |-> v.usage]
  BY DEF NormalizeChunk, IsChunk
<1>2. NormalizeChunk(w) = [text |-> w.text, args |-> w.args,
                           finish |-> IF w.finish = "" THEN "null" ELSE w.finish,
                           usage |-> IF w.usage = "null" THEN "absent" ELSE w.usage]
  BY DEF NormalizeChunk, IsChunk
<1>3. v.usage = IF w.usage = "null" THEN "absent" ELSE w.usage
  BY DEF IsChunk
<1>4. QED
  BY <1>1, <1>2, <1>3 DEF SameAnswer

\* A chunk after the finish brings neither text nor calls: nothing is held.
LEMMA TailStep ==
  ASSUME ~FlatTail, ControlInv, DataInv, NEW f \in Frames, Data(f), Finished
  PROVE  DataInv'
<1> DEFINE chunk == NormalizeChunk(f)
<1>1. IsChunk(f) /\ IsChunk(assembly) /\ IsChunk(client)
  BY FrameAssumption DEF DataInv
<1>2. /\ IsChunk(chunk) /\ chunk.text = 0 /\ chunk.args = NoCalls /\ chunk.finish = "null"
      /\ chunk.usage = IF f.usage = "null" THEN "absent" ELSE f.usage
      /\ f.text = 0 /\ f.args = NoCalls /\ f.finish = "null" /\ assembly.usage # "some"
  BY <1>1, NormalizeType DEF Data, InOrder
<1>3. Agree /\ hold = NoCalls /\ pc = "pump" /\ closes = <<>>
  BY DEF DataInv, Data, Agree, ControlInv
<1>4. Merge(hold, chunk.args) = NoCalls
  BY <1>2, <1>3, MergeNone, NoCallsType
<1>5. hold' = NoCalls /\ Emit(<<chunk>>)
  <2>1. hold' = Held(hold, chunk) /\ Emit(Feed(Merge(hold, chunk.args), chunk))
    BY DEF Data
  <2>2. Feed(NoCalls, chunk) = <<chunk>>
    BY DEF Feed
  <2>3. Held(hold, chunk) = NoCalls
    BY <1>2, <1>4 DEF Held
  <2>4. QED
    BY <1>4, <2>1, <2>2, <2>3
<1>6. /\ IsChunk(assembly')
      /\ assembly'.args = assembly.args /\ assembly'.finish = assembly.finish
      /\ assembly'.text = assembly.text
      /\ assembly'.usage = IF f.usage = "absent" THEN assembly.usage ELSE f.usage
  <2>1. assembly' = Absorb(assembly, f)
    BY DEF Data
  <2>2. Merge(assembly.args, f.args) = assembly.args
    BY <1>1, <1>2, MergeNone DEF IsChunk
  <2>3. assembly.text + 0 = assembly.text
    BY <1>1, NoText
  <2>4. QED
    BY <1>1, <1>2, <2>1, <2>2, <2>3, AbsorbType
<1>7. Finished' /\ Assembled'.args = Assembled.args
  <2>1. Finished'
    BY <1>6 DEF Finished
  <2>2. Assembled.args = IF assembly.finish = "length"
                           THEN DropTruncated(assembly.args) ELSE assembly.args
    BY <1>1, AssembledArgs
  <2>3. Assembled'.args = IF assembly'.finish = "length"
                            THEN DropTruncated(assembly'.args) ELSE assembly'.args
    BY <1>6 DEF Assembled, IsChunk
  <2>4. QED
    BY <1>6, <2>1, <2>2, <2>3
<1>8. CASE client' = AbsorbAll(client, <<chunk>>) /\ UNCHANGED <<pc, neutral, err>>
  <2>1. client' = Absorb(client, chunk)
    BY <1>8, Taken
  <2>2. Merge(client.args, NoCalls) = client.args
    BY <1>1, MergeNone DEF IsChunk
  <2>3. client.text + 0 = client.text
    BY <1>1, NoText
  <2>4. /\ IsChunk(client') /\ client'.args = client.args /\ client'.finish = client.finish
        /\ client'.text = client.text
        /\ client'.usage = IF chunk.usage = "absent" THEN client.usage ELSE chunk.usage
    BY <1>1, <1>2, <2>1, <2>2, <2>3, AbsorbType
  <2>5. f.usage \in {"absent", "null", "some"}
    BY <1>1 DEF IsChunk
  <2>6. Agree'
    BY <1>2, <1>3, <1>5, <1>6, <1>7, <2>4, <2>5 DEF Agree
  <2>7. closes' = <<>> /\ pc' = "pump"
    BY <1>3, <1>8 DEF Data
  <2>8. QED
    BY <1>5, <1>6, <1>7, <2>4, <2>6, <2>7, NoCallsType DEF DataInv, CallsDecided, Agree
<1>9. ASSUME NEW i \in DOMAIN <<chunk>>,
             client' = AbsorbAll(client, SubSeq(<<chunk>>, 1, i - 1)), Fail("client")
      PROVE  DataInv'
  <2>1. i = 1
    OBVIOUS
  <2>2. client' = client
    BY <1>9, <2>1, Taken
  <2>3. pc' = "report" /\ closes' = <<>>
    BY <1>3, <1>9 DEF Fail, Retryable, Data
  <2>4. CallsDecided'
    BY <1>3, <1>7, <2>2 DEF CallsDecided, Agree
  <2>5. QED
    BY <1>1, <1>5, <1>6, <2>2, <2>3, <2>4, NoCallsType DEF DataInv
<1>10. QED
  BY <1>5, <1>8, <1>9 DEF Emit

\* A chunk of the content is passed on without its calls, which are held; the
\* finish lets them go, without the truncated ones if it is "length".
LEMMA ContentStep ==
  ASSUME ControlInv, DataInv, NEW f \in Frames, Data(f), ~Finished
  PROVE  DataInv'
<1> DEFINE chunk == NormalizeChunk(f)
           rest == [chunk EXCEPT !.args = NoCalls]
           all == Merge(hold, chunk.args)
           kept == IF chunk.finish = "length" THEN DropTruncated(all) ELSE all
           calls == [Blank EXCEPT !.args = kept]
<1>1. IsChunk(f) /\ IsChunk(assembly) /\ IsChunk(client)
  BY FrameAssumption DEF DataInv
<1>2. /\ IsChunk(chunk) /\ chunk.text = f.text /\ chunk.args = f.args
      /\ chunk.finish = IF f.finish = "" THEN "null" ELSE f.finish
      /\ chunk.usage = IF f.usage = "null" THEN "absent" ELSE f.usage
  BY <1>1, NormalizeType
<1>3. /\ pc = "pump" /\ closes = <<>> /\ assembly.usage # "some"
      /\ hold = assembly.args /\ client.args = NoCalls /\ client.finish = "null"
      /\ client.text = assembly.text /\ client.usage = "absent"
  BY DEF DataInv, Data, InOrder, Agree, ControlInv
<1>4. assembly.finish \in {"null", ""}
  BY <1>1 DEF Finished, IsChunk
<1>5. /\ IsChunk(assembly')
      /\ assembly'.text = assembly.text + f.text
      /\ assembly'.args = all
      /\ assembly'.finish = IF f.finish = "null" THEN assembly.finish ELSE f.finish
      /\ assembly'.usage = IF f.usage = "absent" THEN assembly.usage ELSE f.usage
  <2>1. assembly' = Absorb(assembly, f)
    BY DEF Data
  <2>2. Merge(assembly.args, f.args) = all
    BY <1>2, <1>3
  <2>3. QED
    BY <1>1, <2>1, <2>2, AbsorbType
<1>6. Finished' <=> chunk.finish # "null"
  BY <1>1, <1>2, <1>4, <1>5 DEF Finished, IsChunk
<1>7. IsArguments(all) /\ IsArguments(kept)
  BY <1>5, DropType DEF IsChunk
<1>8. Finished' => Assembled'.args = kept /\ assembly'.finish = chunk.finish
  BY <1>2, <1>5, <1>6 DEF Assembled, IsChunk
<1>9. hold' = (IF chunk.finish = "null" THEN all ELSE NoCalls) /\ IsArguments(hold')
  BY <1>7, NoCallsType DEF Data, Held
<1>10. closes' = <<>> /\ Emit(Feed(all, chunk))
  BY <1>3 DEF Data
<1>11. /\ IsChunk(rest) /\ rest.text = chunk.text /\ rest.args = NoCalls
       /\ rest.finish = chunk.finish /\ rest.usage = chunk.usage
  BY <1>2, NoCallsType DEF IsChunk
<1>12. /\ IsChunk(calls) /\ calls.text = 0 /\ calls.args = kept
       /\ calls.finish = "null" /\ calls.usage = "absent"
  BY <1>7, BlankType DEF IsChunk, Blank
\* What the client has when it has all the chunk is worth.
<1>13. ASSUME IsChunk(client'), client'.text = client.text + f.text,
              client'.finish = chunk.finish, client'.usage = chunk.usage,
              client'.args = (IF Finished' THEN kept ELSE NoCalls), pc' = pc
       PROVE  DataInv'
  <2>1. f.usage \in {"absent", "null", "some"} /\ assembly.usage \in {"absent", "null"}
    BY <1>1, <1>3 DEF IsChunk
  <2>2. client'.usage = IF assembly'.usage = "some" THEN "some" ELSE "absent"
    BY <1>2, <1>5, <1>13, <2>1
  <2>3. Agree'
    BY <1>3, <1>5, <1>6, <1>8, <1>9, <1>13, <2>2 DEF Agree
  <2>4. CallsDecided'
    BY <1>8, <1>13 DEF CallsDecided
  <2>5. QED
    BY <1>3, <1>5, <1>9, <1>10, <1>13, <2>3, <2>4 DEF DataInv
\* A chunk of the step without calls, taken after v.
<1>14. ASSUME NEW g, IsChunk(g), g.text = f.text, g.args = NoCalls,
              g.finish = chunk.finish, g.usage = chunk.usage,
              NEW v, IsChunk(v), v.text = client.text, v.finish = "null",
              v.usage = "absent",
              v.args = (IF Finished' THEN kept ELSE NoCalls),
              client' = Absorb(v, g), pc' = pc
       PROVE  DataInv'
  <2>1. Merge(v.args, NoCalls) = v.args
    BY <1>14, MergeNone DEF IsChunk
  <2>2. /\ IsChunk(client') /\ client'.text = client.text + f.text
        /\ client'.finish = chunk.finish /\ client'.usage = chunk.usage
        /\ client'.args = (IF Finished' THEN kept ELSE NoCalls)
    BY <1>14, <2>1, AbsorbType
  <2>3. QED
    BY <1>13, <1>14, <2>2
\* A chunk is refused before the client got anything.
<1>15. ASSUME client' = client, Fail("client") PROVE DataInv'
  <2>1. pc' = "report"
    BY <1>15 DEF Fail, Retryable
  <2>2. CallsDecided'
    BY <1>3, <1>15 DEF CallsDecided
  <2>3. QED
    BY <1>1, <1>5, <1>9, <1>10, <1>15, <2>1, <2>2 DEF DataInv
<1>16. ASSUME NEW g, Emit(<<g>>)
       PROVE  \/ client' = Absorb(client, g) /\ pc' = pc
              \/ client' = client /\ Fail("client")
  <2>1. \A i \in DOMAIN <<g>> : i = 1
    OBVIOUS
  <2>2. QED
    BY <1>16, <2>1, Taken DEF Emit
<1>17. CASE all = NoCalls
  <2>1. f.args = NoCalls
    BY <1>1, <1>2, <1>3, <1>17, MergeToNone DEF IsChunk
  <2>2. kept = NoCalls
    BY <1>17, DropNone
  <2>3. Feed(all, chunk) = <<chunk>>
    BY <1>17 DEF Feed
  <2>4. QED
    BY <1>1, <1>2, <1>3, <1>10, <1>14, <1>15, <1>16, <2>1, <2>2, <2>3
<1>18. CASE all # NoCalls /\ chunk.finish # "null" /\ kept = NoCalls
  <2>1. Flush(all, chunk.finish = "length") = <<>>
    BY <1>18 DEF Flush
  <2>2. Feed(all, chunk) = <<rest>>
    BY <1>18, <2>1, Taken DEF Feed
  <2>3. \/ client' = Absorb(client, rest) /\ pc' = pc
        \/ client' = client /\ Fail("client")
    BY <1>10, <1>16, <2>2
  <2>4. CASE client' = Absorb(client, rest) /\ pc' = pc
    <3>1. rest.text = f.text /\ client.args = (IF Finished' THEN kept ELSE NoCalls)
      BY <1>2, <1>3, <1>11, <1>18
    <3> HIDE DEF chunk, rest, kept, all
    <3>2. QED
      BY <1>1, <1>3, <1>11, <1>14, <2>4, <3>1
  <2>5. QED
    BY <1>15, <2>3, <2>4
<1>19. CASE all # NoCalls /\ chunk.finish # "null" /\ kept # NoCalls
  <2>1. Flush(all, chunk.finish = "length") = <<calls>>
    BY <1>19 DEF Flush
  <2>2. Feed(all, chunk) = <<calls>> \o <<rest>>
    BY <1>19, <2>1 DEF Feed
  <2> DEFINE v == Absorb(client, calls)
  <2>3. Merge(client.args, kept) = kept
    BY <1>3, <1>7, MergeNone
  <2>4. client.text + 0 = client.text
    BY <1>1, NoText
  <2>5. /\ IsChunk(v) /\ v.text = client.text /\ v.args = kept /\ v.finish = "null"
        /\ v.usage = "absent"
    <3> HIDE DEF calls, kept
    <3>1. /\ IsChunk(v) /\ v.text = client.text + calls.text
          /\ v.args = Merge(client.args, calls.args)
          /\ v.finish = IF calls.finish = "null" THEN client.finish ELSE calls.finish
          /\ v.usage = IF calls.usage = "absent" THEN client.usage ELSE calls.usage
      BY <1>1, <1>12, AbsorbType
    <3>2. QED
      BY <1>3, <1>12, <2>3, <2>4, <3>1
  <2>6. \/ client' = Absorb(v, rest) /\ pc' = pc
        \/ client' = client /\ Fail("client")
        \/ client' = v /\ Fail("client")
    BY <1>10, <2>2, Taken DEF Emit
  <2>7. CASE client' = Absorb(v, rest) /\ pc' = pc
    BY <1>2, <1>6, <1>11, <1>14, <1>19, <2>5, <2>7
  <2>8. CASE client' = v /\ Fail("client")
    <3>1. pc' = "report"
      BY <2>8 DEF Fail, Retryable
    <3>2. CallsDecided'
      BY <1>6, <1>8, <1>19, <2>5, <2>8 DEF CallsDecided
    <3>3. QED
      BY <1>5, <1>9, <1>10, <2>5, <2>8, <3>1, <3>2 DEF DataInv
  <2>9. QED
    BY <1>15, <2>6, <2>7, <2>8
<1>20. CASE all # NoCalls /\ chunk.finish = "null" /\ WorthEmitting(rest)
  <2>1. Feed(all, chunk) = <<rest>>
    BY <1>20 DEF Feed
  <2>2. client.args = (IF Finished' THEN kept ELSE NoCalls)
    BY <1>3, <1>6, <1>20
  <2>3. CASE client' = Absorb(client, rest) /\ pc' = pc
    BY <1>1, <1>2, <1>3, <1>11, <1>14, <2>2, <2>3
  <2>4. QED
    BY <1>10, <1>15, <1>16, <2>1, <2>3
<1>21. CASE all # NoCalls /\ chunk.finish = "null" /\ ~WorthEmitting(rest)
  <2>1. Feed(all, chunk) = <<>>
    BY <1>21 DEF Feed
  <2>2. client' = client /\ pc' = pc
    <3>1. DOMAIN <<>> = {}
      OBVIOUS
    <3>2. QED
      BY <1>10, <2>1, <3>1, Taken DEF Emit
  <2>3. f.text = 0 /\ chunk.usage = "absent"
    <3>1. \A n \in Nat : ~(n > 0) => n = 0
      OBVIOUS
    <3>2. rest.text \in Nat
      BY <1>11 DEF IsChunk
    <3>3. QED
      BY <1>2, <1>11, <1>21, <3>1, <3>2 DEF WorthEmitting
  <2>4. client.text + f.text = client.text
    BY <1>1, <2>3, NoText
  <2>5. QED
    BY <1>1, <1>3, <1>6, <1>13, <1>21, <2>2, <2>3, <2>4
<1>22. QED
  BY <1>17, <1>18, <1>19, <1>20, <1>21

\* The data is not touched: then only the control of the step matters.
LEMMA DataKept ==
  ASSUME DataInv, UNCHANGED <<client, assembly>>, hold' \in {hold, NoCalls},
         sawDone => sawDone', pc' = "pump" => pc = "pump" /\ hold' = hold,
         pc' \in {"enter", "attempt"} => client = Blank,
         closes' = <<"clean">> => closes = <<"clean">>
  PROVE  DataInv'
<1>1. CallsDecided'
  BY DEF DataInv, CallsDecided, Finished, Assembled
<1>2. pc' = "pump" => Agree'
  BY DEF DataInv, Agree, Finished, Assembled
<1>3. SameAnswer(client, Assembled) => SameAnswer(client, Assembled)'
  BY DEF SameAnswer, Assembled
<1>4. QED
  BY <1>1, <1>2, <1>3, NoCallsType DEF DataInv

\* At [DONE] the client gets the calls that no finish has let go.
LEMMA DoneStep == ASSUME ControlInv, DataInv, Done PROVE DataInv'
<1>1. /\ Agree /\ IsChunk(client) /\ IsChunk(assembly) /\ IsArguments(hold)
      /\ closes = <<>> /\ ~sawDone
  BY DEF DataInv, Done, ControlInv
<1>2. hold' = NoCalls /\ sawDone' /\ assembly' = assembly
  BY DEF Done
<1>3. Assembled' = Assembled
  BY <1>2 DEF Assembled
<1>4. Assembled.args = (IF assembly.finish = "length"
                          THEN DropTruncated(assembly.args) ELSE assembly.args)
      /\ IsChunk(Assembled) /\ Assembled.text = assembly.text
      /\ Assembled.finish = assembly.finish /\ Assembled.usage = assembly.usage
  BY <1>1, AssembledArgs
<1>5. CASE client' = AbsorbAll(client, Flush(hold, FALSE)) /\ CloseByVerdict(TRUE)
  <2>1. pc' = "over"
    BY <1>5 DEF CloseByVerdict
  <2>2. /\ IsChunk(client') /\ client'.text = client.text /\ client'.usage = client.usage
        /\ client'.finish = client.finish /\ client'.args = Assembled.args
    <3>1. CASE hold = NoCalls
      <4>1. Flush(hold, FALSE) = <<>>
        BY <3>1 DEF Flush
      <4>2. client' = client
        BY <1>5, <4>1, Taken
      <4>3. client.args = Assembled.args
        BY <1>1, <1>4, <3>1 DEF Agree, Finished
      <4>4. QED
        BY <1>1, <4>2, <4>3
    <3>2. CASE hold # NoCalls
      <4> DEFINE calls == [Blank EXCEPT !.args = hold]
      <4>1. Flush(hold, FALSE) = <<calls>>
        BY <3>2 DEF Flush
      <4>2. client' = Absorb(client, calls)
        BY <1>5, <4>1, Taken
      <4>3. /\ IsChunk(calls) /\ calls.text = 0 /\ calls.args = hold
            /\ calls.finish = "null" /\ calls.usage = "absent"
        BY <1>1, BlankType DEF IsChunk, Blank
      <4>4. ~Finished /\ hold = assembly.args /\ client.args = NoCalls
        BY <1>1, <3>2 DEF Agree
      <4>5. hold = Assembled.args
        BY <1>4, <4>4 DEF Finished
      <4>6. Merge(client.args, calls.args) = hold /\ client.text + 0 = client.text
        BY <1>1, <4>3, <4>4, MergeNone, NoText
      <4> HIDE DEF calls
      <4>7. /\ IsChunk(client') /\ client'.text = client.text + calls.text
            /\ client'.args = Merge(client.args, calls.args)
            /\ client'.finish = IF calls.finish = "null" THEN client.finish ELSE calls.finish
            /\ client'.usage = IF calls.usage = "absent" THEN client.usage ELSE calls.usage
        BY <1>1, <4>2, <4>3, AbsorbType
      <4>8. QED
        BY <4>3, <4>5, <4>6, <4>7
    <3>3. QED
      BY <3>1, <3>2
  <2>3. client.finish = IF assembly.finish = "" THEN "null" ELSE assembly.finish
    BY <1>1 DEF Agree, Finished, IsChunk
  <2>4. SameAnswer(client', Assembled)
    BY <1>1, <1>4, <2>2, <2>3, AgreedAnswer DEF Agree
  <2>5. CallsDecided'
    BY <1>2, <1>3, <2>2 DEF CallsDecided
  <2>6. SameAnswer(client, Assembled)'
    BY <1>3, <2>4
  <2>7. QED
    BY <1>1, <1>2, <2>1, <2>2, <2>5, <2>6, NoCallsType DEF DataInv
<1>6. CASE Fail("client") /\ UNCHANGED <<client, closes>>
  <2>1. pc' = "report"
    BY <1>6 DEF Fail, Retryable
  <2>2. QED
    BY <1>1, <1>2, <1>6, <2>1, DataKept
<1>7. QED
  BY <1>5, <1>6 DEF Done

\* Every step keeps the data.
LEMMA NextData ==
  ASSUME ~FlatTail, ControlInv, DataInv, [Next]_vars
  PROVE  DataInv'
<1> USE DEF Fail, Retryable, Close, pump
<1>1. CASE Refuse
  BY <1>1, DataKept DEF Refuse
<1>2. CASE Begin
  BY <1>2, DataKept DEF Begin, DataInv
<1>3. CASE Rejected
  BY <1>3, DataKept DEF Rejected, DataInv
<1>4. CASE EmptyBody
  <2>1. closes' = <<"error">> /\ <<"error">> # <<"clean">>
    BY <1>4, Appended DEF EmptyBody, ControlInv
  <2>2. pc' = "report" /\ UNCHANGED <<client, assembly, hold, sawDone>>
    BY <1>4 DEF EmptyBody
  <2>3. QED
    BY <2>1, <2>2, DataKept
<1>5. CASE Opened
  <2>1. client' = Blank /\ assembly' = Blank /\ hold' = NoCalls /\ closes' = <<>> /\ pc' = "pump"
    BY <1>5 DEF Opened, DataInv, ControlInv
  <2>2. Agree' /\ CallsDecided'
    BY <2>1 DEF Agree, CallsDecided, Finished, Blank
  <2>3. QED
    BY <2>1, <2>2, BlankType, NoCallsType DEF DataInv
<1>6. ASSUME NEW f \in Frames, Data(f) PROVE DataInv'
  BY <1>6, TailStep, ContentStep
<1>7. CASE Garbage
  BY <1>7, DataKept DEF Garbage
<1>8. CASE Done
  BY <1>8, DoneStep
<1>9. CASE EndOfStream
  <2>1. closes' = <<"error">> /\ <<"error">> # <<"clean">> /\ pc' = "report"
    BY <1>9, Appended DEF EndOfStream, CloseByVerdict, ControlInv
  <2>2. UNCHANGED <<client, assembly, sawDone>> /\ hold' = NoCalls
    BY <1>9 DEF EndOfStream
  <2>3. QED
    BY <2>1, <2>2, DataKept
<1>10. CASE ReadError
  BY <1>10, DataKept DEF ReadError
<1>11. CASE Report
  <2>1. closes' # <<"clean">> /\ pc' = "over"
    <3>1. closes' \in {<<"error">>, <<"error", "error">>}
      BY <1>11, Appended DEF Report, ControlInv
    <3>2. <<"error">>[1] = "error" /\ <<"error", "error">>[1] = "error" /\ <<"clean">>[1] = "clean"
      OBVIOUS
    <3>3. QED
      BY <1>11, <3>1, <3>2 DEF Report
  <2>2. QED
    BY <1>11, <2>1, DataKept DEF Report
<1>12. CASE Over \/ UNCHANGED vars
  BY <1>12, DataKept DEF Over, vars, DataInv
<1>13. QED
  BY <1>1, <1>2, <1>3, <1>4, <1>5, <1>6, <1>7, <1>8, <1>9, <1>10, <1>11, <1>12 DEF Next

\* The coupling of the two readers holds in every behaviour.
LEMMA DataHolds == ASSUME ~FlatTail PROVE Spec => []DataInv
<1>1. ControlInv /\ DataInv /\ [Next]_vars => DataInv'
  BY NextData
<1>2. QED
  BY <1>1, InitData, ControlHolds, PTL DEF Spec

\* A stream closed as complete has given its client the answer Aggregate makes
\* of the same response.
THEOREM StreamsMatchAssembly == ASSUME ~FlatTail PROVE Spec => []StreamMatchesAssembly
<1>1. DataInv => StreamMatchesAssembly
  BY DEF DataInv, StreamMatchesAssembly
<1>2. QED
  BY <1>1, DataHolds, PTL

\* A client sees no call before the verdict, and then whole calls: half ones
\* only if the verdict is not "length".
THEOREM CallsWaitForVerdict == ASSUME ~FlatTail PROVE Spec => []CallsAwaitVerdict
<1>1. DataInv => CallsAwaitVerdict
  <2> SUFFICES ASSUME DataInv PROVE CallsAwaitVerdict
    OBVIOUS
  <2>1. IsArguments(assembly.args) /\ IsChunk(assembly)
    BY DEF DataInv, IsChunk
  <2>2. client.args # NoCalls => Finished \/ sawDone
    BY DEF DataInv, CallsDecided
  <2>3. ASSUME NEW c \in DOMAIN client.args
        PROVE  /\ client.args[c] = ArgumentsIn(assembly.args, c)
               /\ assembly.finish = "length" => ~Truncated(client.args[c])
    <3>1. client.args = Assembled.args
      BY DEF DataInv, CallsDecided, NoCalls
    <3>2. client.args = IF assembly.finish = "length"
                          THEN DropTruncated(assembly.args) ELSE assembly.args
      BY <2>1, <3>1, AssembledArgs
    <3>3. QED
      BY <2>1, <3>2, DropType DEF ArgumentsIn
  <2>4. QED
    BY <2>2, <2>3 DEF CallsAwaitVerdict
<1>2. QED
  BY <1>1, DataHolds, PTL

(***************************************************************************)
(* The types, flat tails included.                                         *)
(***************************************************************************)
TypesInv ==
  /\ IsArguments(hold) /\ IsChunk(client) /\ IsChunk(assembly)
  /\ frames \in 0..MaxFrames

\* What the client has is a chunk, however many of at most two it was given.
LEMMA EmitType ==
  ASSUME IsChunk(client), NEW fs, Emit(fs),
         \/ fs = <<>>
         \/ \E x : IsChunk(x) /\ fs = <<x>>
         \/ \E x, y : IsChunk(x) /\ IsChunk(y) /\ fs = <<x>> \o <<y>>
  PROVE  IsChunk(client')
<1>1. CASE fs = <<>>
  <2>1. DOMAIN <<>> = {}
    OBVIOUS
  <2>2. QED
    BY <1>1, <2>1, Taken DEF Emit
<1>2. CASE \E x : IsChunk(x) /\ fs = <<x>>
  <2>1. PICK x : IsChunk(x) /\ fs = <<x>>
    BY <1>2
  <2>2. \A i \in DOMAIN <<x>> : i = 1
    OBVIOUS
  <2>3. client' = Absorb(client, x) \/ client' = client
    BY <2>1, <2>2, Taken DEF Emit
  <2>4. QED
    BY <2>1, <2>3, AbsorbType
<1>3. CASE \E x, y : IsChunk(x) /\ IsChunk(y) /\ fs = <<x>> \o <<y>>
  <2>1. PICK x, y : IsChunk(x) /\ IsChunk(y) /\ fs = <<x>> \o <<y>>
    BY <1>3
  <2>2. IsChunk(Absorb(client, x)) /\ IsChunk(Absorb(Absorb(client, x), y))
    BY <2>1, AbsorbType
  <2>3. CASE client' = AbsorbAll(client, fs)
    <3>1. AbsorbAll(client, <<x>> \o <<y>>) = Absorb(Absorb(client, x), y)
      BY Taken
    <3>2. AbsorbAll(client, fs) = Absorb(Absorb(client, x), y)
      BY <2>1, <3>1, Zenon
    <3>3. QED
      BY <2>2, <2>3, <3>2
  <2>4. CASE \E i \in DOMAIN fs : client' = AbsorbAll(client, SubSeq(fs, 1, i - 1))
    <3>1. DOMAIN fs = 1..2
      BY <2>1, Taken
    <3>2. PICK i \in 1..2 : client' = AbsorbAll(client, SubSeq(fs, 1, i - 1))
      BY <2>4, <3>1
    <3>3. i - 1 = 0 \/ i - 1 = 1
      OBVIOUS
    <3>4. /\ AbsorbAll(client, SubSeq(<<x>> \o <<y>>, 1, 0)) = client
          /\ AbsorbAll(client, SubSeq(<<x>> \o <<y>>, 1, 1)) = Absorb(client, x)
      BY Taken
    <3>5. /\ AbsorbAll(client, SubSeq(fs, 1, 0)) = client
          /\ AbsorbAll(client, SubSeq(fs, 1, 1)) = Absorb(client, x)
      BY <2>1, <3>4, Zenon
    <3>6. QED
      BY <2>2, <3>2, <3>3, <3>5
  <2>5. QED
    BY <2>3, <2>4 DEF Emit
<1>4. QED
  BY <1>1, <1>2, <1>3

\* What is let go is nothing or one chunk.
LEMMA FlushType ==
  ASSUME NEW held, IsArguments(held), NEW filter \in BOOLEAN
  PROVE  Flush(held, filter) = <<>> \/ \E x : IsChunk(x) /\ Flush(held, filter) = <<x>>
<1> DEFINE kept == IF filter THEN DropTruncated(held) ELSE held
           calls == [Blank EXCEPT !.args = kept]
<1>1. IsArguments(kept)
  BY DropType
<1>2. IsChunk(calls)
  BY <1>1 DEF Blank, IsChunk
<1>3. Flush(held, filter) = <<>> \/ Flush(held, filter) = <<calls>>
  BY DEF Flush
<1>4. QED
  BY <1>2, <1>3

\* A frame of any kind leaves chunks and arguments behind.
LEMMA DataTypes == ASSUME TypesInv, NEW f \in Frames, Data(f) PROVE TypesInv'
<1> DEFINE chunk == NormalizeChunk(f)
           rest == [chunk EXCEPT !.args = NoCalls]
           all == Merge(hold, chunk.args)
<1>1. IsChunk(f) /\ IsChunk(chunk) /\ IsChunk(client) /\ IsChunk(assembly)
  BY FrameAssumption, NormalizeType DEF TypesInv
<1>2. IsArguments(all) /\ IsArguments(hold')
  <2>1. IsArguments(all)
    BY <1>1, MergeType DEF TypesInv, IsChunk
  <2>2. hold' = all \/ hold' = NoCalls
    BY DEF Data, Held
  <2>3. QED
    BY <2>1, <2>2, NoCallsType
<1>3. IsChunk(rest)
  BY <1>1, NoCallsType DEF IsChunk
<1>4. IsChunk(assembly') /\ frames' \in 0..MaxFrames
  BY <1>1, AbsorbType, FrameAssumption DEF Data, TypesInv
<1>5. IsChunk(client')
  <2> DEFINE fs == Feed(all, chunk)
             out == Flush(all, chunk.finish = "length")
  <2>1. Emit(fs)
    BY DEF Data
  <2>2. out = <<>> \/ \E x : IsChunk(x) /\ out = <<x>>
    BY <1>2, FlushType
  <2>3. fs = <<chunk>> \/ fs = out \o <<rest>> \/ fs = <<rest>> \/ fs = <<>>
    BY DEF Feed
  <2>4. fs = out \o <<rest>> =>
          fs = <<rest>> \/ \E x, y : IsChunk(x) /\ IsChunk(y) /\ fs = <<x>> \o <<y>>
    <3>1. CASE out = <<>>
      BY <3>1, Taken
    <3>2. CASE \E x : IsChunk(x) /\ out = <<x>>
      <4>1. PICK x : IsChunk(x) /\ out = <<x>>
        BY <3>2
      <4> HIDE DEF out, rest
      <4>2. fs = out \o <<rest>> => fs = <<x>> \o <<rest>>
        BY <4>1
      <4>3. QED
        BY <1>3, <4>1, <4>2
    <3>3. QED
      BY <2>2, <3>1, <3>2
  <2> HIDE DEF fs, out, chunk, rest
  <2>5. QED
    BY <1>1, <1>3, <2>1, <2>3, <2>4, EmitType
<1>6. QED
  BY <1>2, <1>4, <1>5 DEF TypesInv

\* Every step keeps the types.
LEMMA NextTypes == TypesInv /\ [Next]_vars => TypesInv'
<1> SUFFICES ASSUME TypesInv, [Next]_vars PROVE TypesInv'
  OBVIOUS
<1> USE DEF TypesInv, pump
<1>1. CASE Refuse \/ Begin \/ Rejected \/ EmptyBody
  BY <1>1 DEF Refuse, Begin, Rejected, EmptyBody
<1>2. CASE Opened
  BY <1>2, BlankType, NoCallsType DEF Opened
<1>3. ASSUME NEW f \in Frames, Data(f) PROVE TypesInv'
  BY <1>3, DataTypes
<1>4. CASE Garbage
  BY <1>4 DEF Garbage
<1>5. CASE Done
  <2>1. client' = AbsorbAll(client, Flush(hold, FALSE)) \/ client' = client
    BY <1>5 DEF Done
  <2>2. IsChunk(AbsorbAll(client, Flush(hold, FALSE)))
    <3>1. CASE Flush(hold, FALSE) = <<>>
      BY <3>1, Taken
    <3>2. CASE \E x : IsChunk(x) /\ Flush(hold, FALSE) = <<x>>
      <4>1. PICK x : IsChunk(x) /\ Flush(hold, FALSE) = <<x>>
        BY <3>2
      <4>2. AbsorbAll(client, Flush(hold, FALSE)) = Absorb(client, x)
        <5>1. AbsorbAll(client, <<x>>) = Absorb(client, x)
          BY Taken
        <5>2. QED
          BY <4>1, <5>1
      <4>3. IsChunk(Absorb(client, x))
        <5> HIDE DEF TypesInv
        <5>1. IsChunk(client)
          BY DEF TypesInv
        <5>2. QED
          BY <4>1, <5>1, AbsorbType
      <4>4. QED
        BY <4>2, <4>3
    <3>3. QED
      BY <3>1, <3>2, FlushType
  <2>3. QED
    BY <1>5, <2>1, <2>2, NoCallsType DEF Done
<1>6. CASE EndOfStream \/ ReadError \/ Report
  BY <1>6, NoCallsType DEF EndOfStream, ReadError, Report
<1>7. CASE Over \/ UNCHANGED vars
  BY <1>7 DEF Over, vars
<1>8. QED
  BY <1>1, <1>2, <1>3, <1>4, <1>5, <1>6, <1>7 DEF Next

\* The variables have their types, the stream is closed at most twice, and only
\* when the pump is done, whatever the upstream sends.
THEOREM StreamTypesHold == Spec => []StreamTypeOK
<1>1. Init => TypesInv
  BY BlankType, NoCallsType, FrameAssumption DEF Init, TypesInv
<1>2. ControlInv /\ TypesInv => StreamTypeOK
  <2> SUFFICES ASSUME ControlInv, TypesInv PROVE StreamTypeOK
    OBVIOUS
  <2>1. closes \in {<<>>, <<"clean">>, <<"error">>, <<"error", "error">>}
    <3>1. pc \in {"enter", "attempt", "pump", "report", "over"}
      BY DEF ControlInv
    <3>2. QED
      BY <3>1 DEF ControlInv
  <2>2. closes \in Seq({"clean", "error"}) /\ Len(closes) <= 2
    <3>1. /\ <<>> \in Seq({"clean", "error"}) /\ Len(<<>>) = 0
          /\ <<"clean">> \in Seq({"clean", "error"}) /\ Len(<<"clean">>) = 1
          /\ <<"error">> \in Seq({"clean", "error"}) /\ Len(<<"error">>) = 1
      OBVIOUS
    <3>2. <<"error", "error">> \in Seq({"clean", "error"}) /\ Len(<<"error", "error">>) = 2
      OBVIOUS
    <3>3. QED
      <4>1. 0 <= 2 /\ 1 <= 2 /\ 2 <= 2
        OBVIOUS
      <4>2. QED
        BY <2>1, <3>1, <3>2, <4>1, Zenon
  <2>3. QED
    BY <2>2 DEF ControlInv, TypesInv, StreamTypeOK, Errors
<1>3. QED
  BY <1>1, <1>2, NextTypes, ControlHolds, PTL DEF Spec
=============================================================================
