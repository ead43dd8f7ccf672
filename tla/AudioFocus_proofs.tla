-------------------------- MODULE AudioFocus_proofs --------------------------
(***************************************************************************)
(* Proofs about AudioFocus, for any number of devices and any number of     *)
(* messages in flight.                                                      *)
(***************************************************************************)
EXTENDS AudioFocus, SequenceTheorems, TLAPS

USE FocusAssumption, AudioAssumption

Shapes   == {<<>>, <<Music>>, <<Call>>, <<Music, Call>>}
Messages == {Request(Call), Release(Call), Request(Music), Release(Music)}

-----------------------------------------------------------------------------
(* What the audio manager's operators do to the four shapes of its stack.   *)

(* The two entries and the four messages of the audio manager's queue are   *)
(* told apart by the fields ProcessEvent looks at.                          *)
LEMMA Entries ==
    /\ Call.profile = HFP_CLIENT /\ Call.type = "TRANSIENT"
    /\ Music.profile = A2DP_SINK /\ Music.type = "PERMANENT"
    /\ Call # Music
BY DEF Call, Music, Entry

(* AddNewNode puts an entry on top of an array that is not full.            *)
LEMMA AddToEmpty == ASSUME NEW e PROVE AddNewNode(<<>>, e) = <<e>>
BY DEF AddNewNode

(* With two places or more there is room above one entry.                   *)
LEMMA AddToOne ==
    ASSUME NEW a, NEW e
    PROVE  AddNewNode(<<a>>, e) = <<a, e>>
<1>1. Len(<<a>>) = 1
  OBVIOUS
<1>2. Len(<<a>>) # MAX_PROFILE_ENTRIES
  BY <1>1
<1>3. AddNewNode(<<a>>, e) = Append(<<a>>, e)
  BY <1>2 DEF AddNewNode
<1>4. /\ <<a>> \in Seq({a, e}) /\ <<a, e>> \in Seq({a, e})
      /\ Append(<<a>>, e) \in Seq({a, e})
  OBVIOUS
<1>5. Len(Append(<<a>>, e)) = 2 /\ Len(<<a, e>>) = 2
  OBVIOUS
<1>6. \A i \in 1..2 : Append(<<a>>, e)[i] = <<a, e>>[i]
  OBVIOUS
<1>7. Append(<<a>>, e) = <<a, e>>
  BY <1>4, <1>5, <1>6, SeqEqual
<1> QED
  BY <1>3, <1>7

(* RemoveNode closes the gap.                                               *)
LEMMA RemoveOnly == ASSUME NEW a PROVE RemoveNode(<<a>>, 1) = <<>>
BY DEF RemoveNode

(* Of two entries the other one is left.                                    *)
LEMMA RemoveOfTwo ==
    ASSUME NEW a, NEW b
    PROVE  RemoveNode(<<a, b>>, 1) = <<b>> /\ RemoveNode(<<a, b>>, 2) = <<a>>
<1>1. Len(<<a, b>>) - 1 = 1
  OBVIOUS
<1>2. RemoveNode(<<a, b>>, 1) = [j \in 1..1 |-> b]
  BY <1>1 DEF RemoveNode
<1>3. RemoveNode(<<a, b>>, 2) = [j \in 1..1 |-> a]
  BY <1>1 DEF RemoveNode
<1>4. ASSUME NEW c PROVE [j \in 1..1 |-> c] = <<c>>
  OBVIOUS
<1> QED
  BY <1>2, <1>3, <1>4

(* GetIndex finds the one entry of a profile in each shape.                 *)
LEMMA IndexInShape ==
    /\ \A p : GetIndex(<<>>, p) = 0
    /\ GetIndex(<<Music>>, A2DP_SINK) = 1 /\ GetIndex(<<Music>>, HFP_CLIENT) = 0
    /\ GetIndex(<<Call>>, HFP_CLIENT) = 1 /\ GetIndex(<<Call>>, A2DP_SINK) = 0
    /\ GetIndex(<<Music, Call>>, A2DP_SINK) = 1
    /\ GetIndex(<<Music, Call>>, HFP_CLIENT) = 2
<1>1. \A p : GetIndex(<<>>, p) = 0
  BY DEF GetIndex
<1>2. \A e : Len(<<e>>) = 1 /\ 1..Len(<<e>>) = {1} /\ <<e>>[1] = e
  OBVIOUS
<1>3. /\ Len(<<Music, Call>>) = 2 /\ 1..Len(<<Music, Call>>) = {1, 2}
      /\ <<Music, Call>>[1] = Music /\ <<Music, Call>>[2] = Call
  OBVIOUS
<1>4. GetIndex(<<Music>>, A2DP_SINK) = 1 /\ GetIndex(<<Music>>, HFP_CLIENT) = 0
  BY <1>2, Entries DEF GetIndex
<1>5. GetIndex(<<Call>>, HFP_CLIENT) = 1 /\ GetIndex(<<Call>>, A2DP_SINK) = 0
  BY <1>2, Entries DEF GetIndex
<1>6. GetIndex(<<Music, Call>>, A2DP_SINK) = 1
  BY <1>3, Entries DEF GetIndex
<1>7. GetIndex(<<Music, Call>>, HFP_CLIENT) = 2
  BY <1>3, Entries DEF GetIndex
<1> QED
  BY <1>1, <1>4, <1>5, <1>6, <1>7

(* What a call's request makes of each shape, and whom it tells.            *)
LEMMA CallRequested ==
    /\ OnRequest(<<>>, Call) = Outcome(<<Call>>, {Granted(Call)})
    /\ OnRequest(<<Music>>, Call)
         = Outcome(<<Music, Call>>, {Tell(A2DP_SINK, "LOSS_TRANSIENT"), Granted(Call)})
    /\ OnRequest(<<Call>>, Call) = Outcome(<<Call>>, {Granted(Call)})
    /\ OnRequest(<<Music, Call>>, Call) = Outcome(<<Music, Call>>, {Granted(Call)})
<1>1. OnRequest(<<>>, Call) = Outcome(<<Call>>, {Granted(Call)})
  BY AddToEmpty DEF OnRequest
<1>2. Top(<<Music>>) = Music /\ Top(<<Call>>) = Call /\ Top(<<Music, Call>>) = Call
  BY DEF Top
<1>3. <<Music>> # <<>> /\ <<Call>> # <<>> /\ <<Music, Call>> # <<>> /\ Len(<<Music>>) = 1
  OBVIOUS
<1>4. Interrupt(<<Music>>, Call)
         = Outcome(<<Music, Call>>, {Tell(A2DP_SINK, "LOSS_TRANSIENT"), Granted(Call)})
  BY <1>2, <1>3, AddToOne, Entries DEF Interrupt
<1>5. OnRequest(<<Music>>, Call) = Interrupt(<<Music>>, Call)
  BY <1>2, <1>3, Entries DEF OnRequest
<1>6. OnRequest(<<Call>>, Call) = Outcome(<<Call>>, {Granted(Call)})
  BY <1>2, <1>3, Entries DEF OnRequest
<1>7. OnRequest(<<Music, Call>>, Call) = Outcome(<<Music, Call>>, {Granted(Call)})
  BY <1>2, <1>3, Entries DEF OnRequest
<1> QED
  BY <1>1, <1>4, <1>5, <1>6, <1>7

(* What a request for music makes of each shape; a call on top denies it.   *)
LEMMA MusicRequested ==
    /\ OnRequest(<<>>, Music) = Outcome(<<Music>>, {Granted(Music)})
    /\ OnRequest(<<Music>>, Music) = Outcome(<<Music>>, {Granted(Music)})
    /\ OnRequest(<<Call>>, Music) = Outcome(<<Call>>, {Tell(A2DP_SINK, "LOSS_TRANSIENT")})
    /\ OnRequest(<<Music, Call>>, Music)
         = Outcome(<<Music, Call>>, {Tell(A2DP_SINK, "LOSS_TRANSIENT")})
<1>1. OnRequest(<<>>, Music) = Outcome(<<Music>>, {Granted(Music)})
  BY AddToEmpty DEF OnRequest
<1>2. Top(<<Music>>) = Music /\ Top(<<Call>>) = Call /\ Top(<<Music, Call>>) = Call
  BY DEF Top
<1>3. <<Music>> # <<>> /\ <<Call>> # <<>> /\ <<Music, Call>> # <<>>
  OBVIOUS
<1>4. OnRequest(<<Music>>, Music) = Outcome(<<Music>>, {Granted(Music)})
  BY <1>2, <1>3, Entries DEF OnRequest
<1>5. OnRequest(<<Call>>, Music) = Outcome(<<Call>>, {Tell(A2DP_SINK, "LOSS_TRANSIENT")})
  BY <1>2, <1>3, Entries DEF OnRequest
<1>6. OnRequest(<<Music, Call>>, Music)
         = Outcome(<<Music, Call>>, {Tell(A2DP_SINK, "LOSS_TRANSIENT")})
  BY <1>2, <1>3, Entries DEF OnRequest
<1> QED
  BY <1>1, <1>4, <1>5, <1>6

(* What a release of the call makes of each shape, and whom it tells.       *)
LEMMA CallReleased ==
    /\ OnRelease(<<>>, HFP_CLIENT) = Outcome(<<>>, {})
    /\ OnRelease(<<Music>>, HFP_CLIENT) = Outcome(<<Music>>, {})
    /\ OnRelease(<<Call>>, HFP_CLIENT) = Outcome(<<>>, {})
    /\ OnRelease(<<Music, Call>>, HFP_CLIENT)
         = Outcome(<<Music>>, {Tell(A2DP_SINK, "REGAINED")})
<1>1. OnRelease(<<>>, HFP_CLIENT) = Outcome(<<>>, {})
  BY IndexInShape DEF OnRelease
<1>2. OnRelease(<<Music>>, HFP_CLIENT) = Outcome(<<Music>>, {})
  BY IndexInShape DEF OnRelease
<1>3. OnRelease(<<Call>>, HFP_CLIENT) = Outcome(<<>>, {})
  BY IndexInShape, RemoveOnly DEF OnRelease
<1>4. OnRelease(<<Music, Call>>, HFP_CLIENT)
         = Outcome(<<Music>>, {Tell(A2DP_SINK, "REGAINED")})
  <2> DEFINE both == <<Music, Call>>
  <2>1. GetIndex(both, HFP_CLIENT) = 2 /\ RemoveNode(both, 2) = <<Music>>
    BY IndexInShape, RemoveOfTwo
  <2>2. Len(both) = 2 /\ both[2].type = "TRANSIENT" /\ both[1].profile = A2DP_SINK
    BY Entries
  <2> HIDE DEF both
  <2>3. OnRelease(both, HFP_CLIENT) = Outcome(RemoveNode(both, 2), {Tell(A2DP_SINK, "REGAINED")})
    BY <2>1, <2>2 DEF OnRelease
  <2> QED
    BY <2>1, <2>3 DEF both
<1> QED
  BY <1>1, <1>2, <1>3, <1>4

(* What a release of the music makes of each shape; nobody is told.         *)
LEMMA MusicReleased ==
    /\ OnRelease(<<>>, A2DP_SINK) = Outcome(<<>>, {})
    /\ OnRelease(<<Music>>, A2DP_SINK) = Outcome(<<>>, {})
    /\ OnRelease(<<Call>>, A2DP_SINK) = Outcome(<<Call>>, {})
    /\ OnRelease(<<Music, Call>>, A2DP_SINK) = Outcome(<<Call>>, {})
<1>1. OnRelease(<<>>, A2DP_SINK) = Outcome(<<>>, {})
  BY IndexInShape DEF OnRelease
<1>2. OnRelease(<<Music>>, A2DP_SINK) = Outcome(<<>>, {})
  BY IndexInShape, RemoveOnly DEF OnRelease
<1>3. OnRelease(<<Call>>, A2DP_SINK) = Outcome(<<Call>>, {})
  BY IndexInShape DEF OnRelease
<1>4. Len(<<Music, Call>>) = 2
  OBVIOUS
<1>5. OnRelease(<<Music, Call>>, A2DP_SINK) = Outcome(<<Call>>, {})
  BY <1>4, IndexInShape, RemoveOfTwo DEF OnRelease
<1> QED
  BY <1>1, <1>2, <1>3, <1>5

(* Who is on the stack in each shape.                                       *)
LEMMA HoldsInShape ==
    /\ \A p : ~Holds(<<>>, p)
    /\ Holds(<<Call>>, HFP_CLIENT) /\ ~Holds(<<Music>>, HFP_CLIENT)
    /\ Holds(<<Music, Call>>, HFP_CLIENT)
<1>1. \A p : ~Holds(<<>>, p)
  BY DEF Holds
<1>2. Holds(<<Call>>, HFP_CLIENT) /\ ~Holds(<<Music>>, HFP_CLIENT)
  <2>1. \A e : Len(<<e>>) = 1 /\ 1..Len(<<e>>) = {1} /\ <<e>>[1] = e
    OBVIOUS
  <2> QED
    BY <2>1, Entries DEF Holds
<1>3. Holds(<<Music, Call>>, HFP_CLIENT)
  <2>1. 2 \in 1..Len(<<Music, Call>>) /\ <<Music, Call>>[2].profile = HFP_CLIENT
    BY Entries
  <2> QED
    BY <2>1 DEF Holds
<1> QED
  BY <1>1, <1>2, <1>3

-----------------------------------------------------------------------------
(* One message of the audio manager.                                        *)

(* SendControlStatusMessage posts the status to the profile it names.       *)
LEMMA DeliverTo ==
    ASSUME NEW q, NEW p, NEW status, NEW told,
           Tell(p, status) \in told, \A t \in told : t.profile = p => t = Tell(p, status)
    PROVE  Deliver(q, p, told) = Append(q, status)
<1>1. Tell(p, status).profile = p /\ Tell(p, status).status = status
  BY DEF Tell
<1>2. (CHOOSE t \in told : t.profile = p) = Tell(p, status)
  BY <1>1
<1> QED
  BY <1>1, <1>2 DEF Deliver

(* It posts nothing to a profile it does not name.                          *)
LEMMA DeliverPast ==
    ASSUME NEW q, NEW p, NEW told, \A t \in told : t.profile # p
    PROVE  Deliver(q, p, told) = q
BY DEF Deliver

(* ProcessEvent, message by message and shape by shape: the HFP client is   *)
(* told GAIN_TRANSIENT for every request and nothing else, and the sink's   *)
(* streaming thread is told its new place.                                  *)
LEMMA ManagerSteps ==
    ASSUME amQ \in Seq(Messages), StackShape, AudioManagerHandles
    PROVE  /\ Head(amQ) \in Messages
           /\ Head(amQ) = Request(Call) =>
                /\ hfpQ' = Append(hfpQ, "GAIN_TRANSIENT")
                /\ \/ /\ audio_control_stack \in {<<>>, <<Call>>}
                      /\ audio_control_stack' = <<Call>> /\ streamQ' = streamQ
                   \/ /\ audio_control_stack = <<Music>>
                      /\ audio_control_stack' = <<Music, Call>>
                      /\ streamQ' = Append(streamQ, "LOSS_TRANSIENT")
                   \/ /\ audio_control_stack = <<Music, Call>>
                      /\ audio_control_stack' = <<Music, Call>> /\ streamQ' = streamQ
           /\ Head(amQ) = Release(Call) =>
                /\ hfpQ' = hfpQ
                /\ \/ /\ audio_control_stack \in {<<>>, <<Call>>}
                      /\ audio_control_stack' = <<>> /\ streamQ' = streamQ
                   \/ /\ audio_control_stack = <<Music>>
                      /\ audio_control_stack' = <<Music>> /\ streamQ' = streamQ
                   \/ /\ audio_control_stack = <<Music, Call>>
                      /\ audio_control_stack' = <<Music>>
                      /\ streamQ' = Append(streamQ, "REGAINED")
           /\ Head(amQ) = Request(Music) =>
                /\ hfpQ' = hfpQ
                /\ \/ /\ audio_control_stack \in {<<>>, <<Music>>}
                      /\ audio_control_stack' = <<Music>>
                      /\ streamQ' = Append(streamQ, "GAIN")
                   \/ /\ audio_control_stack \in {<<Call>>, <<Music, Call>>}
                      /\ audio_control_stack' = audio_control_stack
                      /\ streamQ' = Append(streamQ, "LOSS_TRANSIENT")
           /\ Head(amQ) = Release(Music) =>
                /\ hfpQ' = hfpQ /\ streamQ' = streamQ
                /\ \/ /\ audio_control_stack \in {<<>>, <<Music>>}
                      /\ audio_control_stack' = <<>>
                   \/ /\ audio_control_stack \in {<<Call>>, <<Music, Call>>}
                      /\ audio_control_stack' = <<Call>>
<1> DEFINE msg == Head(amQ)
           result == IF msg.event = "REQUEST"
                     THEN OnRequest(audio_control_stack, msg.entry)
                     ELSE OnRelease(audio_control_stack, msg.entry.profile)
<1>0. HFP_CLIENT # A2DP_SINK
  OBVIOUS
<1>1. msg \in Messages
  BY DEF AudioManagerHandles
<1>2. /\ audio_control_stack' = result.stack
      /\ hfpQ' = Deliver(hfpQ, HFP_CLIENT, result.told)
      /\ streamQ' = Deliver(streamQ, A2DP_SINK, result.told)
  BY DEF AudioManagerHandles
<1>3. \A s, told : Outcome(s, told).stack = s /\ Outcome(s, told).told = told
  BY DEF Outcome
<1>4. Granted(Call) = Tell(HFP_CLIENT, "GAIN_TRANSIENT") /\ Granted(Music) = Tell(A2DP_SINK, "GAIN")
  BY Entries DEF Granted
<1>5. audio_control_stack \in Shapes
  BY DEF StackShape, Shapes
<1>6. ASSUME NEW s, NEW told, result = Outcome(s, told)
      PROVE  /\ audio_control_stack' = s
             /\ hfpQ' = Deliver(hfpQ, HFP_CLIENT, told)
             /\ streamQ' = Deliver(streamQ, A2DP_SINK, told)
  BY <1>2, <1>3, <1>6
<1> HIDE DEF result
<1>7. ASSUME NEW s, result = Outcome(s, {})
      PROVE  audio_control_stack' = s /\ hfpQ' = hfpQ /\ streamQ' = streamQ
  BY <1>6, <1>7, DeliverPast
<1>8. ASSUME NEW s, result = Outcome(s, {Granted(Call)})
      PROVE  /\ audio_control_stack' = s
             /\ hfpQ' = Append(hfpQ, "GAIN_TRANSIENT") /\ streamQ' = streamQ
  <2> DEFINE told == {Granted(Call)}
  <2>1. \A t \in told : t = Tell(HFP_CLIENT, "GAIN_TRANSIENT") /\ t.profile # A2DP_SINK
    BY <1>0, <1>4 DEF Tell
  <2>2. Tell(HFP_CLIENT, "GAIN_TRANSIENT") \in told
    BY <1>4
  <2> HIDE DEF told
  <2>3. Deliver(hfpQ, HFP_CLIENT, told) = Append(hfpQ, "GAIN_TRANSIENT")
    BY <2>1, <2>2, DeliverTo
  <2>4. Deliver(streamQ, A2DP_SINK, told) = streamQ
    BY <2>1, DeliverPast
  <2> QED
    BY <1>6, <1>8, <2>3, <2>4 DEF told
<1>9. ASSUME NEW s, NEW status, result = Outcome(s, {Tell(A2DP_SINK, status)})
      PROVE  /\ audio_control_stack' = s
             /\ hfpQ' = hfpQ /\ streamQ' = Append(streamQ, status)
  <2> DEFINE told == {Tell(A2DP_SINK, status)}
  <2>1. \A t \in told : t = Tell(A2DP_SINK, status) /\ t.profile # HFP_CLIENT
    BY <1>0 DEF Tell
  <2>2. Tell(A2DP_SINK, status) \in told
    OBVIOUS
  <2> HIDE DEF told
  <2>3. Deliver(hfpQ, HFP_CLIENT, told) = hfpQ
    BY <2>1, DeliverPast
  <2>4. Deliver(streamQ, A2DP_SINK, told) = Append(streamQ, status)
    BY <2>1, <2>2, DeliverTo
  <2> QED
    BY <1>6, <1>9, <2>3, <2>4 DEF told
<1>10. ASSUME NEW s, NEW status,
              result = Outcome(s, {Tell(A2DP_SINK, status), Granted(Call)})
      PROVE  /\ audio_control_stack' = s
             /\ hfpQ' = Append(hfpQ, "GAIN_TRANSIENT")
             /\ streamQ' = Append(streamQ, status)
  <2> DEFINE told == {Tell(A2DP_SINK, status), Granted(Call)}
             call == Tell(HFP_CLIENT, "GAIN_TRANSIENT")
             music == Tell(A2DP_SINK, status)
  <2>1. \A t \in told : t = call \/ t = music
    BY <1>4
  <2>2. call \in told /\ music \in told
    BY <1>4
  <2>3. call.profile = HFP_CLIENT /\ music.profile = A2DP_SINK
    BY DEF Tell
  <2> HIDE DEF told
  <2>4. Deliver(hfpQ, HFP_CLIENT, told) = Append(hfpQ, "GAIN_TRANSIENT")
    BY <1>0, <2>1, <2>2, <2>3, DeliverTo
  <2>5. Deliver(streamQ, A2DP_SINK, told) = Append(streamQ, status)
    BY <1>0, <2>1, <2>2, <2>3, DeliverTo
  <2> QED
    BY <1>6, <1>10, <2>4, <2>5 DEF told
<1>11. ASSUME msg = Request(Call)
       PROVE  /\ hfpQ' = Append(hfpQ, "GAIN_TRANSIENT")
              /\ \/ /\ audio_control_stack \in {<<>>, <<Call>>}
                    /\ audio_control_stack' = <<Call>> /\ streamQ' = streamQ
                 \/ /\ audio_control_stack = <<Music>>
                    /\ audio_control_stack' = <<Music, Call>>
                    /\ streamQ' = Append(streamQ, "LOSS_TRANSIENT")
                 \/ /\ audio_control_stack = <<Music, Call>>
                    /\ audio_control_stack' = <<Music, Call>> /\ streamQ' = streamQ
  <2>1. result = OnRequest(audio_control_stack, Call)
    BY <1>11, Entries DEF result, Request
  <2>2. CASE audio_control_stack = <<>>
    <3>1. result = Outcome(<<Call>>, {Granted(Call)})
      BY <2>1, <2>2, CallRequested
    <3> QED
      BY <2>2, <3>1, <1>8
  <2>3. CASE audio_control_stack = <<Music>>
    <3>1. result = Outcome(<<Music, Call>>, {Tell(A2DP_SINK, "LOSS_TRANSIENT"), Granted(Call)})
      BY <2>1, <2>3, CallRequested
    <3> QED
      BY <2>3, <3>1, <1>10
  <2>4. CASE audio_control_stack = <<Call>>
    <3>1. result = Outcome(<<Call>>, {Granted(Call)})
      BY <2>1, <2>4, CallRequested
    <3> QED
      BY <2>4, <3>1, <1>8
  <2>5. CASE audio_control_stack = <<Music, Call>>
    <3>1. result = Outcome(<<Music, Call>>, {Granted(Call)})
      BY <2>1, <2>5, CallRequested
    <3> QED
      BY <2>5, <3>1, <1>8
  <2> QED
    BY <1>5, <2>2, <2>3, <2>4, <2>5 DEF Shapes
<1>12. ASSUME msg = Release(Call)
       PROVE  /\ hfpQ' = hfpQ
              /\ \/ /\ audio_control_stack \in {<<>>, <<Call>>}
                    /\ audio_control_stack' = <<>> /\ streamQ' = streamQ
                 \/ /\ audio_control_stack = <<Music>>
                    /\ audio_control_stack' = <<Music>> /\ streamQ' = streamQ
                 \/ /\ audio_control_stack = <<Music, Call>>
                    /\ audio_control_stack' = <<Music>>
                    /\ streamQ' = Append(streamQ, "REGAINED")
  <2>1. result = OnRelease(audio_control_stack, HFP_CLIENT)
    BY <1>12, Entries DEF result, Release
  <2>2. CASE audio_control_stack = <<>>
    <3>1. result = Outcome(<<>>, {})
      BY <2>1, <2>2, CallReleased
    <3> QED
      BY <2>2, <3>1, <1>7
  <2>3. CASE audio_control_stack = <<Music>>
    <3>1. result = Outcome(<<Music>>, {})
      BY <2>1, <2>3, CallReleased
    <3> QED
      BY <2>3, <3>1, <1>7
  <2>4. CASE audio_control_stack = <<Call>>
    <3>1. result = Outcome(<<>>, {})
      BY <2>1, <2>4, CallReleased
    <3> QED
      BY <2>4, <3>1, <1>7
  <2>5. CASE audio_control_stack = <<Music, Call>>
    <3>1. result = Outcome(<<Music>>, {Tell(A2DP_SINK, "REGAINED")})
      BY <2>1, <2>5, CallReleased
    <3> QED
      BY <2>5, <3>1, <1>9
  <2> QED
    BY <1>5, <2>2, <2>3, <2>4, <2>5 DEF Shapes
<1>13. ASSUME msg = Request(Music)
       PROVE  /\ hfpQ' = hfpQ
              /\ \/ /\ audio_control_stack \in {<<>>, <<Music>>}
                    /\ audio_control_stack' = <<Music>>
                    /\ streamQ' = Append(streamQ, "GAIN")
                 \/ /\ audio_control_stack \in {<<Call>>, <<Music, Call>>}
                    /\ audio_control_stack' = audio_control_stack
                    /\ streamQ' = Append(streamQ, "LOSS_TRANSIENT")
  <2>1. result = OnRequest(audio_control_stack, Music)
    BY <1>13, Entries DEF result, Request
  <2>2. CASE audio_control_stack = <<>>
    <3>1. result = Outcome(<<Music>>, {Tell(A2DP_SINK, "GAIN")})
      BY <2>1, <2>2, MusicRequested, <1>4
    <3> QED
      BY <2>2, <3>1, <1>9
  <2>3. CASE audio_control_stack = <<Music>>
    <3>1. result = Outcome(<<Music>>, {Tell(A2DP_SINK, "GAIN")})
      BY <2>1, <2>3, MusicRequested, <1>4
    <3> QED
      BY <2>3, <3>1, <1>9
  <2>4. CASE audio_control_stack = <<Call>>
    <3>1. result = Outcome(<<Call>>, {Tell(A2DP_SINK, "LOSS_TRANSIENT")})
      BY <2>1, <2>4, MusicRequested
    <3> QED
      BY <2>4, <3>1, <1>9
  <2>5. CASE audio_control_stack = <<Music, Call>>
    <3>1. result = Outcome(<<Music, Call>>, {Tell(A2DP_SINK, "LOSS_TRANSIENT")})
      BY <2>1, <2>5, MusicRequested
    <3> QED
      BY <2>5, <3>1, <1>9
  <2> QED
    BY <1>5, <2>2, <2>3, <2>4, <2>5 DEF Shapes
<1>14. ASSUME msg = Release(Music)
       PROVE  /\ hfpQ' = hfpQ /\ streamQ' = streamQ
              /\ \/ /\ audio_control_stack \in {<<>>, <<Music>>}
                    /\ audio_control_stack' = <<>>
                 \/ /\ audio_control_stack \in {<<Call>>, <<Music, Call>>}
                    /\ audio_control_stack' = <<Call>>
  <2>1. result = OnRelease(audio_control_stack, A2DP_SINK)
    BY <1>14, Entries DEF result, Release
  <2>2. CASE audio_control_stack = <<>>
    <3>1. result = Outcome(<<>>, {})
      BY <2>1, <2>2, MusicReleased
    <3> QED
      BY <2>2, <3>1, <1>7
  <2>3. CASE audio_control_stack = <<Music>>
    <3>1. result = Outcome(<<>>, {})
      BY <2>1, <2>3, MusicReleased
    <3> QED
      BY <2>3, <3>1, <1>7
  <2>4. CASE audio_control_stack = <<Call>>
    <3>1. result = Outcome(<<Call>>, {})
      BY <2>1, <2>4, MusicReleased
    <3> QED
      BY <2>4, <3>1, <1>7
  <2>5. CASE audio_control_stack = <<Music, Call>>
    <3>1. result = Outcome(<<Call>>, {})
      BY <2>1, <2>5, MusicReleased
    <3> QED
      BY <2>5, <3>1, <1>7
  <2> QED
    BY <1>5, <2>2, <2>3, <2>4, <2>5 DEF Shapes
<1> QED
  BY <1>1, <1>11, <1>12, <1>13, <1>14

-----------------------------------------------------------------------------
(* What the other threads do to the queues and the stack.                   *)

(* The HFP client asks and releases through the audio manager's queue; its  *)
(* mode is NORMAL after a change only if it releases.                       *)
LEMMA HfpSteps ==
    ASSUME HfpEvent
    PROVE  /\ UNCHANGED <<audio_control_stack, hfpQ, streamQ, controlStatus>>
           /\ \/ amQ' = amQ /\ mAudioMode' \in {mAudioMode, "IN_CALL"}
              \/ amQ' = Append(amQ, Request(Call)) /\ mAudioMode' # "NORMAL"
              \/ amQ' = Append(amQ, Release(Call))
<1> USE DEF HfpWorld, OnlyHfp, NoFocusChange, RequestCall, ReleaseCall, streamVars
<1>1. CASE HfpConnectReq
  BY <1>1 DEF HfpConnectReq
<1>2. CASE HfpConnectedCb
  BY <1>2 DEF HfpConnectedCb
<1>3. CASE HfpSlcConnectedCb
  BY <1>3 DEF HfpSlcConnectedCb
<1>4. CASE HfpDisconnectReq
  BY <1>4 DEF HfpDisconnectReq
<1>5. CASE HfpDisconnectingCb
  BY <1>5 DEF HfpDisconnectingCb
<1>6. CASE HfpDisconnectedCb
  BY <1>6 DEF HfpDisconnectedCb
<1>7. CASE HfpAudioConnectedCb
  BY <1>7 DEF HfpAudioConnectedCb
<1>8. CASE HfpAudioDisconnectedCb
  BY <1>8 DEF HfpAudioDisconnectedCb
<1>9. CASE PlayRingtone
  BY <1>9 DEF PlayRingtone
<1>10. CASE StopRingtone
  BY <1>10 DEF StopRingtone
<1> QED
  BY <1>1, <1>2, <1>3, <1>4, <1>5, <1>6, <1>7, <1>8, <1>9, <1>10 DEF HfpEvent

(* The sink's thread only posts commands to the streaming thread.           *)
LEMMA SinkSteps ==
    ASSUME SinkEvent \/ SinkContinues
    PROVE  /\ UNCHANGED <<audio_control_stack, amQ, hfpQ, hfpVars, controlStatus>>
           /\ streamQ' = streamQ \/ \E c \in StreamCommands : streamQ' = Append(streamQ, c)
<1> USE DEF SinkWorld, OnlySink, Post, streamVars, StreamCommands
<1>0. ASSUME NEW d, Erase(d)
      PROVE  streamQ' = streamQ \/ \E c \in StreamCommands : streamQ' = Append(streamQ, c)
  BY <1>0 DEF Erase
<1>1. ASSUME NEW d \in Device, SinkConnecting(d) \/ SinkConnectedCb(d)
      PROVE  UNCHANGED <<audio_control_stack, amQ, hfpQ, hfpVars, controlStatus, streamQ>>
  BY <1>1 DEF SinkConnecting, SinkConnectedCb
<1>2. ASSUME NEW d \in Device, SinkDisconnecting(d)
      PROVE  /\ UNCHANGED <<audio_control_stack, amQ, hfpQ, hfpVars, controlStatus>>
             /\ streamQ' = streamQ \/ streamQ' = Append(streamQ, "CLOSE")
  BY <1>2 DEF SinkDisconnecting
<1>3. ASSUME NEW d \in Device, SinkDisconnectedCb(d)
      PROVE  /\ UNCHANGED <<audio_control_stack, amQ, hfpQ, hfpVars, controlStatus>>
             /\ \/ streamQ' = streamQ
                \/ \E c \in StreamCommands : streamQ' = Append(streamQ, c)
  BY <1>0, <1>3 DEF SinkDisconnectedCb
<1>4. ASSUME NEW d \in Device, SinkAudioStarted(d)
      PROVE  /\ UNCHANGED <<audio_control_stack, amQ, hfpQ, hfpVars, controlStatus>>
             /\ \E c \in StreamCommands : streamQ' = Append(streamQ, c)
  BY <1>4 DEF SinkAudioStarted, Start
<1>5. ASSUME NEW d \in Device, SinkAudioStopped(d)
      PROVE  /\ UNCHANGED <<audio_control_stack, amQ, hfpQ, hfpVars, controlStatus>>
             /\ \E c \in StreamCommands : streamQ' = Append(streamQ, c)
  BY <1>5 DEF SinkAudioStopped
<1>6. ASSUME SinkContinues
      PROVE  /\ UNCHANGED <<audio_control_stack, amQ, hfpQ, hfpVars, controlStatus>>
             /\ \/ streamQ' = streamQ
                \/ \E c \in StreamCommands : streamQ' = Append(streamQ, c)
  BY <1>0, <1>6 DEF SinkContinues, Start
<1> QED
  BY <1>1, <1>2, <1>3, <1>4, <1>5, <1>6 DEF SinkEvent

(* The streaming thread takes one message and asks or releases at most once. *)
LEMMA StreamSteps ==
    ASSUME StreamHandles, amQ \in Seq(Messages)
    PROVE  /\ UNCHANGED <<audio_control_stack, hfpQ, hfpVars>>
           /\ streamQ # <<>> /\ streamQ' = Tail(streamQ)
           /\ \/ Head(streamQ) \in StreamCommands /\ controlStatus' = controlStatus
              \/ Head(streamQ) \in Statuses /\ controlStatus' = Head(streamQ)
           /\ \E m \in {Request(Music), Release(Music)} : amQ' \in {amQ, Append(amQ, m)}
<1>1. amQ \o <<>> = amQ
  OBVIOUS
<1>2. ASSUME NEW m \in Messages PROVE amQ \o <<m>> = Append(amQ, m)
  OBVIOUS
<1>3. Request(Music) \in Messages /\ Release(Music) \in Messages
  BY DEF Messages
<1> USE DEF StreamTakes, ToAudioManager, StreamCommands, Statuses, streamVars
<1>4. CASE StreamClose
  BY <1>2, <1>3, <1>4 DEF StreamClose
<1>5. CASE StreamRequest
  BY <1>2, <1>3, <1>5 DEF StreamRequest
<1>6. CASE StreamRelease
  BY <1>1, <1>2, <1>3, <1>6 DEF StreamRelease
<1>7. CASE StreamDisconnected
  BY <1>7 DEF StreamDisconnected
<1>8. CASE StreamInterrupted
  BY <1>8 DEF StreamInterrupted
<1>9. CASE StreamGains
  BY <1>9 DEF StreamGains
<1>10. CASE StreamRegains
  BY <1>10 DEF StreamRegains
<1> QED
  BY <1>4, <1>5, <1>6, <1>7, <1>8, <1>9, <1>10 DEF StreamHandles

-----------------------------------------------------------------------------
(* The stack and what the HFP client is told.                               *)

(* What a call or the music can ever find in the queues and on the stack.   *)
FocusInv ==
    /\ amQ \in Seq(Messages)
    /\ hfpQ \in Seq({"GAIN_TRANSIENT"})
    /\ streamQ \in Seq(Statuses \union StreamCommands)
    /\ StackShape

(* The stack and the queues are empty after the constructors.               *)
LEMMA InitFocus == Init => FocusInv
BY DEF Init, FocusInv, StackShape

(* Every step keeps the four queues and the stack in these bounds: the      *)
(* requests and releases of both profiles never lead the audio manager out  *)
(* of its four shapes (Audio_Manager.cpp:276 to 351).                       *)
LEMMA StepFocus == ASSUME FocusInv, [Next]_vars PROVE FocusInv'
<1> USE DEF FocusInv
<1>1. CASE AudioManagerHandles
  <2>1. amQ' \in Seq(Messages)
    BY <1>1 DEF AudioManagerHandles
  <2>2. ASSUME NEW c \in Statuses
        PROVE  Append(streamQ, c) \in Seq(Statuses \union StreamCommands)
    OBVIOUS
  <2>3. \A c \in {"LOSS_TRANSIENT", "GAIN", "REGAINED"} : c \in Statuses
    BY DEF Statuses
  <2>4. Append(hfpQ, "GAIN_TRANSIENT") \in Seq({"GAIN_TRANSIENT"})
    OBVIOUS
  <2>5. /\ Head(amQ) \in Messages
        /\ audio_control_stack \in Shapes
    BY <1>1, ManagerSteps DEF StackShape, Shapes
  <2>6. /\ hfpQ' \in {hfpQ, Append(hfpQ, "GAIN_TRANSIENT")}
        /\ \/ streamQ' = streamQ
           \/ \E c \in {"LOSS_TRANSIENT", "GAIN", "REGAINED"} : streamQ' = Append(streamQ, c)
        /\ audio_control_stack' \in Shapes
    BY <1>1, <2>5, ManagerSteps DEF Messages, Shapes
  <2> QED
    BY <2>1, <2>2, <2>3, <2>4, <2>6 DEF StackShape, Shapes
<1>2. CASE HfpControlStatus
  BY <1>2 DEF HfpControlStatus, OnlyHfp, StackShape
<1>3. CASE HfpEvent
  <2>1. ASSUME NEW m \in Messages PROVE Append(amQ, m) \in Seq(Messages)
    OBVIOUS
  <2>2. Request(Call) \in Messages /\ Release(Call) \in Messages
    BY DEF Messages
  <2> QED
    BY <1>3, <2>1, <2>2, HfpSteps DEF StackShape
<1>4. CASE SinkEvent \/ SinkContinues
  <2>1. ASSUME NEW c \in StreamCommands
        PROVE  Append(streamQ, c) \in Seq(Statuses \union StreamCommands)
    OBVIOUS
  <2> QED
    BY <1>4, <2>1, SinkSteps DEF StackShape
<1>5. CASE StreamHandles
  <2>1. ASSUME NEW m \in Messages PROVE Append(amQ, m) \in Seq(Messages)
    OBVIOUS
  <2>2. Request(Music) \in Messages /\ Release(Music) \in Messages
    BY DEF Messages
  <2>3. Tail(streamQ) \in Seq(Statuses \union StreamCommands)
    BY <1>5, StreamSteps
  <2> QED
    BY <1>5, <2>1, <2>2, <2>3, StreamSteps DEF StackShape
<1>6. CASE UNCHANGED vars
  BY <1>6 DEF vars, StackShape
<1> QED
  BY <1>1, <1>2, <1>3, <1>4, <1>5, <1>6 DEF Next

(* The invariant of the queues and the stack, of which the next theorems    *)
(* are parts.                                                               *)
THEOREM FocusBounded == Spec => []FocusInv
BY InitFocus, StepFocus, PTL DEF Spec

(* The two places of audio_control_stack are enough for every run: it never *)
(* holds more than one music entry with one call entry above it, so         *)
(* AddNewNode never drops an entry (Audio_Manager.cpp:218), and the three    *)
(* cases that HfpClient.cpp:836 marks "this should not occur" do not: the    *)
(* HFP client is only ever told GAIN_TRANSIENT.                             *)
THEOREM StackNeverOverflows == Spec => []RoomForEverybody
<1>1. FocusInv => RoomForEverybody
  BY DEF FocusInv, RoomForEverybody, HfpNeverDenied
<1> QED
  BY <1>1, FocusBounded, PTL

-----------------------------------------------------------------------------
(* No call entry stays behind.                                              *)

Own(q) == {i \in 1..Len(q) : q[i].entry.profile = HFP_CLIENT}

(* Claims(HFP_CLIENT) of a queue q and a stack s.                           *)
ClaimsIn(q, s) ==
    IF Own(q) = {} THEN Holds(s, HFP_CLIENT)
    ELSE \E i \in Own(q) : q[i].event = "REQUEST" /\ \A j \in Own(q) : j <= i

(* A message says whose it is and whether it asks.                          *)
LEMMA MessageFields ==
    /\ Request(Call).entry.profile = HFP_CLIENT /\ Request(Call).event = "REQUEST"
    /\ Release(Call).entry.profile = HFP_CLIENT /\ Release(Call).event = "RELEASE"
    /\ Request(Music).entry.profile = A2DP_SINK /\ Release(Music).entry.profile = A2DP_SINK
BY Entries DEF Request, Release

(* After a release by the HFP client it claims nothing any more.            *)
LEMMA ReleaseEndsClaim ==
    ASSUME NEW q \in Seq(Messages), NEW s
    PROVE  ~ClaimsIn(Append(q, Release(Call)), s)
<1> DEFINE r == Append(q, Release(Call))
<1>1. /\ Len(r) = Len(q) + 1 /\ r[Len(q) + 1] = Release(Call)
      /\ Len(q) \in Nat
  BY DEF Messages
<1> HIDE DEF r
<1>2. Len(r) \in Own(r) /\ r[Len(r)].event = "RELEASE"
  BY <1>1, MessageFields DEF Own
<1>3. \A i \in Own(r) : Len(r) <= i => i = Len(r)
  BY <1>1 DEF Own
<1>4. ~ClaimsIn(r, s)
  BY <1>2, <1>3 DEF ClaimsIn
<1> QED
  BY <1>4 DEF r

(* The music's messages change nothing about the call's claim.              *)
LEMMA MusicLeavesClaim ==
    ASSUME NEW q \in Seq(Messages), NEW s,
           NEW m \in {Request(Music), Release(Music)},
           ClaimsIn(Append(q, m), s)
    PROVE  ClaimsIn(q, s)
<1> DEFINE r == Append(q, m)
<1>1. /\ Len(r) = Len(q) + 1 /\ r[Len(q) + 1] = m /\ Len(q) \in Nat
      /\ \A i \in 1..Len(q) : r[i] = q[i]
  BY DEF Messages
<1>2. ClaimsIn(r, s)
  OBVIOUS
<1> HIDE DEF r
<1>3. m.entry.profile # HFP_CLIENT
  BY MessageFields
<1>4. \A i : i \in Own(r) <=> i \in Own(q)
  BY <1>1, <1>3 DEF Own
<1>5. Own(r) = Own(q) /\ \A i \in Own(q) : r[i] = q[i]
  BY <1>1, <1>4 DEF Own
<1> QED
  BY <1>2, <1>5 DEF ClaimsIn

(* The audio manager's step carries a claim from its queue to its stack: it *)
(* never makes one.                                                         *)
LEMMA ManagerMakesNoClaim ==
    ASSUME FocusInv, AudioManagerHandles, ClaimsIn(amQ', audio_control_stack')
    PROVE  ClaimsIn(amQ, audio_control_stack)
<1>1. /\ amQ \in Seq(Messages) /\ amQ # <<>> /\ amQ' = Tail(amQ)
      /\ StackShape /\ audio_control_stack \in Shapes
  BY DEF FocusInv, AudioManagerHandles, StackShape, Shapes
<1>2. /\ Len(amQ') = Len(amQ) - 1 /\ Len(amQ) \in Nat \ {0}
      /\ \A i \in 1..Len(amQ) - 1 : amQ'[i] = amQ[i + 1]
      /\ Head(amQ) = amQ[1]
  BY <1>1
<1>3. \A i \in Own(amQ') : i + 1 \in Own(amQ) /\ amQ'[i] = amQ[i + 1]
  BY <1>2 DEF Own
<1>4. \A j \in Own(amQ) : j = 1 \/ (j - 1 \in Own(amQ') /\ j \in Nat)
  BY <1>2 DEF Own
<1>5. CASE Own(amQ') # {}
  <2>1. PICK i \in Own(amQ') : amQ'[i].event = "REQUEST" /\ \A j \in Own(amQ') : j <= i
    BY <1>5 DEF ClaimsIn
  <2>2. i \in Nat /\ i >= 1
    BY <1>2 DEF Own
  <2>3. \A j \in Own(amQ) : j <= i + 1
    BY <1>4, <2>1, <2>2
  <2>4. i + 1 \in Own(amQ) /\ amQ[i + 1].event = "REQUEST"
    BY <1>3, <2>1
  <2> QED
    BY <2>3, <2>4 DEF ClaimsIn
<1>6. CASE Own(amQ') = {}
  <2>1. Holds(audio_control_stack', HFP_CLIENT)
    BY <1>6 DEF ClaimsIn
  <2>2. \A j \in Own(amQ) : j = 1
    BY <1>4, <1>6
  <2>3. 1 \in Own(amQ) <=> Head(amQ).entry.profile = HFP_CLIENT
    BY <1>2 DEF Own
  <2>4. CASE Head(amQ) = Request(Call)
    <3>1. 1 \in Own(amQ) /\ amQ[1].event = "REQUEST"
      BY <1>2, <2>3, <2>4, MessageFields
    <3> QED
      BY <2>2, <3>1 DEF ClaimsIn
  <2>5. CASE Head(amQ) = Release(Call)
    BY <1>1, <2>1, <2>5, ManagerSteps, HoldsInShape
  <2>6. CASE Head(amQ) \in {Request(Music), Release(Music)}
    <3>1. Own(amQ) = {}
      BY <2>2, <2>3, <2>6, MessageFields
    <3>2. Holds(audio_control_stack, HFP_CLIENT)
      BY <1>1, <2>1, <2>6, ManagerSteps, HoldsInShape DEF Shapes
    <3> QED
      BY <3>1, <3>2 DEF ClaimsIn
  <2> QED
    BY <1>1, <2>4, <2>5, <2>6, ManagerSteps DEF Messages
<1> QED
  BY <1>5, <1>6

(* Claims is ClaimsIn of the current queue and stack, in each state.        *)
LEMMA ClaimsNow ==
    /\ Claims(HFP_CLIENT) <=> ClaimsIn(amQ, audio_control_stack)
    /\ Claims(HFP_CLIENT)' <=> ClaimsIn(amQ', audio_control_stack')
BY DEF Claims, ClaimsIn, Own, Holds

(* At the start nobody claims anything.                                     *)
LEMMA InitNoStuckCall == Init => NoStuckCall
<1> SUFFICES ASSUME Init PROVE ~ClaimsIn(amQ, audio_control_stack)
  BY ClaimsNow DEF NoStuckCall
<1>1. Own(amQ) = {}
  BY DEF Init, Own
<1> QED
  BY <1>1, HoldsInShape DEF Init, ClaimsIn

(* A step that ends a ring or a call posts the release, and no other step   *)
(* makes a claim while there is neither.                                    *)
LEMMA StepNoStuckCall ==
    ASSUME FocusInv, NoStuckCall, [Next]_vars PROVE NoStuckCall'
<1> SUFFICES ASSUME mAudioMode' = "NORMAL", ClaimsIn(amQ', audio_control_stack') PROVE FALSE
  BY ClaimsNow DEF NoStuckCall
<1>1. mAudioMode = "NORMAL" => ~ClaimsIn(amQ, audio_control_stack)
  BY ClaimsNow DEF NoStuckCall
<1>2. amQ \in Seq(Messages)
  BY DEF FocusInv
<1>3. CASE AudioManagerHandles
  BY <1>1, <1>3, ManagerMakesNoClaim DEF AudioManagerHandles, hfpVars
<1>4. CASE HfpControlStatus
  BY <1>1, <1>4 DEF HfpControlStatus, OnlyHfp
<1>5. CASE HfpEvent
  <2>1. amQ' # Append(amQ, Release(Call))
    BY <1>2, ReleaseEndsClaim
  <2> QED
    BY <1>1, <1>5, <2>1, HfpSteps
<1>6. CASE SinkEvent \/ SinkContinues
  BY <1>1, <1>6, SinkSteps DEF hfpVars
<1>7. CASE StreamHandles
  BY <1>1, <1>2, <1>7, StreamSteps, MusicLeavesClaim DEF hfpVars
<1>8. CASE UNCHANGED vars
  BY <1>1, <1>8 DEF vars, hfpVars
<1> QED
  BY <1>3, <1>4, <1>5, <1>6, <1>7, <1>8 DEF Next

(* A call entry never outlives the ring and the call it was for: every way  *)
(* out of them posts BT_AM_RELEASE_CONTROL behind the request               *)
(* (HfpClient.cpp:695 to 742, 809 to 826 and 1035 to 1053), so the music is *)
(* not silenced for good.                                                   *)
THEOREM CallsAreReleased == Spec => []NoStuckCall
BY InitNoStuckCall, StepNoStuckCall, FocusBounded, PTL DEF Spec

-----------------------------------------------------------------------------
(* The music is told its place.                                             *)

Told(q) == {i \in 1..Len(q) : q[i] \in Statuses}

(* LastToldA2dp of a queue q and a handled status c.                        *)
ToldIn(q, c, status) ==
    IF Told(q) = {} THEN c = status
    ELSE \E i \in Told(q) : q[i] = status /\ \A j \in Told(q) : j <= i

Queues == Seq(Statuses \union StreamCommands)

(* A status that is posted is the last one told.                            *)
LEMMA TellIsLast ==
    ASSUME NEW q \in Queues, NEW c, NEW status \in Statuses
    PROVE  ToldIn(Append(q, status), c, status)
<1> DEFINE r == Append(q, status)
<1>1. /\ Len(r) = Len(q) + 1 /\ r[Len(q) + 1] = status /\ Len(q) \in Nat
  BY DEF Queues
<1> HIDE DEF r
<1>2. Len(r) \in Told(r) /\ r[Len(r)] = status /\ \A j \in Told(r) : j <= Len(r)
  BY <1>1 DEF Told
<1>3. ToldIn(r, c, status)
  BY <1>2 DEF ToldIn
<1> QED
  BY <1>3 DEF r

(* A command of the sink's thread is no status.                             *)
LEMMA CommandIsNotTold ==
    ASSUME NEW q \in Queues, NEW c, NEW status, NEW m \in StreamCommands,
           ToldIn(q, c, status)
    PROVE  ToldIn(Append(q, m), c, status)
<1> DEFINE r == Append(q, m)
<1>1. /\ Len(r) = Len(q) + 1 /\ r[Len(q) + 1] = m /\ Len(q) \in Nat
      /\ \A i \in 1..Len(q) : r[i] = q[i]
  BY DEF Queues
<1> HIDE DEF r
<1>2. m \notin Statuses
  BY DEF Statuses, StreamCommands
<1>3. \A i : i \in Told(r) <=> i \in Told(q)
  BY <1>1, <1>2 DEF Told
<1>4. Told(r) = Told(q) /\ \A i \in Told(q) : r[i] = q[i]
  BY <1>1, <1>3 DEF Told
<1>5. ToldIn(r, c, status)
  BY <1>4 DEF ToldIn
<1> QED
  BY <1>5 DEF r

(* A status that is handled is remembered in controlStatus.                 *)
LEMMA HandledIsTold ==
    ASSUME NEW q \in Queues, q # <<>>, NEW c, NEW d, NEW status,
           \/ Head(q) \in StreamCommands /\ d = c
           \/ Head(q) \in Statuses /\ d = Head(q),
           ToldIn(q, c, status)
    PROVE  ToldIn(Tail(q), d, status)
<1> DEFINE r == Tail(q)
<1>1. /\ Len(r) = Len(q) - 1 /\ Len(q) \in Nat \ {0}
      /\ \A i \in 1..Len(q) - 1 : r[i] = q[i + 1]
      /\ Head(q) = q[1]
  BY DEF Queues
<1> HIDE DEF r
<1>2. \A i \in Told(r) : i + 1 \in Told(q) /\ r[i] = q[i + 1] /\ i \in Nat /\ i >= 1
  BY <1>1 DEF Told
<1>3. \A j \in Told(q) : j = 1 \/ (j - 1 \in Told(r) /\ r[j - 1] = q[j] /\ j \in Nat)
  BY <1>1 DEF Told
<1>4. 1 \in Told(q) <=> Head(q) \in Statuses
  BY <1>1 DEF Told
<1>5. \A m \in StreamCommands : m \notin Statuses
  BY DEF Statuses, StreamCommands
<1>6. CASE Told(q) = {}
  <2>1. Told(r) = {} /\ d = c
    BY <1>2, <1>4, <1>6
  <2> QED
    BY <1>6, <2>1 DEF ToldIn, r
<1>7. CASE Told(q) # {}
  <2>1. PICK i \in Told(q) : q[i] = status /\ \A j \in Told(q) : j <= i
    BY <1>7 DEF ToldIn
  <2>2. CASE i = 1
    <3>1. Told(r) = {}
      <4>1. ASSUME NEW k \in Told(r) PROVE FALSE
        <5>1. k + 1 \in Told(q) /\ k \in Nat /\ k >= 1
          BY <1>2
        <5>2. k + 1 <= 1
          BY <2>1, <2>2, <5>1
        <5> QED
          BY <5>1, <5>2
      <4> QED
        BY <4>1
    <3>2. d = status
      BY <1>1, <1>4, <1>5, <2>1, <2>2
    <3> QED
      BY <3>1, <3>2 DEF ToldIn, r
  <2>3. CASE i # 1
    <3>1. i - 1 \in Told(r) /\ r[i - 1] = status /\ i \in Nat
      BY <1>3, <2>1, <2>3
    <3>2. \A j \in Told(r) : j <= i - 1
      BY <1>2, <2>1, <3>1
    <3> QED
      BY <3>1, <3>2 DEF ToldIn, r
  <2> QED
    BY <2>2, <2>3
<1> QED
  BY <1>6, <1>7

(* LastToldA2dp is ToldIn of the streaming thread's queue and status.       *)
LEMMA ToldNow ==
    /\ \A status : LastToldA2dp(status) <=> ToldIn(streamQ, controlStatus, status)
    /\ \A status : LastToldA2dp(status)' <=> ToldIn(streamQ', controlStatus', status)
BY DEF LastToldA2dp, ToldIn, Told

(* A2dpToldItsPlace, shape by shape.                                        *)
PlaceIn(s, q, c) ==
    /\ s = <<Music>> => ToldIn(q, c, "GAIN") \/ ToldIn(q, c, "REGAINED")
    /\ s = <<Music, Call>> => ToldIn(q, c, "LOSS_TRANSIENT")

(* Said of each shape, it is said of each entry of the stack.               *)
LEMMA PlaceOfShape ==
    ASSUME StackShape, PlaceIn(audio_control_stack, streamQ, controlStatus)
    PROVE  A2dpToldItsPlace
<1> SUFFICES ASSUME NEW i \in 1..Len(audio_control_stack),
                    audio_control_stack[i].profile = A2DP_SINK
             PROVE  IF i = Len(audio_control_stack)
                    THEN LastToldA2dp("GAIN") \/ LastToldA2dp("REGAINED")
                    ELSE LastToldA2dp("LOSS_TRANSIENT")
  BY DEF A2dpToldItsPlace
<1>1. HFP_CLIENT # A2DP_SINK
  OBVIOUS
<1>2. CASE audio_control_stack = <<>>
  BY <1>2
<1>3. CASE audio_control_stack = <<Call>>
  <2>1. Len(audio_control_stack) = 1 /\ audio_control_stack[1].profile = HFP_CLIENT
    BY <1>3, Entries
  <2> QED
    BY <1>1, <2>1
<1>4. CASE audio_control_stack = <<Music>>
  <2>1. Len(audio_control_stack) = 1
    BY <1>4
  <2> QED
    BY <1>4, <2>1, ToldNow DEF PlaceIn
<1>5. CASE audio_control_stack = <<Music, Call>>
  <2>1. Len(audio_control_stack) = 2 /\ audio_control_stack[2].profile = HFP_CLIENT
    BY <1>5, Entries
  <2>2. i # Len(audio_control_stack)
    BY <1>1, <2>1
  <2> QED
    BY <1>5, <2>2, ToldNow DEF PlaceIn
<1> QED
  BY <1>2, <1>3, <1>4, <1>5 DEF StackShape

PlaceInv == PlaceIn(audio_control_stack, streamQ, controlStatus)

(* The stack is empty at the start.                                         *)
LEMMA InitPlace == Init => PlaceInv
BY DEF Init, PlaceInv, PlaceIn

(* Whenever the audio manager moves the music's entry it posts the new      *)
(* place behind everything told before.                                     *)
LEMMA StepPlace == ASSUME FocusInv, PlaceInv, [Next]_vars PROVE PlaceInv'
<1> SUFFICES PlaceIn(audio_control_stack', streamQ', controlStatus')
  BY DEF PlaceInv
<1>1. /\ streamQ \in Queues /\ amQ \in Seq(Messages) /\ StackShape
      /\ audio_control_stack \in Shapes
      /\ PlaceIn(audio_control_stack, streamQ, controlStatus)
  BY DEF FocusInv, PlaceInv, Queues, StackShape, Shapes
<1>2. CASE AudioManagerHandles
  <2>1. controlStatus' = controlStatus
    BY <1>2 DEF AudioManagerHandles, streamVars
  <2>2. \A c \in {"LOSS_TRANSIENT", "GAIN", "REGAINED"} :
            ToldIn(Append(streamQ, c), controlStatus, c)
    BY <1>1, TellIsLast DEF Statuses
  <2>3. <<Music>> # <<>> /\ <<Music>> # <<Call>> /\ <<Music>> # <<Music, Call>>
        /\ <<Music, Call>> # <<>> /\ <<Music, Call>> # <<Call>>
    <3>1. Len(<<Music>>) = 1 /\ Len(<<>>) = 0 /\ Len(<<Music, Call>>) = 2 /\ Len(<<Call>>) = 1
      OBVIOUS
    <3>2. <<Music>>[1] = Music /\ <<Call>>[1] = Call
      OBVIOUS
    <3> QED
      BY <3>1, <3>2, Entries
  <2>4. CASE Head(amQ) = Request(Call)
    BY <1>1, <1>2, <2>1, <2>2, <2>3, <2>4, ManagerSteps DEF PlaceIn
  <2>5. CASE Head(amQ) = Release(Call)
    BY <1>1, <1>2, <2>1, <2>2, <2>3, <2>5, ManagerSteps DEF PlaceIn
  <2>6. CASE Head(amQ) = Request(Music)
    BY <1>1, <1>2, <2>1, <2>2, <2>3, <2>6, ManagerSteps DEF PlaceIn
  <2>7. CASE Head(amQ) = Release(Music)
    BY <1>1, <1>2, <2>1, <2>2, <2>3, <2>7, ManagerSteps DEF PlaceIn
  <2> QED
    BY <1>1, <1>2, <2>4, <2>5, <2>6, <2>7, ManagerSteps DEF Messages
<1>3. CASE HfpControlStatus
  BY <1>1, <1>3 DEF HfpControlStatus, OnlyHfp, streamVars
<1>4. CASE HfpEvent
  BY <1>1, <1>4, HfpSteps
<1>5. CASE SinkEvent \/ SinkContinues
  BY <1>1, <1>5, SinkSteps, CommandIsNotTold DEF PlaceIn
<1>6. CASE StreamHandles
  BY <1>1, <1>6, StreamSteps, HandledIsTold DEF PlaceIn
<1>7. CASE UNCHANGED vars
  BY <1>1, <1>7 DEF vars, streamVars
<1> QED
  BY <1>2, <1>3, <1>4, <1>5, <1>6, <1>7 DEF Next

(* The last control status posted to the streaming thread says where the    *)
(* music's entry is, whatever is still on its way: the music plays on top   *)
(* of the stack and pauses under a call (Audio_Manager.cpp:276 to 351).     *)
THEOREM MusicKnowsItsPlace == Spec => []A2dpToldItsPlace
<1>1. FocusInv /\ PlaceInv => A2dpToldItsPlace
  BY PlaceOfShape DEF FocusInv, PlaceInv
<1> QED
  BY <1>1, InitPlace, StepPlace, FocusBounded, PTL DEF Spec

-----------------------------------------------------------------------------
(* A call's entry is owned.                                                 *)

Pending == {"DISCONNECTED", "CONNECTING"}

(* Whatever the HFP client has on the stack or asks for in queue q is       *)
(* released further back in q.                                              *)
Yields(q, s) ==
    /\ Holds(s, HFP_CLIENT) => \E j \in 1..Len(q) : q[j] = Release(Call)
    /\ \A i \in 1..Len(q) : q[i] = Request(Call)
          => \E j \in 1..Len(q) : j > i /\ q[j] = Release(Call)

(* The HFP client drops control statuses while it is not connected, so it   *)
(* must have given everything up by then.                                   *)
HfpInv ==
    /\ HfpEntryIsOwned
    /\ mClientState \in Pending => Yields(amQ, audio_control_stack)
    /\ mClientState \in Pending \union {"CONNECTED", "AUDIO_ON"}
    /\ mClientState = "AUDIO_ON" => hfpLink = "sco"
    /\ hfpLink = "down" => mClientState \in Pending

(* The HFP client starts disconnected and holds nothing.                    *)
LEMMA InitHfp == Init => HfpInv
<1> SUFFICES ASSUME Init PROVE HfpInv
  OBVIOUS
<1>1. ~Holds(audio_control_stack, HFP_CLIENT) /\ Len(amQ) = 0
  BY HoldsInShape DEF Init
<1> QED
  BY <1>1 DEF Init, HfpInv, HfpEntryIsOwned, Yields, Pending

(* A release at the end of the queue covers everything before it.           *)
LEMMA ReleaseYields ==
    ASSUME NEW q \in Seq(Messages), NEW s
    PROVE  Yields(Append(q, Release(Call)), s)
<1> DEFINE r == Append(q, Release(Call))
<1>1. Len(r) = Len(q) + 1 /\ r[Len(q) + 1] = Release(Call) /\ Len(q) \in Nat
  BY DEF Messages
<1>2. Request(Call) # Release(Call)
  BY MessageFields
<1> HIDE DEF r
<1>3. Len(r) \in 1..Len(r) /\ r[Len(r)] = Release(Call)
  BY <1>1
<1>4. \A i \in 1..Len(r) : r[i] = Request(Call) => Len(r) > i
  BY <1>1, <1>2
<1>5. Yields(r, s)
  BY <1>3, <1>4 DEF Yields
<1> QED
  BY <1>5 DEF r

(* The music's messages change nothing about that.                          *)
LEMMA MusicYields ==
    ASSUME NEW q \in Seq(Messages), NEW s, Yields(q, s),
           NEW m \in {Request(Music), Release(Music)}
    PROVE  Yields(Append(q, m), s)
<1> DEFINE r == Append(q, m)
<1>1. /\ Len(r) = Len(q) + 1 /\ r[Len(q) + 1] = m /\ Len(q) \in Nat
      /\ \A i \in 1..Len(q) : r[i] = q[i]
  BY DEF Messages
<1>2. m # Request(Call)
  BY MessageFields
<1> HIDE DEF r
<1>3. \A i \in 1..Len(q) : i \in 1..Len(r)
  BY <1>1
<1>4. \A i \in 1..Len(r) : r[i] = Request(Call) => i \in 1..Len(q)
  BY <1>1, <1>2
<1>5. Yields(r, s)
  BY <1>1, <1>3, <1>4 DEF Yields
<1> QED
  BY <1>5 DEF r

(* The audio manager's step keeps it: a request it handles has its release  *)
(* further back, and a release it handles takes the entry off the stack.    *)
LEMMA ManagerYields ==
    ASSUME FocusInv, AudioManagerHandles, Yields(amQ, audio_control_stack)
    PROVE  Yields(amQ', audio_control_stack')
<1>1. /\ amQ \in Seq(Messages) /\ amQ # <<>> /\ amQ' = Tail(amQ)
      /\ StackShape /\ audio_control_stack \in Shapes
  BY DEF FocusInv, AudioManagerHandles, StackShape, Shapes
<1>2. /\ Len(amQ') = Len(amQ) - 1 /\ Len(amQ) \in Nat \ {0}
      /\ \A i \in 1..Len(amQ) - 1 : amQ'[i] = amQ[i + 1]
      /\ Head(amQ) = amQ[1]
  BY <1>1
<1>3. \A i \in 1..Len(amQ') : i + 1 \in 1..Len(amQ) /\ amQ'[i] = amQ[i + 1]
  BY <1>2
<1>4. \A j \in 1..Len(amQ) : j > 1 => j - 1 \in 1..Len(amQ') /\ amQ'[j - 1] = amQ[j]
  BY <1>2
<1>5. ASSUME NEW i \in 1..Len(amQ'), amQ'[i] = Request(Call)
      PROVE  \E j \in 1..Len(amQ') : j > i /\ amQ'[j] = Release(Call)
  <2>1. PICK j \in 1..Len(amQ) : j > i + 1 /\ amQ[j] = Release(Call)
    BY <1>3, <1>5 DEF Yields
  <2>2. j > 1 /\ j - 1 > i
    BY <2>1
  <2> QED
    BY <1>4, <2>1, <2>2
<1>6. ASSUME Holds(audio_control_stack', HFP_CLIENT)
      PROVE  \E j \in 1..Len(amQ') : amQ'[j] = Release(Call)
  <2>1. Head(amQ) # Release(Call)
    BY <1>1, <1>6, ManagerSteps, HoldsInShape
  <2>2. Head(amQ) = Request(Call) \/ Holds(audio_control_stack, HFP_CLIENT)
    BY <1>1, <1>6, <2>1, ManagerSteps, HoldsInShape DEF Messages, Shapes
  <2>3. 1 \in 1..Len(amQ)
    BY <1>2
  <2>4. \E j \in 1..Len(amQ) : amQ[j] = Release(Call)
    BY <1>2, <2>2, <2>3 DEF Yields
  <2>5. PICK j \in 1..Len(amQ) : amQ[j] = Release(Call)
    BY <2>4
  <2>6. j > 1
    BY <1>2, <2>1, <2>5
  <2> QED
    BY <1>4, <2>5, <2>6
<1> QED
  BY <1>5, <1>6 DEF Yields

(* The HFP client leaves CONNECTED and AUDIO_ON only with a release.        *)
LEMMA HfpLeaves ==
    ASSUME HfpInv, HfpEvent
    PROVE  /\ \/ amQ' = Append(amQ, Release(Call))
              \/ /\ amQ' = amQ /\ mcontrolStatus' = mcontrolStatus
                 /\ mClientState' \in Pending => mClientState \in Pending
              \/ /\ amQ' = Append(amQ, Request(Call)) /\ mcontrolStatus' = mcontrolStatus
                 /\ mClientState' \notin Pending
           /\ mClientState' \in Pending \union {"CONNECTED", "AUDIO_ON"}
           /\ mClientState' = "AUDIO_ON" => hfpLink' = "sco"
           /\ hfpLink' = "down" => mClientState' \in Pending
<1> USE DEF HfpInv, Pending, HfpWorld, NoFocusChange, RequestCall, ReleaseCall
<1>1. CASE HfpConnectReq
  BY <1>1 DEF HfpConnectReq
<1>2. CASE HfpConnectedCb
  BY <1>2 DEF HfpConnectedCb
<1>3. CASE HfpSlcConnectedCb
  BY <1>3 DEF HfpSlcConnectedCb
<1>4. CASE HfpDisconnectReq
  BY <1>4 DEF HfpDisconnectReq
<1>5. CASE HfpDisconnectingCb
  BY <1>5 DEF HfpDisconnectingCb
<1>6. CASE HfpDisconnectedCb
  BY <1>6 DEF HfpDisconnectedCb
<1>7. CASE HfpAudioConnectedCb
  BY <1>7 DEF HfpAudioConnectedCb
<1>8. CASE HfpAudioDisconnectedCb
  BY <1>8 DEF HfpAudioDisconnectedCb
<1>9. CASE PlayRingtone
  BY <1>9 DEF PlayRingtone
<1>10. CASE StopRingtone
  BY <1>10 DEF StopRingtone
<1> QED
  BY <1>1, <1>2, <1>3, <1>4, <1>5, <1>6, <1>7, <1>8, <1>9, <1>10 DEF HfpEvent

(* What is in a queue stays there when something is appended to it.         *)
LEMMA ElementStays ==
    ASSUME NEW S, NEW q \in Seq(S), NEW m \in S
    PROVE  /\ Element(m, Append(q, m))
           /\ \A e : Element(e, q) => Element(e, Append(q, m))
<1>1. /\ Len(Append(q, m)) = Len(q) + 1 /\ Append(q, m)[Len(q) + 1] = m /\ Len(q) \in Nat
      /\ \A i \in 1..Len(q) : Append(q, m)[i] = q[i]
  OBVIOUS
<1>2. Len(q) + 1 \in 1..Len(q) + 1 /\ \A i \in 1..Len(q) : i \in 1..Len(q) + 1
  BY <1>1
<1> QED
  BY <1>1, <1>2 DEF Element

(* Taking the head of a queue loses only the head.                          *)
LEMMA ElementBehind ==
    ASSUME NEW S, NEW q \in Seq(S), q # <<>>, NEW e, e # Head(q), Element(e, q)
    PROVE  Element(e, Tail(q))
<1>1. PICK i \in 1..Len(q) : q[i] = e
  BY DEF Element
<1>2. /\ Len(Tail(q)) = Len(q) - 1 /\ Len(q) \in Nat \ {0} /\ Head(q) = q[1]
      /\ \A j \in 1..Len(q) - 1 : Tail(q)[j] = q[j + 1]
  OBVIOUS
<1>3. i # 1
  BY <1>1, <1>2
<1>4. i - 1 \in 1..Len(Tail(q)) /\ (i - 1) + 1 = i
  BY <1>2, <1>3
<1>5. Tail(q)[i - 1] = e
  BY <1>1, <1>2, <1>4
<1> QED
  BY <1>4, <1>5 DEF Element

(* Every step keeps the HFP client's entry owned.                           *)
LEMMA StepHfp == ASSUME FocusInv, HfpInv, [Next]_vars PROVE HfpInv'
<1>1. /\ amQ \in Seq(Messages) /\ hfpQ \in Seq({"GAIN_TRANSIENT"}) /\ StackShape
      /\ audio_control_stack \in Shapes
  BY DEF FocusInv, StackShape, Shapes
<1>2. Request(Call) \in Messages /\ Release(Call) \in Messages
  BY DEF Messages
<1> DEFINE Owned == \/ mcontrolStatus = "GAIN_TRANSIENT" \/ Element("GAIN_TRANSIENT", hfpQ)
                    \/ Element(Release(Call), amQ)
<1>3. /\ Holds(audio_control_stack, HFP_CLIENT) => Owned
      /\ HfpInv' <=> /\ Holds(audio_control_stack', HFP_CLIENT) => Owned'
                     /\ mClientState' \in Pending => Yields(amQ', audio_control_stack')
                     /\ mClientState' \in Pending \union {"CONNECTED", "AUDIO_ON"}
                     /\ mClientState' = "AUDIO_ON" => hfpLink' = "sco"
                     /\ hfpLink' = "down" => mClientState' \in Pending
  BY DEF HfpInv, HfpEntryIsOwned, Holds, Yields, Pending
<1>4. Owned' <=> \/ mcontrolStatus' = "GAIN_TRANSIENT" \/ Element("GAIN_TRANSIENT", hfpQ')
                 \/ Element(Release(Call), amQ')
  BY DEF Element
<1>5. CASE AudioManagerHandles
  <2>1. UNCHANGED hfpVars /\ amQ' = Tail(amQ) /\ amQ # <<>>
    BY <1>5 DEF AudioManagerHandles
  <2>2. mClientState' \in Pending => Yields(amQ', audio_control_stack')
    BY <1>5, <2>1, ManagerYields DEF HfpInv, hfpVars
  <2>3. Holds(audio_control_stack', HFP_CLIENT) => Owned'
    <3>1. ASSUME Holds(audio_control_stack', HFP_CLIENT) PROVE Owned'
      <4>1. Head(amQ) # Release(Call)
        BY <1>1, <1>5, <3>1, ManagerSteps, HoldsInShape
      <4>2. CASE Head(amQ) = Request(Call)
        BY <1>1, <1>4, <1>5, <4>2, ManagerSteps, ElementStays
      <4>3. CASE Head(amQ) # Request(Call)
        <5>1. Head(amQ) \in {Request(Music), Release(Music)}
          BY <1>1, <1>5, <4>1, <4>3, ManagerSteps DEF Messages
        <5>2. Holds(audio_control_stack, HFP_CLIENT) /\ hfpQ' = hfpQ
          BY <1>1, <1>5, <3>1, <5>1, ManagerSteps, HoldsInShape DEF Shapes
        <5>3. Element(Release(Call), amQ) => Element(Release(Call), amQ')
          BY <1>1, <2>1, <4>1, ElementBehind
        <5> QED
          BY <1>3, <1>4, <2>1, <5>2, <5>3 DEF hfpVars
      <4> QED
        BY <4>2, <4>3
    <3> QED
      BY <3>1
  <2> QED
    BY <1>3, <2>1, <2>2, <2>3 DEF HfpInv, hfpVars
<1>6. CASE HfpControlStatus
  <2>1. /\ UNCHANGED <<audio_control_stack, amQ, mClientState, hfpLink>>
        /\ hfpQ # <<>> /\ Head(hfpQ) = "GAIN_TRANSIENT"
    BY <1>1, <1>6 DEF HfpControlStatus, OnlyHfp
  <2>2. CASE mClientState \in Pending
    <3>1. Holds(audio_control_stack, HFP_CLIENT) => Element(Release(Call), amQ)
      BY <2>2 DEF HfpInv, Yields, Element
    <3> QED
      BY <1>3, <1>4, <2>1, <3>1 DEF HfpInv
  <2>3. CASE mClientState \notin Pending
    <3>1. mcontrolStatus' = "GAIN_TRANSIENT"
      BY <1>6, <2>1, <2>3 DEF HfpControlStatus, HfpInv
    <3> QED
      BY <1>3, <1>4, <2>1, <2>3, <3>1 DEF HfpInv
  <2> QED
    BY <2>2, <2>3
<1>7. CASE HfpEvent
  <2>1. audio_control_stack' = audio_control_stack /\ hfpQ' = hfpQ
    BY <1>7, HfpSteps
  <2>2. CASE amQ' = Append(amQ, Release(Call))
    BY <1>1, <1>2, <1>3, <1>4, <1>7, <2>2, HfpLeaves, ElementStays, ReleaseYields
  <2>3. CASE amQ' = amQ /\ mcontrolStatus' = mcontrolStatus
             /\ (mClientState' \in Pending => mClientState \in Pending)
    BY <1>3, <1>4, <1>7, <2>1, <2>3, HfpLeaves DEF HfpInv
  <2>4. CASE amQ' = Append(amQ, Request(Call)) /\ mcontrolStatus' = mcontrolStatus
             /\ mClientState' \notin Pending
    BY <1>1, <1>2, <1>3, <1>4, <1>7, <2>1, <2>4, HfpLeaves, ElementStays
  <2> QED
    BY <1>7, <2>2, <2>3, <2>4, HfpLeaves
<1>8. CASE SinkEvent \/ SinkContinues
  BY <1>3, <1>4, <1>8, SinkSteps DEF HfpInv, hfpVars
<1>9. CASE StreamHandles
  <2>1. UNCHANGED <<audio_control_stack, hfpQ, hfpVars>>
    BY <1>1, <1>9, StreamSteps
  <2>2. PICK m \in {Request(Music), Release(Music)} : amQ' \in {amQ, Append(amQ, m)}
    BY <1>1, <1>9, StreamSteps
  <2>3. CASE amQ' = amQ
    BY <1>3, <1>4, <2>1, <2>3 DEF HfpInv, hfpVars
  <2>4. CASE amQ' = Append(amQ, m)
    <3>1. m \in Messages
      BY DEF Messages
    <3>2. Element(Release(Call), amQ) => Element(Release(Call), amQ')
      BY <1>1, <2>4, <3>1, ElementStays
    <3>3. Yields(amQ, audio_control_stack) => Yields(amQ', audio_control_stack)
      BY <1>1, <2>4, MusicYields
    <3> QED
      BY <1>3, <1>4, <2>1, <3>2, <3>3 DEF HfpInv, hfpVars
  <2> QED
    BY <2>2, <2>3, <2>4
<1>10. CASE UNCHANGED vars
  BY <1>3, <1>4, <1>10 DEF HfpInv, vars, hfpVars
<1> QED
  BY <1>5, <1>6, <1>7, <1>8, <1>9, <1>10 DEF Next

(* A call entry on the stack is never an orphan: the HFP client knows of    *)
(* it, will be told, or has already posted the release, even though it      *)
(* drops control statuses while it is not connected (HfpClient.cpp:827 and  *)
(* 1054 are the only handlers that look at them).                           *)
THEOREM CallEntryIsOwned == Spec => []HfpEntryIsOwned
<1>1. HfpInv => HfpEntryIsOwned
  BY DEF HfpInv
<1> QED
  BY <1>1, InitHfp, StepHfp, FocusBounded, PTL DEF Spec

-----------------------------------------------------------------------------
(* Types.                                                                   *)

(* Of TypeOK, what FocusInv and HfpInv do not say.                          *)
OtherTypes ==
    /\ mAudioMode \in {"NORMAL", "RINGTONE", "IN_CALL"}
    /\ mcontrolStatus \in Statuses /\ controlStatus \in Statuses
    /\ scoOutput \in BOOLEAN /\ musicOutput \in BOOLEAN /\ use_bt_a2dp_hal \in BOOLEAN
    /\ hfpLink \in {"down", "up", "slc", "sco", "closing"}
    /\ deviceState \in [Device -> {None, "PENDING", "CONNECTED"}]
    /\ a2dpLink \in [Device -> {"down", "up", "closing"}]
    /\ mStreamingDevice \in Device \union {None} /\ mResumingDevice \in Device \union {None}
    /\ sinkDuty \in {None} \union ({"erase", "start"} \X Device)

(* The constructors leave every variable in its type.                       *)
LEMMA InitTypes == Init => OtherTypes
BY DEF Init, OtherTypes, Statuses

(* Every handler leaves the variables it assigns in their types.            *)
LEMMA StepTypes == ASSUME FocusInv, OtherTypes, [Next]_vars PROVE OtherTypes'
<1> USE DEF OtherTypes
<1>1. CASE AudioManagerHandles
  BY <1>1 DEF AudioManagerHandles, hfpVars, sinkVars, streamVars
<1>2. CASE HfpControlStatus
  <2>1. Head(hfpQ) \in Statuses
    BY <1>2 DEF HfpControlStatus, FocusInv, Statuses
  <2> QED
    BY <1>2, <2>1 DEF HfpControlStatus, OnlyHfp, sinkVars, streamVars
<1>3. CASE HfpEvent
  <2> USE DEF HfpWorld, OnlyHfp, NoFocusChange, RequestCall, ReleaseCall, Statuses,
              sinkVars, streamVars
  <2>1. CASE HfpConnectReq \/ HfpConnectedCb \/ HfpSlcConnectedCb
    BY <2>1 DEF HfpConnectReq, HfpConnectedCb, HfpSlcConnectedCb
  <2>2. CASE HfpDisconnectReq \/ HfpDisconnectingCb
    BY <2>2 DEF HfpDisconnectReq, HfpDisconnectingCb
  <2>3. CASE HfpDisconnectedCb
    BY <2>3 DEF HfpDisconnectedCb
  <2>4. CASE HfpAudioConnectedCb
    <3>1. CASE mClientState = "CONNECTED"
      BY <2>4, <3>1 DEF HfpAudioConnectedCb
    <3>2. CASE mClientState # "CONNECTED"
      BY <2>4, <3>2 DEF HfpAudioConnectedCb
    <3> QED
      BY <3>1, <3>2
  <2>5. CASE HfpAudioDisconnectedCb
    <3>1. CASE mClientState = "AUDIO_ON"
      BY <2>5, <3>1 DEF HfpAudioDisconnectedCb
    <3>2. CASE mClientState # "AUDIO_ON"
      BY <2>5, <3>2 DEF HfpAudioDisconnectedCb
    <3> QED
      BY <3>1, <3>2
  <2>6. CASE PlayRingtone \/ StopRingtone
    BY <2>6 DEF PlayRingtone, StopRingtone
  <2> QED
    BY <1>3, <2>1, <2>2, <2>3, <2>4, <2>5, <2>6 DEF HfpEvent
<1>4. ASSUME NEW d \in Device, Erase(d), UNCHANGED <<hfpVars, streamVars, use_bt_a2dp_hal>>,
             a2dpLink' \in [Device -> {"down", "up", "closing"}]
      PROVE  OtherTypes'
  BY <1>4 DEF Erase, hfpVars, streamVars
<1>5. ASSUME NEW d \in Device, Start(d), UNCHANGED <<hfpVars, streamVars, use_bt_a2dp_hal>>,
             UNCHANGED <<deviceState, a2dpLink>>
      PROVE  OtherTypes'
  BY <1>5 DEF Start, hfpVars, streamVars
<1>6. CASE SinkEvent
  <2>1. PICK d \in Device : \/ SinkConnecting(d) \/ SinkConnectedCb(d) \/ SinkDisconnecting(d)
                            \/ SinkDisconnectedCb(d) \/ SinkAudioStarted(d) \/ SinkAudioStopped(d)
    BY <1>6 DEF SinkEvent
  <2> USE DEF SinkWorld, OnlySink, hfpVars, streamVars
  <2>2. CASE SinkConnecting(d)
    BY <2>2 DEF SinkConnecting
  <2>3. CASE SinkConnectedCb(d)
    BY <2>3 DEF SinkConnectedCb
  <2>4. CASE SinkDisconnecting(d)
    BY <2>4 DEF SinkDisconnecting
  <2>5. CASE SinkDisconnectedCb(d)
    BY <1>4, <2>5 DEF SinkDisconnectedCb
  <2>6. CASE SinkAudioStarted(d)
    BY <1>5, <2>6 DEF SinkAudioStarted
  <2>7. CASE SinkAudioStopped(d)
    BY <2>7 DEF SinkAudioStopped
  <2> QED
    BY <2>1, <2>2, <2>3, <2>4, <2>5, <2>6, <2>7
<1>7. CASE SinkContinues
  <2>1. sinkDuty[2] \in Device
    BY <1>7 DEF SinkContinues
  <2> QED
    BY <1>4, <1>5, <1>7, <2>1 DEF SinkContinues, OnlySink
<1>8. CASE StreamHandles
  <2> USE DEF StreamTakes, hfpVars, sinkVars, streamVars
  <2>1. CASE StreamClose
    <3>1. musicOutput' = FALSE /\ UNCHANGED <<mResumingDevice, controlStatus, mStreamingDevice>>
      BY <2>1 DEF StreamClose
    <3>2. UNCHANGED <<hfpVars, sinkVars>>
      BY <2>1 DEF StreamClose
    <3>3. musicOutput' \in BOOLEAN
      BY <3>1
    <3> QED
      BY <3>1, <3>2, <3>3
  <2>2. CASE StreamRequest
    BY <2>2 DEF StreamRequest
  <2>3. CASE StreamRelease
    <3>1. musicOutput' = FALSE /\ UNCHANGED <<mResumingDevice, controlStatus, mStreamingDevice>>
      BY <2>3 DEF StreamRelease
    <3>2. UNCHANGED <<hfpVars, sinkVars>>
      BY <2>3 DEF StreamRelease
    <3>3. musicOutput' \in BOOLEAN
      BY <3>1
    <3> QED
      BY <3>1, <3>2, <3>3
  <2>4. CASE StreamDisconnected
    <3>1. musicOutput' = FALSE /\ UNCHANGED <<mResumingDevice, controlStatus, mStreamingDevice>>
      BY <2>4 DEF StreamDisconnected
    <3>2. UNCHANGED <<hfpVars, sinkVars>>
      BY <2>4 DEF StreamDisconnected
    <3>3. musicOutput' \in BOOLEAN
      BY <3>1
    <3> QED
      BY <3>1, <3>2, <3>3
  <2>5. CASE StreamInterrupted
    BY <2>5 DEF StreamInterrupted, Statuses
  <2>6. CASE StreamGains
    BY <2>6 DEF StreamGains, Statuses
  <2>7. CASE StreamRegains
    BY <2>7 DEF StreamRegains, Statuses
  <2> QED
    BY <1>8, <2>1, <2>2, <2>3, <2>4, <2>5, <2>6, <2>7 DEF StreamHandles
<1>9. CASE UNCHANGED vars
  BY <1>9 DEF vars, hfpVars, sinkVars, streamVars
<1> QED
  BY <1>1, <1>2, <1>3, <1>6, <1>7, <1>8, <1>9 DEF Next

(* Queues hold only the messages their handlers know, and every state       *)
(* variable of the four threads stays in its enumeration.                   *)
THEOREM AudioTypes == Spec => []TypeOK
<1>1. FocusInv /\ HfpInv /\ OtherTypes => TypeOK
  <2> SUFFICES ASSUME FocusInv, HfpInv, OtherTypes PROVE TypeOK
    OBVIOUS
  <2>1. \A i \in 1..Len(amQ) : amQ[i] \in Messages
    BY DEF FocusInv
  <2>2. \A i \in 1..Len(hfpQ) : hfpQ[i] \in Statuses
    BY DEF FocusInv, Statuses
  <2>3. \A i \in 1..Len(streamQ) : streamQ[i] \in Statuses \union StreamCommands
    BY DEF FocusInv
  <2>4. mClientState \in {"DISCONNECTED", "CONNECTING", "CONNECTED", "AUDIO_ON"}
    BY DEF HfpInv, Pending
  <2> QED
    BY <2>1, <2>2, <2>3, <2>4 DEF OtherTypes, TypeOK, Messages
<1> QED
  BY <1>1, InitHfp, StepHfp, InitTypes, StepTypes, FocusBounded, PTL DEF Spec
=============================================================================
