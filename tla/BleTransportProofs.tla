------------------------- MODULE BleTransportProofs -------------------------
(* Theorems about BleTransport, for every number of writers and callbacks, *)
(* every capacity, and both platforms; and what keeps the close of the     *)
(* channel on tinygo from a panic.                                         *)
EXTENDS BleTransport, TLAPS

-----------------------------------------------------------------------------
(* Types, and the order of the steps of the notification path              *)

\* No subscription made yet, the types and the path's invariant hold.
LEMMA InitInv == BleInit => BleTypeOK /\ PathInv
<1> SUFFICES ASSUME BleInit PROVE BleTypeOK /\ PathInv
  OBVIOUS
<1>1. << >> \in Seq(Linux!Frames) /\ << >> \in Seq(Ours) /\ Len(<< >>) = 0
  OBVIOUS
<1>2. sock = << >> /\ ch = << >>
  BY DEF BleInit, Linux!Init
<1>3. /\ sock \in Seq(Linux!Frames) /\ Len(sock) <= SockCap
      /\ ch \in Seq(Linux!Frames) /\ ch \in Seq(Ours) /\ Len(ch) <= Cap
  <2>1. Len(sock) = 0 /\ Len(ch) = 0
    BY <1>1, <1>2, Zenon
  <2> QED
    BY <1>1, <1>2, <2>1, BleTransportAssumption
<1>5. Linux!TypeOK
  BY <1>3, BleTransportAssumption
  DEF BleInit, Linux!Init, Linux!TypeOK, Linux!Steps, Linux!NoFrame, Linux!Frames
<1>6. Tinygo!TypeOK
  BY <1>3 DEF BleInit, Tinygo!Init, Tinygo!TypeOK
<1>4. ReaderInStep /\ CallbacksInStep
  BY DEF BleInit, Linux!Init, Tinygo!Init, ReaderInStep, CallbacksInStep
<1> QED
  BY <1>4, <1>5, <1>6 DEF BleInit, BleTypeOK, PathInv

\* What the reader does to the socket and the channel.
LEMMA ReaderType ==
    ASSUME Linux!TypeOK, ReaderInStep,
           Linux!Opening \/ Linux!Reader \/ Linux!Cancel \/ Linux!FrameArrives
             \/ Linux!Receive
    PROVE  Linux!TypeOK' /\ ReaderInStep'
<1> USE BleTransportAssumption
    DEF Linux!TypeOK, ReaderInStep, Linux!Goto, Linux!Steps
<1>1. CASE Linux!Opening
  <2>1. CASE Linux!Subscribe
    BY <2>1 DEF Linux!Subscribe
  <2>2. CASE Linux!SubscribeFails
    BY <2>2 DEF Linux!SubscribeFails
  <2> QED
    BY <1>1, <2>1, <2>2 DEF Linux!Opening
<1>2. CASE Linux!SetNonblock
  BY <1>2 DEF Linux!SetNonblock
<1>3. CASE Linux!CheckCtx
  BY <1>3 DEF Linux!CheckCtx
<1>4. CASE Linux!PollReady
  BY <1>4 DEF Linux!PollReady
<1>5. CASE Linux!PollTimeout
  BY <1>5 DEF Linux!PollTimeout
<1>6. CASE Linux!PollFails
  BY <1>6 DEF Linux!PollFails
<1>7. CASE Linux!Read
  <2>1. /\ Head(sock) \in Linux!Frames
        /\ Tail(sock) \in Seq(Linux!Frames) /\ Len(Tail(sock)) <= SockCap
    BY <1>7 DEF Linux!Read
  <2> QED
    BY <1>7, <2>1 DEF Linux!Read
<1>8. CASE Linux!ReadFails
  BY <1>8 DEF Linux!ReadFails
<1>9. CASE Linux!Filter
  BY <1>9 DEF Linux!Filter
<1>10. CASE Linux!Send
  <2>1. Append(ch, buf) \in Seq(Linux!Frames) /\ Len(Append(ch, buf)) <= Cap
    BY <1>10 DEF Linux!Send
  <2> QED
    BY <1>10, <2>1 DEF Linux!Send
<1>11. CASE Linux!SendCancelled
  BY <1>11 DEF Linux!SendCancelled
<1>12. CASE Linux!SendDrops
  BY <1>12 DEF Linux!SendDrops
<1>13. CASE Linux!CloseFd
  <2>1. << >> \in Seq(Linux!Frames) /\ Len(<< >>) <= SockCap
    OBVIOUS
  <2> QED
    BY <1>13, <2>1 DEF Linux!CloseFd
<1>14. CASE Linux!CloseOut
  BY <1>14 DEF Linux!CloseOut
<1>15. CASE Linux!Cancel
  BY <1>15 DEF Linux!Cancel
<1>16. CASE Linux!FrameArrives
  <2>1. PICK f \in Linux!Frames : sock' = Append(sock, f)
    BY <1>16 DEF Linux!FrameArrives
  <2>2. sock' \in Seq(Linux!Frames) /\ Len(sock') <= SockCap /\ sock' # << >>
    BY <1>16, <2>1 DEF Linux!FrameArrives
  <2> QED
    BY <1>16, <2>2 DEF Linux!FrameArrives
<1>17. CASE Linux!Receive
  <2>1. Tail(ch) \in Seq(Linux!Frames) /\ Len(Tail(ch)) <= Cap
    BY <1>17 DEF Linux!Receive
  <2> QED
    BY <1>17, <2>1 DEF Linux!Receive
<1> QED
  BY <1>1, <1>2, <1>3, <1>4, <1>5, <1>6, <1>7, <1>8, <1>9, <1>10, <1>11, <1>12,
     <1>13, <1>14, <1>15, <1>16, <1>17
  DEF Linux!Reader

\* A callback hands over the one packet it copied.
LEMMA CallbackAppends ==
    ASSUME Tinygo!TypeOK, NEW t \in Threads, Tinygo!CallbackSends(t)
    PROVE  \E pkt \in Ours : copied[t] = <<pkt>> /\ ch' = Append(ch, pkt)
<1>1. PICK pkt \in Ours : copied[t] = <<pkt>>
  BY DEF Tinygo!CallbackSends, Tinygo!CallbackReturns, Tinygo!TypeOK
<1>2. ch \o <<pkt>> = Append(ch, pkt)
  BY DEF Tinygo!TypeOK
<1> QED
  BY <1>1, <1>2 DEF Tinygo!CallbackSends

\* Every step of the callbacks keeps their types and the order of the path.
LEMMA CallbacksType ==
    ASSUME Tinygo!TypeOK, CallbacksInStep, UNCHANGED fdOpen,
           Tinygo!Opening \/ Tinygo!Callbacks \/ Tinygo!CloserCloses \/ Tinygo!Cancel
             \/ Tinygo!Receive
    PROVE  Tinygo!TypeOK' /\ CallbacksInStep'
<1> USE BleTransportAssumption DEF Tinygo!TypeOK, CallbacksInStep
<1>1. CASE Tinygo!Opening
  BY <1>1 DEF Tinygo!Opening, Tinygo!Enabled, Tinygo!EnableFails
<1>2. ASSUME NEW t \in Threads, Tinygo!Callback(t)
      PROVE  Tinygo!TypeOK' /\ CallbacksInStep'
  <2>1. CASE Tinygo!CallbackCopies(t)
    BY <2>1 DEF Tinygo!CallbackCopies
  <2>2. CASE Tinygo!CallbackSends(t)
    <3>1. PICK pkt \in Ours : ch' = Append(ch, pkt)
      BY <2>2, CallbackAppends
    <3>2. ch' \in Seq(Ours) /\ Len(ch') <= Cap
      BY <2>2, <3>1 DEF Tinygo!CallbackSends, Tinygo!HasRoom
    <3> QED
      BY <2>2, <3>2 DEF Tinygo!CallbackSends, Tinygo!CallbackReturns
  <2>3. CASE Tinygo!CallbackDrops(t)
    BY <2>3 DEF Tinygo!CallbackDrops, Tinygo!CallbackReturns
  <2>4. CASE Tinygo!CallbackPanics(t)
    BY <2>4 DEF Tinygo!CallbackPanics, Tinygo!CallbackReturns
  <2> QED
    BY <1>2, <2>1, <2>2, <2>3, <2>4 DEF Tinygo!Callback
<1>3. CASE Tinygo!CloserCloses
  BY <1>3 DEF Tinygo!CloserCloses
<1>4. CASE Tinygo!Cancel
  BY <1>4 DEF Tinygo!Cancel
<1>5. CASE Tinygo!Receive
  <2>1. Tail(ch) \in Seq(Ours) /\ Len(Tail(ch)) <= Cap
    BY <1>5 DEF Tinygo!Receive
  <2> QED
    BY <1>5, <2>1 DEF Tinygo!Receive
<1> QED
  BY <1>1, <1>2, <1>3, <1>4, <1>5 DEF Tinygo!Callbacks

\* A step of the Transport itself leaves the path as it is.
LEMMA PathKept ==
    ASSUME BleTypeOK, PathInv,
           UNCHANGED <<platform, pc, cancelled, ch, closed, linuxVars, tinygoVars>>
    PROVE  /\ IF platform' = "linux" THEN Linux!TypeOK' ELSE Tinygo!TypeOK'
           /\ IF platform' = "linux" THEN ReaderInStep' ELSE CallbacksInStep'
<1> USE DEF linuxVars, tinygoVars
<1>1. CASE platform = "linux"
  BY <1>1 DEF BleTypeOK, PathInv, ReaderInStep, Linux!TypeOK, Linux!Matches
<1>2. CASE platform # "linux"
  BY <1>2 DEF BleTypeOK, PathInv, CallbacksInStep, Tinygo!TypeOK
<1> QED
  BY <1>1, <1>2

\* No step goes back to before the channel was returned.
LEMMA ReaderGoesOn ==
    ASSUME Linux!Opening \/ Linux!Reader \/ Linux!Cancel \/ Linux!FrameArrives
             \/ Linux!Receive
    PROVE  pc' \in {"subscribe", "failed"} => pc \in {"subscribe", "failed"}
  BY DEF Linux!Opening, Linux!Reader, Linux!Cancel, Linux!FrameArrives,
      Linux!Receive, Linux!Subscribe, Linux!SubscribeFails, Linux!SetNonblock,
      Linux!CheckCtx, Linux!PollReady, Linux!PollTimeout, Linux!PollFails,
      Linux!Read, Linux!ReadFails, Linux!Filter, Linux!Send, Linux!SendCancelled,
      Linux!SendDrops, Linux!CloseFd, Linux!CloseOut, Linux!Goto

LEMMA CallbacksGoOn ==
    ASSUME Tinygo!Opening \/ Tinygo!Callbacks \/ Tinygo!CloserCloses \/ Tinygo!Cancel
             \/ Tinygo!Receive
    PROVE  pc' \in {"subscribe", "failed"} => pc \in {"subscribe", "failed"}
  BY DEF Tinygo!Opening, Tinygo!Enabled, Tinygo!EnableFails, Tinygo!Callbacks,
      Tinygo!Callback, Tinygo!CallbackCopies, Tinygo!CallbackSends,
      Tinygo!CallbackDrops, Tinygo!CallbackPanics, Tinygo!CloserCloses,
      Tinygo!Cancel, Tinygo!Receive

\* On either platform every step keeps the types and the path's invariant.
LEMMA NextInv == BleTypeOK /\ PathInv /\ [BleNext]_bleVars => BleTypeOK' /\ PathInv'
<1> SUFFICES ASSUME BleTypeOK, PathInv, [BleNext]_bleVars
             PROVE  BleTypeOK' /\ PathInv'
  OBVIOUS
<1>u. CASE UNCHANGED bleVars
  BY <1>u, PathKept DEF bleVars, transportVars, BleTypeOK, PathInv
<1>1. CASE Write
  BY <1>1, PathKept DEF Write, WriteBegins, WriteReturns, BleTypeOK, PathInv
<1>2. CASE SubscribeNotify
  BY <1>2, PathKept
  DEF SubscribeNotify, SubscribeErr, KickBegins, KickReturns, BleTypeOK, PathInv
<1>3. ASSUME OnLinux(Linux!Opening \/ Linux!Reader \/ Linux!Cancel
                       \/ Linux!FrameArrives)
               \/ OnLinux(Linux!Receive)
      PROVE  BleTypeOK' /\ PathInv'
  <2>1. platform = "linux" /\ UNCHANGED <<platform, transportVars>>
    BY <1>3 DEF OnLinux
  <2>2. Linux!TypeOK' /\ ReaderInStep'
    BY <1>3, <2>1, ReaderType DEF OnLinux, BleTypeOK, PathInv
  <2>3. pc' \in {"subscribe", "failed"} => pc \in {"subscribe", "failed"}
    BY <1>3, ReaderGoesOn DEF OnLinux
  <2> QED
    BY <2>1, <2>2, <2>3 DEF BleTypeOK, PathInv, transportVars
<1>4. ASSUME OnOther(Tinygo!Opening \/ Tinygo!Callbacks \/ Tinygo!CloserCloses
                       \/ Tinygo!Cancel)
               \/ OnOther(Tinygo!Receive)
      PROVE  BleTypeOK' /\ PathInv'
  <2>1. platform = "other" /\ UNCHANGED <<platform, transportVars, fdOpen>>
    BY <1>4 DEF OnOther, linuxVars
  <2>2. Tinygo!TypeOK' /\ CallbacksInStep'
    BY <1>4, <2>1, CallbacksType DEF OnOther, BleTypeOK, PathInv
  <2>3. pc' \in {"subscribe", "failed"} => pc \in {"subscribe", "failed"}
    BY <1>4, CallbacksGoOn DEF OnOther
  <2> QED
    BY <2>1, <2>2, <2>3 DEF BleTypeOK, PathInv, transportVars
<1> QED
  BY <1>u, <1>1, <1>2, <1>3, <1>4 DEF BleNext, Path, Take

\* The reader reads what poll has announced and sends what passed its filter,
\* no channel is received from or closed before it was returned, and a closed
\* one finds the reader at its end (subscribe and its goroutine of chario_linux.go;
\* the callback of chario_tinygo.go).
THEOREM PathInvariant == BleSpec => [](BleTypeOK /\ PathInv)
  BY InitInv, NextInv, PTL DEF BleSpec

\* The state of the Transport and of either notification path keeps its type:
\* in particular no channel outgrows its capacity.
THEOREM TypeCorrect == BleSpec => []BleTypeOK
  BY PathInvariant, PTL

\* On every way out of readHCINotifications the socket is closed before the
\* channel, so no receiver that sees the end of it has left a socket open.
THEOREM SocketClosed == BleSpec => []NoSocketLeft
<1>1. BleTypeOK /\ PathInv => NoSocketLeft
  BY DEF BleTypeOK, PathInv, ReaderInStep, CallbacksInStep, NoSocketLeft
<1> QED
  BY <1>1, PathInvariant, PTL

-----------------------------------------------------------------------------
(* What it takes for the close of the channel not to panic                 *)

\* No callback runs while the goroutine closes the channel, and none starts
\* after.  The code does not see to it, because nothing unregisters the
\* callback: it is what the BLE stack would have to keep.
CallbacksOver ==
    /\ ~closed /\ closed' => \A t \in Threads : copied[t] = << >>
    /\ closed => \A t \in Threads : copied[t] = << >> => copied'[t] = << >>

\* No callback has anything to send once the channel is closed.
NothingToSend ==
    /\ ~panicked
    /\ platform = "other" /\ closed => \A t \in Threads : copied[t] = << >>

\* The reader of the HCI socket has none of this state: on Linux nothing is
\* asked of the callbacks.
LEMMA NextNothingToSend ==
    ASSUME NothingToSend, [BleNext]_bleVars, [platform = "other" => CallbacksOver]_bleVars
    PROVE  NothingToSend'
<1> USE DEF NothingToSend
<1>u. CASE UNCHANGED bleVars
  BY <1>u DEF bleVars, tinygoVars
<1>1. CASE Write
  BY <1>1 DEF Write, tinygoVars
<1>2. CASE SubscribeNotify
  BY <1>2 DEF SubscribeNotify, tinygoVars
<1>3. ASSUME OnLinux(Linux!Opening \/ Linux!Reader \/ Linux!Cancel
                       \/ Linux!FrameArrives)
               \/ OnLinux(Linux!Receive)
      PROVE  NothingToSend'
  BY <1>3 DEF OnLinux, tinygoVars
<1>4. ASSUME OnOther(Tinygo!Opening \/ Tinygo!Callbacks \/ Tinygo!CloserCloses
                       \/ Tinygo!Cancel)
               \/ OnOther(Tinygo!Receive),
             ~UNCHANGED bleVars
      PROVE  NothingToSend'
  <2>1. platform = "other" /\ platform' = "other" /\ CallbacksOver
    BY <1>4 DEF OnOther
  <2>2. CASE Tinygo!Opening
    BY <2>1, <2>2 DEF Tinygo!Opening, Tinygo!Enabled, Tinygo!EnableFails
  <2>3. ASSUME NEW t \in Threads, Tinygo!Callback(t) PROVE NothingToSend'
    <3>1. CASE ~closed
      BY <2>3, <3>1
      DEF Tinygo!Callback, Tinygo!CallbackCopies, Tinygo!CallbackSends,
          Tinygo!CallbackDrops, Tinygo!CallbackPanics
    <3>2. CASE closed
      <4>1. copied[t] = << >>
        BY <2>1, <2>3, <3>2
      <4>2. Tinygo!CallbackCopies(t)
        BY <2>3, <4>1
        DEF Tinygo!Callback, Tinygo!CallbackSends, Tinygo!CallbackDrops,
            Tinygo!CallbackPanics, Tinygo!CallbackReturns
      <4>3. \A u \in Threads : copied[u] = << >> /\ copied'[u] = << >>
        BY <2>1, <3>2 DEF CallbacksOver
      <4> QED
        BY <4>2, <4>3 DEF Tinygo!CallbackCopies
    <3> QED
      BY <3>1, <3>2
  <2>4. CASE Tinygo!CloserCloses
    <3>1. \A t \in Threads : copied[t] = << >>
      BY <2>1, <2>4 DEF Tinygo!CloserCloses, CallbacksOver
    <3> QED
      BY <2>4, <3>1 DEF Tinygo!CloserCloses
  <2>5. CASE Tinygo!Cancel
    BY <2>1, <2>5 DEF Tinygo!Cancel
  <2>6. CASE Tinygo!Receive
    BY <2>1, <2>6 DEF Tinygo!Receive
  <2> QED
    BY <1>4, <2>2, <2>3, <2>4, <2>5, <2>6 DEF OnOther, Tinygo!Callbacks
<1>5. CASE Path \/ Take
  BY <1>3, <1>4, <1>5, <1>u DEF Path, Take
<1> QED
  BY <1>u, <1>1, <1>2, <1>5 DEF BleNext

\* Only a callback that runs at the close or after it sends on a closed channel
\* (tinygoCharIO.subscribe): a stack that runs none then brings no program down.
THEOREM PanicsOnlyOnLateCallback ==
    BleSpec /\ [][platform = "other" => CallbacksOver]_bleVars => []NoSendOnClosed
<1>1. BleInit => NothingToSend
  BY DEF BleInit, Tinygo!Init, NothingToSend
<1>2. NothingToSend /\ [BleNext]_bleVars /\ [platform = "other" => CallbacksOver]_bleVars
        => NothingToSend'
  BY NextNothingToSend
<1>3. NothingToSend => NoSendOnClosed
  BY DEF NothingToSend, NoSendOnClosed
<1> QED
  BY <1>1, <1>2, <1>3, PTL DEF BleSpec

-----------------------------------------------------------------------------
(* Both paths are the channel of RawChannel                                *)

\* The path starts as a raw channel does.
LEMMA InitChannel == BleInit => RC!Init
  BY DEF BleInit, Linux!Init, RC!Init

\* A step of the linux reader is one of the raw channel, or none of it.
LEMMA ReaderIsChannel ==
    ASSUME Linux!TypeOK, ReaderInStep,
           Linux!Opening \/ Linux!Reader \/ Linux!Cancel \/ Linux!FrameArrives
             \/ Linux!Receive
    PROVE  [RC!Next]_RC!rcVars
<1> USE DEF RC!rcVars, RC!Next, Linux!Goto, Linux!TypeOK
<1>1. CASE Linux!SetNonblock \/ Linux!CheckCtx \/ Linux!PollReady
             \/ Linux!PollTimeout \/ Linux!PollFails \/ Linux!Read \/ Linux!ReadFails
             \/ Linux!Filter \/ Linux!SendCancelled \/ Linux!SendDrops \/ Linux!CloseFd
             \/ Linux!FrameArrives
  BY <1>1
  DEF Linux!SetNonblock, Linux!CheckCtx, Linux!PollReady, Linux!PollTimeout,
      Linux!PollFails, Linux!Read, Linux!ReadFails, Linux!Filter,
      Linux!SendCancelled, Linux!SendDrops, Linux!CloseFd, Linux!FrameArrives
<1>2. CASE Linux!Subscribe
  BY <1>2 DEF Linux!Subscribe, RC!Offer, ReaderInStep
<1>3. CASE Linux!SubscribeFails
  BY <1>3 DEF Linux!SubscribeFails, RC!Fail
<1>4. CASE Linux!CloseOut
  BY <1>4 DEF Linux!CloseOut, RC!End
<1>5. CASE Linux!Send
  <2>1. buf \in Ours /\ ~closed /\ pc = "send" /\ pc' = "checkCtx"
    BY <1>5 DEF Linux!Send, ReaderInStep, Linux!Matches, Ours
  <2> QED
    BY <1>5, <2>1 DEF Linux!Send, RC!Put
<1>6. CASE Linux!Cancel
  BY <1>6 DEF Linux!Cancel, RC!Cancel
<1>7. CASE Linux!Receive
  <2>1. CASE pc \in {"subscribe", "failed"}
    BY <1>7, <2>1 DEF Linux!Receive, ReaderInStep
  <2>2. CASE pc \notin {"subscribe", "failed"}
    BY <1>7, <2>2 DEF Linux!Receive, RC!Take
  <2> QED
    BY <2>1, <2>2
<1> QED
  BY <1>1, <1>2, <1>3, <1>4, <1>5, <1>6, <1>7 DEF Linux!Opening, Linux!Reader

\* So is a step of the tinygo callbacks; a receiver has the channel from
\* subscribe.
LEMMA CallbacksAreChannel ==
    ASSUME Tinygo!TypeOK, CallbacksInStep,
           \/ Tinygo!Opening \/ Tinygo!Callbacks \/ Tinygo!CloserCloses \/ Tinygo!Cancel
           \/ (Tinygo!Receive /\ pc \notin {"subscribe", "failed"})
    PROVE  [RC!Next]_RC!rcVars
<1> USE DEF RC!rcVars, RC!Next, Tinygo!TypeOK
<1>1. CASE Tinygo!Enabled
  BY <1>1 DEF Tinygo!Enabled, RC!Offer, CallbacksInStep
<1>2. CASE Tinygo!EnableFails
  BY <1>2 DEF Tinygo!EnableFails, RC!Fail
<1>3. ASSUME NEW t \in Threads, Tinygo!Callback(t)
      PROVE  [RC!Next]_RC!rcVars
  <2>1. CASE Tinygo!CallbackCopies(t) \/ Tinygo!CallbackDrops(t)
               \/ Tinygo!CallbackPanics(t)
    BY <2>1 DEF Tinygo!CallbackCopies, Tinygo!CallbackDrops, Tinygo!CallbackPanics
  <2>2. CASE Tinygo!CallbackSends(t)
    <3>1. \E pkt \in Ours : ch' = Append(ch, pkt)
      BY <2>2, CallbackAppends
    <3>2. ~closed /\ Len(ch) < Cap /\ UNCHANGED <<pc, cancelled, closed>>
      BY <2>2 DEF Tinygo!CallbackSends, Tinygo!HasRoom
    <3>3. CASE pc = "failed"
      BY <3>2, <3>3
    <3>4. CASE pc # "failed"
      BY <3>1, <3>2, <3>4 DEF RC!Put
    <3> QED
      BY <3>3, <3>4
  <2> QED
    BY <1>3, <2>1, <2>2 DEF Tinygo!Callback
<1>4. CASE Tinygo!CloserCloses
  BY <1>4 DEF Tinygo!CloserCloses, RC!End
<1>5. CASE Tinygo!Cancel
  BY <1>5 DEF Tinygo!Cancel, RC!Cancel
<1>6. CASE Tinygo!Receive /\ pc \notin {"subscribe", "failed"}
  BY <1>6 DEF Tinygo!Receive, RC!Take
<1> QED
  BY <1>1, <1>2, <1>3, <1>4, <1>5, <1>6 DEF Tinygo!Opening, Tinygo!Callbacks

\* Every step of either path is a step of the channel charIO.subscribe
\* promises: only notifications of the subscribed handle enter it, none after
\* it is closed, and putting one in waits for nobody.  (That a cancellation
\* closes it rests on fairness and is only model-checked.)
THEOREM ChannelRefinement == BleSpec => RC!SafeSpec
<1>1. BleTypeOK /\ PathInv /\ [BleNext]_bleVars => [RC!Next]_RC!rcVars
  <2> SUFFICES ASSUME BleTypeOK, PathInv, [BleNext]_bleVars
               PROVE  [RC!Next]_RC!rcVars
    OBVIOUS
  <2>u. CASE UNCHANGED bleVars \/ Write \/ SubscribeNotify
    BY <2>u DEF bleVars, Write, SubscribeNotify, RC!rcVars
  <2>1. ASSUME OnLinux(Linux!Opening \/ Linux!Reader \/ Linux!Cancel
                         \/ Linux!FrameArrives)
                 \/ OnLinux(Linux!Receive)
        PROVE  [RC!Next]_RC!rcVars
    BY <2>1, ReaderIsChannel DEF OnLinux, BleTypeOK, PathInv
  <2>2. CASE OnOther(Tinygo!Opening \/ Tinygo!Callbacks \/ Tinygo!CloserCloses
                       \/ Tinygo!Cancel)
    BY <2>2, CallbacksAreChannel DEF OnOther, BleTypeOK, PathInv
  <2>3. CASE notify = "given" /\ OnOther(Tinygo!Receive)
    BY <2>3, CallbacksAreChannel DEF OnOther, BleTypeOK, PathInv
  <2> QED
    BY <2>u, <2>1, <2>2, <2>3 DEF BleNext, Path, Take
<1> QED
  BY <1>1, InitChannel, PathInvariant, PTL DEF BleSpec, RC!SafeSpec

=============================================================================
