-------------------------- MODULE HubRuntimeProofs --------------------------
(***************************************************************************)
(* Proofs about HubRuntime for every server timeout and ping interval, and *)
(* any number of frames and sends: what its first event may say, and when  *)
(* the server timeout may elapse.                                          *)
(***************************************************************************)
EXTENDS HubRuntime, TLAPS

TypeOK ==
    /\ peer \in {"open", "ended"}
    /\ read \in {"running", "ended", "aborted"}
    /\ incoming \in Seq(Frames \cup {Closed})
    /\ receive \in {"initial", "select", "frame", "done"}
    /\ busy \in {"no", "handler", "close"}
    /\ keep \in {"select", "pinging", "closing", "done"}
    /\ silence \in Nat /\ silence <= ServerTimeout
    /\ heard \in Nat /\ heard <= ServerTimeout
    /\ owner \in {"running", "closing", "aborting", "stopped", "dropped"}
    /\ events \in Seq({"close", "timeout", "dropped"})
    /\ {received, fresh, slow, told, signaled} \subseteq BOOLEAN

-----------------------------------------------------------------------------
(* The inductive invariants *)

\* Who may have ended the transport, and what is known by then: a task that
\* closes it has signaled first, and read_loop() ends by itself only with the
\* server's end or when nobody receives any more.
EndsKnown ==
    /\ \A i \in 1..Len(incoming) : incoming[i] = Closed => peer = "ended"
    /\ read = "ended" => peer = "ended" \/ receive = "done"
    /\ read = "aborted" => signaled \/ owner # "running"
    /\ busy = "close" \/ keep = "closing" \/ told => signaled

\* The receive task reports "dropped" last of all it does.
ReportsLast == events # <<>> /\ Head(events) = "dropped" => receive = "done"

EventInv == TypeOK /\ EndsKnown /\ ReportsLast /\ DroppedMeansDropped

\* The keepalive task has seen every frame of earlier ticks: its clock is not
\* ahead of the time since a frame arrived, and a frame of this tick is still
\* on its way to it or has set the clock back.
ClockInv ==
    ~slow /\ receive # "done" /\ keep \notin {"closing", "done"} =>
        /\ silence <= heard
        /\ fresh => incoming # <<>> \/ received \/ silence = 0

-----------------------------------------------------------------------------
(* Facts about the channels *)

\* A channel that something was put into.
LEMMA AppendFacts ==
    ASSUME NEW S, NEW s \in Seq(S), NEW e \in S
    PROVE  /\ Append(s, e) \in Seq(S) /\ Append(s, e) # <<>>
           /\ Len(Append(s, e)) = Len(s) + 1
           /\ s = <<>> => Head(Append(s, e)) = e
           /\ s # <<>> => Head(Append(s, e)) = Head(s)
           /\ \A i \in 1..Len(Append(s, e)) :
                Append(s, e)[i] = e \/ (i \in 1..Len(s) /\ Append(s, e)[i] = s[i])
OBVIOUS

\* A channel that something was taken from.
LEMMA TailFacts ==
    ASSUME NEW S, NEW s \in Seq(S), s # <<>>
    PROVE  /\ Tail(s) \in Seq(S) /\ Head(s) \in S
           /\ 1 \in 1..Len(s) /\ s[1] = Head(s)
           /\ \A i \in 1..Len(Tail(s)) : i + 1 \in 1..Len(s) /\ Tail(s)[i] = s[i + 1]
OBVIOUS

\* The end of the transport is no frame.
LEMMA ClosedIsNoFrame == Closed \notin Frames
  BY DEF Closed, Frames

-----------------------------------------------------------------------------
\* Every step keeps the variables in their types, and the clocks at or below
\* the server timeout.
LEMMA TypeStep ==
    ASSUME TypeOK, [Next]_vars
    PROVE  TypeOK'
<1> USE DEF wsVars, receiveVars, keepVars, ownerVars, closeVars, historyVars
<1>a. \A e \in {"close", "timeout", "dropped"} :
          Append(events, e) \in Seq({"close", "timeout", "dropped"})
  BY DEF TypeOK
<1>b. \A f \in Frames \cup {Closed} : Append(incoming, f) \in Seq(Frames \cup {Closed})
  BY DEF TypeOK
<1>c. incoming # <<>> => Tail(incoming) \in Seq(Frames \cup {Closed})
  BY DEF TypeOK
<1>d. 0 \in Nat /\ 0 <= ServerTimeout /\ 1 <= ServerTimeout
  BY HubRuntimeAssumption
<1>e. \A n \in {silence, heard} : Up(n, ServerTimeout) \in Nat /\ Up(n, ServerTimeout) <= ServerTimeout
  BY HubRuntimeAssumption DEF TypeOK, Up
<1>1. ASSUME NEW f \in Frames, ReadFrame(f) PROVE TypeOK'
  BY <1>1, <1>b, SMTT(30) DEF TypeOK, ReadFrame
<1>2. CASE ReadEnd
  BY <1>2, <1>b DEF TypeOK, ReadEnd
<1>3. CASE DispatchStop
  BY <1>3 DEF TypeOK, DispatchStop
<1>4. CASE DispatchPing
  BY <1>4 DEF TypeOK, DispatchPing, Dispatched
<1>5. CASE DispatchInvocation
  BY <1>5 DEF TypeOK, DispatchInvocation
<1>6. CASE DispatchClose
  BY <1>6, <1>a DEF TypeOK, DispatchClose, Signal
<1>7. CASE FrameDone
  BY <1>7 DEF TypeOK, FrameDone
<1>8. ASSUME NEW ok \in BOOLEAN, DispatchCloseDone(ok) PROVE TypeOK'
  BY <1>8 DEF TypeOK, DispatchCloseDone, CloseTransport, Dispatched
<1>9. CASE ReceiveStop
  BY <1>9 DEF TypeOK, ReceiveStop
<1>10. CASE ReceiveFrame
  BY <1>10, <1>c DEF TypeOK, ReceiveFrame
<1>11. CASE ReceiveEnd
  BY <1>11, <1>a, Zenon DEF TypeOK, ReceiveEnd, Report
<1>12. CASE KeepStop
  BY <1>12, <1>d DEF TypeOK, KeepStop, KeepEnds
<1>13. CASE KeepReceived
  BY <1>13, <1>d, Zenon DEF TypeOK, KeepReceived
<1>14. CASE KeepSent
  BY <1>14 DEF TypeOK, KeepSent
<1>15. CASE KeepTimeout
  BY <1>15, <1>a DEF TypeOK, KeepTimeout, Signal
<1>16. CASE KeepPing
  BY <1>16 DEF TypeOK, KeepPing
<1>17. CASE KeepPinged
  BY <1>17 DEF TypeOK, KeepPinged
<1>18. ASSUME NEW ok \in BOOLEAN, KeepClose(ok) PROVE TypeOK'
  BY <1>18, <1>d DEF TypeOK, KeepClose, CloseTransport, KeepEnds
<1>19. ASSUME NEW ok \in BOOLEAN, HandlerDone(ok) PROVE TypeOK'
  BY <1>19 DEF TypeOK, HandlerDone, Dispatched
<1>20. CASE Send
  BY <1>20 DEF TypeOK, Send
<1>21. CASE Shutdown
  BY <1>21 DEF TypeOK, Shutdown
<1>22. CASE ShutdownAbort
  BY <1>22, <1>d DEF TypeOK, ShutdownAbort, KeepEnds
<1>23. ASSUME NEW ok \in BOOLEAN, ShutdownClose(ok) PROVE TypeOK'
  BY <1>23 DEF TypeOK, ShutdownClose, CloseTransport
<1>24. CASE DropRuntime
  BY <1>24 DEF TypeOK, DropRuntime
<1>25. CASE ServerEnd
  BY <1>25 DEF TypeOK, ServerEnd
<1>26. CASE Tick
  BY <1>26, <1>d, <1>e, ZenonT(30) DEF TypeOK, Tick
<1>27. CASE UNCHANGED vars
  BY <1>27 DEF TypeOK, vars
<1> QED
  BY <1>1, <1>2, <1>3, <1>4, <1>5, <1>6, <1>7, <1>8, <1>9, <1>10, <1>11, <1>12, <1>13, <1>14,
     <1>15, <1>16, <1>17, <1>18, <1>19, <1>20, <1>21, <1>22, <1>23, <1>24, <1>25, <1>26, <1>27
     DEF Next, Receive, Keepalive, Awaited

-----------------------------------------------------------------------------
\* Every step keeps EventInv: whoever closes the transport signals first.
LEMMA EventStep ==
    ASSUME EventInv, [Next]_vars
    PROVE  EventInv'
<1> USE DEF wsVars, receiveVars, keepVars, ownerVars, closeVars, historyVars
<1> DEFINE Inv == EndsKnown /\ ReportsLast /\ DroppedMeansDropped
<1>t. TypeOK /\ Inv
  BY DEF EventInv
<1>a. \A e \in {"close", "timeout", "dropped"} :
          /\ Append(events, e) # <<>>
          /\ events = <<>> => Head(Append(events, e)) = e
          /\ events # <<>> => Head(Append(events, e)) = Head(events)
  <2>1. events \in Seq({"close", "timeout", "dropped"})
    BY <1>t DEF TypeOK
  <2> QED
    BY <2>1, AppendFacts
<1>b. \A f \in Frames \cup {Closed} :
          (\A i \in 1..Len(Append(incoming, f)) :
             Append(incoming, f)[i] = f
               \/ (i \in 1..Len(incoming) /\ Append(incoming, f)[i] = incoming[i]))
  BY AppendFacts DEF EventInv, TypeOK
<1>c. incoming # <<>> =>
          /\ 1 \in 1..Len(incoming) /\ incoming[1] = Head(incoming)
          /\ \A i \in 1..Len(Tail(incoming)) :
               i + 1 \in 1..Len(incoming) /\ Tail(incoming)[i] = incoming[i + 1]
  BY TailFacts DEF EventInv, TypeOK
<1> USE DEF EndsKnown, ReportsLast, DroppedMeansDropped
<1>1. ASSUME NEW f \in Frames, ReadFrame(f) PROVE Inv'
  BY <1>1, <1>t, <1>b, ClosedIsNoFrame, Zenon DEF TypeOK, ReadFrame
<1>2. ASSUME ReadEnd PROVE Inv'
  BY <1>2, <1>t, <1>b, Zenon DEF TypeOK, ReadEnd
<1>3. ASSUME DispatchStop PROVE Inv'
  BY <1>3, <1>t DEF TypeOK, DispatchStop
<1>4. ASSUME DispatchPing PROVE Inv'
  BY <1>4, <1>t DEF TypeOK, DispatchPing, Dispatched
<1>5. ASSUME DispatchInvocation PROVE Inv'
  BY <1>5, <1>t DEF TypeOK, DispatchInvocation
<1>6. ASSUME DispatchClose PROVE Inv'
  BY <1>6, <1>t, <1>a DEF TypeOK, DispatchClose, Signal, Dispatching
<1>7. ASSUME FrameDone PROVE Inv'
  BY <1>7, <1>t DEF TypeOK, FrameDone
<1>8. ASSUME NEW ok \in BOOLEAN, DispatchCloseDone(ok) PROVE Inv'
  BY <1>8, <1>t DEF TypeOK, DispatchCloseDone, CloseTransport, Dispatched
<1>9. ASSUME ReceiveStop PROVE Inv'
  BY <1>9, <1>t DEF TypeOK, ReceiveStop
<1>10. ASSUME ReceiveFrame PROVE Inv'
  BY <1>10, <1>t, <1>c, Zenon DEF TypeOK, ReceiveFrame
<1>11. ASSUME ReceiveEnd PROVE Inv'
  BY <1>11, <1>t, <1>a, <1>c, Zenon DEF TypeOK, ReceiveEnd, Report
<1>12. ASSUME KeepStop PROVE Inv'
  BY <1>12, <1>t DEF TypeOK, KeepStop, KeepEnds
<1>13. ASSUME KeepReceived PROVE Inv'
  BY <1>13, <1>t DEF TypeOK, KeepReceived
<1>14. ASSUME KeepSent PROVE Inv'
  BY <1>14, <1>t DEF TypeOK, KeepSent
<1>15. ASSUME KeepTimeout PROVE Inv'
  BY <1>15, <1>t, <1>a DEF TypeOK, KeepTimeout, Signal
<1>16. ASSUME KeepPing PROVE Inv'
  BY <1>16, <1>t DEF TypeOK, KeepPing
<1>17. ASSUME KeepPinged PROVE Inv'
  BY <1>17, <1>t DEF TypeOK, KeepPinged
<1>18. ASSUME NEW ok \in BOOLEAN, KeepClose(ok) PROVE Inv'
  BY <1>18, <1>t DEF TypeOK, KeepClose, CloseTransport, KeepEnds
<1>19. ASSUME NEW ok \in BOOLEAN, HandlerDone(ok) PROVE Inv'
  BY <1>19, <1>t DEF TypeOK, HandlerDone, Dispatched
<1>20. ASSUME Send PROVE Inv'
  BY <1>20, <1>t DEF TypeOK, Send
<1>21. ASSUME Shutdown PROVE Inv'
  BY <1>21, <1>t DEF TypeOK, Shutdown
<1>22. ASSUME ShutdownAbort PROVE Inv'
  BY <1>22, <1>t DEF TypeOK, ShutdownAbort, KeepEnds
<1>23. ASSUME NEW ok \in BOOLEAN, ShutdownClose(ok) PROVE Inv'
  BY <1>23, <1>t DEF TypeOK, ShutdownClose, CloseTransport
<1>24. ASSUME DropRuntime PROVE Inv'
  BY <1>24, <1>t DEF TypeOK, DropRuntime
<1>25. ASSUME ServerEnd PROVE Inv'
  BY <1>25, <1>t DEF TypeOK, ServerEnd
<1>26. ASSUME Tick PROVE Inv'
  BY <1>26, <1>t DEF TypeOK, Tick
<1>27. ASSUME UNCHANGED vars PROVE Inv'
  BY <1>27, <1>t DEF vars
<1> QED
  BY TypeStep, <1>t,
     <1>1, <1>2, <1>3, <1>4, <1>5, <1>6, <1>7, <1>8, <1>9, <1>10, <1>11, <1>12, <1>13, <1>14,
     <1>15, <1>16, <1>17, <1>18, <1>19, <1>20, <1>21, <1>22, <1>23, <1>24, <1>25, <1>26, <1>27, Zenon
     DEF EventInv, Next, Receive, Keepalive, Awaited

-----------------------------------------------------------------------------
\* Every step keeps ClockInv: time passes only after a frame has been handed to
\* the receive task and the keepalive task has been told.
LEMMA ClockStep ==
    ASSUME TypeOK, ClockInv, [Next]_vars
    PROVE  ClockInv'
<1> USE DEF wsVars, receiveVars, keepVars, ownerVars, closeVars, historyVars
<1>a. \A f \in Frames \cup {Closed} : Append(incoming, f) # <<>>
  BY AppendFacts DEF TypeOK
<1>1. ASSUME NEW f \in Frames, ReadFrame(f) PROVE ClockInv'
  BY <1>1, <1>a DEF ClockInv, TypeOK, ReadFrame
<1>2. CASE ReadEnd
  BY <1>2, <1>a DEF ClockInv, TypeOK, ReadEnd
<1>3. CASE DispatchStop
  BY <1>3 DEF ClockInv, TypeOK, DispatchStop
<1>4. CASE DispatchPing
  BY <1>4 DEF ClockInv, TypeOK, DispatchPing, Dispatched
<1>5. CASE DispatchInvocation
  BY <1>5 DEF ClockInv, TypeOK, DispatchInvocation
<1>6. CASE DispatchClose
  BY <1>6 DEF ClockInv, TypeOK, DispatchClose, Signal, Dispatching
<1>7. CASE FrameDone
  BY <1>7 DEF ClockInv, TypeOK, FrameDone
<1>8. ASSUME NEW ok \in BOOLEAN, DispatchCloseDone(ok) PROVE ClockInv'
  BY <1>8 DEF ClockInv, TypeOK, DispatchCloseDone, CloseTransport, Dispatched
<1>9. CASE ReceiveStop
  BY <1>9 DEF ClockInv, TypeOK, ReceiveStop
<1>10. CASE ReceiveFrame
  BY <1>10 DEF ClockInv, TypeOK, ReceiveFrame
<1>11. CASE ReceiveEnd
  BY <1>11 DEF ClockInv, TypeOK, ReceiveEnd, Report
<1>12. CASE KeepStop
  BY <1>12 DEF ClockInv, TypeOK, KeepStop, KeepEnds
<1>13. CASE KeepReceived
  <2>1. silence' = 0 /\ heard' = heard /\ 0 <= heard
    BY <1>13 DEF TypeOK, KeepReceived
  <2> QED
    BY <2>1, Zenon DEF ClockInv
<1>14. CASE KeepSent
  BY <1>14 DEF ClockInv, TypeOK, KeepSent
<1>15. CASE KeepTimeout
  BY <1>15 DEF ClockInv, TypeOK, KeepTimeout, Signal
<1>16. CASE KeepPing
  BY <1>16 DEF ClockInv, TypeOK, KeepPing
<1>17. CASE KeepPinged
  BY <1>17 DEF ClockInv, TypeOK, KeepPinged
<1>18. ASSUME NEW ok \in BOOLEAN, KeepClose(ok) PROVE ClockInv'
  BY <1>18 DEF ClockInv, TypeOK, KeepClose, CloseTransport, KeepEnds
<1>19. ASSUME NEW ok \in BOOLEAN, HandlerDone(ok) PROVE ClockInv'
  BY <1>19 DEF ClockInv, TypeOK, HandlerDone, Dispatched
<1>20. CASE Send
  BY <1>20 DEF ClockInv, TypeOK, Send
<1>21. CASE Shutdown
  BY <1>21 DEF ClockInv, TypeOK, Shutdown
<1>22. CASE ShutdownAbort
  BY <1>22 DEF ClockInv, TypeOK, ShutdownAbort, KeepEnds
<1>23. ASSUME NEW ok \in BOOLEAN, ShutdownClose(ok) PROVE ClockInv'
  BY <1>23 DEF ClockInv, TypeOK, ShutdownClose, CloseTransport
<1>24. CASE DropRuntime
  BY <1>24 DEF ClockInv, TypeOK, DropRuntime
<1>25. CASE ServerEnd
  BY <1>25 DEF ClockInv, TypeOK, ServerEnd
<1>26. CASE Tick
  <2> SUFFICES ASSUME ~slow', receive' # "done", keep' \notin {"closing", "done"}
               PROVE  silence' <= heard' /\ ~fresh'
    BY <1>26 DEF ClockInv, Tick
  <2>1. ~slow /\ busy = "no" /\ keep # "pinging" /\ receive # "done" /\ keep \notin {"closing", "done"}
    BY <1>26, Zenon DEF Tick
  <2>2. receive = "select" /\ keep = "select" /\ incoming = <<>> /\ ~received
    BY <1>26, <2>1 DEF Tick, Ready, TypeOK
  <2>3. silence <= heard /\ (fresh => silence = 0)
    BY <2>1, <2>2 DEF ClockInv
  <2>4. CASE fresh
    <3>1. silence' = Up(0, ServerTimeout) /\ heard' = 1 /\ ~fresh'
      BY <1>26, <2>3, <2>4 DEF Tick
    <3> QED
      BY <3>1, HubRuntimeAssumption DEF Up
  <2>5. CASE ~fresh
    <3>1. /\ silence' = Up(silence, ServerTimeout) /\ heard' = Up(heard, ServerTimeout)
          /\ ~fresh' /\ silence <= heard
      BY <1>26, <2>3, <2>5 DEF Tick
    <3> QED
      BY <3>1, HubRuntimeAssumption DEF Up, TypeOK
  <2> QED
    BY <2>4, <2>5
<1>27. CASE UNCHANGED vars
  BY <1>27 DEF ClockInv, vars
<1> QED
  BY <1>1, <1>2, <1>3, <1>4, <1>5, <1>6, <1>7, <1>8, <1>9, <1>10, <1>11, <1>12, <1>13, <1>14,
     <1>15, <1>16, <1>17, <1>18, <1>19, <1>20, <1>21, <1>22, <1>23, <1>24, <1>25, <1>26, <1>27
     DEF Next, Receive, Keepalive, Awaited

\* HubRuntime::start() establishes both invariants.
LEMMA StartInv == Init => EventInv /\ ClockInv
<1> SUFFICES ASSUME Init PROVE EventInv /\ ClockInv
  OBVIOUS
<1>1. TypeOK
  <2>1. 0 \in Nat /\ 0 <= ServerTimeout
    BY HubRuntimeAssumption
  <2>2. <<>> \in Seq(Frames \cup {Closed}) /\ <<>> \in Seq({"close", "timeout", "dropped"})
    OBVIOUS
  <2> QED
    BY <2>1, <2>2, Zenon DEF Init, TypeOK
<1>2. EndsKnown /\ ReportsLast /\ DroppedMeansDropped
  BY DEF Init, EndsKnown, ReportsLast, DroppedMeansDropped
<1>3. ClockInv
  BY DEF Init, ClockInv
<1> QED
  BY <1>1, <1>2, <1>3 DEF EventInv

\* For every timeout and any number of frames: the first event says "dropped" only if
\* the transport ended by itself, or its owner has turned to it, and no Close message
\* was dispatched.
THEOREM DropIsDrop == Spec => []DroppedMeansDropped
<1>1. EventInv => DroppedMeansDropped
  BY DEF EventInv
<1> QED
  BY <1>1, StartInv, EventStep, PTL DEF Spec

\* For every timeout and any number of frames: while the receive task runs, the server
\* timeout elapses only after that long without a frame, unless dispatch() or a ping
\* has held a task up.
THEOREM TimeoutIsSilence == Spec => TimeoutMeansSilence
<1>1. ASSUME TypeOK, ClockInv, KeepTimeout, receive # "done", ~slow
      PROVE  heard = ServerTimeout
  <2>1. silence >= ServerTimeout /\ keep = "select"
    BY <1>1 DEF KeepTimeout
  <2>2. silence <= heard
    BY <1>1, <2>1 DEF ClockInv
  <2> QED
    BY <1>1, <2>1, <2>2, HubRuntimeAssumption DEF TypeOK
<1>2. TypeOK /\ ClockInv /\ [Next]_vars =>
        [KeepTimeout /\ receive # "done" => heard = ServerTimeout \/ slow]_vars
  BY <1>1
<1>3. EventInv => TypeOK
  BY DEF EventInv
<1> QED
  BY <1>2, <1>3, StartInv, EventStep, ClockStep, PTL DEF Spec, TimeoutMeansSilence
=============================================================================
