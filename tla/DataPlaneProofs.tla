--------------------------- MODULE DataPlaneProofs --------------------------
(***************************************************************************)
(* Proofs about DataPlane for every set of ports and of connections.        *)
(*                                                                          *)
(* That a proxy handed to the caller is up rests on who may still close its *)
(* server: a detached Close exists only once the caller has given up        *)
(* (LateClose), and until Close or a failed Listen nobody has cancelled the *)
(* proxy's own context (NoCancelYet), so no listener is closed unless the   *)
(* process stops.  That the WaitGroup never goes negative, and that Close   *)
(* returns only when no accept loop is left, rests on it counting them      *)
(* exactly (CountsLoops).                                                   *)
(***************************************************************************)
EXTENDS DataPlane, FiniteSetTheorems, TLAPS

\* A detached Close is of a server the caller has given up.
LateClose == closing => caller = "failed"

\* The states of the caller before it closes or gives up anything.
RisingPCs == {"new", "start", "listen", "up"}

\* Until then the proxy's context is its caller's, the server is as Start left
\* it, and a listener is closed only because the process stops.
NoCancelYet == caller \in RisingPCs =>
    /\ ~pctx
    /\ srv # "closed"
    /\ start = "ok" => srv = "up"
    /\ caller \in {"listen", "up"} => start = "ok"
    /\ ~ctx => \A p \in Ports : ln[p] # "closed"

\* A port has an accept loop once it has a listener, and a proxy in the
\* caller's hands has all its listeners.
Listeners == /\ \A p \in Ports : ln[p] = "none" => loop[p] = "none"
             /\ caller = "up" => \A p \in Ports : ln[p] # "none"

\* The WaitGroup counts the accept loops that run.
Accepting   == {p \in Ports : loop[p] = "accepting"}
CountsLoops == wg = Cardinality(Accepting)

\* After Close the server is closed and no accept loop runs.
CloseIsClean == /\ caller \in {"waiting", "closed"} => srv = "closed"
                /\ caller = "closed" => Accepting = {}

IInv == TypeOK /\ LateClose /\ NoCancelYet /\ Listeners /\ CountsLoops /\ CloseIsClean
-----------------------------------------------------------------------------
(* The WaitGroup *)

\* It is bounded by the number of ports, and is zero only when no loop runs.
LEMMA LoopCount ==
    ASSUME NEW S \in SUBSET Ports
    PROVE  /\ IsFiniteSet(S)
           /\ Cardinality(S) \in 0 .. Cardinality(Ports)
           /\ Cardinality(S) = 0 <=> S = {}
<1>1. /\ IsFiniteSet(S) /\ Cardinality(S) <= Cardinality(Ports)
      /\ Cardinality(Ports) \in Nat
  BY DataPlaneConstants, FS_Subset, FS_CardinalityType
<1>2. Cardinality(S) \in Nat /\ (Cardinality(S) = 0 <=> S = {})
  BY <1>1, FS_CardinalityType, FS_EmptySet
<1> QED
  BY <1>1, <1>2

\* wg.Add when a loop starts.
LEMMA LoopStarts ==
    ASSUME IInv, NEW p \in Ports, loop[p] # "accepting",
           loop' = [loop EXCEPT ![p] = "accepting"], wg' = wg + 1
    PROVE  /\ loop' \in [Ports -> {"none", "accepting", "exited"}]
           /\ wg' \in 0 .. Cardinality(Ports)
           /\ CountsLoops'
<1>1. loop \in [Ports -> {"none", "accepting", "exited"}]
  BY DEF IInv, TypeOK
<1>2. Accepting' = Accepting \cup {p} /\ p \notin Accepting
  BY <1>1 DEF Accepting
<1>3. Accepting \in SUBSET Ports /\ Accepting' \in SUBSET Ports
  BY DEF Accepting
<1>4. Cardinality(Accepting') = Cardinality(Accepting) + 1
  BY <1>2, <1>3, LoopCount, FS_AddElement
<1>5. CountsLoops'
  BY <1>4 DEF IInv, CountsLoops
<1> QED
  BY <1>1, <1>3, <1>5, LoopCount DEF CountsLoops

\* The deferred wg.Done when one ends.
LEMMA LoopEnds ==
    ASSUME IInv, NEW p \in Ports, loop[p] = "accepting",
           loop' = [loop EXCEPT ![p] = "exited"], wg' = wg - 1
    PROVE  /\ loop' \in [Ports -> {"none", "accepting", "exited"}]
           /\ wg' \in 0 .. Cardinality(Ports)
           /\ CountsLoops'
<1>1. loop \in [Ports -> {"none", "accepting", "exited"}]
  BY DEF IInv, TypeOK
<1>2. Accepting' = Accepting \ {p} /\ p \in Accepting
  BY <1>1 DEF Accepting
<1>3. Accepting \in SUBSET Ports /\ Accepting' \in SUBSET Ports
  BY DEF Accepting
<1>4. Cardinality(Accepting') = Cardinality(Accepting) - 1
  BY <1>2, <1>3, LoopCount, FS_RemoveElement
<1>5. CountsLoops'
  BY <1>4 DEF IInv, CountsLoops
<1> QED
  BY <1>1, <1>3, <1>5, LoopCount DEF CountsLoops
-----------------------------------------------------------------------------
(* The inductive invariant *)

\* The invariant holds before the bring-up.
LEMMA InitIInv == Init => IInv
<1> SUFFICES ASSUME Init PROVE IInv
  OBVIOUS
<1>1. Accepting = {}
  BY DEF Init, Accepting
<1>2. CountsLoops /\ wg \in 0 .. Cardinality(Ports)
  BY <1>1, LoopCount DEF Init, CountsLoops
<1>3. TypeOK
  BY <1>2 DEF Init, TypeOK, NoForward, Forward, Sides
<1> QED
  BY <1>2, <1>3 DEF IInv, Init, LateClose, NoCancelYet, RisingPCs, Listeners, CloseIsClean

\* The steps of a forward leave the rest of the proxy alone.
LEMMA ForwardIInv ==
    ASSUME IInv,
           \/ \E p \in Ports, c \in Conns : Accept(p, c)
           \/ \E c \in Conns : ForwardStep(c)
           \/ \E c \in Conns, d \in Sides : PumpStep(c, d) \/ PeerStep(c, d)
    PROVE  IInv'
<1>1. Alone
  BY DEF Accept, ForwardStep, DialOk, DialFail, Return, Watchdog, PumpStep, ReadEnds, Stall,
         WriteFails, PeerStep, HangUp, Drain, Alone
<1>2. conn' \in [Conns -> Forward]
  <2>1. conn \in [Conns -> Forward]
    BY DEF IInv, TypeOK
  <2>2. CASE \E p \in Ports, c \in Conns : Accept(p, c)
    BY <2>1, <2>2 DEF Accept, Forward, Sides
  <2>3. CASE \E c \in Conns : DialOk(c) \/ DialFail(c) \/ Return(c) \/ Watchdog(c)
    <3>1. PICK c \in Conns : DialOk(c) \/ DialFail(c) \/ Return(c) \/ Watchdog(c)
      BY <2>3
    <3>2. {} \in SUBSET Sides /\ Sides \in SUBSET Sides
      OBVIOUS
    <3>3. CASE DialOk(c)
      <4> DEFINE f == [conn[c] EXCEPT !.fwd = "piping", !.open = Sides, !.pumps = Sides, !.dog = TRUE]
      <4>1. conn[c] \in Forward
        BY <2>1
      <4>2. f \in Forward
        BY <3>2, <4>1 DEF Forward
      <4>3. conn' = [conn EXCEPT ![c] = f]
        BY <2>1, <3>3 DEF DialOk
      <4> QED
        BY <2>1, <4>2, <4>3
    <3>4. CASE DialFail(c) \/ Return(c)
      BY <2>1, <3>2, <3>4 DEF DialFail, Return, Forward
    <3>5. CASE Watchdog(c)
      <4> DEFINE f == [conn[c] EXCEPT !.dog = FALSE, !.open = {}]
      <4>1. conn[c] \in Forward
        BY <2>1
      <4>2. f \in Forward
        BY <3>2, <4>1 DEF Forward
      <4>3. conn' = [conn EXCEPT ![c] = f]
        BY <2>1, <3>5 DEF Watchdog
      <4> QED
        BY <2>1, <4>2, <4>3
    <3> QED
      BY <3>1, <3>3, <3>4, <3>5
  <2>4. CASE \E c \in Conns, d \in Sides : PumpStep(c, d) \/ PeerStep(c, d)
    <3>1. PICK c \in Conns, d \in Sides : PumpStep(c, d) \/ PeerStep(c, d)
      BY <2>4
    <3>2. /\ conn[c].pumps \ {d} \in SUBSET Sides /\ conn[c].gone \cup {d} \in SUBSET Sides
          /\ conn[c].stuck \ {d} \in SUBSET Sides /\ conn[c].stuck \cup {d} \in SUBSET Sides
      BY <2>1 DEF Forward
    <3>3. CASE ReadEnds(c, d) \/ HangUp(c, d)
      BY <2>1, <3>2, <3>3 DEF ReadEnds, HangUp, Forward
    <3>4. CASE Stall(c, d) \/ Drain(c, d)
      BY <2>1, <3>2, <3>4 DEF Stall, Drain, Forward
    <3>5. CASE WriteFails(c, d)
      BY <2>1, <3>2, <3>5 DEF WriteFails, Forward
    <3> QED
      BY <3>1, <3>3, <3>4, <3>5 DEF PumpStep, PeerStep
  <2> QED
    BY <2>2, <2>3, <2>4 DEF ForwardStep
<1>3. TypeOK'
  BY <1>1, <1>2 DEF IInv, TypeOK, Alone, lnVars
<1> QED
  BY <1>1, <1>3 DEF IInv, Alone, lnVars, LateClose, NoCancelYet, Listeners, CountsLoops, Accepting,
                    CloseIsClean

\* The steps that touch neither a listener nor an accept loop.
LEMMA CallerIInv ==
    ASSUME IInv, \/ Reject \/ Spawn \/ StartOk \/ StartErr \/ SelectDone \/ SelectTimer \/ SelectCtx
                 \/ CancelCtx \/ Close \/ Wait \/ \E p \in Ports : ListenFail(p)
    PROVE  IInv'
<1> USE DEF Reject, Spawn, StartOk, StartErr, SelectDone, SelectTimer, SelectCtx, Abandon,
            CancelCtx, Close, Wait, ListenFail
<1>1. UNCHANGED <<mode, lnVars, conn>>
  OBVIOUS
<1>2. TypeOK'
  <2>1. /\ caller' \in {"new", "start", "listen", "abort", "up", "closing", "waiting", "closed", "failed"}
        /\ start' \in {"none", "running", "ok", "err"}
        /\ srv' \in {"new", "up", "closed"}
    BY DEF IInv, TypeOK
  <2>2. ctx' \in BOOLEAN /\ pctx' \in BOOLEAN /\ closing' \in BOOLEAN
    BY DEF IInv, TypeOK
  <2> QED
    BY <1>1, <2>1, <2>2 DEF IInv, TypeOK, lnVars
<1>3. LateClose'
  BY DEF IInv, LateClose
<1>4. NoCancelYet'
  BY <1>1 DEF IInv, TypeOK, LateClose, NoCancelYet, RisingPCs, lnVars
<1>5. Listeners' /\ CountsLoops'
  BY <1>1 DEF IInv, Listeners, CountsLoops, Accepting, lnVars
<1>6. CloseIsClean'
  <2>1. Accepting' = Accepting /\ wg' = wg
    BY <1>1 DEF Accepting, lnVars
  <2>2. wg = 0 => Accepting = {}
    BY LoopCount DEF IInv, CountsLoops, Accepting
  <2> QED
    BY <2>1, <2>2 DEF IInv, CloseIsClean
<1> QED
  BY <1>2, <1>3, <1>4, <1>5, <1>6 DEF IInv

\* The steps that close the server, and a watcher's close of a listener.
LEMMA ClosingIInv ==
    ASSUME IInv, DetachedClose \/ AbortClose \/ CloseSrv \/ \E p \in Ports : WatcherClose(p)
    PROVE  IInv'
<1>1. UNCHANGED <<mode, ctx, pctx, start, loop, wg, conn>>
  BY DEF DetachedClose, AbortClose, CloseSrv, WatcherClose
<1>2. /\ ln' \in [Ports -> {"none", "open", "closed"}]
      /\ \A p \in Ports : ln'[p] = "none" <=> ln[p] = "none"
  BY DEF DetachedClose, AbortClose, CloseSrv, CloseServer, WatcherClose, IInv, TypeOK
<1>3. TypeOK' /\ LateClose'
  <2>1. /\ caller' \in {caller, "failed", "waiting"} /\ srv' \in {srv, "closed"}
        /\ closing' = closing \/ closing' = FALSE
        /\ closing' => caller' = "failed"
    BY DEF DetachedClose, AbortClose, CloseSrv, CloseServer, WatcherClose, IInv, LateClose
  <2> QED
    BY <1>1, <1>2, <2>1 DEF IInv, TypeOK, LateClose
<1>4. NoCancelYet'
  <2>1. CASE DetachedClose \/ AbortClose \/ CloseSrv
    BY <2>1 DEF DetachedClose, AbortClose, CloseSrv, IInv, LateClose, NoCancelYet, RisingPCs
  <2>2. CASE \E p \in Ports : WatcherClose(p)
    BY <2>2 DEF WatcherClose, Cancelled, IInv, NoCancelYet
  <2> QED
    BY <2>1, <2>2
<1>5. Listeners'
  BY <1>1, <1>2 DEF DetachedClose, AbortClose, CloseSrv, WatcherClose, IInv, Listeners
<1>6. CountsLoops' /\ CloseIsClean'
  BY <1>1 DEF DetachedClose, AbortClose, CloseSrv, CloseServer, WatcherClose, IInv, CountsLoops,
              Accepting, CloseIsClean
<1> QED
  BY <1>3, <1>4, <1>5, <1>6 DEF IInv

\* The steps that start or end an accept loop.
LEMMA LoopIInv ==
    ASSUME IInv, NEW p \in Ports, ListenOk(p) \/ AcceptErr(p)
    PROVE  IInv'
<1>0. /\ ln \in [Ports -> {"none", "open", "closed"}]
      /\ loop \in [Ports -> {"none", "accepting", "exited"}]
  BY DEF IInv, TypeOK
<1>1. CASE ListenOk(p)
  <2>1. loop[p] = "none" /\ caller = "listen"
    BY <1>1 DEF ListenOk, IInv, Listeners
  <2>2. /\ loop' \in [Ports -> {"none", "accepting", "exited"}]
        /\ wg' \in 0 .. Cardinality(Ports) /\ CountsLoops'
    BY <1>1, <2>1, LoopStarts DEF ListenOk
  <2>3. TypeOK' /\ LateClose' /\ CloseIsClean'
    BY <1>0, <1>1, <2>1, <2>2 DEF ListenOk, IInv, TypeOK, LateClose, CloseIsClean
  <2>4. NoCancelYet' /\ Listeners'
    BY <1>0, <1>1, <2>1 DEF ListenOk, IInv, NoCancelYet, RisingPCs, Listeners
  <2> QED
    BY <2>2, <2>3, <2>4 DEF IInv
<1>2. CASE AcceptErr(p)
  <2>1. /\ loop' \in [Ports -> {"none", "accepting", "exited"}]
        /\ wg' \in 0 .. Cardinality(Ports) /\ CountsLoops'
    BY <1>2, LoopEnds DEF AcceptErr
  <2>2. TypeOK' /\ LateClose' /\ NoCancelYet'
    BY <1>2, <2>1 DEF AcceptErr, IInv, TypeOK, LateClose, NoCancelYet
  <2>3. Listeners' /\ CloseIsClean'
    BY <1>0, <1>2 DEF AcceptErr, IInv, Listeners, CloseIsClean, Accepting
  <2> QED
    BY <2>1, <2>2, <2>3 DEF IInv
<1> QED
  BY <1>1, <1>2

\* The invariant holds initially and every step keeps it.
LEMMA Inductive == Spec => []IInv
<1>1. IInv /\ [Next]_vars => IInv'
  <2> SUFFICES ASSUME IInv, [Next]_vars PROVE IInv'
    OBVIOUS
  <2>1. CASE UNCHANGED vars
    BY <2>1 DEF vars, IInv, TypeOK, LateClose, NoCancelYet, Listeners, CountsLoops, Accepting,
                CloseIsClean
  <2> QED
    BY <2>1, ForwardIInv, CallerIInv, ClosingIInv, LoopIInv DEF Next, BringUp, Terminated
<1> QED
  BY <1>1, InitIInv, PTL DEF Spec
-----------------------------------------------------------------------------
(* The theorems *)

\* Type correctness; in particular the WaitGroup never goes negative, which
\* would be a panic, and never counts more loops than there are ports.
THEOREM TypeCorrect == Spec => []TypeOK
  BY Inductive, PTL DEF IInv

\* A proxy the caller was handed is up, no late Close of the bring-up will hit
\* its server, and unless the process stops all its listeners are open.
THEOREM HandedOutUp == Spec => []HandedOutIsUp
<1>1. IInv => HandedOutIsUp
  BY DEF IInv, TypeOK, LateClose, NoCancelYet, RisingPCs, Listeners, HandedOutIsUp
<1> QED
  BY <1>1, Inductive, PTL

\* When Close has returned the server is closed and no accept loop runs.
THEOREM CloseLeavesNoLoop == Spec => []CloseIsClean
  BY Inductive, PTL DEF IInv
-----------------------------------------------------------------------------
(* Forwards *)

\* What a forward holds at each of its stages: the two ends of a connection are
\* closed together, by the forward's return or, under it, by its watchdog, and
\* the watchdog strikes first only when the proxy is cancelled.  So a pump that
\* outlives its forward reads from a closed end.
ForwardHolds(c) == LET f == conn[c] IN
    /\ f.fwd = "none" => f = NoForward
    /\ f.fwd = "dialing" => f.open = {"down"} /\ f.pumps = {} /\ ~f.dog
    /\ f.fwd = "piping" => \/ f.dog /\ f.open = Sides
                           \/ ~f.dog /\ f.open = {} /\ Cancelled
    /\ f.fwd = "done" => f.open = {}

EndsOwned == \A c \in Conns : ForwardHolds(c)

\* A step of one forward, which leaves the contexts alone.
LEMMA ForwardEndsOwned ==
    ASSUME TypeOK, EndsOwned, NEW c \in Conns,
           \/ \E p \in Ports : Accept(p, c)
           \/ ForwardStep(c)
           \/ \E d \in Sides : PumpStep(c, d) \/ PeerStep(c, d)
    PROVE  EndsOwned'
<1>1. conn \in [Conns -> Forward] /\ conn[c] \in Forward /\ ForwardHolds(c)
  BY DEF TypeOK, EndsOwned
<1>2. UNCHANGED <<ctx, pctx>>
  BY DEF Accept, ForwardStep, DialOk, DialFail, Return, Watchdog, PumpStep, ReadEnds, Stall,
         WriteFails, PeerStep, HangUp, Drain, Alone
<1>3. \A b \in Conns \ {c} : conn'[b] = conn[b]
  BY <1>1 DEF Accept, ForwardStep, DialOk, DialFail, Return, Watchdog, PumpStep, ReadEnds, Stall,
              WriteFails, PeerStep, HangUp, Drain
<1>4. ForwardHolds(c)'
  <2> USE <1>1, <1>2 DEF ForwardHolds, Cancelled, Forward
  <2>1. CASE \E p \in Ports : Accept(p, c)
    BY <2>1 DEF Accept, NoForward
  <2>2. CASE DialOk(c)
    BY <2>2 DEF DialOk
  <2>3. CASE DialFail(c) \/ Return(c)
    BY <2>3 DEF DialFail, Return
  <2>4. CASE Watchdog(c)
    BY <2>4 DEF Watchdog, NoForward
  <2>5. CASE \E d \in Sides : ReadEnds(c, d) \/ WriteFails(c, d)
    BY <2>5 DEF ReadEnds, WriteFails, NoForward
  <2>6. CASE \E d \in Sides : Stall(c, d) \/ Drain(c, d)
    BY <2>6 DEF Stall, Drain, NoForward
  <2>7. CASE \E d \in Sides : HangUp(c, d)
    BY <2>7 DEF HangUp, NoForward
  <2> QED
    BY <2>1, <2>2, <2>3, <2>4, <2>5, <2>6, <2>7 DEF ForwardStep, PumpStep, PeerStep
<1> QED
  BY <1>2, <1>3, <1>4 DEF EndsOwned, ForwardHolds, Cancelled

\* The other steps leave the forwards alone, and a context once cancelled stays
\* cancelled.
LEMMA RestEndsOwned ==
    ASSUME EndsOwned, UNCHANGED conn, Cancelled => Cancelled'
    PROVE  EndsOwned'
  BY DEF EndsOwned, ForwardHolds

\* A forward holds its two ends together, and none once it has returned: what
\* forwardTCP's deferred calls and its watchdog are for.
THEOREM ForwardsOwnEnds == Spec => []EndsOwned
<1>1. Init => EndsOwned
  BY DEF Init, EndsOwned, ForwardHolds, NoForward
<1>2. TypeOK /\ EndsOwned /\ [Next]_vars => EndsOwned'
  <2> SUFFICES ASSUME TypeOK, EndsOwned, [Next]_vars PROVE EndsOwned'
    OBVIOUS
  <2>1. CASE UNCHANGED vars
    BY <2>1, RestEndsOwned DEF vars, Cancelled
  <2>2. CASE \E c \in Conns : \/ \E p \in Ports : Accept(p, c)
                              \/ ForwardStep(c)
                              \/ \E d \in Sides : PumpStep(c, d) \/ PeerStep(c, d)
    BY <2>2, ForwardEndsOwned
  <2>3. CASE \/ Reject \/ BringUp \/ StartOk \/ StartErr \/ SelectTimer \/ SelectCtx \/ DetachedClose
             \/ \E p \in Ports : AcceptErr(p) \/ WatcherClose(p)
             \/ CancelCtx \/ Close \/ CloseSrv \/ Wait
    <3>1. UNCHANGED conn /\ (Cancelled => Cancelled')
      BY <2>3 DEF Reject, BringUp, Spawn, SelectDone, AbortClose, ListenOk, ListenFail, StartOk,
                  StartErr, SelectTimer, SelectCtx, Abandon, DetachedClose, AcceptErr, WatcherClose,
                  CancelCtx, Close, CloseSrv, Wait, Cancelled
    <3> QED
      BY <3>1, RestEndsOwned
  <2> QED
    BY <2>1, <2>2, <2>3 DEF Next, Terminated
<1> QED
  BY <1>1, <1>2, TypeCorrect, PTL DEF Spec
-----------------------------------------------------------------------------
(* After the end *)

\* No connection is accepted once Close has returned.
NoLateAccept == [][caller = "closed" => \A c \in Conns : conn[c].fwd = "none" => conn'[c] = conn[c]]_vars

\* What has come to rest stays so: after a failed bring-up or a Close nothing
\* starts again, neither the server, nor a listener or loop, nor a forward.
StaysQuiet == [][Quiet /\ caller \in {"failed", "closed"} => caller' = caller /\ Quiet']_vars

\* When Close returns no accept loop is left that could still take a connection.
THEOREM CloseEndsAccepting == Spec => NoLateAccept
<1>1. IInv /\ EndsOwned /\ [Next]_vars =>
        [caller = "closed" => \A c \in Conns : conn[c].fwd = "none" => conn'[c] = conn[c]]_vars
  <2> SUFFICES ASSUME IInv, EndsOwned, Next, caller = "closed", NEW c \in Conns,
                      conn[c].fwd = "none", conn'[c] # conn[c]
               PROVE  FALSE
    BY DEF vars
  <2>1. conn \in [Conns -> Forward] /\ \A p \in Ports : loop[p] # "accepting"
    BY DEF IInv, TypeOK, CloseIsClean, Accepting
  <2>2. UNCHANGED conn \/ \E b \in Conns : ForwardStep(b) \/ \E d \in Sides : PumpStep(b, d) \/ PeerStep(b, d)
    BY <2>1 DEF Next, Reject, BringUp, Spawn, SelectDone, AbortClose, ListenOk, ListenFail, StartOk,
                StartErr, SelectTimer, SelectCtx, Abandon, DetachedClose, AcceptErr, WatcherClose,
                Accept, CancelCtx, Close, CloseSrv, Wait, Terminated, vars
  <2>3. ForwardStep(c) \/ \E d \in Sides : PumpStep(c, d) \/ PeerStep(c, d)
    <3>1. PICK b \in Conns : ForwardStep(b) \/ \E d \in Sides : PumpStep(b, d) \/ PeerStep(b, d)
      BY <2>2
    <3>2. CASE ForwardStep(b)
      BY <2>1, <3>2 DEF ForwardStep, DialOk, DialFail, Return, Watchdog
    <3>3. CASE \E d \in Sides : PumpStep(b, d)
      BY <2>1, <3>3 DEF PumpStep, ReadEnds, Stall, WriteFails
    <3>4. CASE \E d \in Sides : PeerStep(b, d)
      BY <2>1, <3>4 DEF PeerStep, HangUp, Drain
    <3> QED
      BY <3>1, <3>2, <3>3, <3>4
  <2>4. conn[c].open = {} /\ conn[c].pumps = {} /\ conn[c].stuck = {} /\ ~conn[c].dog
    BY DEF EndsOwned, ForwardHolds, NoForward
  <2> QED
    BY <2>3, <2>4 DEF ForwardStep, DialOk, DialFail, Return, Watchdog, PumpStep, ReadEnds, Stall,
                      WriteFails, PeerStep, HangUp, Drain
<1> QED
  BY <1>1, Inductive, ForwardsOwnEnds, PTL DEF Spec, NoLateAccept

\* The second half of NothingOutlives: that all comes to rest is a matter of
\* fairness, that it stays at rest is not.
THEOREM RestIsFinal == Spec => StaysQuiet
<1>1. IInv /\ [Next]_vars =>
        [Quiet /\ caller \in {"failed", "closed"} => caller' = caller /\ Quiet']_vars
  <2> SUFFICES ASSUME IInv, Next, caller \in {"failed", "closed"}, Quiet PROVE caller' = caller /\ Quiet'
    BY DEF vars
  <2>1. CASE \E c \in Conns : \/ \E p \in Ports : Accept(p, c)
                              \/ ForwardStep(c)
                              \/ \E d \in Sides : PumpStep(c, d) \/ PeerStep(c, d)
    BY <2>1 DEF Quiet, Released, Accept, ForwardStep, DialOk, DialFail, Return, Watchdog, PumpStep,
                ReadEnds, Stall, WriteFails, PeerStep, HangUp, Drain
  <2>2. CASE BringUp \/ Reject \/ StartOk \/ StartErr \/ SelectTimer \/ SelectCtx \/ DetachedClose
             \/ Close \/ CloseSrv \/ Wait
    BY <2>2 DEF Quiet, Reject, BringUp, Spawn, SelectDone, AbortClose, ListenOk, ListenFail, StartOk,
                StartErr, SelectTimer, SelectCtx, Abandon, DetachedClose, Close, CloseSrv, Wait
  <2>3. CASE CancelCtx \/ Terminated \/ \E p \in Ports : AcceptErr(p) \/ WatcherClose(p)
    BY <2>3 DEF Quiet, Released, CancelCtx, lnVars, Terminated, vars, AcceptErr, WatcherClose
  <2> QED
    BY <2>1, <2>2, <2>3 DEF Next
<1> QED
  BY <1>1, Inductive, PTL DEF Spec, StaysQuiet
=============================================================================
