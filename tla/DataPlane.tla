----------------------------- MODULE DataPlane ------------------------------
(***************************************************************************)
(* One tsnet data plane from bring-up to Close: the ingress Proxy the       *)
(* daemon runs per service, or the EgressProxy a gateway process runs.  The *)
(* two differ in which side of a connection is the tailnet and in who       *)
(* closes the listeners.                                                    *)
(*                                                                          *)
(* Goroutines: the caller (NewTsnetProxy or RunGateway, later Close), the   *)
(* detached Start and Close of startTsnetBounded, an accept loop and (for   *)
(* egress) a closing watcher per port, and per connection a forwardTCP, its *)
(* watchdog and its two pumps.  Each step is what a goroutine does between  *)
(* two points where it may block.                                           *)
(***************************************************************************)
EXTENDS Naturals, FiniteSets

CONSTANTS Ports,  \* the ports (ingress) or targets (egress) to listen for
          Conns   \* connections, each accepted at most once

ASSUME DataPlaneConstants == IsFiniteSet(Ports) /\ Ports # {} /\ IsFiniteSet(Conns)

VARIABLES mode,    \* "ingress" or "egress"
          caller,  \* where the caller stands
          ctx,     \* the caller's context is cancelled
          pctx,    \* the proxy's own cancel has been called
          start,   \* the goroutine inside srv.Start, and what it sent to done
          srv,     \* the tsnet server (external)
          closing, \* a detached srv.Close has been spawned and has not run
          ln,      \* the listener of each port
          loop,    \* the accept loop of each port
          wg,      \* the proxy's WaitGroup
          conn     \* the forwards

vars == <<mode, caller, ctx, pctx, start, srv, closing, ln, loop, wg, conn>>

\* The side of a connection: "down" is the accepted end, "up" the dialled one.
Sides == {"down", "up"}
\* A pump is named by the side it reads.
Other(d) == IF d = "down" THEN "up" ELSE "down"

Forward == [fwd   : {"none", "dialing", "piping", "done"},
            open  : SUBSET Sides,   \* ends this process has not closed
            gone  : SUBSET Sides,   \* ends whose peer has hung up, its sending half at least
            pumps : SUBSET Sides,   \* pumps still copying
            stuck : SUBSET Sides,   \* pumps blocked in Write
            dog   : BOOLEAN]        \* the watchdog is parked
NoForward == [fwd |-> "none", open |-> {}, gone |-> {}, pumps |-> {}, stuck |-> {}, dog |-> FALSE]

\* The proxy's context is a child of the caller's.
Cancelled == ctx \/ pctx

Init == /\ mode \in {"ingress", "egress"}
        /\ caller = "new"
        /\ ctx = FALSE /\ pctx = FALSE
        /\ start = "none"
        /\ srv = "new"
        /\ closing = FALSE
        /\ ln = [p \in Ports |-> "none"]
        /\ loop = [p \in Ports |-> "none"]
        /\ wg = 0
        /\ conn = [c \in Conns |-> NoForward]

lnVars == <<ln, loop, wg>>
-----------------------------------------------------------------------------
(* Bring-up: startTsnetBounded *)

\* A configuration with an empty field or without targets is refused.
Reject == /\ caller = "new"
          /\ caller' = "failed"
          /\ UNCHANGED <<mode, ctx, pctx, start, srv, closing, lnVars, conn>>

Spawn == /\ caller = "new"
         /\ caller' = "start"
         /\ start' = "running"
         /\ UNCHANGED <<mode, ctx, pctx, srv, closing, lnVars, conn>>

\* srv.Start registers the node; the answer goes into the buffered channel.
StartOk == /\ start = "running"
           /\ srv = "new"
           /\ srv' = "up"
           /\ start' = "ok"
           /\ UNCHANGED <<mode, caller, ctx, pctx, closing, lnVars, conn>>

\* Start fails, by itself or because the server has been closed under it.
StartErr == /\ start = "running"
            /\ start' = "err"
            /\ UNCHANGED <<mode, caller, ctx, pctx, srv, closing, lnVars, conn>>

\* The three ready cases of the select; when several are, any is taken.
SelectDone == /\ caller = "start"
              /\ start \in {"ok", "err"}
              /\ caller' = IF start = "ok" THEN "listen" ELSE "failed"
              /\ UNCHANGED <<mode, ctx, pctx, start, srv, closing, lnVars, conn>>

\* Mutant of Abandon: an answer that is already there is still taken.
AbandonUnlessDone == /\ caller = "start"
                     /\ caller' = IF start = "ok" THEN "listen" ELSE "failed"
                     /\ closing' = TRUE
                     /\ UNCHANGED <<mode, ctx, pctx, start, srv, lnVars, conn>>

\* Both giving-up branches close the server in a goroutine of its own.
Abandon == /\ caller = "start"
           /\ caller' = "failed"
           /\ closing' = TRUE
           /\ UNCHANGED <<mode, ctx, pctx, start, srv, lnVars, conn>>

SelectTimer == Abandon
SelectCtx   == ctx /\ Abandon

\* srv.Close closes the listeners it handed out; an overlay listener is not one.
CloseServer == /\ srv' = "closed"
               /\ ln' = IF mode = "ingress"
                        THEN [p \in Ports |-> IF ln[p] = "open" THEN "closed" ELSE ln[p]]
                        ELSE ln

DetachedClose == /\ closing
                 /\ closing' = FALSE
                 /\ CloseServer
                 /\ UNCHANGED <<mode, caller, ctx, pctx, start, loop, wg, conn>>
-----------------------------------------------------------------------------
(* Bring-up: startProxyOn, startEgressProxyWith *)

\* One Listen per port, each with its accept loop; after the last the proxy is
\* handed to the caller.
ListenOk(p) ==
    /\ caller = "listen"
    /\ ln[p] = "none"
    /\ ln' = [ln EXCEPT ![p] = "open"]
    /\ loop' = [loop EXCEPT ![p] = "accepting"]
    /\ wg' = wg + 1
    /\ caller' = IF \A q \in Ports \ {p} : ln[q] # "none" THEN "up" ELSE "listen"
    /\ UNCHANGED <<mode, ctx, pctx, start, srv, closing, conn>>

\* Mutant of ListenFail: the context is left alone.
ListenFailNoCancel(p) ==
    /\ caller = "listen"
    /\ ln[p] = "none"
    /\ caller' = "abort"
    /\ UNCHANGED <<mode, ctx, pctx, start, srv, closing, lnVars, conn>>

\* The port is taken: cancel what has been started.
ListenFail(p) ==
    /\ caller = "listen"
    /\ ln[p] = "none"
    /\ pctx' = TRUE
    /\ caller' = "abort"
    /\ UNCHANGED <<mode, ctx, start, srv, closing, lnVars, conn>>

AbortClose == /\ caller = "abort"
              /\ CloseServer
              /\ caller' = "failed"
              /\ UNCHANGED <<mode, ctx, pctx, start, closing, loop, wg, conn>>
-----------------------------------------------------------------------------
(* Accept loops *)

Accept(p, c) == /\ loop[p] = "accepting"
                /\ ln[p] = "open"
                /\ conn[c].fwd = "none"
                /\ conn' = [conn EXCEPT ![c].fwd = "dialing", ![c].open = {"down"}]
                /\ UNCHANGED <<mode, caller, ctx, pctx, start, srv, closing, lnVars>>

\* Mutant of AcceptErr: the loop calls Done itself as well as by defer.
AcceptErrDoneTwice(p) ==
    /\ loop[p] = "accepting"
    /\ loop' = [loop EXCEPT ![p] = "exited"]
    /\ wg' = wg - 2
    /\ UNCHANGED <<mode, caller, ctx, pctx, start, srv, closing, ln, conn>>

\* Any error of Accept ends the loop: a closed listener, or a passing failure
\* such as a process out of descriptors.
AcceptErr(p) == /\ loop[p] = "accepting"
                /\ loop' = [loop EXCEPT ![p] = "exited"]
                /\ wg' = wg - 1
                /\ UNCHANGED <<mode, caller, ctx, pctx, start, srv, closing, ln, conn>>

\* Mutant of WatcherClose: the goroutine is started by the wrong constructor.
WatcherClosesTailnet(p) ==
    /\ mode = "ingress"
    /\ ln[p] = "open"
    /\ Cancelled
    /\ ln' = [ln EXCEPT ![p] = "closed"]
    /\ UNCHANGED <<mode, caller, ctx, pctx, start, srv, closing, loop, wg, conn>>

\* Egress only: the goroutine that closes an overlay listener on cancel.
WatcherClose(p) == /\ mode = "egress"
                   /\ ln[p] = "open"
                   /\ Cancelled
                   /\ ln' = [ln EXCEPT ![p] = "closed"]
                   /\ UNCHANGED <<mode, caller, ctx, pctx, start, srv, closing, loop, wg, conn>>
-----------------------------------------------------------------------------
(* forwardTCP *)

\* The steps of a forward change nothing but the forward.
Alone == UNCHANGED <<mode, caller, ctx, pctx, start, srv, closing, lnVars>>

\* The upstream answers (a dial may still win against a cancel): the watchdog
\* and both pumps start.
DialOk(c) == /\ conn[c].fwd = "dialing"
             /\ conn' = [conn EXCEPT ![c].fwd = "piping", ![c].open = Sides,
                                     ![c].pumps = Sides, ![c].dog = TRUE]
             /\ Alone

DialFail(c) == /\ conn[c].fwd = "dialing"
               /\ conn' = [conn EXCEPT ![c].fwd = "done", ![c].open = {}]
               /\ Alone

\* A peer hangs up (external).
HangUp(c, d) == /\ d \in conn[c].open \ conn[c].gone
                /\ conn' = [conn EXCEPT ![c].gone = @ \cup {d}]
                /\ Alone

\* A pump's Write blocks: the peer it copies to does not read what it is sent.
Stall(c, d) == /\ d \in conn[c].pumps \ conn[c].stuck
               /\ Other(d) \in conn[c].open
               /\ conn' = [conn EXCEPT ![c].stuck = @ \cup {d}]
               /\ Alone

\* That peer reads again, if it ever does (external): no deadline is set.
Drain(c, d) == /\ d \in conn[c].stuck
               /\ Other(d) \in conn[c].open
               /\ conn' = [conn EXCEPT ![c].stuck = @ \ {d}]
               /\ Alone

\* A pump is back at its Read, which returns: its source was closed here or
\* hung up.
ReadEnds(c, d) == /\ d \in conn[c].pumps \ conn[c].stuck
                  /\ d \notin conn[c].open \/ d \in conn[c].gone
                  /\ conn' = [conn EXCEPT ![c].pumps = @ \ {d}]
                  /\ Alone

\* A pump has something to write, or is blocked in doing so, and its
\* destination was closed here or is gone.
WriteFails(c, d) == /\ d \in conn[c].pumps
                    /\ Other(d) \notin conn[c].open \/ Other(d) \in conn[c].gone
                    /\ conn' = [conn EXCEPT ![c].pumps = @ \ {d}, ![c].stuck = @ \ {d}]
                    /\ Alone

\* The first pump to finish ends the forward; the deferred calls close both
\* ends and cancel connCtx.
Return(c) == /\ conn[c].fwd = "piping"
             /\ conn[c].pumps # Sides
             /\ conn' = [conn EXCEPT ![c].fwd = "done", ![c].open = {}]
             /\ Alone

\* Mutant of Watchdog: it is parked on the proxy's context.
WatchdogOnProxy(c) ==
    /\ conn[c].dog
    /\ Cancelled
    /\ conn' = [conn EXCEPT ![c].dog = FALSE, ![c].open = {}]
    /\ Alone

\* The watchdog waits for connCtx: the proxy's context or the forward's return.
Watchdog(c) == /\ conn[c].dog
               /\ Cancelled \/ conn[c].fwd = "done"
               /\ conn' = [conn EXCEPT ![c].dog = FALSE, ![c].open = {}]
               /\ Alone
-----------------------------------------------------------------------------
(* Close *)

\* The process is told to stop.
CancelCtx == /\ ~ctx
             /\ ctx' = TRUE
             /\ UNCHANGED <<mode, caller, pctx, start, srv, closing, lnVars, conn>>

\* The reconciler closes a proxy at a teardown, a rotation or in CloseAll;
\* RunGateway closes its proxy once the context is cancelled.
Close == /\ caller = "up"
         /\ mode = "egress" => ctx
         /\ pctx' = TRUE
         /\ caller' = "closing"
         /\ UNCHANGED <<mode, ctx, start, srv, closing, lnVars, conn>>

CloseSrv == /\ caller = "closing"
            /\ CloseServer
            /\ caller' = "waiting"
            /\ UNCHANGED <<mode, ctx, pctx, start, closing, loop, wg, conn>>

Wait == /\ caller = "waiting"
        /\ wg = 0
        /\ caller' = "closed"
        /\ UNCHANGED <<mode, ctx, pctx, start, srv, closing, lnVars, conn>>

Terminated == caller \in {"closed", "failed"} /\ UNCHANGED vars
-----------------------------------------------------------------------------
BringUp == Spawn \/ SelectDone \/ AbortClose \/ \E p \in Ports : ListenOk(p) \/ ListenFail(p)

ForwardStep(c) == DialOk(c) \/ DialFail(c) \/ Return(c) \/ Watchdog(c)

PumpStep(c, d) == ReadEnds(c, d) \/ Stall(c, d) \/ WriteFails(c, d)

PeerStep(c, d) == HangUp(c, d) \/ Drain(c, d)

Next == \/ Reject \/ BringUp \/ StartOk \/ StartErr \/ SelectTimer \/ SelectCtx \/ DetachedClose
        \/ \E p \in Ports : AcceptErr(p) \/ WatcherClose(p) \/ \E c \in Conns : Accept(p, c)
        \/ \E c \in Conns : ForwardStep(c) \/ \E d \in Sides : PumpStep(c, d) \/ PeerStep(c, d)
        \/ CancelCtx \/ Close \/ CloseSrv \/ Wait \/ Terminated

\* A goroutine that can run does.  The timer fires.  Close makes Start return,
\* a closed listener makes Accept return, a closed end makes a blocked Write
\* return, and a dial has an end.  A source that ended has sent finitely many
\* bytes, so a pump that is never blocked for good gets to the end of them
\* (strong fairness: it may block and go on many times before).  Nothing is
\* assumed of the peers, of when a healthy Start returns, or of who calls Close.
Fairness == /\ WF_vars(BringUp) /\ WF_vars(SelectTimer) /\ WF_vars(DetachedClose)
            /\ WF_vars(srv = "closed" /\ StartErr)
            /\ \A p \in Ports : /\ WF_vars(WatcherClose(p))
                                /\ WF_vars(ln[p] = "closed" /\ AcceptErr(p))
            /\ \A c \in Conns : WF_vars(ForwardStep(c))
            /\ \A c \in Conns, d \in Sides :
                 /\ SF_vars(ReadEnds(c, d))
                 /\ WF_vars(Other(d) \notin conn[c].open /\ WriteFails(c, d))
            /\ WF_vars(CloseSrv) /\ WF_vars(Wait)

Spec == Init /\ [][Next]_vars /\ Fairness
-----------------------------------------------------------------------------
(* Properties *)

\* Type invariant.
TypeOK == /\ mode \in {"ingress", "egress"}
          /\ caller \in {"new", "start", "listen", "abort", "up", "closing", "waiting", "closed",
                         "failed"}
          /\ ctx \in BOOLEAN /\ pctx \in BOOLEAN
          /\ start \in {"none", "running", "ok", "err"}
          /\ srv \in {"new", "up", "closed"}
          /\ closing \in BOOLEAN
          /\ ln \in [Ports -> {"none", "open", "closed"}]
          /\ loop \in [Ports -> {"none", "accepting", "exited"}]
          /\ wg \in 0 .. Cardinality(Ports)
          /\ conn \in [Conns -> Forward]

\* A proxy in the caller's hands has a running server no late Close will hit,
\* and, unless the process is stopping, every listener open: the reconciler
\* stores it and trusts it from then on.
HandedOutIsUp == caller = "up" => /\ srv = "up"
                                  /\ ~closing
                                  /\ ~ctx => \A p \in Ports : ln[p] = "open"

Released(c) == conn[c].open = {} /\ conn[c].pumps = {} /\ ~conn[c].dog

\* A connection one of whose peers has hung up gives back both sockets and all
\* its goroutines while the proxy goes on running (forwardTCP's connCtx),
\* provided the pump that reads this peer is not blocked for good, in a Write
\* to the other one.  The other pump may be: closing both ends unblocks it.
ConnReleased == \A c \in Conns, d \in Sides :
    []<>(d \notin conn[c].stuck) =>
        (d \in conn[c].gone ~> conn[c].fwd = "done" /\ Released(c))

\* Once a bring-up has failed or Close has returned, all that was started ends:
\* the detached Start and Close, the server, the listeners, the accept loops
\* and every forward.
Quiet == /\ start # "running"
         /\ srv # "up"
         /\ ~closing
         /\ \A p \in Ports : ln[p] # "open" /\ loop[p] # "accepting"
         /\ \A c \in Conns : conn[c].fwd \in {"none", "done"} /\ Released(c)
NothingOutlives == caller \in {"failed", "closed"} ~> []Quiet

\* Every call returns, whatever tsnet does: a bring-up ends in a proxy or an
\* error, and Close ends.
CallerReturns == caller \in {"start", "listen", "abort", "closing", "waiting"}
                 ~> caller \in {"up", "failed", "closed"}
=============================================================================
